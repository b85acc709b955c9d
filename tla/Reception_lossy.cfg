SPECIFICATION ReceptionSpec
CONSTANTS
  MaxIndex <- MCMaxIndex
  MaxAuSize <- MCMaxAuSize
  Streams <- MCStreams
  Unknown = Unknown
  Expected <- MCExpected
  Shapes <- Queued
  MaxFragments = 4
  MaxBytes = 7
  IndexSpace = 5
  Window = 2
  MaxEmitted = 5
  MaxRequests = 2
INVARIANT CountersExact
INVARIANT ResponseIsOneFrame
PROPERTY CompleteKeyUnitIsReturned
PROPERTY ImplementsKeyframeSource
PROPERTY RetransmitAnswersNothing
PROPERTY DroppedMeansFailed
PROPERTY PatientGetsResponse
CHECK_DEADLOCK FALSE
