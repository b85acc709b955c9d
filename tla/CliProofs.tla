------------------------------ MODULE CliProofs ------------------------------
(***************************************************************************)
(* Proofs about PrivateFile, MediaProcess, CommandGate, Discovery and Cli, *)
(* for any processes, paths, cameras, catalogs and scenarios.              *)
(*                                                                         *)
(* Every step of a command is a step of each of its parts or leaves that   *)
(* part alone: what is proved of a part holds of the tool.                 *)
(***************************************************************************)
EXTENDS Cli, FiniteSetTheorems, TLAPS

-----------------------------------------------------------------------------
(***************************************************************************)
(* PrivateFile: a process publishes at one path, after all of its file is  *)
(* on the disk, and writes nothing after that.                             *)
(***************************************************************************)
Active == {"make", "data", "sync", "publish"}

(* What process p has done by its stage.                                    *)
WriterInv(p) ==
  /\ write[p].stage \in {"sync", "publish"} => data[p] = "whole"
  /\ write[p].stage = "publish" => p \in synced
  /\ p \in temporary => write[p].stage \notin {"idle", "make", "done"}
  /\ write[p].stage \in Active => file[write[p].path] # Symlink

(* A published file was synced, and its writer is past its last write.      *)
PathInv(path) ==
  file[path] \in Processes =>
    /\ data[file[path]] = "whole"
    /\ file[path] \in synced
    /\ write[file[path]].stage \in {"remove", "done", "dead"}

FileInv ==
  /\ FileTypeOK
  /\ \A p \in Processes : WriterInv(p)
  /\ \A path \in Paths : PathInv(path)

LEMMA FileInitInv == FileInit => FileInv
BY NamesAssumption
DEF FileInit, FileInv, FileTypeOK, WriterInv, PathInv, Stages, Active

-----------------------------------------------------------------------------
(* A step of one process, which leaves the others and what they published.  *)
LEMMA OwnStep ==
  ASSUME FileInv, FileTypeOK', NEW p \in Processes,
         \A q \in Processes \ {p} : write'[q] = write[q] /\ data'[q] = data[q],
         synced \subseteq synced',
         temporary' \subseteq temporary \cup {p},
         \A path \in Paths : file'[path] # file[path] => file'[path] = p,
         \A path \in Paths : file[path] = p =>
           /\ data'[p] = data[p]
           /\ write'[p].stage \in {"remove", "done", "dead"},
         \A path \in Paths : file'[path] = p /\ file[path] # p => PathInv(path)',
         WriterInv(p)'
  PROVE  FileInv'
<1>1. \A q \in Processes : WriterInv(q)'
  <2> SUFFICES ASSUME NEW q \in Processes, q # p PROVE WriterInv(q)'
    OBVIOUS
  <2>1. WriterInv(q) /\ write'[q] = write[q] /\ data'[q] = data[q]
    BY DEF FileInv
  <2>2. q \in temporary' => q \in temporary
    OBVIOUS
  <2>3. q \in synced => q \in synced'
    OBVIOUS
  <2>4. write[q].path \in Paths
    BY DEF FileInv, FileTypeOK
  <2>5. file'[write[q].path] = Symlink => file[write[q].path] = Symlink
    BY <2>4, NamesAssumption
  <2> QED
    BY <2>1, <2>2, <2>3, <2>5 DEF WriterInv
<1>2. \A path \in Paths : PathInv(path)'
  <2> SUFFICES ASSUME NEW path \in Paths, file'[path] \in Processes PROVE PathInv(path)'
    BY DEF PathInv
  <2>1. CASE file'[path] = file[path]
    <3>1. /\ data[file[path]] = "whole" /\ file[path] \in synced
          /\ write[file[path]].stage \in {"remove", "done", "dead"}
      BY <2>1 DEF FileInv, PathInv
    <3>2. CASE file[path] = p
      BY <2>1, <3>1, <3>2 DEF PathInv
    <3>3. CASE file[path] # p
      BY <2>1, <3>1, <3>3 DEF PathInv
    <3> QED
      BY <3>2, <3>3
  <2>2. CASE file'[path] # file[path]
    BY <2>2
  <2> QED
    BY <2>1, <2>2
<1> QED
  BY <1>1, <1>2 DEF FileInv

LEMMA BeginWriteInv ==
  ASSUME FileInv, NEW p \in Processes, NEW path \in Paths, NEW overwrite \in BOOLEAN,
         BeginWrite(p, path, overwrite)
  PROVE  FileInv'
<1>1. FileTypeOK'
  BY DEF FileInv, FileTypeOK, BeginWrite, Stages
<1>2. WriterInv(p)'
  BY NamesAssumption DEF FileInv, FileTypeOK, WriterInv, BeginWrite, InStage, Active
<1> QED
  BY <1>1, <1>2, OwnStep DEF FileInv, FileTypeOK, PathInv, BeginWrite, InStage

LEMMA MakeTemporaryInv ==
  ASSUME FileInv, NEW p \in Processes, MakeTemporary(p)
  PROVE  FileInv'
<1>1. FileTypeOK'
  BY DEF FileInv, FileTypeOK, MakeTemporary, InStage, Stages
<1>2. WriterInv(p)'
  BY NamesAssumption DEF FileInv, FileTypeOK, WriterInv, MakeTemporary, InStage, Active
<1>3. \A path \in Paths : file'[path] = p /\ file[path] # p => PathInv(path)'
  BY DEF FileInv, FileTypeOK, WriterInv, PathInv, MakeTemporary, InStage, Active
<1> QED
  BY <1>1, <1>2, <1>3, OwnStep DEF FileInv, FileTypeOK, PathInv, MakeTemporary, InStage, Active

LEMMA WriteDataInv ==
  ASSUME FileInv, NEW p \in Processes, WriteData(p)
  PROVE  FileInv'
<1>1. FileTypeOK'
  BY DEF FileInv, FileTypeOK, WriteData, InStage, Stages
<1>2. WriterInv(p)'
  BY NamesAssumption DEF FileInv, FileTypeOK, WriterInv, WriteData, InStage, Active
<1>3. \A path \in Paths : file'[path] = p /\ file[path] # p => PathInv(path)'
  BY DEF FileInv, FileTypeOK, WriterInv, PathInv, WriteData, InStage, Active
<1> QED
  BY <1>1, <1>2, <1>3, OwnStep DEF FileInv, FileTypeOK, PathInv, WriteData, InStage, Active

LEMMA SyncInv ==
  ASSUME FileInv, NEW p \in Processes, Sync(p)
  PROVE  FileInv'
<1>1. FileTypeOK'
  BY DEF FileInv, FileTypeOK, Sync, InStage, Stages
<1>2. WriterInv(p)'
  BY NamesAssumption DEF FileInv, FileTypeOK, WriterInv, Sync, InStage, Active
<1>3. \A path \in Paths : file'[path] = p /\ file[path] # p => PathInv(path)'
  BY DEF FileInv, FileTypeOK, WriterInv, PathInv, Sync, InStage, Active
<1> QED
  BY <1>1, <1>2, <1>3, OwnStep DEF FileInv, FileTypeOK, PathInv, Sync, InStage, Active

LEMMA Stage == "remove" \in Stages
  BY DEF Stages

LEMMA ReplaceInv ==
  ASSUME FileInv, NEW p \in Processes, Replace(p)
  PROVE  FileInv'
<1>1. FileTypeOK'
  <2>1. file' \in [Paths -> Processes \cup {Absent, Original, Symlink}]
    BY DEF FileInv, FileTypeOK, Replace
  <2>2. write' = [write EXCEPT ![p] = [@ EXCEPT !.stage = "remove", !.outcome = "saved"]]
    BY DEF FileInv, FileTypeOK, Replace
  <2>3. [write[p] EXCEPT !.stage = "remove", !.outcome = "saved"] \in
          [stage : Stages, path : Paths, overwrite : BOOLEAN,
           outcome : {"none", "saved", "exists", "error"}]
    BY Stage DEF FileInv, FileTypeOK
  <2> QED
    BY <2>1, <2>2, <2>3 DEF FileInv, FileTypeOK, Replace
<1>2. WriterInv(p)'
  BY NamesAssumption DEF FileInv, FileTypeOK, WriterInv, Replace, InStage, Active
<1>3. \A path \in Paths : file'[path] = p /\ file[path] # p => PathInv(path)'
  BY DEF FileInv, FileTypeOK, WriterInv, PathInv, Replace, InStage, Active
<1> QED
  BY <1>1, <1>2, <1>3, OwnStep DEF FileInv, FileTypeOK, PathInv, Replace, InStage, Active

LEMMA LinkInv ==
  ASSUME FileInv, NEW p \in Processes, Link(p)
  PROVE  FileInv'
<1>1. FileTypeOK'
  <2>1. file' \in [Paths -> Processes \cup {Absent, Original, Symlink}]
    BY DEF FileInv, FileTypeOK, Link
  <2>2. \E o \in {"saved", "exists"} :
          write' = [write EXCEPT ![p].stage = "remove", ![p].outcome = o]
    BY DEF Link
  <2>3. write' \in [Processes -> [stage : Stages, path : Paths, overwrite : BOOLEAN,
                                 outcome : {"none", "saved", "exists", "error"}]]
    <3>1. PICK o \in {"saved", "exists"} :
            write' = [write EXCEPT ![p].stage = "remove", ![p].outcome = o]
      BY <2>2
    <3>2. write' = [write EXCEPT ![p] = [@ EXCEPT !.stage = "remove", !.outcome = o]]
      BY <3>1 DEF FileInv, FileTypeOK
    <3>3. write[p] \in [stage : Stages, path : Paths, overwrite : BOOLEAN,
                        outcome : {"none", "saved", "exists", "error"}]
      BY DEF FileInv, FileTypeOK
    <3>4. [write[p] EXCEPT !.stage = "remove", !.outcome = o] \in
            [stage : Stages, path : Paths, overwrite : BOOLEAN,
             outcome : {"none", "saved", "exists", "error"}]
      BY <3>3, Stage
    <3> QED
      BY <3>2, <3>4 DEF FileInv, FileTypeOK
  <2>4. UNCHANGED <<data, synced, temporary>>
    BY DEF Link
  <2> QED
    BY <2>1, <2>3, <2>4 DEF FileInv, FileTypeOK
<1>2. WriterInv(p)'
  BY NamesAssumption DEF FileInv, FileTypeOK, WriterInv, Link, InStage, Active
<1>3. \A path \in Paths : file'[path] = p /\ file[path] # p => PathInv(path)'
  BY DEF FileInv, FileTypeOK, WriterInv, PathInv, Link, InStage, Active
<1>4. /\ write[p].path \in Paths /\ UNCHANGED <<data, synced, temporary>>
      /\ write[p].stage = "publish" /\ write'[p].stage = "remove"
  BY DEF FileInv, FileTypeOK, Link, InStage
<1>5. \A q \in Processes \ {p} : write'[q] = write[q]
  BY DEF FileInv, FileTypeOK, Link
<1>6. \A path \in Paths : file'[path] # file[path] => file'[path] = p
  BY DEF FileInv, FileTypeOK, Link
<1>7. \A path \in Paths : file[path] # p
  BY <1>4 DEF FileInv, PathInv
<1> QED
  BY <1>1, <1>2, <1>3, <1>4, <1>5, <1>6, <1>7, OwnStep

LEMMA WriteFailsInv ==
  ASSUME FileInv, NEW p \in Processes, WriteFails(p)
  PROVE  FileInv'
<1>1. FileTypeOK'
  BY DEF FileInv, FileTypeOK, WriteFails, InStage, EndWrite, Stages
<1>2. WriterInv(p)'
  BY NamesAssumption DEF FileInv, FileTypeOK, WriterInv, WriteFails, InStage, EndWrite, Active
<1>3. \A path \in Paths : file'[path] = p /\ file[path] # p => PathInv(path)'
  BY DEF FileInv, FileTypeOK, WriterInv, PathInv, WriteFails, InStage, EndWrite, Active
<1>4. /\ file' = file /\ UNCHANGED <<synced, temporary>>
      /\ write[p].stage \in Active
  BY DEF WriteFails, InStage, Active
<1>5. \A q \in Processes \ {p} : write'[q] = write[q] /\ data'[q] = data[q]
  BY DEF FileInv, FileTypeOK, WriteFails, EndWrite
<1>6. \A path \in Paths : file[path] # p
  BY <1>4 DEF FileInv, PathInv, Active
<1> QED
  BY <1>1, <1>2, <1>3, <1>4, <1>5, <1>6, OwnStep

LEMMA RemoveInv ==
  ASSUME FileInv, NEW p \in Processes, Remove(p)
  PROVE  FileInv'
<1>1. FileTypeOK'
  BY DEF FileInv, FileTypeOK, Remove, InStage, EndWrite, Stages
<1>2. WriterInv(p)'
  BY NamesAssumption DEF FileInv, FileTypeOK, WriterInv, Remove, InStage, EndWrite, Active
<1>3. \A path \in Paths : file'[path] = p /\ file[path] # p => PathInv(path)'
  BY DEF FileInv, FileTypeOK, WriterInv, PathInv, Remove, InStage, EndWrite, Active
<1> QED
  BY <1>1, <1>2, <1>3, OwnStep DEF FileInv, FileTypeOK, PathInv, Remove, InStage, EndWrite, Active

LEMMA WriterDiesInv ==
  ASSUME FileInv, NEW p \in Processes, WriterDies(p)
  PROVE  FileInv'
<1>1. FileTypeOK'
  BY DEF FileInv, FileTypeOK, WriterDies, Stages
<1>2. WriterInv(p)'
  BY NamesAssumption DEF FileInv, FileTypeOK, WriterInv, WriterDies, Active
<1>3. \A path \in Paths : file'[path] = p /\ file[path] # p => PathInv(path)'
  BY DEF FileInv, FileTypeOK, WriterInv, PathInv, WriterDies, Active
<1> QED
  BY <1>1, <1>2, <1>3, OwnStep DEF FileInv, FileTypeOK, PathInv, WriterDies, Active

LEMMA FilePowerLossInv ==
  ASSUME FileInv, FilePowerLoss
  PROVE  FileInv'
<1>1. FileTypeOK'
  BY DEF FileInv, FileTypeOK, FilePowerLoss, Stages
<1>2. ASSUME NEW p \in Processes PROVE WriterInv(p)'
  BY DEF FileInv, FileTypeOK, WriterInv, FilePowerLoss, Active
<1>3. ASSUME NEW path \in Paths PROVE PathInv(path)'
  BY DEF FileInv, FileTypeOK, PathInv, FilePowerLoss
<1> QED
  BY <1>1, <1>2, <1>3 DEF FileInv

LEMMA FileStepInv == FileInv /\ [FileNext]_fileVars => FileInv'
<1> SUFFICES ASSUME FileInv, [FileNext]_fileVars PROVE FileInv'
  OBVIOUS
<1>1. ASSUME NEW p \in Processes, WriteStep(p) PROVE FileInv'
  BY <1>1, MakeTemporaryInv, WriteDataInv, SyncInv, ReplaceInv, LinkInv, WriteFailsInv,
     RemoveInv DEF WriteStep
<1>2. ASSUME NEW p \in Processes, WriterDies(p) PROVE FileInv'
  BY <1>2, WriterDiesInv
<1>3. ASSUME NEW p \in Processes, NEW path \in Paths, NEW overwrite \in BOOLEAN,
             BeginWrite(p, path, overwrite)
      PROVE  FileInv'
  BY <1>3, BeginWriteInv
<1>4. CASE FilePowerLoss
  BY <1>4, FilePowerLossInv
<1>5. CASE UNCHANGED fileVars
  BY <1>5 DEF fileVars, FileInv, FileTypeOK, WriterInv, PathInv
<1> QED
  BY <1>1, <1>2, <1>3, <1>4, <1>5 DEF FileNext

(* What the writers have done by their stage, and what is published, holds  *)
(* of every behaviour of PrivateFile.                                       *)
THEOREM FileInvHolds == FileSpec => []FileInv
BY FileInitInv, FileStepInv, PTL DEF FileSpec

-----------------------------------------------------------------------------
(* The variables of the publication of files have their types.              *)
THEOREM FileTypeCorrect == FileSpec => []FileTypeOK
<1>1. FileInv => FileTypeOK
  BY DEF FileInv
<1> QED
  BY <1>1, FileInvHolds, PTL

(* Any number of writers that are killed, fail or lose power publish whole  *)
(* files only, and those that came to their end leave no temporary file.    *)
THEOREM PublishedFilesAreWhole == FileSpec => []PublishedIsWhole
<1>1. FileInv => PublishedIsWhole
  BY DEF FileInv, FileTypeOK, WriterInv, PathInv, PublishedIsWhole
<1> QED
  BY <1>1, FileInvHolds, PTL

LEMMA NoClobber ==
  ASSUME FileInv, [FileNext]_fileVars, NEW path \in Paths, file'[path] # file[path]
  PROVE  /\ file'[path] \in Processes
         /\ \/ file[path] = Absent
            \/ file[path] # Symlink /\ write[file'[path]].overwrite
<1>1. PICK p \in Processes : Replace(p) \/ Link(p)
  BY DEF FileNext, fileVars, WriteStep, BeginWrite, MakeTemporary, WriteData, Sync,
     WriteFails, Remove, WriterDies, FilePowerLoss
<1>2. CASE Replace(p)
  <2>1. write[p].path \in Paths /\ file[write[p].path] # Symlink
    BY <1>2 DEF FileInv, FileTypeOK, WriterInv, Active, Replace, InStage
  <2>2. path = write[p].path /\ file'[path] = p
    BY <1>2, <2>1 DEF Replace, FileInv, FileTypeOK
  <2> QED
    BY <1>2, <2>1, <2>2 DEF Replace
<1>3. CASE Link(p)
  BY <1>3 DEF Link, FileInv, FileTypeOK
<1> QED
  BY <1>1, <1>2, <1>3

(* No interleaving of writers replaces a file without overwrite, or a link. *)
THEOREM NothingIsClobbered == FileSpec => FilesAreNotClobbered
<1>1. FileInv /\ [FileNext]_fileVars =>
        [\A path \in Paths : file'[path] # file[path] =>
           /\ file'[path] \in Processes
           /\ \/ file[path] = Absent
              \/ file[path] # Symlink /\ write[file'[path]].overwrite]_fileVars
  BY NoClobber
<1> QED
  BY <1>1, FileInvHolds, PTL DEF FileSpec, FilesAreNotClobbered

-----------------------------------------------------------------------------
(***************************************************************************)
(* MediaProcess.                                                           *)
(***************************************************************************)
(* There is no child before the operation starts it, nor one to reap after  *)
(* it ended; only a cleanup remembers a cancellation.                       *)
OperationInv(m, c) ==
  /\ m.pc \in {"idle", "stream", "camera", "start"} => c.state = "none"
  /\ m.pc = "ended" => c.state \in {"none", "reaped"}
  /\ m.cancelled => m.pc \in {"terminated", "killed", "ended"}
  /\ m.pc = "ended" /\ m.cancelled => m.error = "cancelled"

MediaInv ==
  /\ MediaTypeOK
  /\ \A p \in Processes : OperationInv(media[p], child[p])

Children == [state : {"none", "running", "dead", "reaped"}, ok : BOOLEAN, wrote : BOOLEAN]

Operations ==
  [pc : {"idle", "stream", "camera", "start", "wait", "frames", "stop",
         "terminated", "killed", "ended", "dead"},
   kind : Kinds, path : Clips, overwrite : BOOLEAN,
   error : {"none", "exists", "camera", "unavailable", "failed", "empty",
            "malformed", "timeout", "closed", "cancelled"},
   cancelled : BOOLEAN]

Recordings == [by : Processes \cup {"nobody", "user"},
               data : {"none", "empty", "partial", "whole"}]

LEMMA MediaInitInv == MediaInit => MediaInv
BY DEF MediaInit, MediaInv, MediaTypeOK, OperationInv, NoClip, UserClip, Kinds, Writing,
       Endless

(* A step that only moves the operation of p on.                            *)
LEMMA OperationStep ==
  ASSUME MediaInv, NEW p \in Processes, NEW m \in Operations, NEW c \in Children,
         media' = [media EXCEPT ![p] = m], child' = [child EXCEPT ![p] = c],
         clip' \in [Clips -> Recordings],
         OperationInv(m, c)
  PROVE  MediaInv'
BY DEF MediaInv, MediaTypeOK, Operations, Children, Recordings

LEMMA OperationTyped ==
  ASSUME MediaInv, NEW p \in Processes
  PROVE  /\ media \in [Processes -> Operations] /\ child \in [Processes -> Children]
         /\ clip \in [Clips -> Recordings]
         /\ media[p] \in Operations /\ child[p] \in Children
         /\ media[p].path \in Clips /\ child = [child EXCEPT ![p] = child[p]]
         /\ media = [media EXCEPT ![p] = media[p]]
         /\ OperationInv(media[p], child[p])
BY DEF MediaInv, MediaTypeOK, Operations, Children, Recordings

LEMMA BeginMediaInv ==
  ASSUME MediaInv, NEW p \in Processes, NEW kind \in Kinds, NEW path \in Clips,
         NEW overwrite \in BOOLEAN, BeginMedia(p, kind, path, overwrite)
  PROVE  MediaInv'
<1> DEFINE m == [media[p] EXCEPT !.pc = "stream", !.kind = kind, !.path = path,
                                 !.overwrite = overwrite]
<1>1. m \in Operations
  BY OperationTyped, ZenonT(40) DEF Operations
<1>2. media' = [media EXCEPT ![p] = m]
  BY OperationTyped DEF BeginMedia
<1>3. OperationInv(m, child[p])
  BY OperationTyped DEF BeginMedia, AtPc, OperationInv, Operations
<1> QED
  BY <1>1, <1>2, <1>3, OperationStep, OperationTyped DEF BeginMedia

Errors == {"none", "exists", "camera", "unavailable", "failed", "empty", "malformed",
           "timeout", "closed", "cancelled"}

(* The ways in which an operation moves on.                                 *)
LEMMA GoInv ==
  ASSUME MediaInv, NEW p \in Processes, UNCHANGED <<clip, child>>,
         NEW pc \in {"camera", "start", "wait", "frames", "terminated", "killed", "dead"},
         Go(p, pc),
         pc \in {"camera", "start"} => child[p].state = "none",
         media[p].cancelled => pc \in {"terminated", "killed"}
  PROVE  MediaInv'
<1> DEFINE m == [media[p] EXCEPT !.pc = pc]
<1>1. m \in Operations /\ media' = [media EXCEPT ![p] = m]
  BY OperationTyped DEF Operations, Go
<1>2. OperationInv(m, child[p])
  BY OperationTyped DEF OperationInv, Operations
<1> QED
  BY <1>1, <1>2, OperationStep, OperationTyped

LEMMA EndInv ==
  ASSUME MediaInv, NEW p \in Processes, UNCHANGED <<clip, child>>,
         NEW error \in Errors, EndMedia(p, error),
         child[p].state \in {"none", "reaped"},
         media[p].cancelled => error = "cancelled"
  PROVE  MediaInv'
<1> DEFINE m == [media[p] EXCEPT !.pc = "ended", !.error = error]
<1>1. m \in Operations /\ media' = [media EXCEPT ![p] = m]
  BY OperationTyped DEF Operations, Errors, EndMedia
<1>2. OperationInv(m, child[p])
  BY OperationTyped DEF OperationInv, Operations
<1> QED
  BY <1>1, <1>2, OperationStep, OperationTyped

LEMMA StopInv ==
  ASSUME MediaInv, NEW p \in Processes, UNCHANGED <<clip, child>>,
         NEW error \in Errors, StopFor(p, error), ~media[p].cancelled
  PROVE  MediaInv'
<1> DEFINE m == [media[p] EXCEPT !.pc = "stop", !.error = error]
<1>1. m \in Operations /\ media' = [media EXCEPT ![p] = m]
  BY OperationTyped DEF Operations, Errors, StopFor
<1>2. OperationInv(m, child[p])
  BY OperationTyped DEF OperationInv, Operations
<1> QED
  BY <1>1, <1>2, OperationStep, OperationTyped

(* What is known of an operation by its place.                              *)
LEMMA AtPlace ==
  ASSUME MediaInv, NEW p \in Processes
  PROVE  /\ media[p].error \in Errors /\ media[p].cancelled \in BOOLEAN
         /\ media[p].pc \in {"idle", "stream", "camera", "start"} => child[p].state = "none"
         /\ media[p].pc \in {"idle", "stream", "camera", "start", "wait", "frames", "stop"}
              => ~media[p].cancelled
BY OperationTyped DEF Operations, OperationInv, Errors

(* Steps of the operation alone.                                            *)
LEMMA OwnMediaStep ==
  ASSUME MediaInv, NEW p \in Processes,
         \/ CheckOutput(p) \/ StreamFound(p) \/ Communicated(p) \/ TimedOut(p)
         \/ FramesEnd(p) \/ Terminate(p) \/ Stopped(p) \/ FramesClosed(p)
         \/ CancelMedia(p)
  PROVE  MediaInv'
<1>1. CASE CheckOutput(p)
  BY <1>1, AtPlace, GoInv, EndInv DEF CheckOutput, AtPc, Errors
<1>2. CASE StreamFound(p)
  BY <1>2, AtPlace, GoInv, EndInv DEF StreamFound, AtPc, Errors
<1>3. CASE Communicated(p)
  <2>1. PICK error \in Errors : EndMedia(p, error)
    BY <1>3 DEF Communicated, Errors
  <2> QED
    BY <1>3, <2>1, AtPlace, EndInv DEF Communicated, AtPc, Reaped
<1>4. CASE TimedOut(p)
  BY <1>4, AtPlace, StopInv DEF TimedOut, AtPc, Errors
<1>5. CASE FramesEnd(p)
  BY <1>5, AtPlace, GoInv DEF FramesEnd, AtPc
<1>6. CASE Terminate(p)
  BY <1>6, AtPlace, GoInv, EndInv DEF Terminate, AtPc, Reaped
<1>7. CASE Stopped(p)
  <2>1. PICK error \in Errors :
          EndMedia(p, error) /\ (media[p].cancelled => error = "cancelled")
    BY <1>7, AtPlace DEF Stopped, Errors
  <2> QED
    BY <1>7, <2>1, AtPlace, EndInv DEF Stopped, Reaped
<1>8. CASE FramesClosed(p)
  BY <1>8, AtPlace, StopInv DEF FramesClosed, AtPc, Errors
<1>9. CASE CancelBefore(p)
  BY <1>9, AtPlace, EndInv DEF CancelBefore, Errors
<1>10. CASE CancelWait(p)
  BY <1>10, AtPlace, StopInv DEF CancelWait, Errors
<1>11. CASE CancelStop(p)
  <2> DEFINE m == [media[p] EXCEPT !.cancelled = TRUE]
  <2>1. m \in Operations /\ media' = [media EXCEPT ![p] = m]
    BY <1>11, OperationTyped DEF Operations, CancelStop
  <2>2. OperationInv(m, child[p])
    BY <1>11, OperationTyped DEF OperationInv, Operations, CancelStop
  <2> QED
    BY <1>11, <2>1, <2>2, OperationStep, OperationTyped DEF CancelStop
<1> QED
  BY <1>1, <1>2, <1>3, <1>4, <1>5, <1>6, <1>7, <1>8, <1>9, <1>10, <1>11 DEF CancelMedia

(* A step that only changes the child c, which was there before.            *)
LEMMA ChildChanges ==
  ASSUME MediaInv, NEW p \in Processes, NEW c \in Children, UNCHANGED media,
         child' = [child EXCEPT ![p] = c], clip' \in [Clips -> Recordings],
         child[p].state \in {"running", "dead"},
         media[p].pc = "ended" => c.state = "reaped"
  PROVE  MediaInv'
<1>1. OperationInv(media[p], c)
  BY OperationTyped DEF OperationInv
<1> QED
  BY <1>1, OperationStep, OperationTyped

LEMMA ChildStepInv ==
  ASSUME MediaInv, NEW p \in Processes, ChildStep(p)
  PROVE  MediaInv'
<1>0. child[p].state = "running" /\ media[p].pc # "ended" /\ media' = media
  BY OperationTyped
  DEF ChildStep, OpenOutput, WriteOutput, ChildExits, Running, OperationInv
<1>1. CASE OpenOutput(p)
  <2>1. clip' \in [Clips -> Recordings]
    BY <1>1, OperationTyped DEF OpenOutput, Recordings
  <2>2. PICK c \in Children : child' = [child EXCEPT ![p] = c]
    <3>1. [child[p] EXCEPT !.state = "dead"] \in Children
          /\ [child[p] EXCEPT !.wrote = TRUE] \in Children
      BY OperationTyped DEF Children
    <3> QED
      BY <1>1, <3>1, OperationTyped DEF OpenOutput
  <2> QED
    BY <1>0, <2>1, <2>2, ChildChanges
<1>2. CASE WriteOutput(p)
  <2>1. clip' \in [Clips -> Recordings]
    BY <1>2, OperationTyped DEF WriteOutput, Recordings
  <2> QED
    BY <1>0, <1>2, <2>1, ChildChanges, OperationTyped DEF WriteOutput
<1>3. CASE ChildExits(p)
  <2>1. clip' \in [Clips -> Recordings]
    BY <1>3, OperationTyped DEF ChildExits, Recordings
  <2>2. PICK c \in Children : child' = [child EXCEPT ![p] = c]
    <3>1. \A ok \in BOOLEAN : [child[p] EXCEPT !.state = "dead", !.ok = ok] \in Children
      BY OperationTyped DEF Children
    <3> QED
      BY <1>3, <3>1, OperationTyped DEF ChildExits
  <2> QED
    BY <1>0, <2>1, <2>2, ChildChanges
<1> QED
  BY <1>1, <1>2, <1>3 DEF ChildStep

LEMMA ReapInv ==
  ASSUME MediaInv, NEW p \in Processes, Reap(p)
  PROVE  MediaInv'
<1> DEFINE c == [child[p] EXCEPT !.state = "reaped"]
<1>1. c \in Children /\ c.state = "reaped" /\ child' = [child EXCEPT ![p] = c]
  BY OperationTyped DEF Children, Reap
<1> QED
  BY <1>1, ChildChanges, OperationTyped DEF Reap

LEMMA StartChildInv ==
  ASSUME MediaInv, NEW p \in Processes, StartChild(p)
  PROVE  MediaInv'
<1>1. CASE EndMedia(p, "unavailable") /\ child' = child
  BY <1>1, AtPlace, EndInv DEF StartChild, AtPc, Errors
<1>2. CASE /\ child' = [child EXCEPT ![p].state = "running"]
           /\ \E pc \in {"frames", "wait"} : Go(p, pc)
  <2>1. PICK pc \in {"frames", "wait"} : Go(p, pc)
    BY <1>2
  <2> DEFINE c == [child[p] EXCEPT !.state = "running"]
             m == [media[p] EXCEPT !.pc = pc]
  <2>2. m \in Operations /\ media' = [media EXCEPT ![p] = m]
    BY <2>1, OperationTyped DEF Operations, Go
  <2>3. c \in Children /\ child' = [child EXCEPT ![p] = c]
    BY <1>2, OperationTyped DEF Children
  <2>4. OperationInv(m, c)
    BY AtPlace, OperationTyped DEF StartChild, AtPc, OperationInv, Operations
  <2> QED
    BY <2>2, <2>3, <2>4, OperationStep, OperationTyped DEF StartChild
<1> QED
  BY <1>1, <1>2 DEF StartChild

LEMMA KillInv ==
  ASSUME MediaInv, NEW p \in Processes, Kill(p)
  PROVE  MediaInv'
<1> DEFINE c == [child[p] EXCEPT !.state = "dead"]
           m == [media[p] EXCEPT !.pc = "killed"]
<1>1. m \in Operations /\ media' = [media EXCEPT ![p] = m]
  BY OperationTyped DEF Operations, Go, Kill
<1>2. c \in Children /\ child' = [child EXCEPT ![p] = c]
  BY OperationTyped DEF Children, Kill
<1>3. OperationInv(m, c)
  BY OperationTyped DEF OperationInv, Operations
<1> QED
  BY <1>1, <1>2, <1>3, OperationStep, OperationTyped DEF Kill

LEMMA DeadInv ==
  ASSUME NEW m \in Operations, NEW c
  PROVE  Dead(m) \in Operations /\ OperationInv(Dead(m), c)
BY DEF Dead, Operations, OperationInv

LEMMA MediaDiesInv ==
  ASSUME MediaInv, NEW p \in Processes, MediaDies(p)
  PROVE  MediaInv'
<1>1. media' = [media EXCEPT ![p] = Dead(media[p])]
  BY OperationTyped DEF MediaDies
<1> QED
  BY <1>1, DeadInv, OperationStep, OperationTyped DEF MediaDies

LEMMA MediaPowerLossInv ==
  ASSUME MediaInv, MediaPowerLoss
  PROVE  MediaInv'
<1>1. ASSUME NEW p \in Processes
      PROVE  /\ media'[p] \in Operations /\ child'[p] \in Children
             /\ OperationInv(media'[p], child'[p])
  <2>1. child'[p] = [child[p] EXCEPT !.state = "none"]
    BY OperationTyped DEF MediaPowerLoss
  <2>2. child'[p] \in Children /\ child'[p].state = "none"
    BY <2>1, OperationTyped DEF Children
  <2>3. CASE media[p].pc \in {"idle", "ended"}
    BY <2>2, <2>3, OperationTyped DEF MediaPowerLoss, OperationInv
  <2>4. CASE media[p].pc \notin {"idle", "ended"}
    BY <2>2, <2>4, DeadInv, OperationTyped DEF MediaPowerLoss
  <2> QED
    BY <2>3, <2>4
<1>2. MediaTypeOK'
  <2>1. media' \in [Processes -> Operations]
    <3>1. media' = [p \in Processes |-> media'[p]]
      BY DEF MediaPowerLoss
    <3> QED
      BY <1>1, <3>1
  <2>2. child' \in [Processes -> Children]
    <3>1. child' = [p \in Processes |-> child'[p]]
      BY DEF MediaPowerLoss
    <3> QED
      BY <1>1, <3>1
  <2>3. clip' \in [Clips -> Recordings]
    BY OperationTyped DEF MediaPowerLoss, MediaInv, MediaTypeOK, Recordings
  <2> QED
    BY <2>1, <2>2, <2>3 DEF MediaTypeOK, Operations, Children, Recordings
<1> QED
  BY <1>1, <1>2 DEF MediaInv

LEMMA MediaStepInv == MediaInv /\ [MediaNext]_mediaVars => MediaInv'
<1> SUFFICES ASSUME MediaInv, [MediaNext]_mediaVars PROVE MediaInv'
  OBVIOUS
<1>1. ASSUME NEW p \in Processes, MediaStep(p) PROVE MediaInv'
  BY <1>1, OwnMediaStep, StartChildInv, ReapInv, KillInv DEF MediaStep
<1>2. ASSUME NEW p \in Processes, ChildStep(p) \/ FramesClosed(p) \/ CancelMedia(p) \/ MediaDies(p)
      PROVE  MediaInv'
  BY <1>2, ChildStepInv, OwnMediaStep, MediaDiesInv
<1>3. ASSUME NEW p \in Processes, NEW kind \in Kinds, NEW path \in Clips,
             NEW overwrite \in BOOLEAN, BeginMedia(p, kind, path, overwrite)
      PROVE  MediaInv'
  BY <1>3, BeginMediaInv
<1>4. CASE MediaPowerLoss
  BY <1>4, MediaPowerLossInv
<1>5. CASE UNCHANGED mediaVars
  BY <1>5 DEF mediaVars, MediaInv, MediaTypeOK
<1> QED
  BY <1>1, <1>2, <1>3, <1>4, <1>5 DEF MediaNext

LEMMA MediaSpecInv == MediaSpec => []MediaInv
BY MediaInitInv, MediaStepInv, PTL DEF MediaSpec

LEMMA ClipKept ==
  ASSUME MediaInv, [MediaNext]_mediaVars, NEW path \in Clips,
         clip'[path] # clip[path], Exists(path)
  PROVE  \/ clip'[path].by = clip[path].by
         \/ \E p \in Processes : clip'[path].by = p /\ media[p].overwrite
<1>1. PICK p \in Processes : ChildStep(p)
  BY DEF MediaNext, mediaVars, MediaStep, BeginMedia, CheckOutput, StreamFound, StartChild,
     Reap, Communicated, TimedOut, FramesEnd, Terminate, Kill, Stopped, FramesClosed,
     CancelMedia, CancelBefore, CancelWait, CancelStop, MediaDies, MediaPowerLoss
<1>2. CASE OpenOutput(p)
  BY <1>2, OperationTyped DEF OpenOutput, KeepsExisting
<1>3. CASE WriteOutput(p)
  BY <1>3, OperationTyped DEF WriteOutput, Recordings
<1>4. CASE ChildExits(p)
  BY <1>4, OperationTyped DEF ChildExits, Recordings
<1> QED
  BY <1>1, <1>2, <1>3, <1>4 DEF ChildStep

-----------------------------------------------------------------------------
(***************************************************************************)
(* Cli.                                                                    *)
(***************************************************************************)
(* A command writes files, runs a child, or neither.                        *)
LEMMA PartsStep == [Next]_vars => [FileNext]_fileVars /\ [MediaNext]_mediaVars
<1> SUFFICES ASSUME [Next]_vars PROVE [FileNext]_fileVars /\ [MediaNext]_mediaVars
  OBVIOUS
<1>1. ASSUME NEW p \in Processes, Discover(p) \/ Wait(p) \/ Load(p) \/ Discovered(p)
             \/ Written(p) \/ MediaOver(p) \/ DryRun(p) \/ Gate(p) \/ Connected(p)
             \/ ConnectFails(p) \/ Send(p)
      PROVE  UNCHANGED <<fileVars, mediaVars>>
  BY <1>1 DEF Discover, Wait, Load, Discovered, Written, MediaOver, DryRun, Gate, Connected,
     ConnectFails, Send
<1>2. ASSUME NEW p \in Processes, ProvisionQr(p) \/ Save(p)
      PROVE  FileNext /\ UNCHANGED mediaVars
  BY <1>2 DEF ProvisionQr, Save, FileNext
<1>3. ASSUME NEW p \in Processes, Media(p) PROVE MediaNext /\ UNCHANGED fileVars
  BY <1>3 DEF Media, MediaNext
<1>4. ASSUME NEW p \in Processes, PartStep(p)
      PROVE  [FileNext]_fileVars /\ [MediaNext]_mediaVars
  BY <1>4 DEF PartStep, FileNext, MediaNext
<1>5. ASSUME NEW p \in Processes, Outside(p) PROVE UNCHANGED fileVars /\ [MediaNext]_mediaVars
  BY <1>5 DEF Outside, MediaNext
<1>6. ASSUME NEW p \in Processes, Interrupt(p)
      PROVE  UNCHANGED fileVars /\ [MediaNext]_mediaVars
  BY <1>6 DEF Interrupt, MediaNext
<1>7. ASSUME NEW p \in Processes, Die(p)
      PROVE  [FileNext]_fileVars /\ [MediaNext]_mediaVars
  BY <1>7 DEF Die, FileNext, MediaNext
<1>8. CASE PowerLoss
  BY <1>8 DEF PowerLoss, FileNext, MediaNext
<1>9. CASE Move \/ UNCHANGED vars
  BY <1>9 DEF Move, vars
<1>10. ASSUME NEW p \in Processes, CommandStep(p)
       PROVE  [FileNext]_fileVars /\ [MediaNext]_mediaVars
  BY <1>1, <1>2, <1>4, <1>10 DEF CommandStep
<1> QED
  BY <1>1, <1>2, <1>3, <1>5, <1>6, <1>7, <1>8, <1>9, <1>10 DEF Next

(* The tool implements the specifications of its parts: commands of other   *)
(* kinds, however they interleave with them, add nothing to what the files  *)
(* and the children of a command may do.                                    *)
THEOREM ImplementsItsParts == Spec => FileSpec /\ MediaSpec
<1>1. Init => FileInit /\ MediaInit
  BY DEF Init
<1> QED
  BY <1>1, PartsStep, PTL DEF Spec, FileSpec, MediaSpec

(* Whoever reads a profile or a QR image reads all that one command wrote,  *)
(* whatever was killed, interrupted or lost power.                          *)
THEOREM ProfilesAreWhole == Spec => []PublishedIsWhole
BY ImplementsItsParts, PublishedFilesAreWhole, PTL

(* No command of the tool replaces a file it was not told to overwrite.     *)
THEOREM ProfilesAreKept == Spec => FilesAreNotClobbered
BY ImplementsItsParts, NothingIsClobbered, PTL

(* A command that ended left no child, and a cancellation in the cleanup is *)
(* kept, however many commands run.                                         *)
THEOREM CleanupsEnd == Spec => []CleanupWithstandsCancellation
<1>1. MediaInv => CleanupWithstandsCancellation
  BY DEF MediaInv, OperationInv, CleanupWithstandsCancellation, AtPc
<1> QED
  BY <1>1, ImplementsItsParts, MediaSpecInv, PTL

(* No command of the tool replaces a recording it was not told to.          *)
THEOREM RecordingsAreKept == Spec => ClipsAreNotClobbered
<1>1. MediaInv /\ [MediaNext]_mediaVars =>
        [\A path \in Clips : clip'[path] # clip[path] /\ Exists(path) =>
           \/ clip'[path].by = clip[path].by
           \/ \E p \in Processes : clip'[path].by = p /\ media[p].overwrite]_mediaVars
  BY ClipKept
<1> QED
  BY <1>1, ImplementsItsParts, MediaSpecInv, PTL DEF MediaSpec, ClipsAreNotClobbered

-----------------------------------------------------------------------------
(***************************************************************************)
(* CommandGate.                                                            *)
(***************************************************************************)
(* Nothing that carries a protected write passes send_raw_cgi.              *)
LEMMA ProtectedIsRefused ==
  ASSUME NEW path, NEW flags, "recovery_ready" \notin flags,
         NEW c \in Catalog, Protected(c), Carries(path, c)
  PROVE  RawVerdict(path, flags, TRUE) = "refused"
<1>1. CASE Taken(path) = {}
  <2> DEFINE writes == {d \in At(path) : d.read_or_write = "write"}
             near   == {d \in writes : ~Contradicts(d, path)}
  <2>1. c \in writes /\ c \in near /\ DOMAIN c.fixed \subseteq Given(path)
    BY DEF Carries, Protected, FixedMatches, Contradicts
  <2>2. Malformed(path) <=>
          \/ \E d \in near : Template(d) \subseteq Given(path)
          \/ \E d \in writes : \/ ~d.raw_accessible \/ d.recovery_required
                               \/ d.confirmation_status = "dangerous_do_not_run"
          \/ Cardinality(writes) = 1
          \/ \E d \in near : DOMAIN d.fixed \cap Given(path) # {}
    BY DEF Malformed
  <2>3. CASE ~c.raw_accessible \/ c.recovery_required
             \/ c.confirmation_status = "dangerous_do_not_run"
    BY <1>1, <2>1, <2>2, <2>3 DEF RawVerdict, IsRejected
  <2>4. CASE DOMAIN c.fixed # {} \/ c.optional = {}
    <3>1. CASE DOMAIN c.fixed # {}
      BY <1>1, <2>1, <2>2, <3>1 DEF RawVerdict, IsRejected
    <3>2. CASE c.optional = {}
      <4>1. Template(c) \subseteq Given(path)
        BY <3>2 DEF Carries, Template
      <4> QED
        BY <1>1, <2>1, <2>2, <4>1 DEF RawVerdict, IsRejected
    <3> QED
      BY <2>4, <3>1, <3>2
  <2>5. CASE DOMAIN c.fixed = {} /\ c.optional # {}
    <3>1. writes = {c}
      BY <2>1, <2>5, SeparateAssumption DEF At
    <3>2. Cardinality(writes) = 1
      BY <3>1, FS_Singleton
    <3> QED
      BY <1>1, <2>2, <3>2 DEF RawVerdict, IsRejected
  <2> QED
    BY <2>4, <2>5
<1>2. CASE \E d \in Dangerous(path) : TRUE
  <2>1. PICK d \in Taken(path) : d.confirmation_status = "dangerous_do_not_run"
    BY <1>2 DEF Taken, Dangerous
  <2>2. ~KnownMaySend(d, flags, TRUE)
    BY <2>1 DEF KnownMaySend, Permitted
  <2> QED
    BY <2>1, <2>2 DEF RawVerdict
<1>3. CASE Dangerous(path) = {} /\ Taken(path) # {}
  <2>1. PICK d \in Taken(path) : d \in Exact(path)
    BY <1>3 DEF Taken
  <2>2. CASE d = c
    <3>1. ~(OpenToRaw(c) /\ KnownMaySend(c, flags, TRUE))
      BY DEF Protected, KnownMaySend, Permitted
    <3> QED
      BY <2>1, <2>2, <3>1 DEF RawVerdict
  <2>3. CASE d # c
    <3>1. d \in Catalog /\ c.endpoint = d.endpoint /\ Required(c) \subseteq Template(d)
      BY <2>1 DEF Exact, At, Carries
    <3>2. PICK k \in DOMAIN c.fixed \cap DOMAIN d.fixed : c.fixed[k] # d.fixed[k]
      BY <2>3, <3>1, SeparateAssumption
    <3> QED
      BY <2>1, <3>2 DEF Exact, Carries, FixedMatches
  <2> QED
    BY <2>2, <2>3
<1> QED
  BY <1>1, <1>2, <1>3

(* Only a request known to be repeatable may be retried.                    *)
LEMMA RetriedIsRetryable ==
  ASSUME NEW path, NEW flags, RawVerdict(path, flags, TRUE) \notin {"refused", "once"}
  PROVE  \E c \in Catalog : Carries(path, c) /\ c.retry_policy = "retryable"
<1>1. /\ \A c \in Taken(path) : KnownMaySend(c, flags, TRUE)
      /\ Taken(path) # {}
  BY DEF RawVerdict
<1>2. PICK c \in Taken(path) : c.retry_policy # "one_shot"
  BY <1>1 DEF KnownMaySend
<1>3. c \in Catalog /\ Carries(path, c)
  BY <1>2 DEF Taken, Dangerous, Exact, At, Carries, Required, Template
<1> QED
  BY <1>2, <1>3, CatalogAssumption

-----------------------------------------------------------------------------
(***************************************************************************)
(* Discovery, and the commands that search, save and connect.              *)
(***************************************************************************)
(* The types of the commands and of their searches.                         *)
Findings    == [host : Hosts, id : Cameras, encrypted : BOOLEAN, psk : Seeds \cup {None}]
Connections == [host : Hosts, id : Cameras, psk : Seeds \cup {None}, answered : BOOLEAN]

SearchRecords ==
  [pc : {"idle", "search", "found", "listed", "failed", "connected"},
   purpose : Looking \cup {"wait", "encrypted", "plaintext"},
   host : Hosts \cup {None}, expected : Cameras \cup {None}, seeds : SUBSET Seeds,
   encrypted : BOOLEAN, matching : BOOLEAN, first : BOOLEAN,
   device : Cameras \cup {None}, psk : Seeds \cup {None},
   seen : SUBSET Profiles, found : Findings \cup Connections \cup {None}]

CommandRecords ==
  [pc : {"new", "discover", "write", "media", "gate", "connect", "send", "exited", "dead"},
   command : Commands, code : {0, 2, 130}, interrupted : BOOLEAN,
   raw : RawPaths \cup {NoPath}, flags : SUBSET {"experimental", "confirm"},
   left : Nat, tries : Nat, profile : Profiles \cup {None}, heard : BOOLEAN]

(* What the seed of an answer tells.                                        *)
OwnSeed(id, psk) == psk # None /\ psk = SeedOf[id]

Truthful(r) == IF r.psk = None THEN r.id \in InTheClear ELSE OwnSeed(r.id, r.psk)

(* A search has heard cameras that are what they say, at the address and of *)
(* the ID it asked for; what it found encrypted has its own seed.           *)
SearchInv(s) ==
  /\ IsFiniteSet(s.seen)
  /\ \A r \in s.seen : Truthful(r) /\ s.host \in {None, r.host} /\ s.expected \in {None, r.id}
  /\ s.first => \A r, q \in s.seen : r = q
  /\ s.pc = "search" /\ s.purpose = "wait" => s.first /\ s.device # None /\ s.expected = s.device
  /\ s.purpose \in Looking /\ s.found # None =>
       s.found \in Findings /\ (s.found.encrypted => OwnSeed(s.found.id, s.found.psk))

Saving == {"discover", "qr"}

(* A seed that is saved, or left out as the table has it, is right.         *)
RightSeed(profile) ==
  OwnSeed(profile.id, IF profile.psk = None THEN PskForDeviceId[profile.id] ELSE profile.psk)

(* Only discover and qr write files, only raw connects, and its search is   *)
(* for the camera of its profile.                                           *)
CommandInv(c, s, stage) ==
  /\ c.pc = "write" \/ stage # "idle" => c.command \in Saving
  /\ c.pc = "discover" => c.command = "discover" \/ (c.command = "wait" /\ s.purpose = "wait")
  /\ c.command \in Saving => s.purpose \in Looking
  /\ c.pc \in {"gate", "connect", "send"} =>
       c.command = "raw" /\ c.profile \in Profiles /\ (c.heard => RightSeed(c.profile))
  /\ c.pc \in {"connect", "send"} => c.left # 0 /\ c.tries # 0
  /\ s.pc = "search" /\ s.purpose \in {"encrypted", "plaintext"} =>
       /\ c.pc = "connect"
       /\ s.host = c.profile.host /\ s.device = c.profile.id /\ s.psk = c.profile.psk

CliInv ==
  /\ lan \in [Hosts -> Cameras \cup {None}]
  /\ cli \in [Processes -> CommandRecords]
  /\ search \in [Processes -> SearchRecords]
  /\ \A p \in Processes :
       SearchInv(search[p]) /\ CommandInv(cli[p], search[p], write[p].stage)

LEMMA NoSearchInv == NoSearch \in SearchRecords /\ SearchInv(NoSearch)
BY FS_EmptySet DEF NoSearch, SearchRecords, SearchInv, Looking

LEMMA NewTyped ==
  ASSUME NEW command \in Commands
  PROVE  NewCommand(command) \in CommandRecords
BY DEF NewCommand, CommandRecords

LEMMA CliInitInv == Init => CliInv
<1> SUFFICES ASSUME Init PROVE CliInv
  OBVIOUS
<1>1. PICK scenario \in Scenarios :
        /\ cli = [p \in Processes |-> NewCommand(scenario.commands[p])]
        /\ lan \in scenario.at
  BY DEF Init
<1>2. ASSUME NEW p \in Processes
      PROVE  cli[p] \in CommandRecords /\ cli[p].pc = "new"
  <2>1. scenario.commands[p] \in Commands
    BY BoundsAssumption
  <2> QED
    BY <1>1, <2>1, NewTyped DEF NewCommand
<1>3. lan \in [Hosts -> Cameras \cup {None}] /\ search = [p \in Processes |-> NoSearch]
  BY DEF Init, DiscoveryInit
<1>4. ASSUME NEW p \in Processes PROVE CommandInv(cli[p], NoSearch, write[p].stage)
  BY <1>2 DEF Init, FileInit, CommandInv, NoSearch, Looking
<1> QED
  BY <1>1, <1>2, <1>3, <1>4, NoSearchInv DEF CliInv

(* A step that changes the command and the search of one process.           *)
LEMMA CliChange ==
  ASSUME CliInv, NEW p \in Processes, NEW c \in CommandRecords, NEW s \in SearchRecords,
         cli' = [cli EXCEPT ![p] = c], search' = [search EXCEPT ![p] = s],
         lan' = lan, SearchInv(s), CommandInv(c, s, write'[p].stage),
         \A q \in Processes \ {p} : write'[q] = write[q]
  PROVE  CliInv'
BY DEF CliInv

LEMMA CliTyped ==
  ASSUME CliInv, NEW p \in Processes
  PROVE  /\ cli[p] \in CommandRecords /\ search[p] \in SearchRecords
         /\ cli = [cli EXCEPT ![p] = cli[p]] /\ search = [search EXCEPT ![p] = search[p]]
         /\ SearchInv(search[p]) /\ CommandInv(cli[p], search[p], write[p].stage)
         /\ cli[p].command \in Commands
BY DEF CliInv, CommandRecords

(* The searches.                                                            *)
LEMMA OwnSearch ==
  ASSUME CliInv, NEW p \in Processes, NEW s \in SearchRecords,
         search' = [search EXCEPT ![p] = s], UNCHANGED <<cli, lan, write>>,
         SearchInv(s), CommandInv(cli[p], s, write[p].stage)
  PROVE  CliInv'
BY CliChange, CliTyped

LEMMA EndSearchInv ==
  ASSUME CliInv, NEW p \in Processes, UNCHANGED <<cli, lan, write>>,
         NEW pc \in {"found", "listed", "failed", "connected"},
         NEW found \in Findings \cup Connections \cup {None},
         EndSearch(p, pc, found),
         search[p].purpose \in Looking /\ found # None =>
           found \in Findings /\ (found.encrypted => OwnSeed(found.id, found.psk))
  PROVE  CliInv'
<1> DEFINE s == [NoSearch EXCEPT !.pc = pc, !.purpose = search[p].purpose, !.found = found]
<1>1. s \in SearchRecords /\ search' = [search EXCEPT ![p] = s]
  <2>1. search[p].purpose \in Looking \cup {"wait", "encrypted", "plaintext"}
    BY CliTyped DEF SearchRecords
  <2>2. s \in SearchRecords
    BY <2>1, NoSearchInv DEF SearchRecords
  <2>3. search' = [search EXCEPT ![p] = s]
    BY DEF EndSearch
  <2> QED
    BY <2>2, <2>3
<1>2. SearchInv(s)
  BY FS_EmptySet DEF SearchInv, NoSearch
<1>3. CommandInv(cli[p], s, write[p].stage)
  BY CliTyped DEF CommandInv, NoSearch
<1> QED
  BY <1>1, <1>2, <1>3, OwnSearch

(* What is heard.                                                           *)
LEMMA RepliesAreTrue ==
  ASSUME CliInv, NEW p \in Processes, NEW r \in Replies(search[p])
  PROVE  r \in Profiles /\ Truthful(r) /\ search[p].host \in {None, r.host}
<1> DEFINE s == search[p]
           there == {h \in Hosts : lan[h] # None /\ s.host \in {None, h}}
<1>1. s.seeds \in SUBSET Seeds
  BY CliTyped DEF SearchRecords
<1>2. \A h \in there : h \in Hosts /\ lan[h] \in Cameras /\ s.host \in {None, h}
  BY DEF CliInv
<1>3. CASE \E h \in there : /\ lan[h] \in InTheClear
                            /\ r = [host |-> h, id |-> lan[h], psk |-> None]
  BY <1>2, <1>3 DEF Profiles, Truthful
<1>4. CASE \E h \in there : /\ SeedOf[lan[h]] \in s.seeds
                            /\ r = [host |-> h, id |-> lan[h], psk |-> SeedOf[lan[h]]]
  BY <1>1, <1>2, <1>4, CamerasAssumption DEF Profiles, Truthful, OwnSeed
<1> QED
  BY <1>3, <1>4 DEF Replies

LEMMA ReceiveInv ==
  ASSUME CliInv, NEW p \in Processes, Receive(p), UNCHANGED <<cli, write>>
  PROVE  CliInv'
<1>1. PICK r \in Replies(search[p]) :
        Accepted(search[p], r) /\ search' = [search EXCEPT ![p].seen = @ \cup {r}]
  BY DEF Receive
<1> DEFINE s == [search[p] EXCEPT !.seen = @ \cup {r}]
<1>2. r \in Profiles /\ Truthful(r) /\ search[p].host \in {None, r.host}
  BY RepliesAreTrue
<1>3. s \in SearchRecords /\ search' = [search EXCEPT ![p] = s]
  BY <1>1, <1>2, CliTyped DEF SearchRecords
<1>4. SearchInv(s)
  <2>1. /\ s.seen = search[p].seen \cup {r} /\ s.host = search[p].host
        /\ s.expected = search[p].expected /\ s.first = search[p].first
        /\ s.pc = search[p].pc /\ s.purpose = search[p].purpose
        /\ s.device = search[p].device /\ s.found = search[p].found
    BY CliTyped DEF SearchRecords
  <2>2. SearchInv(search[p])
    BY CliTyped
  <2>3. IsFiniteSet(s.seen)
    BY <2>1, <2>2, FS_AddElement DEF SearchInv
  <2>4. s.first => search[p].seen = {}
    BY <2>1 DEF Receive
  <2> QED
    BY <1>1, <1>2, <2>1, <2>2, <2>3, <2>4 DEF SearchInv, Accepted
<1>5. CommandInv(cli[p], s, write[p].stage)
  BY CliTyped DEF CommandInv, SearchRecords
<1> QED
  BY <1>3, <1>4, <1>5, OwnSearch DEF Receive

LEMMA ItemsAreFindings ==
  ASSUME CliInv, NEW p \in Processes, NEW item \in Items(search[p])
  PROVE  item \in Findings /\ (item.encrypted => OwnSeed(item.id, item.psk))
<1>1. PICK r \in search[p].seen :
        item = [host |-> r.host, id |-> r.id, encrypted |-> r.psk # None,
                psk |-> IF r.psk = None THEN search[p].psk ELSE r.psk]
  BY DEF Items
<1>2. r \in Profiles /\ Truthful(r) /\ search[p].psk \in Seeds \cup {None}
  BY CliTyped DEF SearchRecords, SearchInv
<1> QED
  BY <1>1, <1>2 DEF Profiles, Findings, Truthful

LEMMA DiscoverEndsInv ==
  ASSUME CliInv, NEW p \in Processes, DiscoverEnds(p), UNCHANGED <<cli, write>>
  PROVE  CliInv'
<1>1. CASE EndSearch(p, "failed", None)
  BY <1>1, EndSearchInv DEF DiscoverEnds
<1>2. CASE \E item \in Candidates(search[p]) : EndSearch(p, "found", item)
  <2>1. PICK item \in Items(search[p]) : EndSearch(p, "found", item)
    BY <1>2 DEF Candidates, Matches
  <2> QED
    BY <2>1, ItemsAreFindings, EndSearchInv DEF DiscoverEnds
<1> QED
  BY <1>1, <1>2 DEF DiscoverEnds

LEMMA ListEndsInv ==
  ASSUME CliInv, NEW p \in Processes, ListEnds(p) \/ DiscoverFails(p),
         UNCHANGED <<cli, write>>
  PROVE  CliInv'
BY EndSearchInv DEF ListEnds, DiscoverFails

LEMMA WaitEndsInv ==
  ASSUME CliInv, NEW p \in Processes, WaitEnds(p), UNCHANGED <<cli, write>>
  PROVE  CliInv'
<1>1. CASE EndSearch(p, "failed", None)
  BY <1>1, EndSearchInv DEF WaitEnds
<1>2. ASSUME NEW r \in search[p].seen,
             EndSearch(p, "found", [host |-> r.host, id |-> r.id,
                                    encrypted |-> r.psk # None, psk |-> r.psk])
      PROVE  CliInv'
  <2>1. [host |-> r.host, id |-> r.id, encrypted |-> r.psk # None, psk |-> r.psk] \in Findings
    BY CliTyped DEF SearchRecords, Profiles, Findings
  <2> QED
    BY <1>2, <2>1, EndSearchInv DEF WaitEnds, Searches, Looking
<1> QED
  BY <1>1, <1>2 DEF WaitEnds

LEMMA ResolveInv ==
  ASSUME CliInv, NEW p \in Processes, Resolve(p), UNCHANGED <<cli, write>>
  PROVE  CliInv'
<1>1. CASE EndSearch(p, "failed", None)
  BY <1>1, EndSearchInv DEF Resolve
<1>2. ASSUME NEW r \in search[p].seen,
             EndSearch(p, "connected", [host |-> r.host, id |-> r.id, psk |-> r.psk,
                                        answered |-> TRUE])
      PROVE  CliInv'
  <2>1. [host |-> r.host, id |-> r.id, psk |-> r.psk, answered |-> TRUE] \in Connections
    BY CliTyped DEF SearchRecords, Profiles, Connections
  <2> QED
    BY <1>2, <2>1, EndSearchInv DEF Resolve, Looking
<1> QED
  BY <1>1, <1>2 DEF Resolve

LEMMA NoEncryptedInv ==
  ASSUME CliInv, NEW p \in Processes, NoEncrypted(p), UNCHANGED <<cli, write>>
  PROVE  CliInv'
<1> DEFINE s == [search[p] EXCEPT !.purpose = "plaintext", !.seeds = {},
                                  !.encrypted = FALSE, !.matching = FALSE]
<1>1. s \in SearchRecords /\ search' = [search EXCEPT ![p] = s]
  <2>1. search[p] \in SearchRecords
    BY CliTyped
  <2>2. s \in SearchRecords
    BY <2>1 DEF SearchRecords
  <2>3. search' = [search EXCEPT ![p] = s]
    BY DEF NoEncrypted
  <2> QED
    BY <2>2, <2>3
<1>2. SearchInv(s)
  BY CliTyped DEF SearchInv, SearchRecords, Looking
<1>3. CommandInv(cli[p], s, write[p].stage)
  BY CliTyped DEF CommandInv, SearchRecords, NoEncrypted, Searches, Saving
<1> QED
  BY <1>1, <1>2, <1>3, OwnSearch DEF NoEncrypted

LEMMA NoPlaintextInv ==
  ASSUME CliInv, NEW p \in Processes, NoPlaintext(p), UNCHANGED <<cli, write>>
  PROVE  CliInv'
<1>1. CASE EndSearch(p, "failed", None)
  BY <1>1, EndSearchInv DEF NoPlaintext
<1>2. CASE ~EndSearch(p, "failed", None)
  <2> DEFINE s == search[p]
             psk == IF s.psk # None THEN s.psk ELSE PskForDeviceId[s.device]
             connection == [host |-> s.host, id |-> s.device, psk |-> psk, answered |-> FALSE]
  <2>1. EndSearch(p, "connected", connection)
    BY <1>2 DEF NoPlaintext
  <2>2. s.host \in Hosts /\ s.device \in Cameras /\ s.psk \in Seeds \cup {None}
    BY CliTyped DEF NoPlaintext, Searches, CommandInv, Profiles
  <2>3. connection \in Connections
    BY <2>2, CamerasAssumption DEF Connections
  <2> QED
    BY <2>1, <2>3, EndSearchInv DEF NoPlaintext, Searches, Looking
<1> QED
  BY <1>1, <1>2

LEMMA SearchStepInv ==
  ASSUME CliInv, NEW p \in Processes, SearchStep(p), UNCHANGED <<cli, write>>
  PROVE  CliInv'
BY DiscoverEndsInv, ListEndsInv, WaitEndsInv, ResolveInv, NoEncryptedInv, NoPlaintextInv DEF SearchStep

(* The commands.  Only a connection searches for the camera of a profile.   *)
LEMMA NotSearching ==
  ASSUME CliInv, NEW p \in Processes, search[p].pc # "search" \/ cli[p].pc # "connect"
  PROVE  ~(search[p].pc = "search" /\ search[p].purpose \in {"encrypted", "plaintext"})
BY CliTyped DEF CommandInv

LEMMA TurnInv ==
  ASSUME CliInv, NEW p \in Processes, UNCHANGED lan,
         NEW pc \in {"discover", "write", "media", "send"}, Turn(p, pc),
         NEW s \in SearchRecords, search' = [search EXCEPT ![p] = s], SearchInv(s),
         pc \in {"write", "media", "send"} => s = search[p],
         ~(s.pc = "search" /\ s.purpose \in {"encrypted", "plaintext"}),
         \A q \in Processes \ {p} : write'[q] = write[q],
         pc = "write" \/ write'[p].stage # "idle" => cli[p].command \in Saving,
         pc = "discover" => \/ cli[p].command = "discover" /\ s.purpose \in Looking
                            \/ cli[p].command = "wait" /\ s.purpose = "wait",
         pc = "send" => cli[p].pc = "connect"
  PROVE  CliInv'
<1> DEFINE c == [cli[p] EXCEPT !.pc = pc]
<1>1. c \in CommandRecords /\ cli' = [cli EXCEPT ![p] = c]
  BY CliTyped DEF CommandRecords, Turn
<1>2. /\ c.pc = pc /\ c.command = cli[p].command /\ c.profile = cli[p].profile
      /\ c.heard = cli[p].heard /\ c.left = cli[p].left /\ c.tries = cli[p].tries
  BY CliTyped DEF CommandRecords
<1>3. CommandInv(c, s, write'[p].stage)
  BY <1>2, CliTyped DEF CommandInv, Saving
<1> QED
  BY <1>1, <1>3, CliChange

LEMMA LeaveInv ==
  ASSUME CliInv, NEW p \in Processes, UNCHANGED lan,
         NEW pc \in {"exited", "dead"}, NEW code \in {0, 2, 130}, Leave(p, pc, code),
         NEW s \in {search[p], NoSearch}, search' = [search EXCEPT ![p] = s],
         ~(s.pc = "search" /\ s.purpose \in {"encrypted", "plaintext"}),
         \A q \in Processes \ {p} : write'[q] = write[q],
         write'[p].stage # "idle" => cli[p].command \in Saving
  PROVE  CliInv'
<1> DEFINE c == [NewCommand(cli[p].command) EXCEPT !.pc = pc, !.code = code]
<1>1. c \in CommandRecords /\ cli' = [cli EXCEPT ![p] = c]
  <2>1. NewCommand(cli[p].command) \in CommandRecords
    BY CliTyped, NewTyped
  <2>2. c \in CommandRecords
    BY <2>1 DEF CommandRecords
  <2> QED
    BY <2>2 DEF Leave
<1>2. c.pc = pc /\ c.command = cli[p].command
  BY DEF NewCommand
<1>3. SearchInv(s) /\ s \in SearchRecords
  BY CliTyped, NoSearchInv
<1>4. CommandInv(c, s, write'[p].stage)
  BY <1>2, CliTyped DEF CommandInv, NoSearch, Looking
<1> QED
  BY <1>1, <1>3, <1>4, CliChange

LEMMA ExitInv ==
  ASSUME CliInv, NEW p \in Processes, UNCHANGED <<lanVars, write>>,
         NEW code \in {0, 2, 130}, Exit(p, code),
         search[p].pc # "search" \/ cli[p].pc # "connect"
  PROVE  CliInv'
<1>1. PICK real \in {0, 2, 130} : Leave(p, "exited", real)
  BY DEF Exit
<1> QED
  BY <1>1, NotSearching, LeaveInv, CliTyped DEF lanVars, CommandInv

LEMMA DiscoverInv ==
  ASSUME CliInv, NEW p \in Processes, Discover(p)
  PROVE  CliInv'
<1>1. PICK l \in Lookups, purpose \in Looking :
        StartDiscover(p, purpose, l.host, l.device, l.psk)
  BY DEF Discover
<1> DEFINE chosen == IF l.psk = None /\ l.device # None THEN PskForDeviceId[l.device] ELSE l.psk
           s == [NoSearch EXCEPT !.pc = "search", !.purpose = purpose, !.host = l.host,
                        !.device = l.device, !.psk = chosen, !.matching = (chosen = None),
                        !.seeds = IF chosen = None THEN KnownPsks ELSE {chosen}]
<1>2. /\ l.host \in Hosts \cup {None} /\ l.device \in Cameras \cup {None}
      /\ l.psk \in Seeds \cup {None}
  BY BoundsAssumption
<1>3. chosen \in Seeds \cup {None} /\ KnownPsks \in SUBSET Seeds
  BY <1>2, CamerasAssumption DEF KnownPsks
<1> HIDE DEF chosen
<1>9. (IF chosen = None THEN KnownPsks ELSE {chosen}) \in SUBSET Seeds
  BY <1>3
<1>4. s \in SearchRecords
  BY <1>2, <1>3, <1>9 DEF SearchRecords, NoSearch
<1>5. search' = [search EXCEPT ![p] = s] /\ lan' = lan
  BY <1>1 DEF StartDiscover, chosen
<1>6. SearchInv(s) /\ s.purpose \in Looking /\ s.purpose \notin {"encrypted", "plaintext"}
  BY FS_EmptySet DEF SearchInv, NoSearch, Looking
<1>7. Turn(p, "discover") /\ cli[p].command = "discover" /\ write' = write
  BY DEF Discover, Starts, fileVars
<1> HIDE DEF s
<1> QED
  BY <1>4, <1>5, <1>6, <1>7, TurnInv DEF Saving

LEMMA WaitInv ==
  ASSUME CliInv, NEW p \in Processes, Wait(p)
  PROVE  CliInv'
<1>1. PICK l \in Lookups, encrypted \in BOOLEAN :
        l.device # None /\ StartWait(p, l.host, l.device, l.psk, encrypted)
  BY DEF Wait
<1> DEFINE seeds == IF l.psk # None THEN {l.psk}
                    ELSE IF PskForDeviceId[l.device] # None
                    THEN {PskForDeviceId[l.device]} ELSE KnownPsks
           s == [NoSearch EXCEPT !.pc = "search", !.purpose = "wait", !.host = l.host,
                    !.device = l.device, !.expected = l.device, !.psk = l.psk,
                    !.encrypted = encrypted, !.matching = (l.psk = None),
                    !.first = TRUE, !.seeds = seeds]
<1>2. l.host \in Hosts \cup {None} /\ l.device \in Cameras /\ l.psk \in Seeds \cup {None}
  BY <1>1, BoundsAssumption
<1>3. seeds \in SUBSET Seeds
  BY <1>2, CamerasAssumption DEF KnownPsks
<1> HIDE DEF seeds
<1>4. s \in SearchRecords
  BY <1>2, <1>3, ZenonT(40) DEF SearchRecords, NoSearch
<1>5. search' = [search EXCEPT ![p] = s] /\ lan' = lan
  BY <1>1 DEF StartWait, seeds
<1>6. SearchInv(s) /\ s.purpose = "wait"
  BY <1>1, FS_EmptySet DEF SearchInv, NoSearch
<1>7. Turn(p, "discover") /\ cli[p].command = "wait" /\ cli[p].pc = "new" /\ write' = write
  BY DEF Wait, Starts, Doing, fileVars
<1>8. write[p].stage = "idle"
  BY <1>7, CliTyped DEF CommandInv, Saving
<1> HIDE DEF s
<1> QED
  BY <1>4, <1>5, <1>6, <1>7, <1>8, TurnInv

LEMMA BeginsWrite ==
  ASSUME FileInv, NEW p \in Processes, NEW path \in Paths, NEW overwrite \in BOOLEAN,
         BeginWrite(p, path, overwrite)
  PROVE  \A q \in Processes \ {p} : write'[q] = write[q]
BY DEF BeginWrite, FileInv, FileTypeOK

LEMMA SaveInv ==
  ASSUME CliInv, FileInv, NEW p \in Processes, Save(p) \/ ProvisionQr(p)
  PROVE  CliInv'
<1>1. \A q \in Processes \ {p} : write'[q] = write[q]
  BY BeginsWrite DEF Save, ProvisionQr
<1>2. Turn(p, "write") /\ lan' = lan /\ search' = search /\ cli[p].pc # "connect"
  BY DEF Save, ProvisionQr, Doing, Starts, lanVars
<1>3. cli[p].command \in Saving
  BY CliTyped DEF Save, ProvisionQr, Doing, Starts, CommandInv, Saving
<1> QED
  BY <1>1, <1>2, <1>3, NotSearching, CliTyped, TurnInv

LEMMA MediaBeginsInv ==
  ASSUME CliInv, NEW p \in Processes, Media(p)
  PROVE  CliInv'
<1>1. Turn(p, "media") /\ lan' = lan /\ search' = search /\ write' = write /\ cli[p].pc = "new"
  BY DEF Media, Starts, Doing, lanVars, fileVars
<1> QED
  BY <1>1, NotSearching, CliTyped, TurnInv DEF CommandInv

LEMMA EndedInv ==
  ASSUME CliInv, NEW p \in Processes,
         Discovered(p) \/ Written(p) \/ MediaOver(p) \/ DryRun(p)
  PROVE  CliInv'
<1>1. PICK code \in {0, 2, 130} : Exit(p, code)
  BY DEF Discovered, Written, MediaOver, DryRun
<1>2. UNCHANGED <<lanVars, write>> /\ cli[p].pc # "connect"
  BY DEF Discovered, Written, MediaOver, DryRun, Doing, fileVars
<1> QED
  BY <1>1, <1>2, ExitInv

(* A saved profile.                                                         *)
LEMMA SavedIsRight ==
  ASSUME CliInv, FileInv, NEW path \in Paths, file[path] \in Processes,
         search[file[path]].found # None
  PROVE  /\ SavedProfile(file[path]) \in Profiles
         /\ search[file[path]].found.encrypted \in BOOLEAN
         /\ search[file[path]].found.encrypted => RightSeed(SavedProfile(file[path]))
<1> DEFINE q == file[path]
           item == search[q].found
<1>1. q \in Processes /\ write[q].stage # "idle"
  BY DEF FileInv, PathInv
<1>2. search[q].purpose \in Looking
  BY <1>1, CliTyped DEF CommandInv
<1>3. item \in Findings /\ (item.encrypted => OwnSeed(item.id, item.psk))
  BY <1>1, <1>2, CliTyped DEF SearchInv
<1>4. SavedProfile(q) = [host |-> item.host, id |-> item.id,
                         psk |-> IF item.psk = PskForDeviceId[item.id] THEN None ELSE item.psk]
  BY DEF SavedProfile
<1> HIDE DEF item, q
<1> QED
  BY <1>3, <1>4 DEF Findings, Profiles, RightSeed, OwnSeed, item, q

LEMMA LoadInv ==
  ASSUME CliInv, FileInv, NEW p \in Processes, Load(p)
  PROVE  CliInv'
<1>1. /\ cli[p].pc = "new" /\ cli[p].command = "raw" /\ UNCHANGED <<lanVars, write>>
      /\ UNCHANGED <<search, lan>>
  BY DEF Load, Starts, Doing, fileVars, lanVars
<1>2. CASE Exit(p, 2)
  BY <1>1, <1>2, ExitInv
<1>3. CASE ~Exit(p, 2)
  <2>0. PICK path \in Paths :
          /\ file[path] \in Processes => search[file[path]].found # None
          /\ \E raw \in RawPaths, flags \in RawFlags :
               \E profile \in IF file[path] \in Processes
                             THEN {SavedProfile(file[path])} ELSE UserProfiles :
                 cli' = [cli EXCEPT ![p].pc = "gate", ![p].raw = raw, ![p].flags = flags,
                           ![p].profile = profile,
                           ![p].heard = /\ file[path] \in Processes
                                        /\ search[file[path]].found.encrypted]
    BY <1>3 DEF Load
  <2>1. PICK raw \in RawPaths, flags \in RawFlags,
             profile \in (IF file[path] \in Processes
                          THEN {SavedProfile(file[path])} ELSE UserProfiles) :
          cli' = [cli EXCEPT ![p].pc = "gate", ![p].raw = raw, ![p].flags = flags,
                          ![p].profile = profile,
                          ![p].heard = /\ file[path] \in Processes
                                       /\ search[file[path]].found.encrypted]
    BY <2>0
  <2> DEFINE heard == file[path] \in Processes /\ search[file[path]].found.encrypted
             c == [cli[p] EXCEPT !.pc = "gate", !.raw = raw, !.flags = flags,
                                 !.profile = profile, !.heard = heard]
  <2>2. profile \in Profiles /\ heard \in BOOLEAN /\ (heard => RightSeed(profile))
    BY <2>0, SavedIsRight, BoundsAssumption
  <2>3. flags \in SUBSET {"experimental", "confirm"}
    BY BoundsAssumption
  <2>4. c \in CommandRecords
    <3>1. cli[p] \in CommandRecords
      BY CliTyped
    <3> QED
      BY <2>2, <2>3, <3>1 DEF CommandRecords
  <2>5. cli' = [cli EXCEPT ![p] = c]
    BY <2>1, CliTyped
  <2>6. /\ c.pc = "gate" /\ c.command = "raw" /\ c.profile = profile /\ c.heard = heard
    BY <1>1, CliTyped DEF CommandRecords
  <2>7. CommandInv(c, search[p], write'[p].stage)
    BY <1>1, <2>2, <2>6, CliTyped DEF CommandInv, Saving
  <2> HIDE DEF c, heard
  <2> QED
    BY <1>1, <2>4, <2>5, <2>7, CliChange, CliTyped
<1> QED
  BY <1>2, <1>3

(* The connection of a raw command.                                         *)
LEMMA StartConnectInv ==
  ASSUME CliInv, NEW p \in Processes, cli[p].pc \in {"gate", "connect", "send"},
         StartConnect(p, cli[p].profile), write' = write,
         NEW c \in CommandRecords, cli' = [cli EXCEPT ![p] = c],
         c.pc = "connect", c.command = cli[p].command, c.profile = cli[p].profile,
         c.heard = cli[p].heard, c.left # 0, c.tries # 0
  PROVE  CliInv'
<1> DEFINE profile == cli[p].profile
           seeds == IF profile.psk # None THEN {profile.psk}
                    ELSE IF PskForDeviceId[profile.id] # None
                    THEN {PskForDeviceId[profile.id]} ELSE KnownPsks
           s == [NoSearch EXCEPT !.pc = "search", !.purpose = "encrypted",
                    !.host = profile.host, !.device = profile.id, !.psk = profile.psk,
                    !.encrypted = TRUE, !.matching = (profile.psk = None),
                    !.first = TRUE, !.seeds = seeds]
<1>1. /\ profile.host \in Hosts /\ profile.id \in Cameras /\ profile.psk \in Seeds \cup {None}
  BY CliTyped DEF CommandInv, Profiles
<1>2. seeds \in SUBSET Seeds
  BY <1>1, CamerasAssumption DEF KnownPsks
<1>3. search' = [search EXCEPT ![p] = s] /\ lan' = lan
  BY DEF StartConnect
<1> HIDE DEF seeds
<1>4. s \in SearchRecords
  BY <1>1, <1>2 DEF SearchRecords, NoSearch
<1>5. SearchInv(s)
  BY FS_EmptySet DEF SearchInv, NoSearch
<1>6. CommandInv(c, s, write[p].stage)
  BY CliTyped DEF CommandInv, NoSearch, Saving
<1> QED
  BY <1>3, <1>4, <1>5, <1>6, CliChange

LEMMA GateInv ==
  ASSUME CliInv, NEW p \in Processes, Gate(p)
  PROVE  CliInv'
<1>1. cli[p].pc = "gate" /\ write' = write
  BY DEF Gate, Doing, fileVars
<1>2. CASE RawVerdict(cli[p].raw, cli[p].flags, TRUE) = "refused"
  BY <1>1, <1>2, ExitInv DEF Gate
<1>3. CASE RawVerdict(cli[p].raw, cli[p].flags, TRUE) # "refused"
  <2>1. PICK left \in {1, Retries + 1} :
          cli' = [cli EXCEPT ![p].pc = "connect", ![p].raw = NoPath, ![p].flags = {},
                             ![p].left = left, ![p].tries = Retries + 1]
    BY <1>3 DEF Gate
  <2> DEFINE c == [cli[p] EXCEPT !.pc = "connect", !.raw = NoPath, !.flags = {},
                                 !.left = left, !.tries = Retries + 1]
  <2>2. left \in Nat /\ Retries + 1 \in Nat
    BY BoundsAssumption
  <2>3. c \in CommandRecords
    <3>1. cli[p] \in CommandRecords
      BY CliTyped
    <3> QED
      BY <2>2, <3>1 DEF CommandRecords
  <2>4. /\ c.pc = "connect" /\ c.command = cli[p].command /\ c.profile = cli[p].profile
        /\ c.heard = cli[p].heard /\ c.left # 0 /\ c.tries # 0
    <3>1. left # 0 /\ Retries + 1 # 0
      BY BoundsAssumption
    <3> QED
      BY <3>1, CliTyped DEF CommandRecords
  <2>5. cli' = [cli EXCEPT ![p] = c]
    BY <2>1, CliTyped
  <2>6. StartConnect(p, cli[p].profile)
    BY <1>3 DEF Gate
  <2> HIDE DEF c
  <2> QED
    BY <1>1, <2>3, <2>4, <2>5, <2>6, StartConnectInv
<1> QED
  BY <1>2, <1>3

LEMMA ConnectedInv ==
  ASSUME CliInv, NEW p \in Processes, Connected(p)
  PROVE  CliInv'
<1>1. /\ cli[p].pc = "connect" /\ search[p].pc = "connected" /\ Turn(p, "send")
      /\ write' = write /\ search' = search /\ lan' = lan
  BY DEF Connected, Doing, fileVars, lanVars
<1>2. cli[p].command = "raw"
  BY <1>1, CliTyped DEF CommandInv
<1>3. write[p].stage = "idle"
  BY <1>2, CliTyped DEF CommandInv, Saving
<1> QED
  BY <1>1, <1>3, CliTyped, TurnInv

LEMMA ConnectFailsInv ==
  ASSUME CliInv, NEW p \in Processes, ConnectFails(p)
  PROVE  CliInv'
<1>1. cli[p].pc = "connect" /\ search[p].pc # "search" /\ write' = write
  BY DEF ConnectFails, Doing, fileVars
<1>2. CASE cli[p].tries = 1
  BY <1>1, <1>2, ExitInv DEF ConnectFails
<1>3. CASE cli[p].tries # 1
  <2> DEFINE c == [cli[p] EXCEPT !.tries = @ - 1]
  <2>1. cli[p].tries \in Nat \ {0, 1} /\ cli[p].left # 0
    BY <1>1, <1>3, CliTyped DEF CommandRecords, CommandInv
  <2>2. c \in CommandRecords
    <3>1. cli[p].tries - 1 \in Nat
      BY <2>1
    <3> QED
      BY <3>1, CliTyped DEF CommandRecords
  <2>3. /\ c.pc = "connect" /\ c.command = cli[p].command /\ c.profile = cli[p].profile
        /\ c.heard = cli[p].heard /\ c.left # 0 /\ c.tries # 0
    BY <1>1, <2>1, CliTyped DEF CommandRecords
  <2>4. cli' = [cli EXCEPT ![p] = c] /\ StartConnect(p, cli[p].profile)
    BY <1>3, CliTyped DEF ConnectFails
  <2> HIDE DEF c
  <2> QED
    BY <1>1, <2>2, <2>3, <2>4, StartConnectInv
<1> QED
  BY <1>2, <1>3

LEMMA SendInv ==
  ASSUME CliInv, NEW p \in Processes, Send(p)
  PROVE  CliInv'
<1>1. cli[p].pc = "send" /\ write' = write
  BY DEF Send, Doing, fileVars
<1>2. CASE (\E code \in {0, 2} : Exit(p, code)) /\ UNCHANGED lanVars
  BY <1>1, <1>2, ExitInv
<1>3. CASE /\ cli[p].left # 1
           /\ cli' = [cli EXCEPT ![p].pc = "connect", ![p].left = @ - 1,
                                 ![p].tries = Retries + 1]
           /\ StartConnect(p, cli[p].profile)
  <2> DEFINE left == cli[p].left - 1
             c == [cli[p] EXCEPT !.pc = "connect", !.left = left, !.tries = Retries + 1]
  <2>1. cli[p] \in CommandRecords
    BY CliTyped
  <2>2. cli[p].left \in Nat \ {0, 1}
    BY <1>1, <1>3, <2>1, CliTyped DEF CommandRecords, CommandInv
  <2>3. left \in Nat \ {0} /\ Retries + 1 \in Nat \ {0}
    BY <2>2, BoundsAssumption
  <2>4. cli' = [cli EXCEPT ![p] = c]
    BY <1>3, CliTyped
  <2> HIDE DEF left
  <2>5. c \in CommandRecords
    BY <2>1, <2>3 DEF CommandRecords
  <2>6. /\ c.pc = "connect" /\ c.command = cli[p].command /\ c.profile = cli[p].profile
        /\ c.heard = cli[p].heard /\ c.left # 0 /\ c.tries # 0
    BY <2>1, <2>3 DEF CommandRecords
  <2> HIDE DEF c
  <2> QED
    BY <1>1, <1>3, <2>4, <2>5, <2>6, StartConnectInv
<1> QED
  BY <1>2, <1>3 DEF Send

(* The ends that nobody asked for.                                          *)
LEMMA Dropped ==
  ASSUME CliInv, NEW p \in Processes, DropSearch(p)
  PROVE  \E s \in {search[p], NoSearch} :
           /\ search' = [search EXCEPT ![p] = s]
           /\ ~(s.pc = "search" /\ s.purpose \in {"encrypted", "plaintext"})
<1>1. CASE cli[p].pc = "write"
  BY <1>1, NotSearching, CliTyped DEF DropSearch, Doing
<1>2. CASE cli[p].pc # "write"
  BY <1>2 DEF DropSearch, Doing, NoSearch
<1> QED
  BY <1>1, <1>2

LEMMA InterruptInv ==
  ASSUME CliInv, NEW p \in Processes, Interrupt(p)
  PROVE  CliInv'
<1>0. write' = write /\ lan' = lan
  BY DEF Interrupt, fileVars
<1>1. CASE UNCHANGED <<cli, search>>
  BY <1>0, <1>1 DEF CliInv
<1>2. CASE Leave(p, "exited", 130) /\ DropSearch(p)
  BY <1>0, <1>2, Dropped, LeaveInv, CliTyped DEF CommandInv
<1>3. CASE cli' = [cli EXCEPT ![p].interrupted = TRUE] /\ search' = search
  <2> DEFINE c == [cli[p] EXCEPT !.interrupted = TRUE]
  <2>0. cli[p] \in CommandRecords /\ cli' = [cli EXCEPT ![p] = c]
    BY <1>3, CliTyped
  <2>1. c \in CommandRecords
    BY <2>0 DEF CommandRecords
  <2>2. CommandInv(c, search[p], write'[p].stage)
    BY <1>0, CliTyped DEF CommandInv, CommandRecords
  <2> QED
    BY <1>0, <1>3, <2>0, <2>1, <2>2, CliChange, CliTyped
<1> QED
  BY <1>1, <1>2, <1>3 DEF Interrupt

LEMMA DieInv ==
  ASSUME CliInv, FileInv, NEW p \in Processes, Die(p)
  PROVE  CliInv'
<1>1. Leave(p, "dead", 0) /\ DropSearch(p) /\ lan' = lan
  BY DEF Die
<1>2. \A q \in Processes \ {p} : write'[q] = write[q]
  BY DEF Die, WriterDies, fileVars, FileInv, FileTypeOK
<1>3. write'[p].stage # "idle" => cli[p].command \in Saving
  BY CliTyped DEF Die, Doing, CommandInv, fileVars
<1> QED
  BY <1>1, <1>2, <1>3, Dropped, LeaveInv

LEMMA PowerLossInv ==
  ASSUME CliInv, FileInv, PowerLoss
  PROVE  CliInv'
<1>1. ASSUME NEW p \in Processes
      PROVE  /\ cli'[p] \in CommandRecords /\ search'[p] \in SearchRecords
             /\ SearchInv(search'[p]) /\ CommandInv(cli'[p], search'[p], write'[p].stage)
  <2> DEFINE dead == [NewCommand(cli[p].command) EXCEPT !.pc = "dead"]
  <2>1. write'[p].stage # "idle" => write[p].stage # "idle"
    BY DEF PowerLoss, FilePowerLoss
  <2>2. CASE cli[p].pc \in {"new", "exited"}
    <3>1. cli'[p] = cli[p] /\ search'[p] = search[p]
      BY <2>2 DEF PowerLoss, Doing
    <3> QED
      BY <2>1, <2>2, <3>1, CliTyped DEF CommandInv
  <2>3. CASE cli[p].pc \notin {"new", "exited"}
    <3>1. cli'[p] = dead
      BY <2>3 DEF PowerLoss
    <3>2. dead \in CommandRecords
      <4>1. NewCommand(cli[p].command) \in CommandRecords
        BY CliTyped, NewTyped
      <4> QED
        BY <4>1 DEF CommandRecords
    <3>3. dead.pc = "dead" /\ dead.command = cli[p].command
      BY DEF NewCommand
    <3>4. CASE search'[p] = NoSearch
      <4>1. CommandInv(dead, NoSearch, write'[p].stage)
        BY <2>1, <3>3, CliTyped DEF CommandInv, NoSearch, Looking
      <4> QED
        BY <3>1, <3>2, <3>4, <4>1, NoSearchInv
    <3>5. CASE search'[p] = search[p] /\ cli[p].pc # "connect"
      <4>1. CommandInv(dead, search[p], write'[p].stage)
        BY <2>1, <3>3, <3>5, NotSearching, CliTyped DEF CommandInv
      <4> QED
        BY <3>1, <3>2, <3>5, <4>1, CliTyped
    <3> QED
      BY <3>4, <3>5 DEF PowerLoss, Doing
  <2> QED
    BY <2>2, <2>3
<1>2. /\ cli' = [p \in Processes |-> cli'[p]] /\ search' = [p \in Processes |-> search'[p]]
      /\ lan' = lan
  BY DEF PowerLoss
<1>3. cli' \in [Processes -> CommandRecords] /\ search' \in [Processes -> SearchRecords]
  BY <1>1, <1>2
<1> QED
  BY <1>1, <1>2, <1>3 DEF CliInv

LEMMA MoveInv ==
  ASSUME CliInv, Move
  PROVE  CliInv'
<1>1. lan' \in [Hosts -> Cameras \cup {None}]
  BY DEF CliInv, Move, CameraMoves
<1> QED
  BY <1>1 DEF CliInv, Move, CameraMoves, fileVars

(* Only the write of a file that began goes on.                             *)
LEMMA WriteGoesOn ==
  ASSUME FileInv, NEW p \in Processes, WriteStep(p)
  PROVE  write[p].stage # "idle" /\ \A q \in Processes \ {p} : write'[q] = write[q]
BY DEF WriteStep, MakeTemporary, WriteData, Sync, Replace, Link, WriteFails, Remove,
   InStage, EndWrite, FileInv, FileTypeOK

LEMMA PartInv ==
  ASSUME CliInv, FileInv, NEW p \in Processes, PartStep(p) \/ Outside(p)
  PROVE  CliInv'
<1>0. cli' = cli
  BY DEF PartStep, Outside
<1>1. CASE WriteStep(p) /\ UNCHANGED lanVars
  <2>1. CommandInv(cli[p], search[p], write'[p].stage)
    BY <1>1, WriteGoesOn, CliTyped DEF CommandInv
  <2> QED
    BY <1>0, <1>1, <2>1, WriteGoesOn, CliChange, CliTyped DEF lanVars
<1>2. CASE UNCHANGED <<fileVars, lanVars>>
  BY <1>0, <1>2 DEF CliInv, fileVars, lanVars
<1>3. CASE SearchStep(p) /\ UNCHANGED fileVars
  BY <1>0, <1>3, SearchStepInv DEF fileVars
<1>4. CASE Receive(p) /\ UNCHANGED fileVars
  BY <1>0, <1>4, ReceiveInv DEF fileVars
<1> QED
  BY <1>1, <1>2, <1>3, <1>4 DEF PartStep, Outside

LEMMA CliStepInv == CliInv /\ FileInv /\ [Next]_vars => CliInv'
<1> SUFFICES ASSUME CliInv, FileInv, [Next]_vars PROVE CliInv'
  OBVIOUS
<1>1. ASSUME NEW p \in Processes,
             Discover(p) \/ Wait(p) \/ ProvisionQr(p) \/ Save(p) \/ Media(p) \/ Load(p)
      PROVE  CliInv'
  BY <1>1, DiscoverInv, WaitInv, SaveInv, MediaBeginsInv, LoadInv
<1>2. ASSUME NEW p \in Processes, CommandStep(p)
      PROVE  CliInv'
  BY <1>2, PartInv, SaveInv, EndedInv, GateInv, ConnectedInv, ConnectFailsInv, SendInv
  DEF CommandStep
<1>3. ASSUME NEW p \in Processes, Outside(p) \/ Interrupt(p) \/ Die(p)
      PROVE  CliInv'
  BY <1>3, PartInv, InterruptInv, DieInv
<1>4. CASE PowerLoss \/ Move
  BY <1>4, PowerLossInv, MoveInv
<1>5. CASE UNCHANGED vars
  BY <1>5 DEF vars, lanVars, fileVars, CliInv
<1> QED
  BY <1>1, <1>2, <1>3, <1>4, <1>5 DEF Next

LEMMA CliInvHolds == Spec => [](CliInv /\ FileInv)
<1>1. Spec => []FileInv
  BY ImplementsItsParts, FileInvHolds, PTL
<1> QED
  BY <1>1, CliInitInv, CliStepInv, PTL DEF Spec

(* A raw command passes the gate only at Gate.                              *)
LEMMA Passes ==
  ASSUME CliInv, [Next]_vars, NEW p \in Processes, cli[p].pc = "gate",
         cli'[p].pc = "connect"
  PROVE  Gate(p)
<1>1. cli' # cli
  OBVIOUS
<1>2. PICK q \in Processes :
        \/ Discover(q) \/ Wait(q) \/ ProvisionQr(q) \/ Media(q) \/ Load(q) \/ Save(q)
        \/ Discovered(q) \/ Written(q) \/ MediaOver(q) \/ DryRun(q) \/ Gate(q)
        \/ Connected(q) \/ ConnectFails(q) \/ Send(q) \/ Interrupt(q) \/ Die(q)
  <2>1. ~PowerLoss
    BY ZenonT(40) DEF PowerLoss, NewCommand
  <2> QED
    BY <1>1, <2>1 DEF Next, vars, CommandStep, PartStep, Outside, Move
<1>3. \A pc, code : ~(cli' = [cli EXCEPT ![p] = [NewCommand(cli[p].command) EXCEPT
                                !.pc = pc, !.code = code]] /\ pc # "connect")
  BY DEF CliInv, NewCommand
<1>4. q = p
  <2> SUFFICES ASSUME q # p PROVE cli'[p] = cli[p]
    OBVIOUS
  <2>1. CASE Discover(q) \/ Wait(q) \/ ProvisionQr(q) \/ Media(q) \/ Save(q) \/ Connected(q)
    BY <2>1 DEF Discover, Wait, ProvisionQr, Media, Save, Connected, Turn, CliInv
  <2>2. CASE Discovered(q) \/ Written(q) \/ MediaOver(q) \/ DryRun(q) \/ Die(q)
    BY <2>2 DEF Discovered, Written, MediaOver, DryRun, Die, Exit, Leave, CliInv
  <2>6. CASE Interrupt(q)
    <3>1. \/ cli' = cli \/ Leave(q, "exited", 130)
          \/ cli' = [cli EXCEPT ![q].interrupted = TRUE]
      BY <2>6 DEF Interrupt
    <3> QED
      BY <3>1 DEF Leave, CliInv
  <2>3. CASE Load(q)
    <3>1. CASE Exit(q, 2)
      BY <3>1 DEF Exit, Leave, CliInv
    <3>2. CASE ~Exit(q, 2)
      <4>1. PICK path \in Paths :
              \E raw \in RawPaths, flags \in RawFlags :
                \E profile \in IF file[path] \in Processes
                              THEN {SavedProfile(file[path])} ELSE UserProfiles :
                  cli' = [cli EXCEPT ![q].pc = "gate", ![q].raw = raw, ![q].flags = flags,
                            ![q].profile = profile,
                            ![q].heard = /\ file[path] \in Processes
                                         /\ search[file[path]].found.encrypted]
        BY <2>3, <3>2 DEF Load
      <4> QED
        BY <4>1 DEF CliInv
    <3> QED
      BY <3>1, <3>2
  <2>4. CASE Gate(q)
    BY <2>4 DEF Gate, Exit, Leave, CliInv
  <2>5. CASE ConnectFails(q) \/ Send(q)
    BY <2>5 DEF ConnectFails, Send, Exit, Leave, CliInv
  <2> QED
    BY <1>2, <2>1, <2>2, <2>3, <2>4, <2>5, <2>6
<1>5. ~(\E pc \in {"exited", "dead"}, code \in {0, 2, 130} : Leave(p, pc, code))
  BY <1>3 DEF Leave
<1> QED
  BY <1>2, <1>4, <1>5
  DEF Discover, Wait, ProvisionQr, Media, Load, Save, Discovered, Written, MediaOver, DryRun,
      Connected, ConnectFails, Send, Interrupt, Die, Starts, Doing, Exit

(* No raw command sends a path that does what a protected write does, nor   *)
(* repeats one that is not known to be repeatable, for any catalog that     *)
(* keeps to SeparateAssumption.                                             *)
THEOREM ProtectedWritesStayClosed == Spec => PolicyIsKept
<1>1. ASSUME CliInv, [Next]_vars, NEW p \in Processes, Doing(p, "gate"),
             cli'[p].pc = "connect"
      PROVE  /\ \A c \in Catalog : Protected(c) => ~Carries(cli[p].raw, c)
             /\ cli'[p].left > 1 =>
                  \E c \in Catalog : Carries(cli[p].raw, c) /\ c.retry_policy = "retryable"
  <2> DEFINE verdict == RawVerdict(cli[p].raw, cli[p].flags, TRUE)
  <2>1. Gate(p)
    BY <1>1, Passes DEF Doing
  <2>2. verdict # "refused"
    <3> SUFFICES ASSUME verdict = "refused" PROVE FALSE
      OBVIOUS
    <3>1. \E code : Leave(p, "exited", code)
      BY <2>1 DEF Gate, Exit
    <3>2. cli'[p].pc = "exited"
      BY <1>1, <3>1 DEF Leave, NewCommand, CliInv
    <3> QED
      BY <1>1, <3>2
  <2>3. "recovery_ready" \notin cli[p].flags
    BY <1>1, CliTyped DEF CommandRecords
  <2>4. verdict = "once" => cli'[p].left = 1
    <3>1. verdict = "once" =>
            cli' = [cli EXCEPT ![p].pc = "connect", ![p].raw = NoPath, ![p].flags = {},
                               ![p].left = 1, ![p].tries = Retries + 1]
      BY <2>1, <2>2 DEF Gate
    <3> QED
      BY <1>1, <3>1 DEF CliInv, CommandRecords
  <2>5. cli'[p].left > 1 => verdict \notin {"refused", "once"}
    <3>1. ~(1 > 1)
      OBVIOUS
    <3> HIDE DEF verdict
    <3> QED
      BY <2>2, <2>4, <3>1
  <2>6. \A c \in Catalog : Protected(c) => ~Carries(cli[p].raw, c)
    BY <2>2, <2>3, ProtectedIsRefused
  <2> QED
    BY <2>5, <2>6, RetriedIsRetryable
<1>2. CliInv /\ [Next]_vars =>
        [\A p \in Processes : Doing(p, "gate") /\ cli'[p].pc = "connect" =>
           /\ \A c \in Catalog : Protected(c) => ~Carries(cli[p].raw, c)
           /\ cli'[p].left > 1 =>
                \E c \in Catalog : Carries(cli[p].raw, c) /\ c.retry_policy = "retryable"]_vars
  BY <1>1
<1> QED
  BY <1>2, CliInvHolds, PTL DEF Spec, PolicyIsKept

(* A search of one process ends by its own step.                            *)
LEMMA SearchEnds ==
  ASSUME CliInv, [Next]_vars, NEW p \in Processes, search[p].pc = "search",
         search'[p].pc \in {"found", "connected"}
  PROVE  SearchStep(p)
<1>1. PICK q \in Processes :
        \/ SearchStep(q) \/ Receive(q) \/ DropSearch(q)
        \/ \E profile : StartConnect(q, profile)
        \/ \E purpose, host, device, psk : StartDiscover(q, purpose, host, device, psk)
        \/ \E host, device, psk, encrypted : StartWait(q, host, device, psk, encrypted)
  <2>1. search' # search
    OBVIOUS
  <2>2. ~PowerLoss
    BY DEF PowerLoss, NoSearch
  <2>3. PICK q \in Processes :
          \/ PartStep(q) \/ Outside(q) \/ Interrupt(q) \/ Die(q) \/ Discover(q) \/ Wait(q)
          \/ Gate(q) \/ ConnectFails(q) \/ Send(q)
    BY <2>1, <2>2
    DEF Next, vars, lanVars, CommandStep, Move, CameraMoves, ProvisionQr, Media, Load, Save,
        Discovered, Written, MediaOver, DryRun, Connected
  <2>4. CASE PartStep(q) \/ Outside(q) \/ Interrupt(q) \/ Die(q)
    BY <2>1, <2>4 DEF PartStep, Outside, Interrupt, Die, lanVars
  <2>5. CASE Discover(q)
    BY <2>5 DEF Discover
  <2>6. CASE Wait(q)
    BY <2>6 DEF Wait
  <2>7. CASE Gate(q) \/ ConnectFails(q) \/ Send(q)
    BY <2>1, <2>7 DEF Gate, ConnectFails, Send, lanVars
  <2> QED
    BY <2>3, <2>4, <2>5, <2>6, <2>7
<1>2. CASE Receive(q)
  BY <1>2 DEF Receive, CliInv, SearchRecords
<1>3. CASE DropSearch(q)
  BY <1>3 DEF DropSearch, NoSearch, CliInv
<1>4. CASE \E profile : StartConnect(q, profile)
  BY <1>4 DEF StartConnect, NoSearch, CliInv
<1>5. CASE \E purpose, host, device, psk : StartDiscover(q, purpose, host, device, psk)
  BY <1>5 DEF StartDiscover, NoSearch, CliInv
<1>6. CASE \E host, device, psk, encrypted : StartWait(q, host, device, psk, encrypted)
  BY <1>6 DEF StartWait, NoSearch, CliInv
<1>7. ASSUME SearchStep(q), q # p PROVE search'[p] = search[p]
  BY <1>7 DEF SearchStep, DiscoverEnds, ListEnds, DiscoverFails, WaitEnds, Resolve, NoEncrypted, NoPlaintext, EndSearch,
     CliInv
<1> QED
  BY <1>1, <1>2, <1>3, <1>4, <1>5, <1>6, <1>7

LEMMA SearchesOn ==
  ASSUME CliInv, NEW p \in Processes, NoEncrypted(p)
  PROVE  search'[p].pc = "search"
<1> DEFINE s == [search[p] EXCEPT !.purpose = "plaintext", !.seeds = {},
                                  !.encrypted = FALSE, !.matching = FALSE]
<1>1. search' = [search EXCEPT ![p] = s]
  BY CliTyped DEF NoEncrypted
<1>2. s.pc = "search"
  BY CliTyped DEF NoEncrypted, Searches, SearchRecords
<1> QED
  BY <1>1, <1>2 DEF CliInv

(* What a connection is made with.                                          *)
ToTheProfile(p, c) ==
  /\ c.host = cli[p].profile.host /\ c.id = cli[p].profile.id
  /\ c.answered \/ cli[p].heard =>
       \/ c.psk # None /\ c.psk = SeedOf[c.id]
       \/ c.psk = None /\ c.id \in InTheClear

LEMMA ConnectsToProfile ==
  ASSUME CliInv, NEW p \in Processes, SearchStep(p), search'[p].pc = "connected"
  PROVE  ToTheProfile(p, search'[p].found)
<1> DEFINE s == search[p]
<1>0. \A pc, found : EndSearch(p, pc, found) =>
        search'[p].pc = pc /\ search'[p].found = found
  BY DEF EndSearch, NoSearch, CliInv
<1>1. ~DiscoverEnds(p) /\ ~ListEnds(p) /\ ~DiscoverFails(p) /\ ~WaitEnds(p)
  <2>1. DiscoverEnds(p) \/ ListEnds(p) \/ DiscoverFails(p) \/ WaitEnds(p) =>
          \E pc \in {"found", "listed", "failed"} : \E found : EndSearch(p, pc, found)
    BY DEF DiscoverEnds, ListEnds, DiscoverFails, WaitEnds
  <2> QED
    BY <1>0, <2>1
<1>2. ~NoEncrypted(p)
  BY SearchesOn
<1>3. CASE Resolve(p)
  <2>1. PICK r \in s.seen :
          /\ r.id = s.device
          /\ EndSearch(p, "connected", [host |-> r.host, id |-> r.id, psk |-> r.psk,
                                        answered |-> TRUE])
    <3>1. PICK r \in s.seen :
            IF r.id # s.device THEN EndSearch(p, "failed", None)
            ELSE EndSearch(p, "connected", [host |-> r.host, id |-> r.id, psk |-> r.psk,
                                            answered |-> TRUE])
      BY <1>3 DEF Resolve
    <3>2. ~EndSearch(p, "failed", None)
      BY <1>0
    <3> QED
      BY <3>1, <3>2
  <2>2. /\ cli[p].pc = "connect" /\ s.host = cli[p].profile.host
        /\ s.device = cli[p].profile.id /\ s.host # None
    BY <1>3, CliTyped, CamerasAssumption DEF Resolve, CommandInv, Profiles
  <2>3. Truthful(r) /\ s.host \in {None, r.host}
    BY <2>1, CliTyped DEF SearchInv
  <2> QED
    BY <1>0, <2>1, <2>2, <2>3 DEF ToTheProfile, Truthful, OwnSeed
<1>4. CASE NoPlaintext(p)
  <2> DEFINE psk == IF s.psk # None THEN s.psk ELSE PskForDeviceId[s.device]
             connection == [host |-> s.host, id |-> s.device, psk |-> psk, answered |-> FALSE]
  <2>1. EndSearch(p, "connected", connection)
    BY <1>0, <1>4 DEF NoPlaintext
  <2>2. /\ cli[p].pc = "connect" /\ s.host = cli[p].profile.host
        /\ s.device = cli[p].profile.id /\ s.psk = cli[p].profile.psk
        /\ cli[p].heard => RightSeed(cli[p].profile)
    BY <1>4, CliTyped DEF NoPlaintext, Searches, CommandInv
  <2>3. search'[p].found = connection
    BY <1>0, <2>1
  <2> QED
    BY <2>2, <2>3 DEF ToTheProfile, RightSeed, OwnSeed
<1> QED
  BY <1>1, <1>2, <1>3, <1>4 DEF SearchStep

(* Every connection is to the camera of the profile, with its own seed if   *)
(* the camera was ever heard of, wherever cameras move.                     *)
THEOREM ConnectionsAreToTheProfile == Spec => ConnectionIsToTheProfile
<1>1. CliInv /\ [Next]_vars =>
        [\A p \in Processes : search[p].pc = "search" /\ search'[p].pc = "connected" =>
           LET c == search'[p].found
           IN  /\ c.host = cli[p].profile.host /\ c.id = cli[p].profile.id
               /\ c.answered \/ cli[p].heard =>
                    \/ c.psk # None /\ c.psk = SeedOf[c.id]
                    \/ c.psk = None /\ c.id \in InTheClear]_vars
  BY SearchEnds, ConnectsToProfile DEF ToTheProfile
<1> QED
  BY <1>1, CliInvHolds, PTL DEF Spec, ConnectionIsToTheProfile

LEMMA OnlyElement ==
  ASSUME NEW S, IsFiniteSet(S), Cardinality(S) = 1, NEW x \in S, NEW y \in S
  PROVE  x = y
BY FS_Singleton

LEMMA FiniteImage ==
  ASSUME NEW S, IsFiniteSet(S), NEW T, NEW f \in [S -> T],
         \A t \in T : \E x \in S : f[x] = t
  PROVE  IsFiniteSet(T)
<1>1. f \in Surjection(S, T)
  BY DEF Surjection
<1> QED
  BY <1>1, FS_Surjection

LEMMA FiniteParts ==
  ASSUME CliInv, NEW p \in Processes
  PROVE  /\ IsFiniteSet({i.id : i \in Matches(search[p])})
         /\ IsFiniteSet({i.host : i \in Matches(search[p])})
<1> DEFINE s == search[p]
           ids == {r.id : r \in s.seen}
           hosts == {r.host : r \in s.seen}
<1>1. IsFiniteSet(s.seen)
  BY CliTyped DEF SearchInv
<1>2. IsFiniteSet(ids)
  <2> DEFINE f == [r \in s.seen |-> r.id]
  <2>1. f \in [s.seen -> ids] /\ \A t \in ids : \E r \in s.seen : f[r] = t
    OBVIOUS
  <2> HIDE DEF ids, f
  <2> QED
    BY <1>1, <2>1, FiniteImage
<1>3. IsFiniteSet(hosts)
  <2> DEFINE f == [r \in s.seen |-> r.host]
  <2>1. f \in [s.seen -> hosts] /\ \A t \in hosts : \E r \in s.seen : f[r] = t
    OBVIOUS
  <2> HIDE DEF hosts, f
  <2> QED
    BY <1>1, <2>1, FiniteImage
<1>4. /\ {i.id : i \in Matches(s)} \in SUBSET ids
      /\ {i.host : i \in Matches(s)} \in SUBSET hosts
  BY DEF Matches, Items
<1> QED
  BY <1>2, <1>3, <1>4, FS_Subset

LEMMA FindsUnambiguously ==
  ASSUME CliInv, NEW p \in Processes, SearchStep(p), search'[p].pc = "found",
         search[p].pc = "search"
  PROVE  LET s     == search[p]
             found == search'[p].found
             heard == {r \in s.seen : r.id = found.id}
         IN  /\ {r.host : r \in heard} = {found.host}
             /\ s.device \in {None, found.id}
             /\ s.device = None => heard = s.seen
             /\ found.encrypted <=> \E r \in heard : r.psk # None
<1> DEFINE s     == search[p]
           found == search'[p].found
           heard == {r \in s.seen : r.id = found.id}
<1>0. \A pc, item : EndSearch(p, pc, item) =>
        search'[p].pc = pc /\ search'[p].found = item
  BY DEF EndSearch, NoSearch, CliInv
<1>1. ~Resolve(p) /\ ~NoPlaintext(p) /\ ~ListEnds(p) /\ ~DiscoverFails(p)
  <2>1. Resolve(p) \/ NoPlaintext(p) \/ ListEnds(p) \/ DiscoverFails(p) =>
          \E pc \in {"connected", "listed", "failed"} : \E item : EndSearch(p, pc, item)
    BY DEF Resolve, NoPlaintext, ListEnds, DiscoverFails
  <2> QED
    BY <1>0, <2>1
<1>2. ~NoEncrypted(p)
  BY SearchesOn
<1>3. CASE WaitEnds(p)
  <2>1. PICK r \in s.seen :
          found = [host |-> r.host, id |-> r.id, encrypted |-> r.psk # None, psk |-> r.psk]
    <3>1. ~EndSearch(p, "failed", None)
      BY <1>0
    <3>2. PICK r \in s.seen :
            EndSearch(p, "found", [host |-> r.host, id |-> r.id,
                                   encrypted |-> r.psk # None, psk |-> r.psk])
      BY <1>3, <3>1 DEF WaitEnds
    <3> QED
      BY <1>0, <3>2
  <2>2. /\ s.device # None /\ s.expected = s.device /\ s.expected \in {None, r.id}
        /\ \A q \in s.seen : q = r
    BY <1>3, CliTyped DEF WaitEnds, Searches, SearchInv
  <2>3. heard = {r}
    BY <2>1, <2>2
  <2>4. found.host = r.host /\ found.id = r.id /\ found.encrypted = (r.psk # None)
    BY <2>1
  <2>5. found.encrypted <=> r.psk # None
    BY <2>4, Zenon
  <2>6. {x.host : x \in heard} = {found.host}
    BY <2>3, <2>4
  <2>7. s.device \in {None, found.id}
    BY <2>2, <2>4
  <2>8. found.encrypted <=> \E x \in heard : x.psk # None
    BY <2>3, <2>5
  <2> QED
    BY <2>2, <2>6, <2>7, <2>8
<1>4. CASE DiscoverEnds(p)
  <2>1. found \in Candidates(s) /\ Unambiguous(s)
    BY <1>0, <1>4 DEF DiscoverEnds
  <2> DEFINE ItemOf(r) == [host |-> r.host, id |-> r.id, encrypted |-> r.psk # None,
                           psk |-> IF r.psk = None THEN s.psk ELSE r.psk]
  <2>2. found \in Matches(s)
    BY <2>1 DEF Candidates
  <2>3. PICK r \in s.seen : found = ItemOf(r)
    BY <2>2 DEF Matches, Items
  <2>4. s.device \in {None, found.id}
    BY <2>2 DEF Matches
  <2>5. \A i \in Matches(s) : i.id = found.id /\ i.host = found.host
    <3> DEFINE ids == {i.id : i \in Matches(s)}
               hosts == {i.host : i \in Matches(s)}
    <3>1. IsFiniteSet(ids) /\ IsFiniteSet(hosts)
      BY FiniteParts
    <3>2. Cardinality(ids) = 1 /\ Cardinality(hosts) = 1
      BY <2>1 DEF Unambiguous
    <3>3. \A i \in Matches(s) : i.id \in ids /\ i.host \in hosts
      OBVIOUS
    <3> HIDE DEF ids, hosts
    <3> QED
      BY <2>2, <3>1, <3>2, <3>3, OnlyElement
  <2>6. ASSUME NEW q \in s.seen, s.device \in {None, q.id}
        PROVE  \E i \in Matches(s) :
                 i.host = q.host /\ i.id = q.id /\ (q.psk # None => i.encrypted)
    <3>1. PICK o \in s.seen :
            /\ o.host = q.host /\ o.id = q.id /\ (q.psk # None => o.psk # None)
            /\ o.psk = None =>
                 ~\E e \in s.seen : e.host = o.host /\ e.id = o.id /\ e.psk # None
      OBVIOUS
    <3>2. ItemOf(o) \in Items(s)
      BY <3>1 DEF Items
    <3>3. ItemOf(o) \in Matches(s)
      BY <2>6, <3>1, <3>2 DEF Matches
    <3> QED
      BY <3>1, <3>3
  <2>7. {q.host : q \in heard} = {found.host}
    BY <2>3, <2>4, <2>5, <2>6
  <2>8. s.device = None => heard = s.seen
    BY <2>5, <2>6
  <2>9. found.encrypted <=> \E q \in heard : q.psk # None
    <3>1. found.encrypted => \E q \in heard : q.psk # None
      <4>1. found.encrypted = (r.psk # None) /\ found.id = r.id
        BY <2>3
      <4>2. found.encrypted => r.psk # None
        BY <4>1, Zenon
      <4> QED
        BY <4>1, <4>2
    <3>2. ASSUME NEW q \in heard, q.psk # None PROVE found.encrypted
      <4>1. PICK i \in Matches(s) : i.encrypted
        BY <2>4, <2>6, <3>2
      <4> QED
        BY <2>1, <4>1 DEF Candidates
    <3> QED
      BY <3>1, <3>2
  <2> QED
    BY <2>4, <2>7, <2>8, <2>9
<1> QED
  BY <1>1, <1>2, <1>3, <1>4 DEF SearchStep

(* What is found is what was asked for, and from one address, whatever was  *)
(* lost and wherever cameras move.                                          *)
THEOREM FindingsAreUnambiguous == Spec => FoundIsUnambiguous
<1>1. CliInv /\ [Next]_vars =>
        [\A p \in Processes : search[p].pc = "search" /\ search'[p].pc = "found" =>
           LET s     == search[p]
               found == search'[p].found
               heard == {r \in s.seen : r.id = found.id}
           IN  /\ {r.host : r \in heard} = {found.host}
               /\ s.device \in {None, found.id}
               /\ s.device = None => heard = s.seen
               /\ found.encrypted <=> \E r \in heard : r.psk # None]_lanVars
  BY SearchEnds, FindsUnambiguously
<1> QED
  BY <1>1, CliInvHolds, PTL DEF Spec, FoundIsUnambiguous
=============================================================================
