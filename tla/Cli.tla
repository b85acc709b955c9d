--------------------------------- MODULE Cli ---------------------------------
(***************************************************************************)
(* The command-line tool (cli.py): commands of several processes that      *)
(* share a directory and a network.  A process discovers a camera and      *)
(* saves its profile, writes a QR image, runs a media tool, or sends a raw *)
(* command to the camera of a saved profile.  It ends with exit status 0,  *)
(* 2 (an error) or 130 (interrupted), unless it is killed.                 *)
(*                                                                         *)
(* What a session with the camera does is the business of the modules of   *)
(* the library; here a request is answered or not.                         *)
(***************************************************************************)
EXTENDS PrivateFile, MediaProcess, Discovery, CommandGate

CONSTANTS
  Retries,     (* config.retries                                           *)
  Scenarios,   (* bound: the command of each process, what its paths may   *)
               (* name and where cameras may be before, and how often they *)
               (* change addresses                                         *)
  RawPaths,    (* inputs: the raw paths given                              *)
  RawFlags,    (* inputs: sets of their options                            *)
  Lookups,     (* inputs: host, device_id and psk given to discover        *)
  UserProfiles (* inputs: what profiles that were there before say         *)

Commands == {"none", "discover", "wait", "qr", "raw"} \cup Kinds

ASSUME BoundsAssumption ==
  /\ Retries \in Nat
  /\ Scenarios \subseteq [commands : [Processes -> Commands],
                          before : SUBSET {Absent, Original, Symlink},
                          at : SUBSET [Hosts -> Cameras \cup {None}], moves : Nat]
  /\ RawFlags \subseteq SUBSET {"experimental", "confirm"}
  /\ Lookups \subseteq [host : Hosts \cup {None}, device : Cameras \cup {None},
                       psk : Seeds \cup {None}]
  /\ UserProfiles \subseteq Profiles

VARIABLES
  cli,         (* the command of each process                              *)
  moves        (* how often cameras may still change addresses             *)

vars == <<fileVars, mediaVars, lanVars, cli, moves>>

NoPath == [endpoint |-> "", fields |-> <<>>, duplicated |-> FALSE]

NewCommand(command) ==
  [pc |-> "new", command |-> command, code |-> 0, interrupted |-> FALSE,
   raw |-> NoPath, flags |-> {}, left |-> 0, tries |-> 0, profile |-> None,
   heard |-> FALSE]

Used(commands) == \E p \in Processes : cli[p].command \in commands

(* A recording that no command looks at is left out.                        *)
Init ==
  /\ FileInit /\ MediaInit /\ DiscoveryInit
  /\ \E scenario \in Scenarios :
       /\ cli = [p \in Processes |-> NewCommand(scenario.commands[p])]
       /\ \A path \in Paths : file[path] \in scenario.before
       /\ lan \in scenario.at
       /\ moves = scenario.moves
  /\ Used(Kinds) \/ \A path \in Clips : clip[path] = NoClip

Doing(p, pc) == cli[p].pc = pc

Starts(p, command) == Doing(p, "new") /\ cli[p].command = command

Turn(p, pc) == cli' = [cli EXCEPT ![p].pc = pc]

Leave(p, pc, code) ==
  cli' = [cli EXCEPT ![p] = [NewCommand(cli[p].command) EXCEPT !.pc = pc, !.code = code]]

(* asyncio.run turns the cancellation of an interrupted command into 130,   *)
(* however the command ends after it.                                       *)
Exit(p, code) == Leave(p, "exited", IF cli[p].interrupted THEN 130 ELSE code)

(* A search in a thread that nobody awaits any more comes to nothing.       *)
DropSearch(p) ==
  search' = [search EXCEPT ![p] = IF Doing(p, "write") THEN @ ELSE NoSearch]

-----------------------------------------------------------------------------
(* discover: with --save-config it saves the camera it finds as a new       *)
(* profile, with a device ID it shows that camera, otherwise it lists all.  *)
Discover(p) ==
  /\ Starts(p, "discover")
  /\ \E l \in Lookups, purpose \in Looking :
       /\ purpose = "select" => l.device # None
       /\ purpose = "list" => l.device = None
       /\ StartDiscover(p, purpose, l.host, l.device, l.psk)
  /\ Turn(p, "discover")
  /\ UNCHANGED <<fileVars, mediaVars, moves>>

(* A script that calls wait_for_camera_on_lan.                              *)
Wait(p) ==
  /\ Starts(p, "wait")
  /\ \E l \in Lookups, encrypted \in BOOLEAN :
       l.device # None /\ StartWait(p, l.host, l.device, l.psk, encrypted)
  /\ Turn(p, "discover")
  /\ UNCHANGED <<fileVars, mediaVars, moves>>

Discovered(p) ==
  /\ Doing(p, "discover")
  /\ \/ search[p].pc \in {"found", "listed"} /\ search[p].purpose # "save" /\ Exit(p, 0)
     \/ search[p].pc = "failed" /\ Exit(p, 2)
  /\ UNCHANGED <<fileVars, mediaVars, lanVars, moves>>

Save(p) ==
  /\ Doing(p, "discover") /\ search[p].pc = "found" /\ search[p].purpose = "save"
  /\ \E path \in Paths : BeginWrite(p, path, FALSE)
  /\ Turn(p, "write")
  /\ UNCHANGED <<mediaVars, lanVars, moves>>

(* provision qr.                                                            *)
ProvisionQr(p) ==
  /\ Starts(p, "qr")
  /\ \E path \in Paths, overwrite \in BOOLEAN : BeginWrite(p, path, overwrite)
  /\ Turn(p, "write")
  /\ UNCHANGED <<mediaVars, lanVars, moves>>

Written(p) ==
  /\ Doing(p, "write") /\ InStage(p, "done")
  /\ Exit(p, IF write[p].outcome = "saved" THEN 0 ELSE 2)
  /\ UNCHANGED <<fileVars, mediaVars, lanVars, moves>>

(* stream and audio.                                                        *)
Media(p) ==
  /\ \E kind \in Kinds, path \in Clips, overwrite \in BOOLEAN :
       /\ Starts(p, kind)
       /\ kind \notin Writing => ~overwrite
       /\ BeginMedia(p, kind, path, overwrite)
  /\ Turn(p, "media")
  /\ UNCHANGED <<fileVars, lanVars, moves>>

MediaOver(p) ==
  /\ Doing(p, "media") /\ AtPc(p, "ended")
  /\ \E code \in {0, 2, 130} :
       /\ code = 0 => media[p].error \in {"none", "closed"}
       /\ code = 130 <=> media[p].error = "cancelled"
       /\ media[p].error = "none" => code = 0
       /\ Exit(p, code)
  /\ UNCHANGED <<fileVars, mediaVars, lanVars, moves>>

-----------------------------------------------------------------------------
(* raw, with the profile at a path; what is there may be no profile, and    *)
(* one that the user wrote may name any camera.                             *)
Load(p) ==
  /\ Starts(p, "raw")
  /\ \E path \in Paths :
       IF \/ file[path] = Absent
          \/ file[path] \in Processes /\ search[file[path]].found = None
       THEN Exit(p, 2)
       ELSE \E raw \in RawPaths, flags \in RawFlags :
              \E profile \in IF file[path] \in Processes
                            THEN {SavedProfile(file[path])} ELSE UserProfiles :
                cli' = [cli EXCEPT ![p].pc = "gate", ![p].raw = raw, ![p].flags = flags,
                          ![p].profile = profile,
                          ![p].heard = /\ file[path] \in Processes
                                       /\ search[file[path]].found.encrypted]
  /\ UNCHANGED <<fileVars, mediaVars, lanVars, moves>>

(* --dry-run prints the request.                                            *)
DryRun(p) ==
  /\ Doing(p, "gate")
  /\ Exit(p, 0)
  /\ UNCHANGED <<fileVars, mediaVars, lanVars, moves>>

Gate(p) ==
  /\ Doing(p, "gate")
  /\ LET verdict == RawVerdict(cli[p].raw, cli[p].flags, TRUE)
     IN  IF verdict = "refused" THEN Exit(p, 2) /\ UNCHANGED lanVars
         ELSE /\ cli' = [cli EXCEPT ![p].pc = "connect", ![p].raw = NoPath, ![p].flags = {},
                          ![p].left = IF verdict = "once" THEN 1 ELSE Retries + 1,
                          ![p].tries = Retries + 1]
              /\ StartConnect(p, cli[p].profile)
  /\ UNCHANGED <<fileVars, mediaVars, moves>>

Connected(p) ==
  /\ Doing(p, "connect") /\ search[p].pc = "connected"
  /\ Turn(p, "send")
  /\ UNCHANGED <<fileVars, mediaVars, lanVars, moves>>

(* The camera is not resolved, or the session with it does not open.        *)
ConnectFails(p) ==
  /\ Doing(p, "connect") /\ search[p].pc \in {"connected", "failed"}
  /\ IF cli[p].tries = 1 THEN Exit(p, 2) /\ UNCHANGED lanVars
     ELSE /\ cli' = [cli EXCEPT ![p].tries = @ - 1]
          /\ StartConnect(p, cli[p].profile)
  /\ UNCHANGED <<fileVars, mediaVars, moves>>

(* A request is answered or not; one that may be repeated is, over a new    *)
(* connection.                                                              *)
Send(p) ==
  /\ Doing(p, "send")
  /\ \/ Exit(p, 0) /\ UNCHANGED lanVars
     \/ IF cli[p].left = 1 THEN Exit(p, 2) /\ UNCHANGED lanVars
        ELSE /\ cli' = [cli EXCEPT ![p].pc = "connect", ![p].left = @ - 1,
                                   ![p].tries = Retries + 1]
             /\ StartConnect(p, cli[p].profile)
  /\ UNCHANGED <<fileVars, mediaVars, moves>>

-----------------------------------------------------------------------------
(* Ctrl-C cancels the command where it awaits; a file is written without an *)
(* await.                                                                   *)
Interrupt(p) ==
  /\ \/ /\ Doing(p, "media") /\ CancelMedia(p)
        /\ UNCHANGED <<cli, search>>
     \/ /\ cli[p].pc \in {"discover", "connect", "send"}
        /\ Leave(p, "exited", 130)
        /\ DropSearch(p)
        /\ UNCHANGED mediaVars
     \/ /\ Doing(p, "write")
        /\ cli' = [cli EXCEPT ![p].interrupted = TRUE]
        /\ UNCHANGED <<mediaVars, search>>
  /\ UNCHANGED <<fileVars, lan, moves>>

(* The process is killed.                                                   *)
Die(p) ==
  /\ cli[p].pc \notin {"new", "exited", "dead"}
  /\ Leave(p, "dead", 0)
  /\ DropSearch(p)
  /\ IF Doing(p, "write") THEN WriterDies(p) ELSE UNCHANGED fileVars
  /\ IF Doing(p, "media") THEN MediaDies(p) ELSE UNCHANGED mediaVars
  /\ UNCHANGED <<lan, moves>>

(* The machine stops; it starts again, and so do commands.                  *)
PowerLoss ==
  /\ \E p \in Processes : cli[p].pc \notin {"new", "exited", "dead"}
  /\ cli' = [p \in Processes |->
               IF cli[p].pc \in {"new", "exited"} THEN cli[p]
               ELSE [NewCommand(cli[p].command) EXCEPT !.pc = "dead"]]
  /\ search' = [p \in Processes |-> IF Doing(p, "discover") \/ Doing(p, "connect")
                                    THEN NoSearch ELSE search[p]]
  /\ FilePowerLoss /\ MediaPowerLoss
  /\ UNCHANGED <<lan, moves>>

Move ==
  /\ moves > 0
  /\ CameraMoves
  /\ moves' = moves - 1
  /\ UNCHANGED <<fileVars, mediaVars, cli>>

-----------------------------------------------------------------------------
(* The steps of the parts.                                                  *)
PartStep(p) ==
  /\ cli[p].pc \notin {"exited", "dead"}
  /\ \/ WriteStep(p) /\ UNCHANGED <<mediaVars, lanVars>>
     \/ MediaStep(p) /\ UNCHANGED <<fileVars, lanVars>>
     \/ SearchStep(p) /\ UNCHANGED <<fileVars, mediaVars>>
  /\ UNCHANGED <<cli, moves>>

CommandStep(p) ==
  \/ PartStep(p) \/ Save(p) \/ Discovered(p) \/ Written(p) \/ MediaOver(p)
  \/ DryRun(p) \/ Gate(p) \/ Connected(p) \/ ConnectFails(p) \/ Send(p)

(* What is outside the process: its child, the network.                     *)
Outside(p) ==
  /\ \/ ChildStep(p) /\ UNCHANGED <<fileVars, lanVars>>
     \/ /\ cli[p].pc \in {"discover", "connect"}
        /\ Receive(p) /\ UNCHANGED <<fileVars, mediaVars>>
     \/ FramesClosed(p) /\ UNCHANGED <<fileVars, lanVars>>
  /\ UNCHANGED <<cli, moves>>

Next ==
  \/ \E p \in Processes :
       \/ Discover(p) \/ Wait(p) \/ ProvisionQr(p) \/ Media(p) \/ Load(p)
       \/ CommandStep(p) \/ Outside(p) \/ Interrupt(p) \/ Die(p)
  \/ PowerLoss \/ Move

(* A process that runs is scheduled, and every wait of its own has an end.  *)
Spec == Init /\ [][Next]_vars /\ \A p \in Processes : WF_vars(CommandStep(p))
-----------------------------------------------------------------------------
(***************************************************************************)
(* Properties.                                                             *)
(***************************************************************************)
(* A connection is to the camera that its profile names, at the address it  *)
(* names, whatever cameras moved between and during the discovery that      *)
(* saved the profile and the one that resolves it; if the camera answered,  *)
(* now or encrypted then, it is opened with its own seed                    *)
(* (transport_aiopppp.py 484-490, config.py 204-211).                       *)
ConnectionIsToTheProfile ==
  [][\A p \in Processes : search[p].pc = "search" /\ search'[p].pc = "connected" =>
       LET c == search'[p].found
       IN  /\ c.host = cli[p].profile.host /\ c.id = cli[p].profile.id
           /\ c.answered \/ cli[p].heard =>
                \/ c.psk # None /\ c.psk = SeedOf[c.id]
                \/ c.psk = None /\ c.id \in InTheClear]_vars

(* No path is sent that does what a protected write does: one that is kept  *)
(* from raw, needs a recovery plan, takes values only a builder validates   *)
(* or must not be run, malformed though it may be.  What is sent more than  *)
(* once is known to be repeatable (command_catalog.py 156, cli.md 263-280). *)
PolicyIsKept ==
  [][\A p \in Processes : Doing(p, "gate") /\ cli'[p].pc = "connect" =>
       /\ \A c \in Catalog : Protected(c) => ~Carries(cli[p].raw, c)
       /\ cli'[p].left > 1 =>
            \E c \in Catalog : Carries(cli[p].raw, c) /\ c.retry_policy = "retryable"]_vars

(* A fixed write of the catalog that is neither protected nor unavailable   *)
(* can be sent with raw (cli.md 280).                                       *)
FixedWritesAreAvailable ==
  [][\A p \in Processes :
       Doing(p, "gate") /\ cli'[p].pc = "exited" /\ cli'[p].code = 2 =>
         ~\E c \in Exact(cli[p].raw) :
            /\ c.read_or_write = "write" /\ OpenToRaw(c) /\ ~c.recovery_required
            /\ Permitted(c, cli[p].flags)]_vars

(* Every command ends, but one whose child may run without an end           *)
(* (media_stream.py 382-393).                                               *)
CommandEnds ==
  \A p \in Processes :
    cli[p].pc \notin {"new", "exited", "dead"}
      ~> \/ cli[p].pc \in {"exited", "dead"}
         \/ Doing(p, "media") /\ media[p].kind \in Endless
=============================================================================
