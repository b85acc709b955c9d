----------------------------- MODULE PrivateFile -----------------------------
(***************************************************************************)
(* Files that several command-line processes publish at the same paths:    *)
(* camera profiles (config.py) and QR images (provisioning.py), written by *)
(* write_private_file (_private_file.py).                                  *)
(*                                                                         *)
(* A writer fills a temporary file beside the destination and gives it the *)
(* destination's name.  A process writes at most one file; system calls    *)
(* fail, processes are killed, and the power may fail, which loses what a  *)
(* file was not synced to hold.  Names survive in the order they were made.*)
(***************************************************************************)
EXTENDS CliProcesses

CONSTANTS
  Paths,      (* where they publish                                        *)
  Absent,     (* no such name                                              *)
  Original,   (* a file that was there before                              *)
  Symlink     (* a symbolic link                                           *)

ASSUME NamesAssumption ==
  /\ Absent # Original /\ Absent # Symlink /\ Original # Symlink
  /\ Absent \notin Processes /\ Original \notin Processes /\ Symlink \notin Processes

VARIABLES
  file,       (* what each path names: the file of a process, or the above *)
  data,       (* what the temporary file of each process holds             *)
  synced,     (* the processes whose file reached the disk (os.fsync)      *)
  temporary,  (* the processes whose temporary name exists                 *)
  write       (* the call of write_private_file of each process            *)

fileVars == <<file, data, synced, temporary, write>>

FileInit ==
  /\ file \in [Paths -> {Absent, Original, Symlink}]
  /\ data = [p \in Processes |-> "none"]
  /\ synced = {}
  /\ temporary = {}
  /\ \E path \in Paths :
       write = [p \in Processes |-> [stage |-> "idle", path |-> path,
                                     overwrite |-> FALSE, outcome |-> "none"]]

InStage(p, stage) == write[p].stage = stage

(* The caller of write_private_file sees outcome.                           *)
EndWrite(p, outcome) ==
  write' = [write EXCEPT ![p].stage = "done", ![p].outcome = outcome]

-----------------------------------------------------------------------------
(* The checks before the content is built: a link is refused, and a file    *)
(* too unless it may be replaced.                                           *)
BeginWrite(p, path, overwrite) ==
  /\ InStage(p, "idle")
  /\ LET refused == file[path] = Symlink \/ (file[path] # Absent /\ ~overwrite)
     IN  write' = [write EXCEPT ![p] =
           [stage |-> IF refused THEN "done" ELSE "make", path |-> path,
            overwrite |-> overwrite,
            outcome |-> IF refused THEN "exists" ELSE "none"]]
  /\ UNCHANGED <<file, data, synced, temporary>>

MakeTemporary(p) ==
  /\ InStage(p, "make")
  /\ write' = [write EXCEPT ![p].stage = "data"]
  /\ temporary' = temporary \cup {p}
  /\ UNCHANGED <<file, data, synced>>

WriteData(p) ==
  /\ InStage(p, "data")
  /\ write' = [write EXCEPT ![p].stage = "sync"]
  /\ data' = [data EXCEPT ![p] = "whole"]
  /\ UNCHANGED <<file, synced, temporary>>

(* Mutant of Sync: the data is left in the cache of the system.             *)
NoSync(p) ==
  /\ InStage(p, "sync")
  /\ write' = [write EXCEPT ![p].stage = "publish"]
  /\ UNCHANGED <<file, data, synced, temporary>>

Sync(p) ==
  /\ InStage(p, "sync")
  /\ write' = [write EXCEPT ![p].stage = "publish"]
  /\ synced' = synced \cup {p}
  /\ UNCHANGED <<file, data, temporary>>

(* os.replace takes the temporary name with it.                             *)
Replace(p) ==
  /\ InStage(p, "publish") /\ write[p].overwrite
  /\ file' = [file EXCEPT ![write[p].path] = p]
  /\ temporary' = temporary \ {p}
  /\ write' = [write EXCEPT ![p].stage = "remove", ![p].outcome = "saved"]
  /\ UNCHANGED <<data, synced>>

(* Mutant of Link: os.replace whether it may or not.                        *)
LinkReplaces(p) ==
  /\ InStage(p, "publish") /\ ~write[p].overwrite
  /\ file' = [file EXCEPT ![write[p].path] = p]
  /\ temporary' = temporary \ {p}
  /\ write' = [write EXCEPT ![p].stage = "remove", ![p].outcome = "saved"]
  /\ UNCHANGED <<data, synced>>

(* os.link does not replace a name.                                         *)
Link(p) ==
  /\ InStage(p, "publish") /\ ~write[p].overwrite
  /\ LET free == file[write[p].path] = Absent
     IN  /\ file' = IF free THEN [file EXCEPT ![write[p].path] = p] ELSE file
         /\ write' = [write EXCEPT ![p].stage = "remove",
                                   ![p].outcome = IF free THEN "saved" ELSE "exists"]
  /\ UNCHANGED <<data, synced, temporary>>

(* A system call fails: the temporary file is removed, if it was made.      *)
WriteFails(p) ==
  /\ \/ InStage(p, "make") /\ EndWrite(p, "error")
     \/ /\ write[p].stage \in {"data", "sync", "publish"}
        /\ write' = [write EXCEPT ![p].stage = "remove", ![p].outcome = "error"]
  /\ \/ InStage(p, "data") /\ data' = [data EXCEPT ![p] = "partial"]
     \/ data' = data
  /\ UNCHANGED <<file, synced, temporary>>

Remove(p) ==
  /\ InStage(p, "remove")
  /\ EndWrite(p, write[p].outcome)
  /\ temporary' = temporary \ {p}
  /\ UNCHANGED <<file, data, synced>>

WriteStep(p) ==
  \/ MakeTemporary(p) \/ WriteData(p) \/ Sync(p) \/ Replace(p) \/ Link(p)
  \/ WriteFails(p) \/ Remove(p)

(* A process is killed.                                                     *)
WriterDies(p) ==
  /\ write' = [write EXCEPT ![p].stage = "dead"]
  /\ UNCHANGED <<file, data, synced, temporary>>

(* The power fails: what was not synced may be lost in part or whole.       *)
FilePowerLoss ==
  /\ write' = [p \in Processes |->
                 IF write[p].stage \in {"idle", "done"} THEN write[p]
                 ELSE [write[p] EXCEPT !.stage = "dead"]]
  /\ \E left \in {"none", "partial", "whole"} :
       data' = [p \in Processes |->
                  IF p \in synced \/ data[p] = "none" THEN data[p] ELSE left]
  /\ UNCHANGED <<file, synced, temporary>>

FileNext ==
  \/ \E p \in Processes :
       \/ \E path \in Paths, overwrite \in BOOLEAN : BeginWrite(p, path, overwrite)
       \/ WriteStep(p) \/ WriterDies(p)
  \/ FilePowerLoss

FileSpec == FileInit /\ [][FileNext]_fileVars
-----------------------------------------------------------------------------
(***************************************************************************)
(* Properties.                                                             *)
(***************************************************************************)
Stages == {"idle", "make", "data", "sync", "publish", "remove", "done", "dead"}

(* The variables have their types.                                          *)
FileTypeOK ==
  /\ file \in [Paths -> Processes \cup {Absent, Original, Symlink}]
  /\ data \in [Processes -> {"none", "partial", "whole"}]
  /\ synced \subseteq Processes
  /\ temporary \subseteq Processes
  /\ write \in [Processes -> [stage : Stages, path : Paths, overwrite : BOOLEAN,
                              outcome : {"none", "saved", "exists", "error"}]]

(* Whoever reads a published file, whatever was killed and even after a     *)
(* power failure, reads all of what one process wrote (_private_file.py     *)
(* 34-41), and a writer that came to its end leaves no temporary file       *)
(* (42-45).                                                                 *)
PublishedIsWhole ==
  /\ \A path \in Paths : file[path] \in Processes => data[file[path]] = "whole"
  /\ \A p \in temporary : write[p].stage \notin {"idle", "done"}

(* A name that exists comes to mean another file only by a process that was *)
(* told to overwrite, however two writers that both found it absent         *)
(* interleave; a link is never replaced (38-41; config.py 176-183).         *)
FilesAreNotClobbered ==
  [][\A path \in Paths : file'[path] # file[path] =>
       /\ file'[path] \in Processes
       /\ \/ file[path] = Absent
          \/ file[path] # Symlink /\ write[file'[path]].overwrite]_fileVars
=============================================================================
