---------------------------- MODULE CliProcesses ----------------------------
(***************************************************************************)
(* The runs of the command-line tool (cli.py) on one machine.  Each runs   *)
(* one command and ends.                                                   *)
(***************************************************************************)
CONSTANT Processes
=============================================================================
