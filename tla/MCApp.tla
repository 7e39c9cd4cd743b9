--------------------------------- MODULE MCApp ---------------------------------
(***************************************************************************)
(* App with a budget for what users do.  Fairness is App's: no obliged     *)
(* step is one of theirs.  Any save may fail.                              *)
(***************************************************************************)
EXTENDS App

CONSTANT MaxOps        \* operations of the settings page and the tray

VARIABLE ops           \* operations so far

mcvars == <<vars, ops>>

\* A file written by hand or by the page: only a session fills in default names.
MCInit == Init /\ disk.names # "default" /\ ops = 0

MCNext ==
  /\ main # "exited"
  /\ \/ (System \/ Quit \/ Signal) /\ UNCHANGED ops
     \/ Handlers /\ ops < MaxOps /\ ops' = ops + 1

MCSpec == MCInit /\ [][MCNext]_mcvars /\ Fairness

\* The same, started from a file that could be loaded, and every save succeeds.
LoadedSpec == MCInit /\ cfg = disk /\ [][MCNext /\ ~unsaved']_mcvars
=============================================================================
