------------------------------- MODULE MCDesktop -------------------------------
(***************************************************************************)
(* Desktop with a budget that statuses, devices, sessions and failing      *)
(* calls share, so that they come to rest.                                 *)
(***************************************************************************)
EXTENDS Desktop

CONSTANT MaxEvents    \* statuses, device changes, sessions begun and cancelled, failing calls

VARIABLE events

mcvars == <<vars, events>>

\* One device that can go, or two to move between.
MCInit == Init /\ default = "speakers" /\ events = 0

\* onReady is over.  A session that begins before meets one more refresh.
Up == ready /\ ~Running("main")

\* The first session is not counted.
First == Up /\ events = 0 /\ (\A w \in Watchers : ~Running(w)) /\ Watch("w1")

\* A read of a device that is there fails.
Glitch == \E g \in Goroutines :
            /\ Works /\ taken[g] = "held" /\ taken'[g] = "none"
            /\ IF at[g] = "vol" THEN vol'[g] = "error" ELSE mut'[g] = "error"

MCNext ==
  \/ ((System /\ ~Glitch) \/ (First /\ UNCHANGED tray)) /\ UNCHANGED events
  \/ /\ (System /\ Glitch) \/ Statuses \/ (ready /\ Machine) \/ (Up /\ Sessions)
     /\ events < MaxEvents /\ events' = events + 1

MCSpec == MCInit /\ [][MCNext]_mcvars /\ Fairness
=============================================================================
