-------------------------------- MODULE Mirror --------------------------------
(***************************************************************************)
(* What the application promises, with no sessions, channels, calls or     *)
(* clocks: two copies of a small state, one on this machine and one in     *)
(* Home Assistant, and a mirror that copies one field at a time from the   *)
(* side that holds the truth to the side that does not.                    *)
(*                                                                         *)
(* While the two sides are linked, a user may move either of them only     *)
(* when they agree; whoever moves last holds the truth.  While they are    *)
(* not linked both may move freely, and a new link makes this machine the  *)
(* truth ("the slider in HA reflects the real machine state right after a  *)
(* fresh connect").                                                        *)
(***************************************************************************)
CONSTANTS Dims,       \* the mirrored fields
          Values(_),  \* the values of each field of the machine
          Shown(_),   \* and of Home Assistant's, which may be finer and wider
          Told(_, _), \* what Home Assistant shows of a value of the machine
          Reads(_, _) \* what the machine makes of a value of Home Assistant

VARIABLES local,      \* the state of the machine, a function on Dims
          remote,     \* the state in Home Assistant, a function on Dims
          truth       \* "none" while not linked, else the side to copy from

mvars == <<local, remote, truth>>

Init == /\ local \in [Dims -> UNION {Values(d) : d \in Dims}]
        /\ remote \in [Dims -> UNION {Shown(d) : d \in Dims}]
        /\ \A d \in Dims : local[d] \in Values(d) /\ remote[d] \in Shown(d)
        /\ truth = "none"

Agree(d) == local[d] = Reads(d, remote[d])
AgreeAll == \A d \in Dims : Agree(d)

MoveLocal(d, v) == /\ truth = "none" \/ AgreeAll
                   /\ local' = [local EXCEPT ![d] = v]
                   /\ truth' = IF truth = "none" THEN "none" ELSE "local"
                   /\ UNCHANGED remote

MoveRemote(d, x) == /\ truth = "none" \/ AgreeAll
                    /\ remote' = [remote EXCEPT ![d] = x]
                    /\ truth' = IF truth = "none" THEN "none" ELSE "remote"
                    /\ UNCHANGED local

CopyOut(d) == /\ truth = "local" /\ ~Agree(d)
              /\ remote' = [remote EXCEPT ![d] = Told(d, local[d])]
              /\ UNCHANGED <<local, truth>>

CopyIn(d) == /\ truth = "remote" /\ ~Agree(d)
             /\ local' = [local EXCEPT ![d] = Reads(d, remote[d])]
             /\ UNCHANGED <<remote, truth>>

Copy == \E d \in Dims : CopyOut(d) \/ CopyIn(d)

\* Home Assistant may be told what the machine made of its value.
Tidy(d) == /\ Agree(d)
           /\ remote' = [remote EXCEPT ![d] = Told(d, local[d])]
           /\ UNCHANGED <<local, truth>>

Link == truth = "none" /\ truth' = "local" /\ UNCHANGED <<local, remote>>

Unlink == truth' = "none" /\ UNCHANGED <<local, remote>>

Next == \/ \E d \in Dims : \/ \E v \in Values(d) : MoveLocal(d, v)
                           \/ \E x \in Shown(d) : MoveRemote(d, x)
                           \/ Tidy(d)
        \/ Copy
        \/ Link
        \/ Unlink

Spec == Init /\ [][Next]_mvars /\ WF_mvars(Copy)
=============================================================================
