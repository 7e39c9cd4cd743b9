-------------------------------- MODULE LogRing --------------------------------
(***************************************************************************)
(* internal/logx: the ring behind the log panel of the settings page.      *)
(* Every line logged is written to it under mu; Snapshot, under mu as well,*)
(* gives the lines from the oldest kept to the newest (logx.go:47-71).     *)
(***************************************************************************)
EXTENDS Integers, Sequences

CONSTANTS Lines,      \* what may be logged
          ringSize    \* 500 in the code

VARIABLES ring, ringPos, ringN,
          logged      \* history: all lines logged

vars == <<ring, ringPos, ringN, logged>>

Init == /\ ring \in [0..(ringSize - 1) -> Lines]
        /\ ringPos = 0 /\ ringN = 0 /\ logged = <<>>

Write(p) == /\ ring' = [ring EXCEPT ![ringPos] = p]
            /\ ringPos' = (ringPos + 1) % ringSize
            /\ ringN' = IF ringN < ringSize THEN ringN + 1 ELSE ringN
            /\ logged' = Append(logged, p)

Next == \E p \in Lines : Write(p)

Spec == Init /\ [][Next]_vars

-----------------------------------------------------------------------------
Snapshot ==
  LET start == IF ringPos - ringN < 0 THEN ringPos - ringN + ringSize ELSE ringPos - ringN
  IN  [i \in 1..ringN |-> ring[(start + i - 1) % ringSize]]

\* The log panel shows the last lines in the order in which they were logged, all
\* of them while there are no more than the ring has places (logx.go:50-54, 60-69).
SnapshotIsLast ==
  LET count == Len(logged)
  IN  /\ ringN = IF count < ringSize THEN count ELSE ringSize
      /\ Snapshot = [i \in 1..ringN |-> logged[count - ringN + i]]

\* The place of the line that was logged k lines ago.
Place(k) == IF k <= ringPos THEN ringPos - k ELSE ringPos - k + ringSize

\* Where each line is.
Inv ==
  /\ ring \in [0..(ringSize - 1) -> Lines] /\ logged \in Seq(Lines)
  /\ ringPos \in 0..(ringSize - 1) /\ ringN \in 0..ringSize
  /\ ringN = IF Len(logged) < ringSize THEN Len(logged) ELSE ringSize
  /\ ringN < ringSize => ringPos = ringN
  /\ \A k \in 1..ringN : ring[Place(k)] = logged[Len(logged) - k + 1]
=============================================================================
