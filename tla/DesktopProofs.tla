----------------------------- MODULE DesktopProofs -----------------------------
(***************************************************************************)
(* Proofs about Desktop, for any devices and any number of watchers.       *)
(***************************************************************************)
EXTENDS Desktop, TLAPS

USE EndpointAssumption, DesktopAssumption

\* The invariant holds at first: one reference each, nothing taken, nobody met.
LEMMA InvInit == Init => Inv
<1> SUFFICES ASSUME Init PROVE Inv OBVIOUS
<1> USE DEF Init, EInit
<1>1. TypeOK BY DEF TypeOK, ETypeOK, Values, Goroutines
<1>2. Balanced BY DEF Balanced
<1>3. SafeUse /\ OneDevice /\ Hands BY DEF SafeUse, OneDevice, Hands, Goroutines
<1>4. Met /\ Alone BY DEF Met, Alone, Running, Goroutines
<1>5. QED BY <1>1, <1>2, <1>3, <1>4 DEF Inv

\* What is released was all there was.
LEMMA KeptNone == TypeOK /\ Balanced => Kept = [endpoint |-> 0, device |-> 0]
BY DEF TypeOK, ETypeOK, Balanced, Kept

\* Every step preserves the invariant.
LEMMA InvStep == Inv /\ [Next]_vars => Inv'
<1> SUFFICES ASSUME Inv, [Next]_vars PROVE Inv' OBVIOUS
<1> USE DEF Inv, TypeOK, ETypeOK, Hands, evars, machine, client, reading, tray, Goroutines,
            Values, Goto, Take, Use, Begin, Forget, Reads, Pulled, Again, Running
<1>1. ASSUME NEW w \in Watchers, TakeMuted(w), UNCHANGED tray PROVE Inv'
  <2> USE <1>1 DEF TakeMuted
  <2>1. TypeOK' OBVIOUS
  <2>2. Balanced' BY DEF Balanced
  <2>3. SafeUse' /\ Hands' /\ Met' BY DEF SafeUse, Met, Balanced
  <2>4. Alone' /\ OneDevice' BY DEF Alone, OneDevice, Met, SafeUse
  <2>5. QED BY <2>1, <2>2, <2>3, <2>4
<1>2. ASSUME NEW w \in Watchers, NEW v \in Values, Volume(w, v, "mut"), UNCHANGED tray PROVE Inv'
  <2> USE <1>2 DEF Volume
  <2>1. TypeOK' OBVIOUS
  <2>2. Balanced' BY DEF Balanced
  <2>3. SafeUse' /\ Hands' /\ Met' BY DEF SafeUse, Met, Balanced
  <2>4. Alone' /\ OneDevice' BY DEF Alone, OneDevice, Met, SafeUse
  <2>5. QED BY <2>1, <2>2, <2>3, <2>4
<1>3. ASSUME NEW w \in Watchers, NEW v \in Values, Muted(w, v), UNCHANGED tray PROVE Inv'
  <2> USE <1>3 DEF Muted
  <2>1. TypeOK' OBVIOUS
  <2>2. Balanced' BY DEF Balanced
  <2>3. SafeUse' /\ Hands' /\ Met' BY DEF SafeUse, Met, Balanced
  <2>4. Alone' /\ OneDevice' BY DEF Alone, OneDevice, Met, SafeUse
  <2>5. QED BY <2>1, <2>2, <2>3, <2>4
<1>4. ASSUME NEW w \in Watchers, Refresh(w), UNCHANGED tray PROVE Inv'
  <2> USE <1>4 DEF Refresh
  <2>1. TypeOK' BY KeptNone
  <2>2. Balanced' BY KeptNone DEF Balanced
  <2>3. SafeUse' /\ Hands' /\ Met' BY DEF SafeUse, Met, Balanced
  <2>4. Alone' /\ OneDevice' BY DEF Alone, OneDevice, Met, SafeUse
  <2>5. QED BY <2>1, <2>2, <2>3, <2>4
<1>5. ASSUME NEW w \in Watchers, NoDefault(w) \/ ActivateFails(w), UNCHANGED tray PROVE Inv'
  <2> USE <1>5 DEF NoDefault, ActivateFails
  <2>1. TypeOK'
    <3>1. refs' = [endpoint |-> 0, device |-> 0]
      BY KeptNone
    <3>2. refs' \in [endpoint : Nat, device : Nat]
      BY <3>1
    <3>3. /\ taken' \in [Goroutines -> {"none", "nil", "held", "released"}]
          /\ at' \in [Goroutines -> {"off", "vol", "mut", "mutUse", "refresh",
                                     "send", "wait", "show"}]
      OBVIOUS
    <3>4. endpoint' = "nil" /\ device' = FALSE
      OBVIOUS
    <3>5. UNCHANGED <<machine, vol, mut, retried, cancelled, together, tray>>
      OBVIOUS
    <3> HIDE <1>5 DEF NoDefault, ActivateFails
    <3>6. QED
      BY <3>2, <3>3, <3>4, <3>5
  <2>2. Balanced' BY KeptNone DEF Balanced
  <2>3. SafeUse' /\ Hands' /\ Met' BY DEF SafeUse, Met, Balanced
  <2>4. Alone' /\ OneDevice' BY DEF Alone, OneDevice, Met, SafeUse
  <2>5. QED BY <2>1, <2>2, <2>3, <2>4
<1>6. ASSUME NEW w \in Watchers, Sent(w) \/ Leave(w), UNCHANGED tray PROVE Inv'
  <2> USE <1>6 DEF Sent, Leave
  <2>1. TypeOK'
    <3>1. CASE Sent(w) BY <3>1
    <3>2. CASE Leave(w) BY <3>2
    <3>3. QED BY <3>1, <3>2
  <2>2. Balanced' BY DEF Balanced
  <2>3. SafeUse' /\ Hands' /\ Met' BY DEF SafeUse, Met, Balanced
  <2>4. Alone' /\ OneDevice' BY DEF Alone, OneDevice, Met, SafeUse
  <2>5. QED BY <2>1, <2>2, <2>3, <2>4
<1>7. ASSUME NEW w \in Watchers, NextPoll(w), UNCHANGED tray PROVE Inv'
  <2> USE <1>7 DEF NextPoll
  <2>1. TypeOK' OBVIOUS
  <2>2. Balanced' BY DEF Balanced
  <2>3. SafeUse' /\ Hands' /\ Met' BY DEF SafeUse, Met, Balanced
  <2>4. Alone' /\ OneDevice' BY DEF Alone, OneDevice, Met, SafeUse
  <2>5. QED BY <2>1, <2>2, <2>3, <2>4
<1>8. ASSUME NEW w \in Watchers, Watch(w), UNCHANGED tray PROVE Inv'
  <2> USE <1>8 DEF Watch
  <2>1. TypeOK' OBVIOUS
  <2>2. Balanced' BY DEF Balanced
  <2>3. SafeUse' /\ Hands' /\ Met' BY DEF SafeUse, Met, Balanced
  <2>4. Alone' /\ OneDevice' BY DEF Alone, OneDevice, Met, SafeUse
  <2>5. QED BY <2>1, <2>2, <2>3, <2>4
<1>9. ASSUME NEW w \in Watchers, Cancel(w), UNCHANGED tray PROVE Inv'
  <2> USE <1>9 DEF Cancel
  <2>1. TypeOK' OBVIOUS
  <2>2. Balanced' BY DEF Balanced
  <2>3. SafeUse' /\ Hands' /\ Met' BY DEF SafeUse, Met, Balanced
  <2>4. Alone' /\ OneDevice' BY DEF Alone, OneDevice, Met, SafeUse
  <2>5. QED BY <2>1, <2>2, <2>3, <2>4
<1>10. ASSUME NEW d \in Devices, Unplug(d) \/ Plug(d) \/ SwitchDefault(d), UNCHANGED tray PROVE Inv'
  <2> USE <1>10 DEF Unplug, Plug, SwitchDefault
  <2>1. TypeOK' OBVIOUS
  <2>2. Balanced' BY DEF Balanced
  <2>3. SafeUse' /\ Hands' /\ Met' BY DEF SafeUse, Met, Balanced
  <2>4. Alone' /\ OneDevice' BY DEF Alone, OneDevice, Met, SafeUse
  <2>5. QED BY <2>1, <2>2, <2>3, <2>4
<1>11. ASSUME Report \/ SetStatus \/ Tick \/ OnReady PROVE Inv'
  <2> USE <1>11 DEF Report, SetStatus, Tick, OnReady
  <2>1. TypeOK' OBVIOUS
  <2>2. Balanced' BY DEF Balanced
  <2>3. SafeUse' /\ Hands' /\ Met' BY DEF SafeUse, Met, Balanced
  <2>4. Alone' /\ OneDevice' BY DEF Alone, OneDevice, Met, SafeUse
  <2>5. QED BY <2>1, <2>2, <2>3, <2>4
<1>12. ASSUME NEW r \in Readers, NEW v \in Values, Status(r, v) PROVE Inv'
  <2> USE <1>12 DEF Status, Volume
  <2>1. TypeOK' OBVIOUS
  <2>2. Balanced' BY DEF Balanced
  <2>3. SafeUse' /\ Hands' /\ Met' BY DEF SafeUse, Met, Balanced
  <2>4. Alone' /\ OneDevice' BY DEF Alone, OneDevice, Met, SafeUse
  <2>5. QED BY <2>1, <2>2, <2>3, <2>4
<1>13. ASSUME MakeMenu PROVE Inv'
  <2> USE <1>13 DEF MakeMenu
  <2>1. TypeOK' OBVIOUS
  <2>2. Balanced' BY DEF Balanced
  <2>3. SafeUse' /\ Hands' /\ Met' BY DEF SafeUse, Met, Balanced
  <2>4. Alone' /\ OneDevice' BY DEF Alone, OneDevice, Met, SafeUse
  <2>5. QED BY <2>1, <2>2, <2>3, <2>4
<1>14. ASSUME NEW r \in Readers, Show(r) PROVE Inv'
  <2> USE <1>14 DEF Show
  <2>1. TypeOK' OBVIOUS
  <2>2. Balanced' BY DEF Balanced
  <2>3. SafeUse' /\ Hands' /\ Met' BY DEF SafeUse, Met, Balanced
  <2>4. Alone' /\ OneDevice' BY DEF Alone, OneDevice, Met, SafeUse
  <2>5. QED BY <2>1, <2>2, <2>3, <2>4
<1>15. ASSUME UNCHANGED vars PROVE Inv'
  <2> USE <1>15 DEF vars
  <2>1. TypeOK' OBVIOUS
  <2>2. Balanced' BY DEF Balanced
  <2>3. SafeUse' /\ Hands' /\ Met' BY DEF SafeUse, Met, Balanced
  <2>4. Alone' /\ OneDevice' BY DEF Alone, OneDevice, Met, SafeUse
  <2>5. QED BY <2>1, <2>2, <2>3, <2>4
<1>16. QED
  BY <1>1, <1>2, <1>3, <1>4, <1>5, <1>6, <1>7, <1>8, <1>9, <1>10, <1>11,
     <1>12, <1>13, <1>14, <1>15
  DEF Next, System, Sessions, Machine, Statuses, Watching, Poll, Devicing, Refreshing

\* Spec keeps the invariant.
THEOREM Invariance == Spec => []Inv
<1>1. QED
  BY InvInit, InvStep, PTL DEF Spec

\* No handle leaks and none is released twice, on every path through refreshDefault.
THEOREM BalancedHolds == Spec => []Balanced
BY Invariance, PTL DEF Inv

\* A watcher that meets no other one never uses what it has released, though any call
\* may fail.
THEOREM SafeUseHolds == Spec => []SafeUse
BY Invariance, PTL DEF Inv

\* What a watcher sends was read from one device.
THEOREM OneDeviceHolds == Spec => []OneDevice
BY Invariance, PTL DEF Inv

=============================================================================
