----------------------------- MODULE LogRingProofs -----------------------------
(***************************************************************************)
(* The log ring shows the last lines logged, for any size.                 *)
(***************************************************************************)
EXTENDS LogRing, TLAPS

LEMMA InvInit == ASSUME ringSize \in Nat \ {0}, Init PROVE Inv
  BY DEF Init, Inv

LEMMA InvStep == ASSUME ringSize \in Nat \ {0}, Inv, [Next]_vars PROVE Inv'
<1>1. ASSUME NEW p \in Lines, Write(p) PROVE Inv'
  <2>1. ringPos' = IF ringPos + 1 < ringSize THEN ringPos + 1 ELSE 0
    <3>1. ringPos \in 0..(ringSize - 1) /\ ringPos + 1 \in 0..(2 * ringSize - 1)
      BY DEF Inv
    <3>2. (ringPos + 1) % ringSize = IF ringPos + 1 < ringSize THEN ringPos + 1
                                     ELSE ringPos + 1 - ringSize
      BY <3>1
    <3>3. QED
      BY <1>1, <3>1, <3>2 DEF Write
  <2>2. /\ ring' \in [0..(ringSize - 1) -> Lines] /\ logged' \in Seq(Lines)
        /\ ringPos' \in 0..(ringSize - 1) /\ ringN' \in 0..ringSize
    BY <1>1, <2>1 DEF Inv, Write
  <2>3. /\ Len(logged') = Len(logged) + 1
        /\ \A i \in 1..Len(logged) : logged'[i] = logged[i]
        /\ logged'[Len(logged) + 1] = p
    BY <1>1 DEF Inv, Write
  <2>4. /\ ringN' = IF Len(logged') < ringSize THEN Len(logged') ELSE ringSize
        /\ ringN' < ringSize => ringPos' = ringN'
    BY <1>1, <2>1, <2>3 DEF Inv, Write
  <2>5. ASSUME NEW k \in 1..ringN'
        PROVE  ring'[Place(k)'] = logged'[Len(logged') - k + 1]
    <3>1. CASE k = 1
      <4>1. Place(1)' = ringPos
        BY <2>1 DEF Place, Inv
      <4>2. QED
        BY <1>1, <2>3, <3>1, <4>1 DEF Inv, Write
    <3>2. CASE k > 1
      <4>1. k - 1 \in 1..ringN
        BY <1>1, <3>2 DEF Inv, Write
      <4>2. Place(k)' = Place(k - 1) /\ Place(k - 1) # ringPos /\ Place(k - 1) \in 0..(ringSize - 1)
        BY <1>1, <2>1, <3>2, <4>1 DEF Place, Inv, Write
      <4>3. ring'[Place(k - 1)] = ring[Place(k - 1)]
        BY <1>1, <4>2 DEF Inv, Write
      <4>4. Len(logged) - (k - 1) + 1 \in 1..Len(logged)
        BY <4>1 DEF Inv
      <4>5. QED
        BY <2>3, <4>1, <4>2, <4>3, <4>4 DEF Inv
    <3>3. QED
      BY <3>1, <3>2, <2>2
  <2>6. QED
    BY <2>2, <2>4, <2>5 DEF Inv
<1>2. CASE UNCHANGED vars
  BY <1>2 DEF vars, Inv, Place
<1>3. QED
  BY <1>1, <1>2 DEF Next

\* The invariant says what the snapshot is.
LEMMA SnapshotOfInv == ASSUME ringSize \in Nat \ {0}, Inv PROVE SnapshotIsLast
<1> DEFINE start == IF ringPos - ringN < 0 THEN ringPos - ringN + ringSize ELSE ringPos - ringN
<1>0. /\ ringPos \in 0..(ringSize - 1) /\ ringN \in 0..ringSize /\ Len(logged) \in Nat
      /\ ringN <= Len(logged) /\ \A k \in 1..ringN : ring[Place(k)] = logged[Len(logged) - k + 1]
  BY DEF Inv
<1>1. ASSUME NEW i \in 1..ringN
      PROVE  ring[(start + i - 1) % ringSize] = logged[Len(logged) - ringN + i]
  <2> DEFINE at == start + i - 1
  <2>1. at \in 0..(2 * ringSize - 1) /\ ringN - i + 1 \in 1..ringN
    BY <1>0
  <2>2. (IF at < ringSize THEN at ELSE at - ringSize) = Place(ringN - i + 1)
    BY <1>0 DEF Place
  <2> HIDE DEF at
  <2>3. at % ringSize = IF at < ringSize THEN at ELSE at - ringSize
    BY <2>1
  <2>4. Len(logged) - (ringN - i + 1) + 1 = Len(logged) - ringN + i
    BY <1>0
  <2>5. ring[at % ringSize] = logged[Len(logged) - ringN + i]
    BY <1>0, <2>1, <2>2, <2>3, <2>4
  <2>6. QED
    BY <2>5 DEF at
<1>2. QED
  BY <1>1 DEF SnapshotIsLast, Snapshot, Inv

\* The snapshot is the last lines logged, in order, however many were logged.
THEOREM ShowsLast == ringSize \in Nat \ {0} => (Spec => []SnapshotIsLast)
<1> SUFFICES ASSUME ringSize \in Nat \ {0} PROVE Spec => []SnapshotIsLast OBVIOUS
<1>1. Init => Inv BY InvInit
<1>2. Inv /\ [Next]_vars => Inv' BY InvStep
<1>3. Inv => SnapshotIsLast BY SnapshotOfInv
<1>4. QED BY <1>1, <1>2, <1>3, PTL DEF Spec
=============================================================================
