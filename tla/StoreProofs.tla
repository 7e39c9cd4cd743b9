------------------------------ MODULE StoreProofs ------------------------------
(***************************************************************************)
(* Proofs about Store, for any handlers, names and kinds: its invariant,   *)
(* and that it implements AtomicFile.                                      *)
(***************************************************************************)
EXTENDS MCStore, TLAPS

USE FileAssumption, StoreAssumption

\* What is in a table is a number.
LEMMA Counted == ASSUME NEW f \in Counts, NEW k \in 1..Kinds, NEW n \in Named
                 PROVE  f[k][n] \in Nat
BY DEF Counts

\* A table with another number in it.
LEMMA CountsExcept ==
  ASSUME NEW f \in Counts, NEW k \in 1..Kinds, NEW n \in Named, NEW v \in Nat,
         NEW g, g = [f EXCEPT ![k][n] = v]
  PROVE  /\ g \in Counts
         /\ \A i \in 1..Kinds, m \in Named :
              g[i][m] = IF i = k /\ m = n THEN v ELSE f[i][m]
<1> DEFINE row == [f[k] EXCEPT ![n] = v]
<1>1. row \in [Named -> Nat] BY DEF Counts
<1>2. g = [f EXCEPT ![k] = row] OBVIOUS
<1>3. \A m \in Named : row[m] = IF m = n THEN v ELSE f[k][m] BY DEF Counts
<1> HIDE DEF row
<1>4. g \in Counts BY <1>1, <1>2 DEF Counts
<1>5. \A i \in 1..Kinds : g[i] = IF i = k THEN row ELSE f[i] BY <1>2 DEF Counts
<1>6. ASSUME NEW i \in 1..Kinds, NEW m \in Named
      PROVE  g[i][m] = IF i = k /\ m = n THEN v ELSE f[i][m]
  <2>1. CASE i = k
    <3>1. g[i] = row BY <1>5, <2>1
    <3>2. row[m] = IF m = n THEN v ELSE f[k][m] BY <1>3
    <3>3. QED BY <2>1, <3>1, <3>2, Zenon
  <2>2. CASE i # k
    <3>1. g[i] = f[i] BY <1>5, <2>2
    <3>2. g[i][m] = f[i][m] BY <3>1, Zenon
    <3>3. ~(i = k /\ m = n) BY <2>2
    <3>4. QED BY <3>2, <3>3, Zenon
  <2>3. QED BY <2>1, <2>2
<1>7. QED BY <1>4, <1>6

\* A file that cannot be used is taken for an empty configuration.
LEMMA Loaded == TypeOK => Load \in Config
BY DEF TypeOK, FileTypeOK, OnDisk, Load, Empty, Config

\* A snapshot has names, and is otherwise the configuration.
LEMMA FilledIn == ASSUME NEW c \in Config
                  PROVE  /\ Filled(c) \in Config
                         /\ Filled(c).name \in Named /\ Filled(c).name # "unset"
                         /\ Filled(c).startup = c.startup
BY DEF Filled, Config, Named

\* The file that a start finds is of the right type.
LEMMA InitFile == FileInit => /\ file \in OnDisk /\ file.is # "partial"
                              /\ file.is # "whole" => file.of = Empty
<1> SUFFICES ASSUME FileInit
             PROVE  /\ file \in OnDisk /\ file.is # "partial"
                    /\ file.is # "whole" => file.of = Empty
  OBVIOUS
<1> USE DEF OnDisk, Whole, Bad
<1>1. CASE \E c \in Config : file = Whole(c) BY <1>1
<1>2. CASE file \in {Bad("missing"), Bad("garbage")}
  <2>1. Empty \in Config BY DEF Empty, Config
  <2>2. QED BY <1>2, <2>1
<1>3. QED BY <1>1, <1>2 DEF FileInit

\* The invariant holds at first, whatever file and registry the first start finds.
LEMMA InitInv == Init => Inv
<1> SUFFICES ASSUME Init PROVE Inv OBVIOUS
<1>0. FileInit BY DEF Init
<1> USE DEF Init
<1>1. FileTypeOK
  <2>1. file \in OnDisk BY <1>0, InitFile, Zenon
  <2>2. tmp \in OnDisk BY DEF FileInit, OnDisk, Bad, Empty, Config
  <2>3. content \in [Writers -> Config] BY DEF FileInit, Empty, Config
  <2>4. QED BY <2>1, <2>2, <2>3 DEF FileInit, FileTypeOK
<1>2. TypeOK
  <2>1. live \in Config BY <1>1 DEF FileTypeOK, OnDisk, Load, Empty, Config
  <2>2. snap \in Config BY DEF Empty, Config
  <2>3. apart \in Causes \cup {"none"} /\ reg \in BOOLEAN BY DEF Causes
  <2>4. late \in Counts /\ made \in Counts BY DEF Counts
  <2>5. kind \in 1..Kinds OBVIOUS
  <2>6. QED BY <1>1, <2>1, <2>2, <2>3, <2>4, <2>5 DEF TypeOK
<1>3. SaveOwned BY DEF FileInit, SaveOwned, Writing
<1>4. FileWhole BY <1>0, InitFile, Zenon DEF FileWhole
<1>5. ChangeOwned /\ Current BY DEF FileInit, ChangeOwned, Current, Same, Load
<1>6. FlagKnown /\ FlagMirrors BY DEF FlagKnown, FlagMirrors, Toggling, Load
<1>7. OneHelper BY DEF OneHelper, Named
<1>8. OrderKnown BY DEF OrderKnown, There
<1>9. QED BY <1>2, <1>3, <1>4, <1>5, <1>6, <1>7, <1>8 DEF Inv

\* What a step does not touch.
LEMMA FileKept == ASSUME Inv, UNCHANGED files
                  PROVE  SaveOwned' /\ FileWhole'
BY DEF Inv, files, SaveOwned, FileWhole, Writing

\* What the handlers and the registry keep, where a step touches neither.
LEMMA CoordKept == ASSUME Inv, UNCHANGED <<files, up, coord, reg, reason, apart>>
                   PROVE  Current' /\ FlagKnown' /\ FlagMirrors'
BY DEF Inv, files, coord, Current, FlagKnown, FlagMirrors, Toggling, Load, Same, Filled

\* The same of the session and the helpers.
LEMMA HelpersKept == ASSUME Inv, UNCHANGED <<session, ha, delayed>>
                     PROVE  OneHelper' /\ OrderKnown'
BY DEF Inv, session, ha, OneHelper, OrderKnown, There

\* Every step preserves the invariant.
LEMMA InvStep == Inv /\ [Next]_vars => Inv'
<1> SUFFICES ASSUME Inv, [Next]_vars PROVE Inv' OBVIOUS
<1> USE DEF Inv, TypeOK, FileTypeOK, files, coord, session, ha, history, Config, Empty, OnDisk,
            Whole, Bad, Named, Toggling, Causes, Blame
<1>1. ASSUME NEW h \in Handlers, NEW b \in BOOLEAN, SetAccount(h, b) PROVE Inv'
  <2> USE <1>1 DEF SetAccount, Change, Save
  <2>1. TypeOK' OBVIOUS
  <2>2. SaveOwned' BY DEF SaveOwned, Writing
  <2>3. FileWhole' BY DEF FileWhole
  <2>4. ChangeOwned' BY DEF ChangeOwned
  <2>5. Current' BY DEF Current, ChangeOwned, SaveOwned, Writing, Load, Same, Filled
  <2>6. FlagKnown' BY DEF FlagKnown, ChangeOwned, Load
  <2>7. FlagMirrors' BY DEF FlagMirrors, FlagKnown, ChangeOwned
  <2>8. OneHelper' /\ OrderKnown' BY HelpersKept
  <2>9. QED BY <2>1, <2>2, <2>3, <2>4, <2>5, <2>6, <2>7, <2>8
<1>2. ASSUME NEW h \in Handlers, NEW n \in Names \cup {"unset"}, SaveConfig(h, n) PROVE Inv'
  <2> USE <1>2 DEF SaveConfig, Change, Save
  <2>1. TypeOK' OBVIOUS
  <2>2. SaveOwned' BY DEF SaveOwned, Writing
  <2>3. FileWhole' BY DEF FileWhole
  <2>4. ChangeOwned' BY DEF ChangeOwned
  <2>5. Current' BY DEF Current, ChangeOwned, SaveOwned, Writing, Load, Same, Filled
  <2>6. FlagKnown' BY DEF FlagKnown, ChangeOwned, Load
  <2>7. FlagMirrors' BY DEF FlagMirrors, FlagKnown, ChangeOwned
  <2>8. OneHelper' /\ OrderKnown' BY HelpersKept
  <2>9. QED BY <2>1, <2>2, <2>3, <2>4, <2>5, <2>6, <2>7, <2>8
<1>3. ASSUME NEW h \in Handlers, NEW b \in BOOLEAN, SetEnabled(h, b) PROVE Inv'
  <2> USE <1>3 DEF SetEnabled
  <2>1. TypeOK' OBVIOUS
  <2>2. SaveOwned' /\ FileWhole' BY FileKept
  <2>3. ChangeOwned' BY DEF ChangeOwned
  <2>4. Current' BY DEF Current, ChangeOwned, SaveOwned, Writing, Load, Same, Filled
  <2>5. FlagKnown'
    <3> SUFFICES ASSUME apart' = "none" PROVE FlagKnown' BY DEF FlagKnown
    <3>1. \A g \in Handlers : ~Toggling(g) OBVIOUS
    <3>2. \A g \in Handlers : Toggling(g)' => g = h OBVIOUS
    <3>3. reg' = (handler'[h] = "on") OBVIOUS
    <3>4. QED BY <3>2, <3>3 DEF FlagKnown
  <2>6. FlagMirrors' BY DEF FlagMirrors, FlagKnown, ChangeOwned
  <2>7. OneHelper' /\ OrderKnown' BY HelpersKept
  <2>8. QED BY <2>1, <2>2, <2>3, <2>4, <2>5, <2>6, <2>7
<1>4. ASSUME NEW h \in Handlers, SetRunAtStartup(h) PROVE Inv'
  <2> USE <1>4 DEF SetRunAtStartup, Change, Save
  <2>1. TypeOK'
    <3>1. live' \in Config OBVIOUS
    <3>2. content' \in [Writers -> Config] BY <3>1
    <3>3. QED BY <3>1, <3>2
  <2>2. SaveOwned' BY DEF SaveOwned, Writing
  <2>3. FileWhole' BY DEF FileWhole
  <2>4. ChangeOwned' BY DEF ChangeOwned
  <2>5. Current' BY DEF Current, ChangeOwned, SaveOwned, Writing, Load, Same, Filled
  <2>6. FlagKnown' BY DEF FlagKnown, ChangeOwned, Load
  <2>7. FlagMirrors' BY DEF FlagMirrors, FlagKnown, ChangeOwned
  <2>8. OneHelper' /\ OrderKnown' BY HelpersKept
  <2>9. QED BY <2>1, <2>2, <2>3, <2>4, <2>5, <2>6, <2>7, <2>8
<1>5. ASSUME NEW h \in Handlers, HandlerReturns(h) PROVE Inv'
  <2> USE <1>5 DEF HandlerReturns, Returned
  <2>1. TypeOK' OBVIOUS
  <2>2. SaveOwned' BY DEF SaveOwned, Writing
  <2>3. FileWhole' BY DEF FileWhole
  <2>4. ChangeOwned' BY DEF ChangeOwned
  <2>5. Current' BY DEF Current, ChangeOwned, SaveOwned, Writing, Load, Same, Filled
  <2>6. FlagKnown'
    <3>1. \A g \in Handlers : Toggling(g)' => Toggling(g) /\ handler'[g] = handler[g] OBVIOUS
    <3>2. QED BY <3>1 DEF FlagKnown, ChangeOwned
  <2>7. FlagMirrors' BY DEF FlagMirrors, FlagKnown, ChangeOwned
  <2>8. OneHelper' /\ OrderKnown' BY HelpersKept
  <2>9. QED BY <2>1, <2>2, <2>3, <2>4, <2>5, <2>6, <2>7, <2>8
<1>6. ASSUME NEW w \in Writers, Lock(w), UNCHANGED <<up, coord, reg, session, ha, history>> PROVE Inv'
  <2> USE <1>6 DEF Lock
  <2>1. TypeOK' OBVIOUS
  <2>2. SaveOwned' BY DEF SaveOwned, Writing
  <2>3. FileWhole' BY DEF FileWhole
  <2>4. ChangeOwned' BY DEF ChangeOwned
  <2>5. Current' BY DEF Current, ChangeOwned, SaveOwned, Writing, Load, Same, Filled
  <2>6. FlagKnown' BY DEF FlagKnown, ChangeOwned, Load
  <2>7. FlagMirrors' BY DEF FlagMirrors, FlagKnown, ChangeOwned
  <2>8. OneHelper' /\ OrderKnown' BY HelpersKept
  <2>9. QED BY <2>1, <2>2, <2>3, <2>4, <2>5, <2>6, <2>7, <2>8
<1>7. ASSUME NEW w \in Writers, Open(w), UNCHANGED <<up, coord, reg, session, ha, history>> PROVE Inv'
  <2> USE <1>7 DEF Open
  <2>1. TypeOK' OBVIOUS
  <2>2. SaveOwned' BY DEF SaveOwned, Writing
  <2>3. FileWhole' BY DEF FileWhole
  <2>4. ChangeOwned' BY DEF ChangeOwned
  <2>5. Current' BY DEF Current, ChangeOwned, SaveOwned, Writing, Load, Same, Filled
  <2>6. FlagKnown' BY DEF FlagKnown, ChangeOwned, Load
  <2>7. FlagMirrors' BY DEF FlagMirrors, FlagKnown, ChangeOwned
  <2>8. OneHelper' /\ OrderKnown' BY HelpersKept
  <2>9. QED BY <2>1, <2>2, <2>3, <2>4, <2>5, <2>6, <2>7, <2>8
<1>8. ASSUME NEW w \in Writers, Write(w), UNCHANGED <<up, coord, reg, session, ha, history>> PROVE Inv'
  <2> USE <1>8 DEF Write
  <2>1. TypeOK' OBVIOUS
  <2>2. SaveOwned' BY DEF SaveOwned, Writing
  <2>3. FileWhole' BY DEF FileWhole
  <2>4. ChangeOwned' BY DEF ChangeOwned
  <2>5. Current' BY DEF Current, ChangeOwned, SaveOwned, Writing, Load, Same, Filled
  <2>6. FlagKnown' BY DEF FlagKnown, ChangeOwned, Load
  <2>7. FlagMirrors' BY DEF FlagMirrors, FlagKnown, ChangeOwned
  <2>8. OneHelper' /\ OrderKnown' BY HelpersKept
  <2>9. QED BY <2>1, <2>2, <2>3, <2>4, <2>5, <2>6, <2>7, <2>8
<1>9. ASSUME NEW w \in Writers, SaveEnds(w) PROVE Inv'
  <2> USE <1>9 DEF SaveEnds, Rename
  <2>1. TypeOK' OBVIOUS
  <2>2. SaveOwned' BY DEF SaveOwned, Writing
  <2>3. FileWhole' BY DEF FileWhole, SaveOwned
  <2>4. ChangeOwned' BY DEF ChangeOwned
  <2>5. Current' BY DEF Current, ChangeOwned, SaveOwned, Writing, Load, Same, Filled
  <2>6. FlagKnown' BY DEF FlagKnown, ChangeOwned, Load
  <2>7. FlagMirrors' BY DEF FlagMirrors, FlagKnown, ChangeOwned
  <2>8. OneHelper' /\ OrderKnown' BY HelpersKept
  <2>9. QED BY <2>1, <2>2, <2>3, <2>4, <2>5, <2>6, <2>7, <2>8
<1>10. ASSUME NEW w \in Writers, SaveError(w) PROVE Inv'
  <2> USE <1>10 DEF SaveError, SaveFails
  <2>1. TypeOK' OBVIOUS
  <2>2. SaveOwned' BY DEF SaveOwned, Writing
  <2>3. FileWhole' BY DEF FileWhole
  <2>4. ChangeOwned' BY DEF ChangeOwned
  <2>5. Current' BY DEF Current, ChangeOwned, SaveOwned, Writing, Load, Same, Filled
  <2>6. FlagKnown' BY DEF FlagKnown, ChangeOwned, Load
  <2>7. FlagMirrors' BY DEF FlagMirrors, FlagKnown, ChangeOwned
  <2>8. OneHelper' /\ OrderKnown' BY HelpersKept
  <2>9. QED BY <2>1, <2>2, <2>3, <2>4, <2>5, <2>6, <2>7, <2>8
<1>11. ASSUME Start PROVE Inv'
  <2> USE <1>11 DEF Start
  <2>1. TypeOK' BY FilledIn
  <2>2. SaveOwned' /\ FileWhole' BY FileKept
  <2>3. ChangeOwned' BY DEF ChangeOwned
  <2>4. Current' /\ FlagKnown' /\ FlagMirrors' BY CoordKept
  <2>5. OneHelper' BY DEF OneHelper
  <2>6. OrderKnown'
    <3>1. snap'.name # "unset" /\ kind' = 1 BY FilledIn
    <3>2. 1..(kind' - 1) = {} BY <3>1
    <3>3. order = "none" BY DEF OrderKnown, There
    <3>4. QED BY <3>1, <3>2, <3>3 DEF OrderKnown, There
  <2>7. QED BY <2>1, <2>2, <2>3, <2>4, <2>5, <2>6
<1>12. ASSUME LookFinds PROVE Inv'
  <2> USE <1>12 DEF LookFinds, Found, Save
  <2>1. TypeOK' OBVIOUS
  <2>2. SaveOwned' BY DEF SaveOwned, Writing
  <2>3. FileWhole' BY DEF FileWhole
  <2>4. ChangeOwned' BY DEF ChangeOwned
  <2>5. Current' BY DEF Current, ChangeOwned, SaveOwned, Writing, Load, Same, Filled
  <2>6. FlagKnown' BY DEF FlagKnown, ChangeOwned, Load
  <2>7. FlagMirrors' BY DEF FlagMirrors, FlagKnown, ChangeOwned
  <2>8. OneHelper' BY DEF OneHelper
  <2>9. OrderKnown'
    <3>1. There(kind) BY DEF OrderKnown, There, Exists
    <3>2. \A k \in 1..kind : There(k)'
      <4>1. \A k \in 1..kind : k = kind \/ k \in 1..(kind - 1) OBVIOUS
      <4>2. \A k \in 1..kind : There(k) BY <3>1, <4>1 DEF OrderKnown
      <4>3. QED BY <4>2 DEF There
    <3>3. CASE kind < Kinds
      <4>1. kind' - 1 = kind BY <3>3
      <4>2. QED BY <3>2, <3>3, <4>1 DEF OrderKnown
    <3>4. CASE ~(kind < Kinds)
      <4>1. kind = Kinds /\ kind' = kind BY <3>4
      <4>2. \A k \in 1..(kind' - 1) : k \in 1..kind BY <4>1
      <4>3. QED BY <3>2, <3>4, <4>1, <4>2 DEF OrderKnown
    <3>5. QED BY <3>3, <3>4
  <2>10. QED BY <2>1, <2>2, <2>3, <2>4, <2>5, <2>6, <2>7, <2>8, <2>9
<1>13. ASSUME LookMisses PROVE Inv'
  <2> USE <1>13 DEF LookMisses
  <2>1. TypeOK' OBVIOUS
  <2>2. SaveOwned' /\ FileWhole' BY FileKept
  <2>3. ChangeOwned' BY DEF ChangeOwned
  <2>4. Current' /\ FlagKnown' /\ FlagMirrors' BY CoordKept
  <2>5. OneHelper' BY DEF OneHelper
  <2>6. OrderKnown'
    <3>1. snap.name \in Named BY DEF OrderKnown, There
    <3>2. made[kind][snap.name] \in Nat BY <3>1, Counted
    <3>3. snap.name \in Slugs => made[kind][snap.name] = 0 BY <3>2 DEF Exists
    <3>4. QED BY <3>3 DEF OrderKnown, There
  <2>7. QED BY <2>1, <2>2, <2>3, <2>4, <2>5, <2>6
<1>14. ASSUME Created PROVE Inv'
  <2> USE <1>14 DEF Created, Found, Save
  <2>1. TypeOK' OBVIOUS
  <2>2. SaveOwned' BY DEF SaveOwned, Writing
  <2>3. FileWhole' BY DEF FileWhole
  <2>4. ChangeOwned' BY DEF ChangeOwned
  <2>5. Current' BY DEF Current, ChangeOwned, SaveOwned, Writing, Load, Same, Filled
  <2>6. FlagKnown' BY DEF FlagKnown, ChangeOwned, Load
  <2>7. FlagMirrors' BY DEF FlagMirrors, FlagKnown, ChangeOwned
  <2>8. OneHelper' BY DEF OneHelper
  <2>9. OrderKnown'
    <3>1. There(kind) BY DEF OrderKnown, There, Exists
    <3>2. \A k \in 1..kind : There(k)'
      <4>1. \A k \in 1..kind : k = kind \/ k \in 1..(kind - 1) OBVIOUS
      <4>2. \A k \in 1..kind : There(k) BY <3>1, <4>1 DEF OrderKnown
      <4>3. QED BY <4>2 DEF There
    <3>3. CASE kind < Kinds
      <4>1. kind' - 1 = kind BY <3>3
      <4>2. QED BY <3>2, <3>3, <4>1 DEF OrderKnown
    <3>4. CASE ~(kind < Kinds)
      <4>1. kind = Kinds /\ kind' = kind BY <3>4
      <4>2. \A k \in 1..(kind' - 1) : k \in 1..kind BY <4>1
      <4>3. QED BY <3>2, <3>4, <4>1, <4>2 DEF OrderKnown
    <3>5. QED BY <3>3, <3>4
  <2>10. QED BY <2>1, <2>2, <2>3, <2>4, <2>5, <2>6, <2>7, <2>8, <2>9
<1>15. ASSUME SnapshotSaved PROVE Inv'
  <2> USE <1>15 DEF SnapshotSaved, Returned
  <2>1. TypeOK' OBVIOUS
  <2>2. SaveOwned' BY DEF SaveOwned, Writing
  <2>3. FileWhole' BY DEF FileWhole
  <2>4. ChangeOwned' BY DEF ChangeOwned
  <2>5. Current' BY DEF Current, ChangeOwned, SaveOwned, Writing, Load, Same, Filled
  <2>6. FlagKnown' BY DEF FlagKnown, ChangeOwned, Load
  <2>7. FlagMirrors' BY DEF FlagMirrors, FlagKnown, ChangeOwned
  <2>8. OneHelper' BY DEF OneHelper
  <2>9. OrderKnown' BY DEF OrderKnown, There, Exists, ChangeOwned
  <2>10. QED BY <2>1, <2>2, <2>3, <2>4, <2>5, <2>6, <2>7, <2>8, <2>9
<1>16. ASSUME End PROVE Inv'
  <2> USE <1>16 DEF End, Abandon
  <2>1. TypeOK'
    <3>1. late' \in Counts
      <4>1. CASE order = "sent"
        <5>1. snap.name \in Named BY <4>1 DEF OrderKnown, There
        <5>2. late[kind][snap.name] + 1 \in Nat BY <5>1, Counted
        <5>3. QED BY <4>1, <5>1, <5>2, CountsExcept
      <4>2. CASE order # "sent" BY <4>2
      <4>3. QED BY <4>1, <4>2
    <3>2. QED BY <3>1
  <2>2. SaveOwned' /\ FileWhole' BY FileKept
  <2>3. ChangeOwned' BY DEF ChangeOwned
  <2>4. Current' /\ FlagKnown' /\ FlagMirrors' BY CoordKept
  <2>5. OneHelper' BY DEF OneHelper
  <2>6. OrderKnown' BY DEF OrderKnown, There, Exists, ChangeOwned
  <2>7. QED BY <2>1, <2>2, <2>3, <2>4, <2>5, <2>6
<1>17. ASSUME Serve PROVE Inv'
  <2> USE <1>17 DEF Serve
  <2>1. TypeOK'
    <3>1. snap.name \in Named BY DEF OrderKnown, There
    <3>2. made[kind][snap.name] + 1 \in Nat BY <3>1, Counted
    <3>3. made' \in Counts BY <3>1, <3>2, CountsExcept
    <3>4. QED BY <3>3
  <2>2. SaveOwned' /\ FileWhole' BY FileKept
  <2>3. ChangeOwned' BY DEF ChangeOwned
  <2>4. Current' /\ FlagKnown' /\ FlagMirrors' BY CoordKept
  <2>5. OneHelper'
    <3>1. snap.name \in Named BY DEF OrderKnown, There
    <3>2. made[kind][snap.name] + 1 \in Nat BY <3>1, Counted
    <3>3. \A i \in 1..Kinds, m \in Named :
            made'[i][m] = IF i = kind /\ m = snap.name THEN made[kind][snap.name] + 1
                                                       ELSE made[i][m]
      <4>1. made' = [made EXCEPT ![kind][snap.name] = made[kind][snap.name] + 1] OBVIOUS
      <4>2. made \in Counts OBVIOUS
      <4> HIDE DEF Inv, Serve
      <4>3. QED BY <3>1, <3>2, <4>1, <4>2, CountsExcept
    <3>4. snap.name \in Slugs /\ ~delayed => made[kind][snap.name] = 0 BY DEF OrderKnown, There
    <3>5. QED BY <3>3, <3>4 DEF OneHelper
  <2>6. OrderKnown'
    <3>1. snap.name \in Named BY DEF OrderKnown, There
    <3>2. made[kind][snap.name] + 1 \in Nat BY <3>1, Counted
    <3>3. \A i \in 1..Kinds, m \in Named :
            made'[i][m] = IF i = kind /\ m = snap.name THEN made[kind][snap.name] + 1
                                                       ELSE made[i][m]
      <4>1. made' = [made EXCEPT ![kind][snap.name] = made[kind][snap.name] + 1] OBVIOUS
      <4>2. made \in Counts OBVIOUS
      <4> HIDE DEF Inv, Serve
      <4>3. QED BY <3>1, <3>2, <4>1, <4>2, CountsExcept
    <3>4. \A i \in 1..Kinds, m \in Named : made[i][m] > 0 => made'[i][m] > 0
      <4>1. \A i \in 1..Kinds, m \in Named : made[i][m] \in Nat BY Counted
      <4>2. QED BY <3>3, <4>1
    <3>5. 1..(kind - 1) \subseteq 1..Kinds OBVIOUS
    <3>6. made[kind][snap.name] \in Nat /\ made'[kind][snap.name] > 0 BY <3>1, <3>3, Counted
    <3>7. sess = "creating" BY DEF OrderKnown, There
    <3>8. QED BY <3>1, <3>4, <3>5, <3>6, <3>7 DEF OrderKnown, There
  <2>7. QED BY <2>1, <2>2, <2>3, <2>4, <2>5, <2>6
<1>18. ASSUME NEW k \in 1..Kinds, NEW n \in Named, ServeLate(k, n) PROVE Inv'
  <2> USE <1>18 DEF ServeLate
  <2>1. TypeOK'
    <3>1. late[k][n] - 1 \in Nat /\ made[k][n] + 1 \in Nat BY Counted
    <3>2. late' \in Counts /\ made' \in Counts BY <3>1, CountsExcept
    <3>3. QED BY <3>2
  <2>2. SaveOwned' /\ FileWhole' BY FileKept
  <2>3. ChangeOwned' BY DEF ChangeOwned
  <2>4. Current' /\ FlagKnown' /\ FlagMirrors' BY CoordKept
  <2>5. OneHelper' BY DEF OneHelper
  <2>6. OrderKnown'
    <3>1. made[k][n] + 1 \in Nat BY Counted
    <3>2. \A i \in 1..Kinds, m \in Named :
            made'[i][m] = IF i = k /\ m = n THEN made[k][n] + 1 ELSE made[i][m]
      <4>1. made' = [made EXCEPT ![k][n] = made[k][n] + 1] OBVIOUS
      <4>2. made \in Counts OBVIOUS
      <4> HIDE DEF Inv, ServeLate
      <4>3. QED BY <3>1, <4>1, <4>2, CountsExcept
    <3>3. \A i \in 1..Kinds, m \in Named : made[i][m] > 0 => made'[i][m] > 0
      <4>1. \A i \in 1..Kinds, m \in Named : made[i][m] \in Nat BY Counted
      <4>2. QED BY <3>2, <4>1
    <3>4. 1..(kind - 1) \subseteq 1..Kinds OBVIOUS
    <3>5. sess # "off" => snap.name \in Named BY DEF OrderKnown, There
    <3>6. order # "none" => sess # "off" BY DEF OrderKnown, There
    <3>7. QED BY <3>3, <3>4, <3>5, <3>6 DEF OrderKnown, There
  <2>7. QED BY <2>1, <2>2, <2>3, <2>4, <2>5, <2>6
<1>19. ASSUME NEW k \in 1..Kinds, NEW n \in Named, LoseLate(k, n) PROVE Inv'
  <2> USE <1>19 DEF LoseLate
  <2>1. TypeOK'
    <3>1. late[k][n] - 1 \in Nat BY Counted
    <3>2. late' \in Counts BY <3>1, CountsExcept
    <3>3. QED BY <3>2
  <2>2. SaveOwned' /\ FileWhole' BY FileKept
  <2>3. ChangeOwned' BY DEF ChangeOwned
  <2>4. Current' /\ FlagKnown' /\ FlagMirrors' BY CoordKept
  <2>5. OneHelper' BY DEF OneHelper
  <2>6. OrderKnown' BY DEF OrderKnown, There, Exists, ChangeOwned
  <2>7. QED BY <2>1, <2>2, <2>3, <2>4, <2>5, <2>6
<1>r. ASSUME NEW k \in 1..Kinds, NEW n \in Named, Remove(k, n) PROVE Inv'
  <2> USE <1>r DEF Remove
  <2>0. made[k][n] - 1 \in Nat BY Counted
  <2>1. TypeOK'
    <3>1. made' \in Counts BY <2>0, CountsExcept
    <3>2. QED BY <3>1
  <2>2. SaveOwned' /\ FileWhole' BY FileKept
  <2>3. ChangeOwned' BY DEF ChangeOwned
  <2>4. Current' /\ FlagKnown' /\ FlagMirrors' BY CoordKept
  <2>5. \A i \in 1..Kinds, m \in Named :
          made'[i][m] = IF i = k /\ m = n THEN made[k][n] - 1 ELSE made[i][m]
    <3>1. made' = [made EXCEPT ![k][n] = made[k][n] - 1] OBVIOUS
    <3>2. made \in Counts OBVIOUS
    <3> HIDE DEF Inv, Remove
    <3>3. QED BY <2>0, <3>1, <3>2, CountsExcept
  <2>6. \A i \in 1..Kinds, m \in Named : made[i][m] \in Nat BY Counted
  <2>7. OneHelper' BY <2>5, <2>6 DEF OneHelper
  <2>8. OrderKnown'
    <3>1. sess # "off" => snap.name \in Named BY DEF OrderKnown
    <3>2. ASSUME NEW i \in 1..Kinds, Has(i), There(i) PROVE There(i)'
      <4>1. sess # "off" BY <3>2 DEF Has
      <4>2. CASE i = k /\ n = snap.name BY <3>2, <4>2 DEF There
      <4>3. CASE ~(i = k /\ n = snap.name)
        <5>1. made'[i][snap.name] = made[i][snap.name] BY <2>5, <3>1, <4>1, <4>3
        <5>2. QED BY <3>2, <5>1 DEF There
      <4>4. QED BY <4>2, <4>3
    <3>3. 1..(kind - 1) \subseteq 1..Kinds OBVIOUS
    <3>4. order # "none" => sess = "creating" BY DEF OrderKnown
    <3>5. order = "served" => There(kind)'
      <4>1. order = "served" => Has(kind) /\ There(kind) BY <3>4 DEF OrderKnown, Has
      <4>2. QED BY <3>2, <4>1
    <3>6. sess # "off" => \A i \in 1..(kind - 1) : There(i)'
      <4>1. sess # "off" => \A i \in 1..(kind - 1) : Has(i) /\ There(i)
        BY DEF OrderKnown, Has
      <4>2. QED BY <3>2, <3>3, <4>1
    <3>7. sess \in {"saving", "serving"} => \A i \in 1..Kinds : There(i)'
      <4>1. sess \in {"saving", "serving"} => \A i \in 1..Kinds : Has(i) /\ There(i)
        BY DEF OrderKnown, Has
      <4>2. QED BY <3>2, <4>1
    <3>8. order = "sent" /\ snap.name \in Slugs /\ ~delayed => made'[kind][snap.name] = 0
      <4>1. order = "sent" => snap.name \in Named BY <3>1, <3>4
      <4>2. QED BY <2>5, <2>6, <4>1 DEF OrderKnown
    <3>9. sess # "off" => snap.name # "unset" BY DEF OrderKnown
    <3>10. QED BY <3>4, <3>5, <3>6, <3>7, <3>8, <3>9 DEF OrderKnown
  <2>9. QED BY <2>1, <2>2, <2>3, <2>4, <2>7, <2>8
<1>20. ASSUME Kill PROVE Inv'
  <2> USE <1>20 DEF Kill, FileKilled, Abandon
  <2>1. TypeOK'
    <3>1. late' \in Counts
      <4>1. CASE order = "sent"
        <5>1. snap.name \in Named BY <4>1 DEF OrderKnown, There
        <5>2. late[kind][snap.name] + 1 \in Nat BY <5>1, Counted
        <5>3. QED BY <4>1, <5>1, <5>2, CountsExcept
      <4>2. CASE order # "sent" BY <4>2
      <4>3. QED BY <4>1, <4>2
    <3>2. FileTypeOK' OBVIOUS
    <3>3. /\ up' \in BOOLEAN /\ live' \in Config /\ cfgMu' \in Handlers \cup {"free"}
          /\ handler' \in [Handlers -> {"idle", "on", "off", "saving"}] /\ reg' \in BOOLEAN
      OBVIOUS
    <3>4. snap' \in Config /\ kind' \in 1..Kinds OBVIOUS
    <3>5. /\ apart' \in Causes \cup {"none"} /\ made' \in Counts /\ removed' \in SUBSET (1..Kinds)
          /\ UNCHANGED <<reason, delayed>>
      BY DEF LostFlag
    <3>6. sess' = "off" /\ order' = "none" OBVIOUS
    <3> HIDE <1>20 DEF FileTypeOK, Kill
    <3>7. QED BY <3>1, <3>2, <3>3, <3>4, <3>5, <3>6
  <2>2. SaveOwned' BY DEF SaveOwned, Writing
  <2>3. FileWhole' BY DEF FileWhole
  <2>4. ChangeOwned' BY DEF ChangeOwned
  <2>5. Current' BY DEF Current, ChangeOwned, SaveOwned, Writing, Load, Same, Filled
  <2>6. FlagKnown'
    <3> SUFFICES ASSUME Load.startup # reg, LostFlag = "none", apart = "none" PROVE FALSE
      <4>1. CASE Load.startup = reg
        <5>1. Load' = Load BY DEF Load
        <5>2. \A h \in Handlers : ~Toggling(h)' OBVIOUS
        <5>3. QED BY <4>1, <5>1, <5>2 DEF FlagKnown
      <4>2. CASE Load.startup # reg
        <5>1. apart' = "none" => apart = "none" /\ LostFlag = "none" BY <4>2
        <5>2. QED BY <4>2, <5>1 DEF FlagKnown
      <4>3. QED BY <4>1, <4>2
    <3>1. reason = "none" /\ \A h \in Handlers : ~Midway(h) BY DEF LostFlag
    <3>2. \A h \in Handlers : ~Toggling(h) BY <3>1 DEF Midway
    <3>3. live.startup = reg BY <3>2 DEF FlagMirrors
    <3>4. CASE cfgMu # "free" /\ save[cfgMu] \notin {"ok", "error"}
      <4>1. /\ cfgMu \in Handlers /\ save[cfgMu] # "idle" /\ content[cfgMu] = live
        BY <3>4 DEF ChangeOwned
      <4>2. content[cfgMu].startup = Load.startup BY <3>1, <3>4, <4>1 DEF Midway
      <4>3. QED BY <3>3, <4>1, <4>2
    <3>5. CASE cfgMu = "free" \/ save[cfgMu] \in {"ok", "error"}
      <4>1. Same(Load, live) BY <3>1, <3>5 DEF Current
      <4>2. Load.startup = live.startup BY <4>1, Loaded, FilledIn DEF Same
      <4>3. QED BY <3>3, <4>2
    <3>6. QED BY <3>4, <3>5
  <2>7. FlagMirrors' BY DEF FlagMirrors, FlagKnown, ChangeOwned
  <2>8. OneHelper' BY DEF OneHelper
  <2>9. OrderKnown' BY DEF OrderKnown, There, Exists, ChangeOwned
  <2>10. QED BY <2>1, <2>2, <2>3, <2>4, <2>5, <2>6, <2>7, <2>8, <2>9
<1>21. ASSUME Restart PROVE Inv'
  <2> USE <1>21 DEF Restart
  <2>1. TypeOK' BY Loaded
  <2>2. SaveOwned' /\ FileWhole' BY FileKept
  <2>3. ChangeOwned' BY DEF ChangeOwned
  <2>4. Current' BY DEF Current, ChangeOwned, SaveOwned, Writing, Load, Same, Filled
  <2>5. FlagKnown' BY DEF FlagKnown, ChangeOwned, Load
  <2>6. FlagMirrors' BY DEF FlagMirrors, FlagKnown, ChangeOwned
  <2>7. OneHelper' /\ OrderKnown' BY HelpersKept
  <2>8. QED BY <2>1, <2>2, <2>3, <2>4, <2>5, <2>6, <2>7
<1>22. ASSUME EditRegistry PROVE Inv'
  <2> USE <1>22 DEF EditRegistry
  <2>1. TypeOK' OBVIOUS
  <2>2. SaveOwned' /\ FileWhole' BY FileKept
  <2>3. ChangeOwned' BY DEF ChangeOwned
  <2>4. Current' BY DEF Current, ChangeOwned, SaveOwned, Writing, Load, Same, Filled
  <2>5. FlagKnown' BY DEF FlagKnown, ChangeOwned, Load
  <2>6. FlagMirrors' BY DEF FlagMirrors, FlagKnown, ChangeOwned
  <2>7. OneHelper' /\ OrderKnown' BY HelpersKept
  <2>8. QED BY <2>1, <2>2, <2>3, <2>4, <2>5, <2>6, <2>7
<1>23. ASSUME UNCHANGED vars PROVE Inv'
  <2> USE <1>23 DEF vars
  <2>1. TypeOK' OBVIOUS
  <2>2. SaveOwned' /\ FileWhole' BY FileKept
  <2>3. ChangeOwned' BY DEF ChangeOwned
  <2>4. Current' /\ FlagKnown' /\ FlagMirrors' BY CoordKept
  <2>5. OneHelper' /\ OrderKnown' BY HelpersKept
  <2>6. QED BY <2>1, <2>2, <2>3, <2>4, <2>5
<1>24. QED
  <2>1. ASSUME NEW w \in Writers, SaveGoesOn(w) PROVE Inv'
    BY <2>1, <1>6, <1>7, <1>8 DEF SaveGoesOn
  <2>2. ASSUME NEW h \in Handlers, Request(h) PROVE Inv'
    BY <2>2, <1>1, <1>2, <1>3 DEF Request
  <2>3. CASE Session
    BY <2>3, <1>11, <1>12, <1>13, <1>14, <1>15 DEF Session
  <2>4. CASE Answers
    BY <2>4, <1>17, <1>18, <1>19 DEF Answers
  <2>5. CASE Goroutines
    BY <2>1, <2>3, <2>4, <2>5, <1>4, <1>5, <1>9, <1>21 DEF Goroutines, Saving
  <2>6. QED
    BY <2>2, <2>5, <1>10, <1>16, <1>20, <1>22, <1>23, <1>r DEF Next, Removals

\* Spec keeps the invariant.
THEOREM Invariance == Spec => []Inv
<1>1. QED
  BY InitInv, InvStep, PTL DEF Spec

\* Every variable has its type: no writer is lost track of, and what is in memory and
\* in the file is always a configuration.
THEOREM TypeCorrect == Spec => []TypeOK
BY Invariance, PTL DEF Inv

\* Between two changes the next start would find the live configuration, unless a
\* handler's save failed or a session wrote an older snapshot.
THEOREM FileIsCurrent == Spec => []FileCurrent
<1>1. Inv => FileCurrent
  BY DEF Inv, Current, FileCurrent
<1>2. QED
  BY <1>1, Invariance, PTL

\* The flag is the registry's over restarts, but for one of the six causes: a first start,
\* an edit, crossing toggles, a kill midway, a failed save, a session's older snapshot
\* (main.go:221-229, bridge.go:55).
THEOREM FlagIsMirrored == Spec => []FlagMirrors
BY Invariance, PTL DEF Inv

\* A helper is created once, unless a request outlived its session.
THEOREM HelperMadeOnce == Spec => []OneHelper
BY Invariance, PTL DEF Inv

\* A session serves helpers that are there, each found or created, unless one was removed
\* after the session had it (bridge.go:161-163, 219-250).
THEOREM HelpersThere == Spec => []ServesExisting
<1>1. Inv => ServesExisting
  BY DEF Inv, OrderKnown, There, ServesExisting
<1>2. QED
  BY <1>1, Invariance, PTL

-----------------------------------------------------------------------------
(* Store implements AtomicFile.                                            *)

\* A whole content is not Nothing.
LEMMA WholeIsSomething == ASSUME NEW c PROVE Whole(c) # Nothing
BY DEF Whole, Nothing, Bad

\* At first nobody is saving.
LEMMA FileInitRefined == Init => File!Init
<1> SUFFICES ASSUME Init PROVE File!Init OBVIOUS
<1>1. FileInit BY DEF Init
<1>2. file \in {Whole(c) : c \in Config} \cup {Bad("missing"), Bad("garbage")} BY <1>1 DEF FileInit
<1>3. wanted = [w \in Writers |-> Nothing] BY <1>1 DEF FileInit, wanted
<1>4. answer = [w \in Writers |-> "none"] BY <1>1 DEF FileInit, answer
<1>5. QED BY <1>2, <1>3, <1>4 DEF File!Init

\* The call of Save.
LEMMA SaveAsks ==
  ASSUME FileTypeOK, NEW w \in Writers, NEW c \in Config, Save(w, c)
  PROVE  File!Next
<1> USE DEF Save, FileTypeOK
<1>1. wanted[w] = Nothing BY DEF wanted
<1>2. wanted' = [wanted EXCEPT ![w] = Whole(c)] BY DEF wanted
<1>3. answer' = answer BY DEF answer
<1>4. Whole(c) \in {Whole(d) : d \in Config} OBVIOUS
<1>5. File!Ask(w, Whole(c)) BY <1>1, <1>2, <1>3, <1>4 DEF File!Ask
<1>6. QED BY <1>4, <1>5 DEF File!Next

\* Steps of Save before the rename are not seen.
LEMMA SaveUnseen ==
  ASSUME FileTypeOK, NEW w \in Writers, Lock(w) \/ Open(w) \/ Write(w)
  PROVE  UNCHANGED <<file, wanted, answer>>
<1> USE DEF FileTypeOK, Lock, Open, Write
<1>1. UNCHANGED file OBVIOUS
<1>2. UNCHANGED wanted BY DEF wanted
<1>3. UNCHANGED answer BY DEF answer
<1>4. QED BY <1>1, <1>2, <1>3

\* The rename is where the file changes.
LEMMA RenameSucceeds ==
  ASSUME FileTypeOK, SaveOwned, NEW w \in Writers, Rename(w)
  PROVE  File!Next
<1> USE DEF Rename, FileTypeOK
<1>1. wanted[w] = Whole(content[w]) BY DEF wanted
<1>2. file' = Whole(content[w]) BY DEF SaveOwned
<1>3. wanted' = wanted BY DEF wanted
<1>4. answer[w] = "none" /\ answer' = [answer EXCEPT ![w] = "ok"] BY DEF answer
<1>5. File!Succeed(w) BY <1>1, <1>2, <1>3, <1>4, WholeIsSomething DEF File!Succeed
<1>6. QED BY <1>5 DEF File!Next

\* A failure leaves the file.
LEMMA FailureFails ==
  ASSUME FileTypeOK, NEW w \in Writers, SaveFails(w)
  PROVE  File!Next
<1> USE DEF SaveFails, FileTypeOK
<1>1. wanted[w] = Whole(content[w]) BY DEF wanted
<1>2. wanted' = wanted BY DEF wanted
<1>3. answer[w] = "none" /\ answer' = [answer EXCEPT ![w] = "error"] BY DEF answer
<1>4. File!Fail(w) BY <1>1, <1>2, <1>3, WholeIsSomething DEF File!Fail
<1>5. QED BY <1>4 DEF File!Next

\* The caller has the result.
LEMMA ReturnReturns ==
  ASSUME FileTypeOK, NEW w \in Writers, Returned(w)
  PROVE  File!Next
<1> USE DEF Returned, FileTypeOK
<1>1. answer[w] # "none" BY DEF answer
<1>2. wanted' = [wanted EXCEPT ![w] = Nothing] BY DEF wanted
<1>3. answer' = [answer EXCEPT ![w] = "none"] BY DEF answer
<1>4. File!Return(w) BY <1>1, <1>2, <1>3 DEF File!Return
<1>5. QED BY <1>4 DEF File!Next

\* The end of the process leaves the file, and nobody saves any more.
LEMMA KillKills == FileKilled => File!Kill
<1> SUFFICES ASSUME FileKilled PROVE File!Kill OBVIOUS
<1> USE DEF FileKilled
<1>1. wanted' = [w \in Writers |-> Nothing] BY DEF wanted
<1>2. answer' = [w \in Writers |-> "none"] BY DEF answer
<1>3. QED BY <1>1, <1>2 DEF File!Kill

\* A step of Store is a step of the atomic file, or none.
LEMMA FileStepRefined == Inv /\ [Next]_vars => [File!Next]_File!fvars
<1> SUFFICES ASSUME Inv, [Next]_vars PROVE File!Next \/ UNCHANGED <<file, wanted, answer>>
  BY DEF File!fvars
<1>1. FileTypeOK /\ SaveOwned /\ TypeOK BY DEF Inv, TypeOK
<1>2. UNCHANGED files => UNCHANGED <<file, wanted, answer>> BY DEF files, wanted, answer
<1>3. ASSUME NEW h \in Handlers, Request(h) \/ SetRunAtStartup(h) \/ HandlerReturns(h)
      PROVE  File!Next \/ UNCHANGED <<file, wanted, answer>>
  <2>1. ASSUME NEW c \in Config, Change(h, c) PROVE File!Next
    BY <1>1, <2>1, SaveAsks DEF Change
  <2>2. live \in Config BY <1>1 DEF TypeOK
  <2>3. ASSUME NEW b \in BOOLEAN, SetAccount(h, b) PROVE File!Next
    <3>1. [live EXCEPT !.account = b] \in Config BY <2>2 DEF Config
    <3>2. QED BY <2>1, <2>3, <3>1 DEF SetAccount
  <2>4. ASSUME NEW n \in Names \cup {"unset"}, SaveConfig(h, n) PROVE File!Next
    <3>1. [live EXCEPT !.name = n] \in Config BY <2>2 DEF Config
    <3>2. QED BY <2>1, <2>4, <3>1 DEF SaveConfig
  <2>5. CASE SetRunAtStartup(h)
    <3>1. [live EXCEPT !.startup = (handler[h] = "on")] \in Config BY <2>2 DEF Config
    <3>2. QED BY <2>1, <2>5, <3>1 DEF SetRunAtStartup
  <2>6. ASSUME NEW b \in BOOLEAN, SetEnabled(h, b) PROVE UNCHANGED files
    BY <2>6 DEF SetEnabled
  <2>7. CASE HandlerReturns(h)
    BY <1>1, <2>7, ReturnReturns DEF HandlerReturns
  <2>8. QED
    BY <1>2, <1>3, <2>3, <2>4, <2>5, <2>6, <2>7 DEF Request
<1>4. ASSUME NEW w \in Writers, Saving(w) \/ SaveError(w)
      PROVE  File!Next \/ UNCHANGED <<file, wanted, answer>>
  <2>1. CASE SaveGoesOn(w) BY <1>1, <2>1, SaveUnseen DEF SaveGoesOn
  <2>2. CASE SaveEnds(w) BY <1>1, <2>2, RenameSucceeds DEF SaveEnds
  <2>3. CASE SaveError(w) BY <1>1, <2>3, FailureFails DEF SaveError
  <2>4. QED BY <1>4, <2>1, <2>2, <2>3 DEF Saving
<1>5. CASE Session
  <2>1. snap \in Config BY <1>1 DEF TypeOK
  <2>2. Found => File!Next \/ UNCHANGED files BY <1>1, <2>1, SaveAsks DEF Found
  <2>3. CASE SnapshotSaved BY <1>1, <2>3, ReturnReturns DEF SnapshotSaved
  <2>4. Start \/ LookMisses => UNCHANGED files BY DEF Start, LookMisses
  <2>5. QED
    BY <1>2, <1>5, <2>2, <2>3, <2>4 DEF Session, LookFinds, Created
<1>6. CASE Kill
  BY <1>6, KillKills DEF Kill, File!Next
<1>7. Answers \/ Removals \/ Restart \/ End \/ EditRegistry => UNCHANGED files
  BY DEF Answers, Serve, ServeLate, LoseLate, Removals, Remove, Restart, End, EditRegistry
<1>8. UNCHANGED vars => UNCHANGED files
  BY DEF vars
<1>9. QED
  BY <1>2, <1>3, <1>4, <1>5, <1>6, <1>7, <1>8 DEF Next, Goroutines

\* "Save writes config atomically" (config.go:97): whoever saves, and whatever is
\* killed, the file goes from one whole configuration to another that somebody asked
\* to save, in one step.
THEOREM FileReplacedAtomically == Spec => File!Init /\ [][File!Next]_File!fvars
<1>1. QED
  BY FileInitRefined, FileStepRefined, Invariance, PTL DEF Spec
=============================================================================
