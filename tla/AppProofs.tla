------------------------------- MODULE AppProofs -------------------------------
(***************************************************************************)
(* Safety of the coordinator for any accounts, names and number of         *)
(* sessions: the invariant Inv of module App is inductive and implies what *)
(* the runs check.                                                         *)
(***************************************************************************)
EXTENDS App, TLAPS

\* What handlers, the loop, a run, a timer and the end of the process do.
LEMMA NextCases ==
  ASSUME [Next]_vars
  PROVE  \/ UNCHANGED vars
         \/ main # "exited" /\ \E a \in Accounts \cup {"none"}, ok \in BOOLEAN : SetAccount(a, ok)
         \/ main # "exited" /\ \E n \in Names \cup {"unset"}, ok \in BOOLEAN : SaveConfig(n, ok)
         \/ main # "exited" /\ \E ok \in BOOLEAN : SetRunAtStartup(ok)
         \/ main # "exited" /\ (Reconnect \/ KickReconnectOnce \/ Quit \/ Signal \/ Exit)
         \/ main # "exited" /\ Loop
         \/ main # "exited" /\ \E s \in Slots : Run(s)
         \/ main # "exited" /\ \E s \in Slots : Timer(s)
  BY DEF Next, System, Handlers, Disconnect, Authorized

\* A configuration stays one when an entry is replaced or its names are filled
\* in, and filling in names twice is filling them in once.
LEMMA Configs ==
  ASSUME NEW c \in Config
  PROVE  /\ \A a \in Accounts \cup {"none"} : [c EXCEPT !.acct = a] \in Config
         /\ \A n \in Names \cup {"unset"} : [c EXCEPT !.names = n] \in Config
         /\ Filled(c) \in Config /\ Same(Filled(c), c)
         /\ Empty \in Config
  BY DEF Config, Filled, Same, Empty

\* A step of the loop is one of these actions.
LEMMA LoopCases ==
  ASSUME Loop
  PROVE  \/ LoopStart \/ LoopStops \/ Top \/ Woken \/ RetryTimer \/ RefreshFails
         \/ (\E s \in Slots : StartSession(s))
         \/ SessionShut \/ SessionKicked \/ SessionEnded \/ AwaitRun
  BY DEF Loop

\* Types are preserved by every step.
LEMMA TypeStep == TypeOK /\ [Next]_vars => TypeOK'
<1> SUFFICES ASSUME TypeOK, [Next]_vars PROVE TypeOK'
  OBVIOUS
<1> USE DEF TypeOK, configs, kicks, looping, runs, shown, vars
<1>1. CASE UNCHANGED vars
  BY <1>1
<1>2. ASSUME NEW a \in Accounts \cup {"none"}, NEW ok \in BOOLEAN, SetAccount(a, ok)
      PROVE  TypeOK'
  <2>1. [cfg EXCEPT !.acct = a] \in Config
    BY Configs
  <2>2. QED
    BY <1>2, <2>1 DEF SetAccount, Save, Write
<1>3. ASSUME NEW n \in Names \cup {"unset"}, NEW ok \in BOOLEAN, SaveConfig(n, ok)
      PROVE  TypeOK'
  <2>1. [cfg EXCEPT !.names = n] \in Config
    BY Configs
  <2>2. QED
    BY <1>3, <2>1 DEF SaveConfig, Save, Write
<1>4. CASE Reconnect \/ KickReconnectOnce \/ Quit \/ Signal \/ Exit
  <2>1. CASE Reconnect
    BY <2>1 DEF Reconnect
  <2>2. CASE KickReconnectOnce
    <3>1. kick' \in 0..1 /\ owed' \in Nat
      BY <2>2 DEF KickReconnectOnce
    <3>2. unheard' \in BOOLEAN
      BY <2>2, Zenon DEF KickReconnectOnce
    <3>3. QED
      BY <2>2, <3>1, <3>2 DEF KickReconnectOnce
  <2>3. CASE Quit
    BY <2>3 DEF Quit
  <2>4. CASE Signal
    BY <2>4 DEF Signal
  <2>5. CASE Exit
    BY <2>5 DEF Exit
  <2>6. QED
    BY <1>4, <2>1, <2>2, <2>3, <2>4, <2>5
<1>5. CASE Loop
  <2>1. CASE LoopStart
    BY <2>1 DEF LoopStart
  <2>2. CASE LoopStops
    BY <2>2 DEF LoopStops
  <2>3. CASE Top
    BY <2>3 DEF Top, Disconnected
  <2>4. CASE Woken
    BY <2>4 DEF Woken
  <2>5. CASE RetryTimer
    BY <2>5 DEF RetryTimer
  <2>6. CASE RefreshFails
    BY <2>6 DEF RefreshFails, Disconnected
  <2>7. CASE SessionShut
    BY <2>7 DEF SessionShut
  <2>8. CASE SessionKicked
    BY <2>8 DEF SessionKicked
  <2>9. ASSUME NEW s \in Slots, StartSession(s) PROVE TypeOK'
    BY <2>9 DEF StartSession, Phases
  <2>10. CASE SessionEnded
    BY <2>10, Configs DEF SessionEnded, Disconnected, Phases
  <2>11. CASE AwaitRun
    BY <2>11, Configs DEF AwaitRun, Phases
  <2>12. QED
    BY <1>5, LoopCases, <2>1, <2>2, <2>3, <2>4, <2>5, <2>6, <2>7, <2>8, <2>9, <2>10, <2>11
<1>6. ASSUME NEW s \in Slots, Run(s) PROVE TypeOK'
  <2>1. ASSUME NEW ok \in BOOLEAN, Ensure(s, ok) PROVE TypeOK'
    <3>1. Filled(runCfg[s]) \in Config
      BY Configs
    <3>2. disk' \in Config /\ unsaved' \in BOOLEAN
      BY <2>1, <3>1 DEF Ensure, Write
    <3>3. QED
      BY <2>1, <3>1, <3>2 DEF Ensure, Phases
  <2>2. CASE Dial(s) \/ Subscribe(s) \/ RunEnds(s)
    BY <2>2 DEF Dial, Subscribe, RunEnds, Phases
  <2>3. QED
    BY <1>6, <2>1, <2>2 DEF Run
<1>7. ASSUME NEW s \in Slots, Timer(s) PROVE TypeOK'
  BY <1>7 DEF Timer, TimerCheck, TimerStore, Cancelled
<1>8. ASSUME NEW ok \in BOOLEAN, SetRunAtStartup(ok) PROVE TypeOK'
  BY <1>8 DEF SetRunAtStartup, Write
<1>9. QED
  BY NextCases, <1>1, <1>2, <1>3, <1>4, <1>5, <1>6, <1>7, <1>8

\* Initially there is no session, no kick, no context to cancel.
LEMMA InitInv == Init => Inv
<1> SUFFICES ASSUME Init PROVE Inv
  OBVIOUS
<1>1. TypeOK
  <2>1. Empty \in Config
    BY DEF Empty, Config
  <2>2. runCtx \in [Slots -> BOOLEAN]
    BY DEF Init
  <2>3. /\ connected \in BOOLEAN /\ late \in BOOLEAN /\ root \in BOOLEAN
        /\ unsaved \in BOOLEAN /\ unheard \in BOOLEAN
    BY DEF Init
  <2>4. cfg \in Config /\ disk \in Config /\ snap \in Config
    BY <2>1 DEF Init
  <2>5. /\ run \in [Slots -> Phases] /\ runCfg \in [Slots -> Config]
        /\ timer \in [Slots -> {"off", "armed", "checked"}]
    BY <2>1 DEF Init, Phases
  <2>6. QED
    BY <2>2, <2>3, <2>4, <2>5 DEF Init, TypeOK
<1>2. CtxOwned
  BY DEF Init, CtxOwned
<1>3. KickNotLost /\ RunOwned /\ ConnectedHonest /\ RunKnows /\ RunSaved /\ ExitedLast
  BY DEF Init, KickNotLost, RunOwned, ConnectedHonest, RunKnows, RunSaved, ExitedLast
<1>4. QED
  BY <1>1, <1>2, <1>3 DEF Inv

\* A kick is missed only while the loop is about to read the configuration.
LEMMA KickStep == Inv /\ [Next]_vars => KickNotLost'
<1> SUFFICES ASSUME Inv, [Next]_vars PROVE KickNotLost'
  OBVIOUS
<1> USE DEF Inv, TypeOK, KickNotLost, Same, configs, kicks, looping, runs, shown, vars
<1>1. CASE UNCHANGED vars
  BY <1>1
<1>2. ASSUME NEW a \in Accounts \cup {"none"}, NEW ok \in BOOLEAN, SetAccount(a, ok)
      PROVE  KickNotLost'
  BY <1>2 DEF SetAccount, Save, Write
<1>3. ASSUME NEW n \in Names \cup {"unset"}, NEW ok \in BOOLEAN, SaveConfig(n, ok)
      PROVE  KickNotLost'
  BY <1>3 DEF SaveConfig, Save, Write
<1>4. CASE Reconnect \/ KickReconnectOnce \/ Quit \/ Signal \/ Exit
  BY <1>4 DEF Reconnect, KickReconnectOnce, Quit, Signal, Exit
<1>5. CASE Loop
  BY <1>5, LoopCases DEF LoopStart, LoopStops, Top, Woken, RetryTimer, RefreshFails, StartSession,
     SessionShut, SessionKicked, SessionEnded, AwaitRun
<1>6. ASSUME NEW s \in Slots, Run(s) PROVE KickNotLost'
  BY <1>6 DEF Run, Dial, Ensure, Write, Subscribe, RunEnds
<1>7. ASSUME NEW s \in Slots, Timer(s) PROVE KickNotLost'
  BY <1>7 DEF Timer, TimerCheck, TimerStore
<1>8. ASSUME NEW ok \in BOOLEAN, SetRunAtStartup(ok) PROVE KickNotLost'
  BY <1>8 DEF SetRunAtStartup, Write
<1>9. QED
  BY NextCases, <1>1, <1>2, <1>3, <1>4, <1>5, <1>6, <1>7, <1>8

\* A session starts where there is none, and the loop leaves it when it has ended.
LEMMA OwnedStep == Inv /\ [Next]_vars => RunOwned'
<1> SUFFICES ASSUME Inv, [Next]_vars PROVE RunOwned'
  OBVIOUS
<1> USE DEF Inv, TypeOK, RunOwned, configs, kicks, looping, runs, shown, vars
<1>1. CASE UNCHANGED vars
  BY <1>1
<1>2. ASSUME NEW a \in Accounts \cup {"none"}, NEW ok \in BOOLEAN, SetAccount(a, ok)
      PROVE  RunOwned'
  BY <1>2 DEF SetAccount, Save, Write
<1>3. ASSUME NEW n \in Names \cup {"unset"}, NEW ok \in BOOLEAN, SaveConfig(n, ok)
      PROVE  RunOwned'
  BY <1>3 DEF SaveConfig, Save, Write
<1>4. CASE Reconnect \/ KickReconnectOnce \/ Quit \/ Signal \/ Exit
  BY <1>4 DEF Reconnect, KickReconnectOnce, Quit, Signal, Exit
<1>5. CASE Loop
  <2>1. CASE LoopStart \/ LoopStops \/ Top \/ Woken \/ RetryTimer \/ RefreshFails
    BY <2>1 DEF LoopStart, LoopStops, Top, Woken, RetryTimer, RefreshFails
  <2>2. CASE \E s \in Slots : StartSession(s)
    BY <2>2 DEF StartSession
  <2>3. CASE SessionShut \/ SessionKicked \/ SessionEnded \/ AwaitRun
    BY <2>3 DEF SessionShut, SessionKicked, SessionEnded, AwaitRun
  <2>4. QED
    BY <1>5, <2>1, <2>2, <2>3, LoopCases
<1>6. ASSUME NEW s \in Slots, Run(s) PROVE RunOwned'
  BY <1>6 DEF Run, Dial, Ensure, Write, Subscribe, RunEnds, Alive
<1>7. ASSUME NEW s \in Slots, Timer(s) PROVE RunOwned'
  BY <1>7 DEF Timer, TimerCheck, TimerStore
<1>8. ASSUME NEW ok \in BOOLEAN, SetRunAtStartup(ok) PROVE RunOwned'
  BY <1>8 DEF SetRunAtStartup, Write
<1>9. QED
  BY NextCases, <1>1, <1>2, <1>3, <1>4, <1>5, <1>6, <1>7, <1>8

\* A context is made for the session that begins and cancelled before it is left.
LEMMA CtxStep == Inv /\ [Next]_vars => CtxOwned'
<1> SUFFICES ASSUME Inv, [Next]_vars PROVE CtxOwned'
  OBVIOUS
<1> USE DEF Inv, TypeOK, CtxOwned, RunOwned, configs, kicks, looping, runs, shown, vars
<1>1. CASE UNCHANGED vars
  BY <1>1
<1>2. ASSUME NEW a \in Accounts \cup {"none"}, NEW ok \in BOOLEAN, SetAccount(a, ok)
      PROVE  CtxOwned'
  BY <1>2 DEF SetAccount, Save, Write
<1>3. ASSUME NEW n \in Names \cup {"unset"}, NEW ok \in BOOLEAN, SaveConfig(n, ok)
      PROVE  CtxOwned'
  BY <1>3 DEF SaveConfig, Save, Write
<1>4. CASE Reconnect \/ KickReconnectOnce \/ Quit \/ Signal \/ Exit
  BY <1>4 DEF Reconnect, KickReconnectOnce, Quit, Signal, Exit
<1>5. CASE Loop
  BY <1>5, LoopCases DEF LoopStart, LoopStops, Top, Woken, RetryTimer, RefreshFails, StartSession,
     SessionShut, SessionKicked, SessionEnded, AwaitRun, Disconnected
<1>6. ASSUME NEW s \in Slots, Run(s) PROVE CtxOwned'
  BY <1>6 DEF Run, Dial, Ensure, Write, Subscribe, RunEnds, Alive
<1>7. ASSUME NEW s \in Slots, Timer(s) PROVE CtxOwned'
  BY <1>7 DEF Timer, TimerCheck, TimerStore
<1>8. ASSUME NEW ok \in BOOLEAN, SetRunAtStartup(ok) PROVE CtxOwned'
  BY <1>8 DEF SetRunAtStartup, Write
<1>9. QED
  BY NextCases, <1>1, <1>2, <1>3, <1>4, <1>5, <1>6, <1>7, <1>8

\* Where the loop begins to wait it says so; a timer that stores then is late.
LEMMA HonestStep == Inv /\ [Next]_vars => ConnectedHonest'
<1> SUFFICES ASSUME Inv, [Next]_vars PROVE ConnectedHonest'
  OBVIOUS
<1> USE DEF Inv, TypeOK, ConnectedHonest, CtxOwned, Cancelled, configs, kicks, looping, runs, shown, vars
<1>1. CASE UNCHANGED vars
  BY <1>1
<1>2. ASSUME NEW a \in Accounts \cup {"none"}, NEW ok \in BOOLEAN, SetAccount(a, ok)
      PROVE  ConnectedHonest'
  BY <1>2 DEF SetAccount, Save, Write
<1>3. ASSUME NEW n \in Names \cup {"unset"}, NEW ok \in BOOLEAN, SaveConfig(n, ok)
      PROVE  ConnectedHonest'
  BY <1>3 DEF SaveConfig, Save, Write
<1>4. CASE Reconnect \/ KickReconnectOnce \/ Quit \/ Signal \/ Exit
  BY <1>4 DEF Reconnect, KickReconnectOnce, Quit, Signal, Exit
<1>5. CASE Loop
  BY <1>5, LoopCases DEF LoopStart, LoopStops, Top, Woken, RetryTimer, RefreshFails, StartSession,
     SessionShut, SessionKicked, SessionEnded, AwaitRun, Disconnected
<1>6. ASSUME NEW s \in Slots, Run(s) PROVE ConnectedHonest'
  BY <1>6 DEF Run, Dial, Ensure, Write, Subscribe, RunEnds, Alive
<1>7. ASSUME NEW s \in Slots, Timer(s) PROVE ConnectedHonest'
  BY <1>7 DEF Timer, TimerCheck, TimerStore
<1>8. ASSUME NEW ok \in BOOLEAN, SetRunAtStartup(ok) PROVE ConnectedHonest'
  BY <1>8 DEF SetRunAtStartup, Write
<1>9. QED
  BY NextCases, <1>1, <1>2, <1>3, <1>4, <1>5, <1>6, <1>7, <1>8

\* The snapshot does not change under a session, but for the names filled in.
LEMMA KnowsStep == Inv /\ [Next]_vars => RunKnows'
<1> SUFFICES ASSUME Inv, [Next]_vars PROVE RunKnows'
  OBVIOUS
<1> USE DEF Inv, TypeOK, RunKnows, RunOwned, Same, Filled, configs, kicks, looping, runs, shown, vars
<1>1. CASE UNCHANGED vars
  BY <1>1
<1>2. ASSUME NEW a \in Accounts \cup {"none"}, NEW ok \in BOOLEAN, SetAccount(a, ok)
      PROVE  RunKnows'
  BY <1>2 DEF SetAccount, Save, Write
<1>3. ASSUME NEW n \in Names \cup {"unset"}, NEW ok \in BOOLEAN, SaveConfig(n, ok)
      PROVE  RunKnows'
  BY <1>3 DEF SaveConfig, Save, Write
<1>4. CASE Reconnect \/ KickReconnectOnce \/ Quit \/ Signal \/ Exit
  BY <1>4 DEF Reconnect, KickReconnectOnce, Quit, Signal, Exit
<1>5. CASE Loop
  BY <1>5, LoopCases DEF LoopStart, LoopStops, Top, Woken, RetryTimer, RefreshFails, StartSession,
     SessionShut, SessionKicked, SessionEnded, AwaitRun, Disconnected
<1>6. ASSUME NEW s \in Slots, Run(s) PROVE RunKnows'
  BY <1>6 DEF Run, Dial, Ensure, Write, Subscribe, RunEnds, Alive
<1>7. ASSUME NEW s \in Slots, Timer(s) PROVE RunKnows'
  BY <1>7 DEF Timer, TimerCheck, TimerStore
<1>8. ASSUME NEW ok \in BOOLEAN, SetRunAtStartup(ok) PROVE RunKnows'
  BY <1>8 DEF SetRunAtStartup, Write
<1>9. QED
  BY NextCases, <1>1, <1>2, <1>3, <1>4, <1>5, <1>6, <1>7, <1>8

\* The file is overwritten by handlers, who owe a kick or leave it to the page, and by
\* the one run there is.
LEMMA SavedStep == Inv /\ [Next]_vars => RunSaved'
<1> SUFFICES ASSUME Inv, [Next]_vars PROVE RunSaved'
  OBVIOUS
<1> USE DEF Inv, TypeOK, RunSaved, RunKnows, RunOwned, KickNotLost, Same, configs, kicks, looping, runs, shown, vars
<1>1. CASE UNCHANGED vars
  BY <1>1
<1>2. ASSUME NEW a \in Accounts \cup {"none"}, NEW ok \in BOOLEAN, SetAccount(a, ok)
      PROVE  RunSaved'
  BY <1>2 DEF SetAccount, Save, Write
<1>3. ASSUME NEW n \in Names \cup {"unset"}, NEW ok \in BOOLEAN, SaveConfig(n, ok)
      PROVE  RunSaved'
  BY <1>3 DEF SaveConfig, Save, Write
<1>4. CASE Reconnect \/ KickReconnectOnce \/ Quit \/ Signal \/ Exit
  BY <1>4 DEF Reconnect, KickReconnectOnce, Quit, Signal, Exit
<1>5. CASE Loop
  BY <1>5, LoopCases DEF LoopStart, LoopStops, Top, Woken, RetryTimer, RefreshFails, StartSession,
     SessionShut, SessionKicked, SessionEnded, AwaitRun, Disconnected
<1>6. ASSUME NEW s \in Slots, Run(s) PROVE RunSaved'
  <2>1. ASSUME NEW ok \in BOOLEAN, Ensure(s, ok) PROVE RunSaved'
    <3>1. /\ Same(disk', runCfg[s]) \/ unsaved'
          /\ UNCHANGED <<loop, snap, sess>>
      BY <2>1, Configs DEF Ensure, Write
    <3>2. loop = "session" => s = sess /\ Same(runCfg[s], snap)
      BY <2>1 DEF Ensure
    <3>3. QED
      BY <3>1, <3>2
  <2>2. CASE Dial(s) \/ Subscribe(s) \/ RunEnds(s)
    BY <2>2 DEF Dial, Subscribe, RunEnds, Alive
  <2>3. QED
    BY <1>6, <2>1, <2>2 DEF Run
<1>7. ASSUME NEW s \in Slots, Timer(s) PROVE RunSaved'
  BY <1>7 DEF Timer, TimerCheck, TimerStore
<1>8. ASSUME NEW ok \in BOOLEAN, SetRunAtStartup(ok) PROVE RunSaved'
  BY <1>8 DEF SetRunAtStartup, Write
<1>9. QED
  BY NextCases, <1>1, <1>2, <1>3, <1>4, <1>5, <1>6, <1>7, <1>8

\* Nothing moves once the process has ended.
LEMMA ExitedStep == Inv /\ [Next]_vars => ExitedLast'
<1> SUFFICES ASSUME Inv, [Next]_vars PROVE ExitedLast'
  OBVIOUS
<1> USE DEF Inv, TypeOK, ExitedLast, configs, kicks, looping, runs, shown, vars
<1>1. CASE UNCHANGED vars
  BY <1>1
<1>2. ASSUME NEW a \in Accounts \cup {"none"}, NEW ok \in BOOLEAN, SetAccount(a, ok)
      PROVE  ExitedLast'
  BY <1>2 DEF SetAccount, Save, Write
<1>3. ASSUME NEW n \in Names \cup {"unset"}, NEW ok \in BOOLEAN, SaveConfig(n, ok)
      PROVE  ExitedLast'
  BY <1>3 DEF SaveConfig, Save, Write
<1>4. CASE Reconnect \/ KickReconnectOnce \/ Quit \/ Signal \/ Exit
  BY <1>4 DEF Reconnect, KickReconnectOnce, Quit, Signal, Exit
<1>5. CASE main # "exited" /\ Loop
  BY <1>5, LoopCases DEF LoopStart, LoopStops, Top, Woken, RetryTimer, RefreshFails, StartSession,
     SessionShut, SessionKicked, SessionEnded, AwaitRun, Disconnected
<1>6. ASSUME NEW s \in Slots, Run(s) PROVE ExitedLast'
  BY <1>6 DEF Run, Dial, Ensure, Write, Subscribe, RunEnds, Alive
<1>7. ASSUME NEW s \in Slots, Timer(s) PROVE ExitedLast'
  BY <1>7 DEF Timer, TimerCheck, TimerStore
<1>8. ASSUME NEW ok \in BOOLEAN, SetRunAtStartup(ok) PROVE ExitedLast'
  BY <1>8 DEF SetRunAtStartup, Write
<1>9. QED
  BY NextCases, <1>1, <1>2, <1>3, <1>4, <1>5, <1>6, <1>7, <1>8

\* Every step preserves the invariant.
LEMMA InvStep == Inv /\ [Next]_vars => Inv'
  BY TypeStep, KickStep, OwnedStep, CtxStep, HonestStep, KnowsStep, SavedStep, ExitedStep
     DEF Inv

-----------------------------------------------------------------------------
\* The inductive invariant holds in every reachable state.
THEOREM Invariance == Spec => []Inv
  BY InitInv, InvStep, PTL DEF Spec

\* Every variable keeps its type; the kick channel never holds more than one
\* message (main.go:311).
THEOREM TypeCorrect == Spec => []TypeOK
<1>1. Inv => TypeOK
  BY DEF Inv
<1>2. QED
  BY <1>1, Invariance, PTL

\* No change of the credentials is missed by the loop, and one of the names only while no
\* kick has followed the page's save (main.go:182-203, 294-303).
THEOREM NoKickLost == Spec => []KickNotLost
<1>1. Inv => KickNotLost
  BY DEF Inv
<1>2. QED
  BY <1>1, Invariance, PTL

\* Two bridge.Run are never alive together (main.go:367-376).
THEOREM OneRun == Spec => []AtMostOneRun
<1>1. Inv => AtMostOneRun
  BY DEF Inv, RunOwned, AtMostOneRun, Alive
<1>2. QED
  BY <1>1, Invariance, PTL

\* The process does not end in the middle of a bridge.Run (main.go:98-100).
THEOREM CleanExit == Spec => []ExitClean
<1>1. Inv => ExitClean
  BY DEF Inv, RunOwned, ExitedLast, ExitClean, Alive
<1>2. QED
  BY <1>1, Invariance, PTL

\* The user is told "connected" where there is no session only by a timer that
\* lost the race (main.go:359-366).
THEOREM HonestStatus == Spec => []ConnectedHonest
<1>1. Inv => ConnectedHonest
  BY DEF Inv
<1>2. QED
  BY <1>1, Invariance, PTL

\* In a session that serves, with no kick outstanding or left to the page and no save
\* that failed, the file is up to date (bridge.go:55, main.go:182-203).
THEOREM FileCatchesUp == Spec => []SessionSaved
<1>1. Inv => SessionSaved
  BY DEF Inv, TypeOK, RunSaved, KickNotLost, SessionSaved, Same
<1>2. QED
  BY <1>1, Invariance, PTL

-----------------------------------------------------------------------------
(* The end of the loop.                                                    *)

\* The ranks are those of the places of the loop and the stages of the session.
LEMMA LeftTyped ==
  Inv => /\ LoopLeft \in 0..8 /\ RunLeft \in 0..4 /\ Left \in 0..8
         /\ Left = 0 <=> loop = "done"
<1> SUFFICES ASSUME Inv
             PROVE  /\ LoopLeft \in 0..8 /\ RunLeft \in 0..4 /\ Left \in 0..8
                    /\ Left = 0 <=> loop = "done"
  OBVIOUS
<1>1. /\ LoopLeft \in 0..8 /\ (LoopLeft = 0 <=> loop = "done")
      /\ loop \in {"session", "stopping", "exiting"} => LoopLeft \in 1..3
  BY DEF Inv, TypeOK, LoopLeft
<1>2. RunLeft \in 0..4 BY DEF Inv, TypeOK, Phases, RunLeft
<1>3. loop \notin {"session", "stopping", "exiting"} => RunLeft = 0
  BY DEF Inv, TypeOK, RunOwned, RunLeft
<1>4. QED BY <1>1, <1>2, <1>3 DEF Left

\* The loop of a cancelled root only goes on towards its end.
LEMMA LoopWindsDown ==
  ASSUME Inv, root, Loop PROVE Left' < Left
<1>0. TypeOK /\ RunOwned BY DEF Inv
<1>1. ~Top BY DEF Top
<1>2. CASE LoopStart \/ LoopStops \/ Woken \/ RetryTimer \/ RefreshFails
  <2>1. /\ UNCHANGED <<run, sess>>
        /\ \/ loop \in {"start", "idle", "backoff"} /\ loop' \in {"top", "done"}
           \/ loop = "top" /\ loop' = "done"
           \/ loop = "refresh" /\ loop' = "backoff"
    BY <1>2 DEF LoopStart, LoopStops, Woken, RetryTimer, RefreshFails, runs
  <2>2. QED BY <2>1 DEF Left, LoopLeft, RunLeft
<1>3. ASSUME NEW s \in Slots, StartSession(s) PROVE Left' < Left
  <2>1. run'[sess'] = "dial" /\ loop = "refresh" /\ loop' = "session"
    BY <1>0, <1>3 DEF StartSession, TypeOK
  <2>2. run[sess] = "off" BY <1>0, <2>1 DEF TypeOK, RunOwned
  <2>3. QED BY <2>1, <2>2 DEF Left, LoopLeft, RunLeft
<1>4. CASE SessionShut \/ SessionKicked
  <2>1. UNCHANGED <<run, sess>> /\ loop = "session" /\ loop' \in {"stopping", "exiting"}
    BY <1>4 DEF SessionShut, SessionKicked
  <2>2. QED BY <2>1 DEF Left, LoopLeft, RunLeft
<1>5. CASE SessionEnded \/ AwaitRun
  <2>1. run'[sess'] = "off" /\ run[sess] = "ended"
    BY <1>0, <1>5 DEF SessionEnded, AwaitRun, TypeOK
  <2>2. \/ loop = "session" /\ loop' = "backoff"
        \/ loop = "stopping" /\ loop' = "top"
        \/ loop = "exiting" /\ loop' = "done"
    BY <1>5 DEF SessionEnded, AwaitRun
  <2>3. QED BY <2>1, <2>2 DEF Left, LoopLeft, RunLeft
<1>6. QED BY <1>1, <1>2, <1>3, <1>4, <1>5, LoopCases

\* A run goes from stage to stage, and the loop's is the only one.
LEMMA RunWindsDown ==
  ASSUME Inv, NEW s \in Slots, Run(s) PROVE Left' < Left
<1>1. TypeOK /\ s = sess
  BY DEF Inv, RunOwned, Run, Dial, Ensure, Write, Subscribe, RunEnds, Alive
<1>2. UNCHANGED <<loop, sess>>
  BY DEF Run, Dial, Ensure, Write, Subscribe, RunEnds, looping
<1>3. \/ run[sess] = "dial" /\ run'[sess] = "ensure"
      \/ run[sess] = "ensure" /\ run'[sess] = "subscribe"
      \/ run[sess] = "subscribe" /\ run'[sess] = "serve"
      \/ Alive(sess) /\ run'[sess] = "ended"
  BY <1>1 DEF TypeOK, Run, Dial, Ensure, Write, Subscribe, RunEnds
<1>4. QED BY <1>2, <1>3 DEF Left, LoopLeft, RunLeft, Alive

\* After Quit or a signal the loop ends after eight steps of its own and of its session,
\* whatever kicks and retries come in between (main.go:316-379, 434-455).
THEOREM ShutdownWindsDown ==
  Spec => WindsDown /\ [](Left \in 0..8 /\ (Left = 0 <=> loop = "done"))
<1>1. Inv /\ Inv' => [root /\ main # "exited" /\ (Loop \/ \E s \in Slots : Run(s))
                        => Left' \in Nat /\ Left' < Left]_vars
  <2>1. (Inv => Left \in 0..8)'
    <3>1. Inv => Left \in 0..8 BY LeftTyped
    <3>2. QED BY <3>1, PTL
  <2>2. QED BY <2>1, LoopWindsDown, RunWindsDown
<1>2. Inv => Left \in 0..8 /\ (Left = 0 <=> loop = "done") BY LeftTyped
<1>3. QED BY <1>1, <1>2, Invariance, PTL DEF WindsDown
=============================================================================
