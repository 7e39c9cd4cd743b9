---------------------------------- MODULE App ----------------------------------
(***************************************************************************)
(* cmd/ha-volume/main.go: the coordinator.  Around one live configuration  *)
(* run                                                                     *)
(*   - bridgeLoop, which takes a snapshot of the configuration, refreshes  *)
(*     the token and runs bridge.Run in a goroutine until it ends, a kick  *)
(*     comes, or the application stops;                                    *)
(*   - that goroutine, which writes its snapshot back to the config file;  *)
(*   - a timer per session that marks the application connected;           *)
(*   - the handlers of the settings page and of the tray, which change and *)
(*     save the live configuration and then kick the loop;                 *)
(*   - main, the tray's thread, and the signal handler.                    *)
(*                                                                         *)
(* A step is one critical section of cfgMu, one channel operation, one     *)
(* call that waits for the network, or one load or store of an atomic.     *)
(***************************************************************************)
EXTENDS Naturals

CONSTANTS Accounts,   \* (URL, refresh token, client id) triples one may hold
          Names,      \* entity names a user may choose
          Slots       \* sessions whose goroutine or timer may be alive at once

ASSUME AppAssumption == "none" \notin Accounts /\ "unset" \notin Names

VARIABLES
  cfg,        \* App.cfg, the live configuration
  disk,       \* the configuration file
  unsaved,    \* history: the last save of the configuration failed
  kick,       \* messages in kickReconnect, capacity 1
  owed,       \* handlers at work that will kick the loop and have not yet
  unheard,    \* history: SaveConfig changed cfg, and no kick has come since
  loop,       \* where bridgeLoop is
  snap,       \* the snapshot bridgeLoop works with
  sess,       \* the slot of its latest session
  run,        \* how far bridge.Run is, per slot; "ended": result in bridgeDone
  runCfg,     \* the configuration bridge.Run was given, per slot
  runCtx,     \* TRUE when runCancel was called, per slot
  timer,      \* the AfterFunc of the session, per slot
  connected,  \* App.connected
  late,       \* history: connected was stored for a session already cancelled
  root,       \* TRUE when the root context is cancelled
  main        \* the main goroutine: in tray.Run, in wg.Wait, or gone

configs == <<cfg, disk, unsaved>>
kicks == <<kick, owed, unheard>>
looping == <<loop, snap, sess>>
runs == <<run, runCfg, runCtx>>
shown == <<connected, late>>
vars == <<configs, kicks, looping, runs, timer, shown, root, main>>

-----------------------------------------------------------------------------
Config == [acct : Accounts \cup {"none"}, names : Names \cup {"unset", "default"}]
Empty == [acct |-> "none", names |-> "unset"]

\* bridge.Run derives the entity names from the host name when there are none.
Filled(c) == [c EXCEPT !.names = IF @ = "unset" THEN "default" ELSE @]
Same(c, d) == Filled(c) = Filled(d)

Phases == {"off", "dial", "ensure", "subscribe", "serve", "ended"}
Alive(s) == run[s] \in {"dial", "ensure", "subscribe", "serve"}
Cancelled(s) == runCtx[s] \/ root

TypeOK ==
  /\ cfg \in Config /\ disk \in Config /\ snap \in Config
  /\ unsaved \in BOOLEAN /\ unheard \in BOOLEAN
  /\ kick \in 0..1 /\ owed \in Nat
  /\ loop \in {"start", "top", "idle", "refresh", "session", "stopping",
               "exiting", "backoff", "done"}
  /\ sess \in Slots
  /\ run \in [Slots -> Phases] /\ runCfg \in [Slots -> Config]
  /\ runCtx \in [Slots -> BOOLEAN]
  /\ timer \in [Slots -> {"off", "armed", "checked"}]
  /\ connected \in BOOLEAN /\ late \in BOOLEAN /\ root \in BOOLEAN
  /\ main \in {"tray", "leaving", "exited"}

\* The file was loaded, or could not be.
Init ==
  /\ disk \in Config /\ cfg \in {disk, Empty}
  /\ unsaved = FALSE /\ unheard = FALSE
  /\ kick = 0 /\ owed = 0
  /\ loop = "start" /\ snap = Empty /\ sess \in Slots
  /\ run = [s \in Slots |-> "off"] /\ runCfg = [s \in Slots |-> Empty]
  /\ runCtx = [s \in Slots |-> TRUE] /\ timer = [s \in Slots |-> "off"]
  /\ connected = FALSE /\ late = FALSE /\ root = FALSE /\ main = "tray"

-----------------------------------------------------------------------------
(* Handlers: the settings page and the tray.                               *)

\* config.Save replaces the file, or fails and leaves it.
Write(c, ok) == disk' = (IF ok THEN c ELSE disk) /\ unsaved' = ~ok

\* The live configuration has changed, whether it can be saved or not.
Save(c, ok) == cfg' = c /\ Write(c, ok)

SetAccount(a, ok) ==
  /\ Save([cfg EXCEPT !.acct = a], ok)
  /\ owed' = owed + 1
  /\ UNCHANGED <<kick, unheard, looping, runs, timer, shown, root, main>>

\* It kicks first and then returns the error of the save.
Disconnect(ok) == SetAccount("none", ok)

\* StartAuthorize, once Home Assistant has given a token; it ignores the error.
Authorized(a, ok) == SetAccount(a, ok)

\* SaveConfig kicks nobody.  The page asks for a reconnect with a second request when
\* the first succeeded and the page is still there (page.html:278-281): a Reconnect
\* that may come or not.
SaveConfig(n, ok) ==
  /\ Save([cfg EXCEPT !.names = n], ok)
  /\ unheard' = TRUE
  /\ UNCHANGED <<kick, owed, looping, runs, timer, shown, root, main>>

\* SetRunAtStartup: the flag itself is left out; the file is written, and nobody
\* kicks.
SetRunAtStartup(ok) ==
  /\ Write(cfg, ok)
  /\ UNCHANGED <<cfg, kicks, looping, runs, timer, shown, root, main>>

\* Reconnect in the tray, or /api/reconnect of the page.
Reconnect ==
  /\ owed' = owed + 1
  /\ UNCHANGED <<configs, kick, unheard, looping, runs, timer, shown, root, main>>

\* Mutant of KickReconnectOnce: a channel without a buffer, which takes a message only
\* when the loop waits for one.
KickUnbuffered ==
  /\ owed > 0 /\ owed' = owed - 1 /\ unheard' = FALSE
  /\ kick' = IF loop \in {"idle", "session", "backoff"} THEN 1 ELSE kick
  /\ UNCHANGED <<configs, looping, runs, timer, shown, root, main>>

\* There is no channel before bridgeLoop has begun, and room for one message.
KickReconnectOnce ==
  /\ owed > 0 /\ owed' = owed - 1 /\ unheard' = FALSE
  /\ kick' = IF loop = "start" THEN kick ELSE 1
  /\ UNCHANGED <<configs, looping, runs, timer, shown, root, main>>

-----------------------------------------------------------------------------
(* bridgeLoop.                                                             *)

Disconnected == connected' = FALSE /\ late' = FALSE

LoopStart ==
  /\ loop = "start" /\ loop' = "top"
  /\ UNCHANGED <<configs, kicks, snap, sess, runs, timer, shown, root, main>>

\* Mutant of LoopStops: the wait for a configuration does not see the shutdown.
LoopStopsBusy ==
  /\ root /\ loop \in {"top", "backoff"}
  /\ loop' = "done"
  /\ UNCHANGED <<configs, kicks, snap, sess, runs, timer, shown, root, main>>

LoopStops ==
  /\ root /\ loop \in {"top", "idle", "backoff"}
  /\ loop' = "done"
  /\ UNCHANGED <<configs, kicks, snap, sess, runs, timer, shown, root, main>>

\* Mutant of Top: "not connected" is left to the end of the session.
TopSilent ==
  /\ loop = "top" /\ ~root
  /\ snap' = cfg /\ unheard' = FALSE
  /\ loop' = IF cfg.acct = "none" THEN "idle" ELSE "refresh"
  /\ UNCHANGED <<configs, kick, owed, sess, runs, timer, shown, root, main>>

\* Mutant of Top: the context is looked at only where the loop waits.
TopUnchecked ==
  /\ loop = "top"
  /\ snap' = cfg /\ unheard' = FALSE
  /\ IF cfg.acct = "none" THEN loop' = "idle" /\ Disconnected
                          ELSE loop' = "refresh" /\ UNCHANGED shown
  /\ UNCHANGED <<configs, kick, owed, sess, runs, timer, root, main>>

Top ==
  /\ loop = "top" /\ ~root
  /\ snap' = cfg /\ unheard' = FALSE
  /\ IF cfg.acct = "none" THEN loop' = "idle" /\ Disconnected
                          ELSE loop' = "refresh" /\ UNCHANGED shown
  /\ UNCHANGED <<configs, kick, owed, sess, runs, timer, root, main>>

\* A kick ends the wait for a configuration and the wait before a retry.
Woken ==
  /\ loop \in {"idle", "backoff"} /\ kick = 1
  /\ kick' = 0 /\ loop' = "top"
  /\ UNCHANGED <<configs, owed, unheard, snap, sess, runs, timer, shown, root, main>>

RetryTimer ==
  /\ loop = "backoff" /\ loop' = "top"
  /\ UNCHANGED <<configs, kicks, snap, sess, runs, timer, shown, root, main>>

RefreshFails ==
  /\ loop = "refresh" /\ loop' = "backoff" /\ Disconnected
  /\ UNCHANGED <<configs, kicks, snap, sess, runs, timer, root, main>>

\* The token is there: start bridge.Run and the timer that says "connected".
StartSession(s) ==
  /\ loop = "refresh" /\ run[s] = "off" /\ timer[s] = "off"
  /\ loop' = "session" /\ sess' = s
  /\ run' = [run EXCEPT ![s] = "dial"] /\ runCfg' = [runCfg EXCEPT ![s] = snap]
  /\ runCtx' = [runCtx EXCEPT ![s] = FALSE]
  /\ timer' = [timer EXCEPT ![s] = "armed"]
  /\ UNCHANGED <<configs, kicks, snap, shown, root, main>>

\* Mutants of SessionShut and SessionKicked: bridge.Run is not waited for.
ShutAtOnce ==
  /\ loop = "session" /\ root
  /\ loop' = "done" /\ runCtx' = [runCtx EXCEPT ![sess] = TRUE]
  /\ UNCHANGED <<configs, kicks, snap, sess, run, runCfg, timer, shown, root, main>>

KickedAtOnce ==
  /\ loop = "session" /\ kick = 1 /\ kick' = 0
  /\ loop' = "top" /\ runCtx' = [runCtx EXCEPT ![sess] = TRUE]
  /\ UNCHANGED <<configs, owed, unheard, snap, sess, run, runCfg, timer, shown, root, main>>

\* The select of a session: shut down, kicked, or bridge.Run ended.
SessionShut ==
  /\ loop = "session" /\ root
  /\ loop' = "exiting" /\ runCtx' = [runCtx EXCEPT ![sess] = TRUE]
  /\ UNCHANGED <<configs, kicks, snap, sess, run, runCfg, timer, shown, root, main>>

SessionKicked ==
  /\ loop = "session" /\ kick = 1 /\ kick' = 0
  /\ loop' = "stopping" /\ runCtx' = [runCtx EXCEPT ![sess] = TRUE]
  /\ UNCHANGED <<configs, owed, unheard, snap, sess, run, runCfg, timer, shown, root, main>>

SessionEnded ==
  /\ loop = "session" /\ run[sess] = "ended"
  /\ run' = [run EXCEPT ![sess] = "off"] /\ runCfg' = [runCfg EXCEPT ![sess] = Empty]
  /\ runCtx' = [runCtx EXCEPT ![sess] = TRUE]
  /\ loop' = "backoff" /\ Disconnected
  /\ UNCHANGED <<configs, kicks, snap, sess, timer, root, main>>

\* <-bridgeDone after runCancel.
AwaitRun ==
  /\ loop \in {"stopping", "exiting"} /\ run[sess] = "ended"
  /\ run' = [run EXCEPT ![sess] = "off"] /\ runCfg' = [runCfg EXCEPT ![sess] = Empty]
  /\ loop' = IF loop = "stopping" THEN "top" ELSE "done"
  /\ UNCHANGED <<configs, kicks, snap, sess, runCtx, timer, shown, root, main>>

-----------------------------------------------------------------------------
(* bridge.Run, as far as the coordinator sees it.                          *)

Dial(s) ==
  /\ run[s] = "dial" /\ run' = [run EXCEPT ![s] = "ensure"]
  /\ UNCHANGED <<configs, kicks, looping, runCfg, runCtx, timer, shown, root, main>>

\* The entities exist: the snapshot, with their names, is saved; an error is ignored.
Ensure(s, ok) ==
  /\ run[s] = "ensure" /\ run' = [run EXCEPT ![s] = "subscribe"]
  /\ runCfg' = [runCfg EXCEPT ![s] = Filled(@)]
  /\ Write(Filled(runCfg[s]), ok)
  /\ UNCHANGED <<cfg, kicks, looping, runCtx, timer, shown, root, main>>

Subscribe(s) ==
  /\ run[s] = "subscribe" /\ run' = [run EXCEPT ![s] = "serve"]
  /\ UNCHANGED <<configs, kicks, looping, runCfg, runCtx, timer, shown, root, main>>

\* An error, or the context, at any stage.
RunEnds(s) ==
  /\ Alive(s) /\ run' = [run EXCEPT ![s] = "ended"]
  /\ UNCHANGED <<configs, kicks, looping, runCfg, runCtx, timer, shown, root, main>>

\* time.AfterFunc: the load of the context and the store are two steps.
TimerCheck(s) ==
  /\ timer[s] = "armed"
  /\ timer' = [timer EXCEPT ![s] = IF Cancelled(s) THEN "off" ELSE "checked"]
  /\ UNCHANGED <<configs, kicks, looping, runs, shown, root, main>>

TimerStore(s) ==
  /\ timer[s] = "checked" /\ timer' = [timer EXCEPT ![s] = "off"]
  /\ connected' = TRUE /\ late' = Cancelled(s)
  /\ UNCHANGED <<configs, kicks, looping, runs, root, main>>

-----------------------------------------------------------------------------
(* The end.                                                                *)

\* Quit in the tray: cancelRoot, and tray.Run returns to main.
Quit ==
  /\ main = "tray" /\ main' = "leaving" /\ root' = TRUE
  /\ UNCHANGED <<configs, kicks, looping, runs, timer, shown>>

\* signalLoop.
Signal ==
  /\ ~root /\ root' = TRUE
  /\ UNCHANGED <<configs, kicks, looping, runs, timer, shown, main>>

\* wg.Wait: bridgeLoop counts from its first statement on.
Exit ==
  /\ main = "leaving" /\ loop \in {"start", "done"} /\ main' = "exited"
  /\ UNCHANGED <<configs, kicks, looping, runs, timer, shown, root>>

-----------------------------------------------------------------------------
Loop == \/ LoopStart \/ LoopStops \/ Top \/ Woken \/ RetryTimer \/ RefreshFails
        \/ (\E s \in Slots : StartSession(s))
        \/ SessionShut \/ SessionKicked \/ SessionEnded \/ AwaitRun

Run(s) == Dial(s) \/ (\E ok \in BOOLEAN : Ensure(s, ok)) \/ Subscribe(s) \/ RunEnds(s)

Timer(s) == TimerCheck(s) \/ TimerStore(s)

Handlers == \/ \E ok \in BOOLEAN :
                 \/ Disconnect(ok)
                 \/ \E a \in Accounts : Authorized(a, ok)
                 \/ \E n \in Names \cup {"unset"} : SaveConfig(n, ok)
                 \/ SetRunAtStartup(ok)
            \/ Reconnect

System == Loop \/ (\E s \in Slots : Run(s) \/ Timer(s)) \/ KickReconnectOnce \/ Exit

Next == main # "exited" /\ (System \/ Handlers \/ Quit \/ Signal)

\* Goroutines run, timers fire, and whatever waits with the context of a session
\* ends when that is cancelled.  The two reads of the handshake do not see the
\* context (ws.go:87, 106): a silent Home Assistant may hold a session there.  A
\* session that nobody cancels owes nothing, nobody has to use the application, and no
\* browser has to send the reconnect after a save: the kicks that are obliged are those
\* of handlers at work, Disconnect, Reconnect and StartAuthorize (main.go:201, 287).
Fairness ==
  /\ WF_vars(main # "exited" /\ Loop)
  /\ WF_vars(main # "exited" /\ KickReconnectOnce)
  /\ WF_vars(Exit)
  /\ \A s \in Slots : /\ WF_vars(main # "exited" /\ Cancelled(s) /\ run[s] # "dial" /\ Run(s))
                      /\ WF_vars(main # "exited" /\ Timer(s))

Spec == Init /\ [][Next]_vars /\ Fairness

-----------------------------------------------------------------------------
\* A change of the configuration reaches the loop: while it works with other
\* credentials, a kick is in the channel or about to be sent by the handler that changed
\* them, and while it works with other names the page has not asked for the reconnect.
\* The channel has room for one message, does not exist before the loop runs, and is not
\* read while a token is refreshed (main.go:182-203, 280-303, 320-375).
KickNotLost ==
  loop \in {"idle", "refresh", "session", "backoff"} =>
    \/ kick = 1 \/ owed > 0
    \/ snap.acct = cfg.acct /\ (Same(snap, cfg) \/ unheard)

\* "A dropped WebSocket means do the whole dance again, not leak state"
\* (bridge.go:5): no two bridge.Run are alive, and none outside its session.
AtMostOneRun ==
  \A s \in Slots : Alive(s) => s = sess /\ loop \in {"session", "stopping", "exiting"}

\* After Quit the process ends with no bridge.Run in the middle of its work,
\* though the wait group is entered by the goroutine itself (main.go:98-100, 308).
ExitClean == main = "exited" => \A s \in Slots : ~Alive(s)

\* Where the loop waits for credentials or for a retry, the user is not told
\* "connected", unless the store of a timer came after the session was cancelled
\* (main.go:322, 337, 359-366, 379).
ConnectedHonest == loop \in {"idle", "backoff"} => ~connected \/ late

\* While a session serves, no kick is outstanding, the page is not about to ask for one
\* and the last save succeeded, the file holds the live configuration: an older snapshot
\* that an earlier bridge.Run wrote, or a save that failed, has been overwritten
\* (bridge.go:55 against main.go:182-203, 221-229, 280-284).
SessionSaved ==
  /\ loop = "session" /\ run[sess] = "serve"
  /\ kick = 0 /\ owed = 0 /\ ~unheard /\ ~unsaved
  => Same(disk, cfg)

\* "Disconnect forgets the saved HA URL and refresh token" (main.go:192): once the
\* loop waits for credentials and no handler is at work, the file holds none.
DisconnectForgets ==
  loop = "idle" /\ cfg = snap /\ owed = 0 => disk.acct = "none"

-----------------------------------------------------------------------------
\* The one way to hang: a session that never leaves the handshake.
SilentHandshake == \E s \in Slots : [](run[s] = "dial")

\* The loop comes to work with the configuration as it was changed last: with the
\* credentials always, because the handlers that change them kick it themselves; with the
\* entity names once any kick follows the page's save, which the page may never ask for.
\* The exception is a silent server that holds the session the loop has to cancel first
\* (main.go:182-203, 287, 294-303, 372-374).
ChangeReachesLoop ==
  snap.acct # cfg.acct \/ (~Same(snap, cfg) /\ ~unheard)
    ~> Same(snap, cfg) \/ root \/ SilentHandshake

\* Quit ends the process, with the same exception (main.go:368-371, 100).
QuitEnds == main = "leaving" ~> main = "exited" \/ SilentHandshake

-----------------------------------------------------------------------------
\* How many steps of the loop, and of the session it leaves, are left at most when the
\* root context is cancelled.
LoopLeft == IF loop = "done" THEN 0
            ELSE IF loop \in {"top", "exiting"} THEN 1
            ELSE IF loop = "session" THEN 3
            ELSE IF loop = "refresh" THEN 8 ELSE 2
RunLeft == IF run[sess] = "dial" THEN 4
           ELSE IF run[sess] = "ensure" THEN 3
           ELSE IF run[sess] = "subscribe" THEN 2
           ELSE IF run[sess] = "serve" THEN 1 ELSE 0
Left == LoopLeft + RunLeft

\* A cancelled root winds the loop down: whatever kicks are in the channel, retries due
\* or sessions just begun, each step comes nearer to wg.Done, and no kick or timer takes
\* the loop back to work (main.go:316-331, 348-379, 434-455).
WindsDown ==
  [][root /\ main # "exited" /\ (Loop \/ \E s \in Slots : Run(s))
       => Left' \in Nat /\ Left' < Left]_vars

-----------------------------------------------------------------------------
(* The inductive invariant behind them.                                     *)

\* A bridge.Run belongs to the session the loop is in or leaves.
RunOwned ==
  \A s \in Slots :
    run[s] # "off" => s = sess /\ loop \in {"session", "stopping", "exiting"}

\* Only the session the loop is in has a context that was not cancelled.
CtxOwned == \A s \in Slots : runCtx[s] \/ (s = sess /\ loop = "session")

\* bridge.Run works with the loop's snapshot, and from its Save on the file holds it,
\* unless that save failed or a handler has saved since, which then owes or has sent a
\* kick or leaves that to the page.
RunKnows == loop = "session" => Same(runCfg[sess], snap)
RunSaved == loop = "session" /\ run[sess] \in {"subscribe", "serve"} =>
              Same(disk, snap) \/ kick = 1 \/ owed > 0 \/ unheard \/ unsaved

\* wg.Wait lets main go when the loop has not begun or has ended.
ExitedLast == main = "exited" => loop \in {"start", "done"}

Inv == /\ TypeOK /\ KickNotLost /\ RunOwned /\ CtxOwned /\ ConnectedHonest
       /\ RunKnows /\ RunSaved /\ ExitedLast
=============================================================================
