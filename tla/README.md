# A verification project for ha-volume

ha-volume is a Windows tray application that mirrors the master volume and mute
of the machine to two Home Assistant helpers, and lets Home Assistant set them.
These TLA+ modules model the part of it where order matters: the session that
suppresses its own echoes, the WebSocket client under it, the coordinator above
it, the flow that connects it to Home Assistant, what it keeps on disk, and the
audio endpoint with the tray that shows it. TLC checks them on small instances;
TLAPS proves, for every size, an inductive invariant of each of them, that the
session, the client, the flow and the file implement their abstract specifications,
liveness aside, and that the session comes to rest, the loop winds down and a flow
ends in a bounded number of steps.

File and line numbers refer to the repository's `src/`.

## 1. The system

| Component | State it keeps | Operations | Hard because |
|---|---|---|---|
| **Bridge session** `internal/bridge/bridge.go` | two echo stamps per field (last value pushed, last value received, their times); which handler it is in | `Run` (dial, ensure helpers, save, subscribe, watch, initial push, select loop), `handleAudioChange`, `handleHAEvent`, `pushVolume`, `pushMuted`, `ensureEntities` | two independent writers, asynchronous events both ways, a handler that blocks in a call, value-and-time echo filters |
| **WebSocket client** `internal/haclient/ws.go` | `pending` and `subs` maps under `mu`, `closed`, the connection | `Dial`, `send`, `Call`, `Subscribe`, `unsub`, `Close`, `readLoop` | any goroutine sends, one reader delivers, `Close` may come from any side between any two critical sections |
| **Coordinator** `cmd/ha-volume/main.go` | live configuration, kick channel, `connected`, root context, wait group | `bridgeLoop`, `SaveConfig`, `Disconnect`, `StartAuthorize`, `Reconnect`, `Quit`, `SetRunAtStartup`, `signalLoop`, `tickerLoop` | handlers, loop, session goroutine and timers share state; reconnects, retries, shutdown |
| **Audio endpoint** `internal/audio` | COM handles, `Watch`'s last emission | get and set volume and mute, `Watch` (poll every 250 ms), `refreshDefault`, `Close` | polling sees only differences; handles are replaced while others use them |
| **Configuration file** `internal/config` | `config.json` | `Load`, `Save` (temp file and rename) | two writers with different snapshots; crashes |
| **Settings server and page** `internal/settings` | `authChan` | configuration, authorize and its event stream, reconnect, startup, disconnect, status, logs | handlers run concurrently; one stream per authorize |
| **OAuth client** `internal/haclient/oauth.go` | one authorize attempt | `Authorize`, `Refresh` | callback, timeout and cancellation race |
| **Tray** `internal/tray` | menu items | `Refresh`, `onReady`, clicks | a status is read before the mutex is taken, by several goroutines |
| **Log ring** `internal/logx` | 500 lines | write, `Snapshot` | wrap-around |
| **Startup registry** `internal/startup` | one registry value | `SetEnabled`, `IsEnabled` | two stores changed one after the other |

How they interact: the loop of the coordinator takes a snapshot of the
configuration and runs one bridge session at a time in a goroutine. The session
owns a WebSocket client (calls and one subscription), and reads two channels:
events from the client's reader, and emissions from the endpoint's poller. The
settings page and the tray change the live configuration under `cfgMu`, save it,
and send a kick to the loop, which cancels the session's context and waits for
it. The session also writes the configuration file, from its snapshot.

What makes each correct:

- *session*: the two sides come to agree, in a bounded number of steps; the side moved
  last wins; an echo moves nothing; a change by a user is not swallowed;
- *client*: a request returns once and for a reason; no panic, no reader blocked under
  `mu`, nobody left waiting, no slot that outlives its owner, early events kept;
- *coordinator*: no configuration change missed, one session at a time, a clean
  end, an honest status, a file that holds what the user saved;
- *connecting*: one attempt at a time, every attempt ends and makes room, the page
  is told its own outcome;
- *what is kept*: the file is whole at any moment and is the live configuration
  between changes, the flag is the registry's, each helper is created once;
- *endpoint and tray*: handles are released once and not used after, the poller
  recovers, and the tray comes to show the truth.

## 2. The modules

| Module | Role |
|---|---|
| `Mirror` | abstract: two copies of a state and a mirror that copies a field from the side that holds the truth |
| `Bridge` | the session with its poller, event channel, Home Assistant, users, clock, link |
| `MCBridge` | three environments for `Bridge`, its properties, and the refinement of `Mirror` |
| `BridgeProofs` | proofs about `Bridge` in its real environment |
| `MirrorProofs` | proofs about `Bridge` with users who wait: it implements `Mirror` |
| `Client` | abstract: requests that return once and for a reason, streams that a dead connection cuts |
| `WS` | the WebSocket client; its properties and its inductive invariant |
| `MCWS` | the refinement of `Client` |
| `WSProofs` | proofs about `WS`, and that it implements `Client` |
| `App` | the coordinator; its properties and its inductive invariant |
| `MCApp` | `App` with a budget of user operations |
| `AppProofs` | proofs about `App` |
| `Attempt` | abstract: attempts to connect, one at a time, each with one outcome |
| `Authorize` | a click on Connect: POST handler, flow, loopback server, stream, page |
| `MCAuthorize` | the refinement of `Attempt` |
| `AuthorizeProofs` | proofs about `Authorize`, and that it implements `Attempt` |
| `AtomicFile` | abstract: a file that several writers replace in one step each |
| `ConfigFile` | `Save` step by step, and `Load` |
| `Store` | what outlives the process: `ConfigFile`, the registry, the helpers; their writers, kills and restarts |
| `MCStore` | `Store` with budgets, and the refinement of `AtomicFile` |
| `StoreProofs` | proofs about `Store`, and that it implements `AtomicFile` |
| `Endpoint` | the COM handles, the pollers of `Watch` and other readers |
| `Desktop` | the tray over `Endpoint` |
| `MCDesktop` | `Desktop` with a budget |
| `DesktopProofs` | proofs about `Endpoint` and `Desktop` |
| `LogRing`, `LogRingProofs` | the ring of `logx`, and what it shows |

Each component is modelled with its neighbours abstracted to what they may do to
it: `App` sees `bridge.Run` as stages that may fail at any point; `Bridge` sees
the client as a bounded channel that drops, calls that succeed or fail, and a
link that breaks; `WS` sees its callers as any mix of requests.

### Bridge and Mirror

The volume and the mute flag follow the same rules in the code, so the state is a
function of the field (`Dims`) and each rule is written once; within a handler
the volume half comes first and the mute half second (`After`), as in
`handleAudioChange`, where a suppressed volume *falls through* to mute.

- `local`, `remote` are the endpoint and the helpers. The helpers show more than the
  endpoint can hold: levels in tenths and out of range (`HelperLevels`), and other
  mute states than "on" and "off" (`HelperFlags`). `Told` is what a helper shows of a
  value pushed to it, `Heard` what `handleHAEvent` makes of a text (the digits before
  the point; off, unless "on"), `Reads` what the endpoint has once it was set (`Clamp`).
  The stamps and filters use what was heard, as in the code, and so differ from the
  next poll after a clamp. Two sides agree when the endpoint has what the helper
  reads as.
- `phase`, `half`, `cur`, `call` say where `Run` is: it can be interrupted only where
  it blocks, at the service call of one field (`Greet`/`Push`, then `PushOk` or
  `PushFailed`). The handler of an event never blocks and is one step (`IgnoreEcho`,
  `Apply`, `ApplyFails`, `IgnoreOther`).
- `pushed`, `received` are the stamps: a value and an age that saturates at
  `Window`. `Tick` makes them older. `NeverPushed` has the value -1, and
  `NeverReceived` 0 with an age out of the window, as the zero time has.
- `events` is the channel of 16, `emissions` the channel of 4. A poller blocked on
  the full channel holds one more state, so `emissions` has `AudioCap + 1` places.
  `seen` is `Watch`'s `prev`.
- `Serve`, `Refuse`, `OtherEntity`, `MoveRemote` are Home Assistant: a helper that
  does not change makes no event. `Deliver` drops when the channel is full, as
  `readLoop` does, but for everybody's events, since the subscription is to all of
  `state_changed`.
- `truth` and `blind` are history variables. `truth` is the refinement's third
  variable: whose side the latest user change of this link was on. `blind[d]`
  records, at the step where it happens, that this session gave up on the field: a
  value taken for an echo that was not one, an event of a user dropped, a call
  refused, an endpoint that could not be set, a change undone between two polls.

What is abstracted: both fields are read together by `Poll` (they are independent), a
level is a number of tenths (Home Assistant prints a helper's level with a point, so
the rounding fallback at bridge.go:170-172 is for texts it does not send; a volume
helper that shows no number at all is left out), the float of the endpoint (it gives
back the percentage it was set to), a service call that Home Assistant serves after
the bridge gave up on it counts as a user's move while the session is down, and
`ensureEntities` is part of `Connect`.

### WS

One step is one critical section of `mu`, one write, one read or one receive.
Ids come from an atomic counter, so each is used once and they form an unordered
set; an id is `idle` until a goroutine takes it. A channel is open or closed and
holds a number of messages (their content is the choice `ok`). `health` turns to
`panic` on a send on, or close of, a closed channel and to `stuck` when the
reader would block under `mu`. `Close` is three steps: the flag (`CallClose`, or
`ReadFails` by the reader), the connection (`CloseConn`), the maps (`Drain`); a
second caller returns at the flag. A write may fail from the flag on, since the
close frame is sent first. The server (`Read`) answers a written request once and
may send events for a subscription before its result and after its end.

`MCWS` maps it to `Client`: `request` is how far a `Call` or `Subscribe` is for its
caller (the send of `unsub` is nobody's request), and the connection is dead from the
flag of `Close` on, or when it is lost. A stream is `cut` when its channel is closed
while somebody reads it.

Left out: a write that blocks for ever on a dead TCP connection, and a peer that
is gone without the reader noticing; the code sets no deadline, and no property
here claims anything of those two.

### App

`cfg` and `disk` are the live configuration and the file, reduced to an account
(URL, token and client id change together) and the entity names (`unset` until
`bridge.Run` derives them, `Filled`; two configurations that differ only by that
are the `Same`). A handler saves in one critical section of `cfgMu` and kicks in
another, so `owed` counts the handlers between the two. `SaveConfig` kicks nobody: the
page asks for a reconnect with a second request (`page.html:281`), which is an
optional `Reconnect` here, since the tab may be closed, the request fail, or the save
have failed; `unheard` records that no kick has come since. Any save may fail after the
live configuration was changed (`unsaved`: the last one did). `kick` is the channel of one
place, which does not exist before `bridgeLoop` has begun. `loop` is the program
counter of `bridgeLoop`, `run`, `runCfg`, `runCtx`, `timer` are the session
goroutine, what it was given, its cancelled context and its `AfterFunc` by slot:
a timer may outlive its session, so slots are reused only when both are off. The
`AfterFunc`'s check and its store are two steps; `late` records that a store came
after the cancellation. `Exit` is `wg.Wait`: it also passes when `bridgeLoop` has
not yet run its first statement, `wg.Add`.

Dial's two reads ignore the context (ws.go:87, 106), so a run at `dial` may stay
there although its context is cancelled.

Left out: status texts, the length of the backoff, a kill (in `Store`), a machine without audio, the `-settings` mode.

### Authorize and Attempt

A click starts one flow at most, so flows, channels and streams bear the name of
the click. `page` follows the click from the request (`posted`) through
`StartAuthorize` (`started`, under `authMu`) and the setting of `authChan`
(`ready`) to its event stream; `flow` is the program counter of the goroutine,
`ch` its channel. `callbacks`, `once` and `result` are the loopback server: a
handler that has begun returns after the one `once.Do`, and `srv.Shutdown` waits
for handlers at work (`ShutDown`). A closed or reloaded tab (`Leave`) leaves its
stream handler behind, which may take messages nobody reads. `overlap` records the
clicks that were between their start and their stream at the same time.
`attempt`, the state function that maps this to `Attempt`, has the outcome when
the account is saved or the error reported.

Left out: the words of the messages, the encodings and PKCE (pure), the URL's
validation. A save that fails in the flow is ignored by the code (main.go:284)
and is in `Store`.

### ConfigFile, Store and AtomicFile

`Save` is five steps: `Lock` (saveMu), `Open` (the temporary file is truncated),
`Write`, `Rename`, and what the caller does with the result; `SaveFails` may come
at any of them. `Store` has the writers. A handler holds `cfgMu` from the change to
the result (`Change`, `HandlerReturns`); `SetRunAtStartup` first writes the registry
(`SetEnabled`); a session (`sess`) takes a snapshot, looks for each helper, creates
the missing ones and saves the snapshot. `Kill` is the end of the process at any
moment, `Restart` loads the file. A request to create a helper whose session has
gone is `late`: Home Assistant may still serve it. `made` counts the helpers, which
users of Home Assistant may remove at any time (`Remove`); `removed` has the kinds that
went after the session had them, about which it does nothing (bridge.go:161-163). One is
found again (`Exists`) only if the name asked for is what Home Assistant makes of
it (`Slugs`). `reason`, `apart` and `delayed` record, at the step where it happens,
why the file, the flag or the helpers may be otherwise; `apart` keeps which of six
causes parted flag and registry, and is `none` again when a toggle brings them together
or a start finds them equal.

`FileSpec` maps it to `AtomicFile`: `Rename` is `Succeed`, everything before it is
a stutter. Left out: a power failure (nothing is synced to the disk), a second
process (`-settings` does not save).

### Endpoint and Desktop

`endpoint` is the pointer, `refs` what was acquired less what was released. An
accessor is two steps, `Take` under `mu` and `Use` after it; `Pulled` is what
`refreshDefault` does to those between the two, and a released endpoint may give
any value. A call may fail at any time, whether or not the device is there (`Reads`),
since the code takes any error of a poll for a change of the device. What is read is represented by the device it is read from, so a volume
and a mute flag of different devices differ. A poll is `Volume`, `TakeMuted`,
`Muted`, then `Sent`, or `Refresh` (`NoDefault`, `ActivateFails`) and the two reads
again; `wait` is the ticker. A session that is cancelled may leave its poller
running for a while beside the next one (`together`).

`Desktop` adds the three goroutines that call `tray.Refresh`. `Status` uses the
endpoint, then reads the text; `Show` is the part under the tray's mutex. Before
`MakeMenu` there are no items, and `Show` sets the icon only. Volume and mute, and
text and connected flag, are read one after the other in the code and by one step
here.

### LogRing

`Write` and `Snapshot` as they are, both under `mu`, and `logged`, all lines ever
written. It is the one module without a run: its only property is proved, for any
size.

## 3. What TLC checks

`tlc -workers 2 -config <cfg> <module>`; times are on two cores.

| Run | Environment and bounds | Result |
|---|---|---|
| `bridge_spaced` | 2 levels of the endpoint, 4 of the helper, 3 mute texts; window 2 ticks, unbounded user changes but only when `Calm` or between sessions, the link breaks at any time | all five hold (1.2 M states, 105 s) |
| `bridge_async` | the same levels and texts, everything at any time; 2 changes, 1 fault, channels of 2 and 0 | `Inv`, `AgreeUnlessBlind` hold (5.1 M states, 80 s) |
| `bridge_echo` | users do not wait, but no time passes while anything is on its way | violated, see 5 |
| `bridge_external` | the same | violated, see 5 |
| `ws` | 2 ids, streams of 2 | all seven hold (75 k states, 10 s) |
| `app` | 1 account, 1 name, 2 slots, 2 operations, any save may fail | all nine hold (653 k states, 150 s) |
| `authorize` | 2 clicks, one callback at a time for each, channels of 4 | all five hold (272 k states, 110 s) |
| `store` | 2 handlers, a session, 2 kinds of helper, a derived and a chosen name; 2 requests, 1 fault (kill, failed save, edit, removal), 3 helpers | all six hold (956 k states, 150 s) |
| `store_flag` | 1 handler, a session, 1 kind of helper; 2 requests, 1 fault | violated, see 5 |
| `desktop` | 2 devices, 2 pollers, 3 readers; 3 events (statuses, devices, sessions, calls that fail) | all six hold (212 k states, 35 s) |
| `desktop_released` | 1 device, 1 event | violated, see 5 |
| `app_disconnect` | the same as `app`, from a file that could be loaded, and every save succeeds | violated, see 5 |

**Why these bounds.** In `Bridge` the filters compare a value with one remembered
value. The helper's levels are one for each value of the endpoint, one that is cut
(0.6) and one that is clamped (2.0, heard as a third value); its mute texts are "on",
"off" and another. A loudest volume of 2 was checked once with `bridge_spaced` (280 s)
and nothing new appears. A window of two ticks tells fresh, ageing
and over apart; of one, fresh and over. An event channel of two can hold an echo
and a command in either order and can be full. Two changes and a fault are what
it takes for a crossing (one change on each side) that a fault disturbs; two faults
were checked once (11.9 M states) and nothing new appears. In `WS`
two ids give a subscription with its `unsub`, or two requests that meet the same
`Close`; streams of two are neither always empty nor always full. In `App` two
slots let a timer of the former session meet the next one; two operations let a
change follow another before the first was noticed; saves fail without a bound, and
the file at first has no derived names, which only a session fills in; one account and "none" are two values of the account.
In `Authorize` two clicks can overlap in every way two can; the flow sends four
messages, so a channel of 4 is the smallest in which the code's argument for 8
holds (and `AuthAssumption` asks for it). In `Store` a handler and another handler,
or a handler and the session, meet at saveMu; they are interchangeable, so the first
that is idle takes a request. One fault comes between any two
steps, and the starts are a missing, a spoiled and an older file; the chosen name
is no slug, the derived one is. The two kinds are the number and the boolean of
bridge.go:219-224, so a session may find one and have to create the other; three
helpers let the third be a removed one made anew, or one too many. In `Desktop` the first session is free, so that three events are
enough for a second session beside a cancelled one, with a device lost or a call that
fails; sessions begin when `onReady` is over (one more reader at most would meet them before).

**Fairness.** The goroutines run: `WF` on the steps that are enabled by nothing but
the goroutine's own turn. Home Assistant answers a call (`Serve` in `Bridge`). In
`App` a run whose context is cancelled ends, except in the handshake of `Dial`:
`QuitEnds` and `ChangeReachesLoop` hold *or* Home Assistant stays silent in a
handshake for ever (`SilentHandshake`), and this is all they need. The kicks that are
obliged are those of handlers at work (`Disconnect`, `Reconnect`, `StartAuthorize`),
never a browser's second request. In `Authorize`
handlers run, the flow's own timers fire and its HTTP requests end; users,
browsers and pages need do nothing. In `Store` a save that has begun goes on. In
`Desktop` pollers and refreshes run, the ticker ticks, and COM calls return. There
is one strong fairness: a poller whose context is done leaves although the ticker
is ready too, because `select` picks at random (`Leave`); without it two pollers
may pull the handles from under each other for ever. Nothing is assumed of users,
faults, time, devices, a session that nobody cancels, or anyone's wish to call
`Close`. The budgets do not touch fairness, as no fair step is a user's.

**Deadlock** is checked where the system never stops (`bridge_spaced`, `desktop`);
requests, budgets and a process that ends stop elsewhere.

**Refinement.** `MCBridge` implements `Mirror`, `MCWS` implements `Client`, `MCAuthorize`
implements `Attempt` and `MCStore` implements `AtomicFile`, each by `INSTANCE ... WITH`
and with the abstract module's fairness.

What the properties say:

- `MirrorSpec`: a session whose users wait until it is calm implements `Mirror` --
  the side moved last is copied to the other, a user always finds the two sides
  equal, a new session starts from the machine, and copying ends.
- `QuietAgree`: with those users, nothing on its way means both sides agree, also
  where a level was cut or clamped: the value the endpoint took is pushed back
  (`Tidy` in `Mirror`), and a second push of it changes nothing.
- `Settles`: such a session never plays ping-pong with itself. `Work` counts the steps
  that are left: an emission makes two calls, a call may make an event, an event that
  brings news (`News`) will make an emission. It is at most 18, 0 exactly in quiet
  states, and every step of the bridge, the poller and Home Assistant lowers it.
- `EchoesTold`: with those users the two things README.md:80-83 says of echoes are true
  at every step; `EchoNeverMoves` and `ExternalFlowsThrough` are the same two things
  where users do not wait, and there they are not (section 5).
- `AgreeUnlessBlind`: with no assumption, the reasons of `blind` are the *complete*
  list of ways a change gets lost. This is the property that found the list.
- `ClientSpec`: the client implements `Client` -- a `Call` or `Subscribe` returns once,
  with the server's answer or because the connection or the context is over, and it
  does return if any of these is the case; a stream is cut only when the connection is
  dead, and then every one is.
- `Healthy`, `NoOrphan`, `StreamCloses`, `NoLeak`: the rest of the contract,
  in words above each. `EarlyEventKept` follows from `Inv` and is proved.
- `EntryOwed`: whatever is in `pending`, also of a call that has given up, is still owed
  to somebody who removes it: the write of its own request that will fail, the result the
  server owes or the reader has in its hands, or the `Drain` of `Close`. Nothing the
  server has answered stays behind. How many such entries there are before `Close` has no
  bound but the number of calls given up.
- `KickNotLost`, `ChangeReachesLoop`: a one-place channel whose sender never blocks
  is enough for no change of the credentials to be missed, because the loop always takes
  a snapshot after it took a kick, and changes are made before they kick. For the entity
  names, which `SaveConfig` changes without a kick, both say so only once a kick has come
  (`unheard`): a page that is closed too early, or told of a failed save, leaves the loop
  with the old names until something else wakes it.
- `AtMostOneRun`, `ExitClean`, `QuitEnds`: sessions do not overlap, and quitting
  waits for the one there is, despite `wg.Add` inside the goroutine.
- `WindsDown`: from a cancelled root context on, every step of the loop and of the
  session it waits for lowers `Left`, so no kick, retry or timer that races with the
  shutdown takes the loop back to work.
- `ConnectedHonest`: the status in a waiting loop is right but for the window
  between a timer's check and its store, which `late` marks. The same `connected`
  stays TRUE from a kick until the next session ends or credentials are missing;
  the property does not speak of that.
- `SessionSaved`: an older snapshot in the file, or a save that failed, is repaired by
  the time the next session serves, unless its own save failed. `DisconnectForgets` is where there is no next session.

- `AttemptSpec`, `FreeAgain`: one attempt at a time, which ends in one outcome and makes
  room for the next, whatever the browser sends to the loopback server and however
  slowly the page reads. The safety half of `FreeAgain` is `ComesToEnd`: each step of
  a flow, and each handler its end waits for, lowers `Left`, and nothing raises it.
  `OneInFlight` is a part of `Inv`. `Told`, `Answered`: a page that follows
  its click to the end was told the outcome of *its* flow, unless another click was
  between its start and its stream at the same time; a page of either kind does not
  wait for ever.
- `FileSpec`, `FileCurrent`: the file goes from one whole configuration to another,
  and between changes is the live one, but for two reasons: a save failed after the
  live configuration was changed, or a session saved an older snapshot.
- `FlagMirrors`: over restarts too, the flag is the registry's, but for one of six
  causes since they agreed: a first start found them different, an edit of the key, two
  toggles at once, a kill between the two stores, a handler's save that failed, and a
  session's older snapshot saved over the flag. `MirrorsRegistry` allows all of these but
  the last, for which there is no bad luck to blame, and does not hold (section 5).
- `OneHelper`, `ServesExisting`: there is one helper of each kind whatever answers are
  lost and whatever is removed, but for a request that Home Assistant serves after its
  session gave up; a session serves only when it has had both its helpers, found or
  created, and they are there unless they were removed after that.
- `Balanced`, `SafeUse`, `OneDevice`, `Recovers`, `TrayFresh`: handles are balanced on
  every path; a poller that met no other one never uses what it has released, whatever
  call fails (the others may, `NoUseAfterRelease` in section 5); what is sent is of one
  device; a poller gets to a working endpoint if there is one; the tray comes to
  show the last status and the value of the endpoint.

Each of these has a mutant beside the definition it changes (a dropped guard, a
missing close, a poll that repeats itself, a session not waited for), which TLC refutes.

## 4. What is proved

`tlapm` proves, for every value of the constants:

- `MirrorProofs`: `SpacedInvariance`, `QuietMeansAgreed`, `MirrorImplemented`,
  `EchoesToldApart`, `EveryStepSettles`;
- `BridgeProofs`: `Invariance`, `TypeCorrect`, `LostOnlyIfBlind`;
- `WSProofs`: `Invariance`, `TypeCorrect`, `NoPanicNoBlock`, `NobodyOrphaned`,
  `StreamsClose`, `EarlyEventsKept`, `NothingLeaks`, `EntriesOwed`, `ClientPromises`;
- `AppProofs`: `Invariance`, `TypeCorrect`, `NoKickLost`, `OneRun`, `CleanExit`,
  `HonestStatus`, `FileCatchesUp`, `ShutdownWindsDown`;
- `AuthorizeProofs`: `Invariance`, `TypeCorrect`, `OneFlight`, `ToldItsOwn`,
  `FlowsComeToEnd`, `AttemptsOneByOne`;
- `StoreProofs`: `Invariance`, `TypeCorrect`, `FileIsCurrent`, `FlagIsMirrored`,
  `HelperMadeOnce`, `HelpersThere`, `FileReplacedAtomically`;
- `DesktopProofs`: `Invariance`, `BalancedHolds`, `SafeUseHolds`, `OneDeviceHolds`;
- `LogRingProofs`: `ShowsLast`.

The assumptions are on the constants. `BridgeAssumption`: levels are integers and
the helpers can show every value of the endpoint, the window is a tick at least, the
event channel has a place. `WSAssumption`: a stream
has a place. `AuthAssumption`: the flow's channel has four. `AppAssumption`,
`FileAssumption`, `StoreAssumption`, `EndpointAssumption`, `DesktopAssumption`:
reserved values are not members of the sets, the writers are the handlers and the
session, Home Assistant takes the derived names as they are, there is a kind of
helper, pollers and readers are different and the readers are the three there are.
`ShowsLast` has its own: the ring has a place. The theorems about `Store`,
`Authorize` and the real `Bridge` are about `Spec`, without the budgets of the MC
modules; those about `Mirror` need `SpacedSpec`, whose users wait.

*Bridge.* `AgreeUnlessBlind` speaks of quiet states only. What is inductive is
`Repairable`: once the poller's last emission is handled (`Handled`), a field that
is not `blind` is `Mending` -- Home Assistant has the value the poller saw, or its
own news is in the channel, or that news has been applied and the poller has yet to
see it. It needs that the last emission is what the poller saw (`LastSeen`), also
while it is being handled, and what the call of the handler is about (`CallKnown`).
The lemmas `WayKept`, `WayOpened`, `WayTaken` follow the news through the channel. In
a quiet state there is no news and nothing to see, which leaves agreement.

*Mirror.* With users who wait, what is under way belongs to the last round:
`LocalRound` (every emission, event and call has the machine's value, and no value
received is fresh unless the sides agree), `NewsRound` (one event, and no stamp that
takes it for an echo), `AppliedRound` (the event is applied and the sides agree; from
here it is a round of the machine, which tells Home Assistant what it made of the
news). `Conversions` is the fact about numbers they rest on: what a helper was told is
read back as it was.
A calm state agrees and has empty channels (`QuietRound`), so a user's next move
begins a round. Then `Connect` is `Link`, `Break` is `Unlink`, `Serve` is `CopyOut`
or `Tidy`, `Apply` of news is `CopyIn`, and all else is unseen, but that without a link both
sides may move.

`EchoesToldApart` needs the rounds also where the link is broken and the session has
not noticed: then too everything under way is the machine's (`OnlyLocal`), or it is
one event of a user for whom every stamp is too old. `EveryStepSettles` has a lemma for
each step of the system that says what it takes from `Work`: a poll that sees something
new trades 10 for an emission of 9, the emission is a handler of 8 with two halves of
4, of which a call takes 1 when it is asked for, 2 when it is served, less the event it
may make, and the rest when its result is read. Only an event that is news can make the
next poll see something, and its 11 pay for that. That nothing is left
exactly in quiet states is `NoWorkQuiet`; that a round begins with 18 at most is
`WorkBegins`.

*WS.* None of the properties is inductive. `Healthy` needs that whatever is in a map
under `mu` is usable: an entry of `pending` is an open channel nobody has sent to
(`PendingUnused`), an entry of `subs` an open stream of a live subscription
(`SubsOpen`). `NoOrphan` and `StreamCloses` need the converse: a goroutine in
flight has an entry, an answer, or a channel closed by `Drain` (`WaitingServed`,
`StreamServed`). After `Drain` only a request whose write must fail can add an
entry (`DrainedMaps`), and that needs that nothing written precedes its
registration (`FramesKnown`). `EntryOwed` is inductive with `FrameKept`: the reader has
a frame in its hands exactly while it handles one.

`ClientPromises` goes by the actions, too. That a request which returns has a reason
is `AnswersKnown` (a result is of a request the server answered, a response channel is
closed by `Drain` alone), that a subscription which returns finds its stream open
unless the connection is dead is `StreamServed`, and `Drain` is `Cut` when there is a
stream to cut.

*App.* `KickNotLost` is inductive. `AtMostOneRun` and `ExitClean` follow from
`RunOwned` -- whatever is not off belongs to the loop's session, until the loop
has received its result -- and `ExitedLast`. `ConnectedHonest` needs `CtxOwned`:
where the loop waits, every context is cancelled, so a store that comes then is
late. `SessionSaved` needs `RunKnows` (the run works with the loop's snapshot) and
`RunSaved` (the file holds it, unless the last save failed, or a handler saved since
and owes a kick or leaves it to the page), joined by `KickNotLost`. `ShutdownWindsDown` needs `RunOwned` again: the run that takes
steps is the one the loop waits for, and there is no other to count.

*Authorize.* `Told` needs that the verdict is never dropped: `Room` counts the
messages of a flow by its program counter and `Content` says what they are, so the
verdict is the last in its channel, and waits there (`Pending`) for a page that is
still there. That this page reads *this* channel is `OwnChan` and `OwnStream`, and
two starts that cross know it (`StartsApart`). For `AttemptsOneByOne`, a flow begins
its attempt only while `authCh` is free, saving the account or reporting the error
is the outcome, and everything else is unseen. `FlowsComeToEnd` counts the handlers that
may still begin as long as the server listens; that none is at work otherwise
(`HandlersKnown`) is an invariant of its own.

*Store.* `FileCurrent` needs to know, for every writer, what it is about to rename
(`SaveOwned`, `FileWhole`), that a handler in the middle of a change holds `cfgMu`
(`ChangeOwned`), and where file and configuration differ meanwhile (`Current`).
`FlagMirrors` needs `FlagKnown`: the toggle in progress has the registry's value, and
a process that is down left it in the file, unless `apart` has the cause. `OneHelper` and `ServesExisting` need
`OrderKnown`, the place of a session among its helpers: each it has passed is there or
was removed since (`There`). For `FileReplacedAtomically`
a writer's state maps to what it wants written and the answer it has; only `Rename`
moves the file.

*Desktop.* `Balanced` is inductive. `SafeUse` rests on it, since a pointer that is not nil
is then one that was not released, on `Met` -- two pollers that are
alive have met -- and on `Hands`: a poller that refreshes holds nothing itself.
Nothing is assumed of which calls fail. `OneDevice` needs `Alone`: the endpoint under a poller that met no other has
not changed since it read the volume.

*LogRing.* `Inv` says where the line logged `k` lines ago is (`Place`), without the
remainders of the code, which the proof reduces to one wrap.

Model-checked only, since liveness under fairness and `ENABLED` are out of the
prover's reach: `ChangeReachesLoop`, `QuitEnds`, `Answered`, the live half of
`FreeAgain`, `Recovers`, `TrayFresh` and the liveness of the four refinements. `Settles`,
`WindsDown` and `ComesToEnd` are the halves of such claims that need no fairness: the
steps run out; that they are taken is TLC's part. Every
invariant of a passing run is proved.

## 5. Where the code and its words differ

- **An echo can move the endpoint** (`bridge_echo`). README.md:80-82: "The matching
  `state_changed` event coming back within 2 s is treated as our own echo and
  ignored." The initial pushes (bridge.go:71-76) come before the stamps exist, and
  there is one stamp per field. With every echo in time, a user who moves the
  slider while the first echo is under way is moved back. It takes a user who does not
  wait: with those who do, `EchoesToldApart` proves the sentence, and the next.
- **An external change can be swallowed** (`bridge_external`). README.md:82-83:
  "External changes — which won't match the stamp — flow through as real commands."
  Each volume change pushes and stamps mute too (bridge.go:139-148); a Home
  Assistant user who sets a field to the value pushed last is ignored.
- **Disconnect may not forget** (`app_disconnect`). main.go:192: "Disconnect forgets
  the saved HA URL and refresh token". A session being set up saves its snapshot
  (bridge.go:55) over the emptied file; the next start connects again.
- **The flag may not mirror the registry** (`store_flag`). config.go:34: "RunAtStartup
  mirrors the registry Run-key state." A session that took its snapshot before a toggle
  saves it (bridge.go:55) over the flag; the next start has the Run key set and the flag
  off, and nothing compares them. A later session of the same process would repair it,
  as `SessionSaved` says of the rest of the configuration.
- **A released endpoint can be used** (`desktop_released`). audio_windows.go:34-36: "we'll
  only touch these interfaces from the goroutine that owns them via channels". The
  poller, the bridge loop, the tray's refreshes and the settings page all use them; the
  endpoint is taken under `mu` and used after it, and one failing call of a poll releases
  it in between.

Observations that have no run:

- ws.go:182-183 says of an event dropped for a slow consumer: "State subscriptions are
  idempotent so dropping one event isn't fatal." Nothing re-reads the helpers, so the two
  sides stay apart until one of them moves again. It is one of the causes that
  `AgreeUnlessBlind` has to name.
- main.go:467 logs "signal received, exiting" and cancels the root context; the loop ends
  (`WindsDown`), but `main` waits in the tray's loop until somebody quits it.
- The comment at bridge.go:26-28 takes the network to be instantaneous. When handling
  an event takes longer than a poll period, drags on both sides at once can go on
  swapping values for ever, each side applying the other's last. `bridge_spaced` has
  no such behaviour because its users wait.
- bridge.go:30 says of `Run` that it blocks until the context is done; in a handshake
  that is never answered it blocks on (`SilentHandshake`), and Quit with it.
- A timer that passes its check just before its session is cancelled leaves "connected"
  on the tray until the loop's next turn (main.go:359-363); with no credentials that is
  for ever. `ConnectedHonest` names it (`late`).
- A switch of the default device that leaves the old one plugged in makes no read
  fail, so the poller stays with the old one. `deviceName` keeps the name of the last
  device while there is none.
- tray.go:63-64 says that `Refresh` is safe after `onReady`; the bridge loop calls it
  from its start on. `Show` has both cases, and the early ones do no harm.
- A session fills in and saves the derived entity names of its snapshot only
  (bridge.go:44-55): the live configuration never gets them, and the next save of a
  handler removes them from the file. `Same` treats the two as one.
- The browser is told "Connected!" before the code is exchanged, and also when an
  earlier callback was the one that counted (oauth.go:132-134).
- A page that is reloaded during a flow has to wait for its end, up to ten minutes,
  before Connect works again.
- A configuration file that cannot be parsed is replaced by the next save.
- With `-settings` the process opens the page of its own server and returns, which
  stops that server (main.go:69-76); the comment there speaks of another instance.

## 6. Not modelled, and the plan

Not modelled:

- a volume helper whose state is no number (bridge.go:172-174): the code ignores it, and
  there is no level to agree with;
- a helper that is removed while a session serves it, in `Bridge`: its event has no new
  state and is ignored (bridge.go:161-163), and pushes to it fail; what it means for the
  helpers themselves is in `Store`;
- a write of the WebSocket that blocks in the kernel for ever, and with it the waits for
  a session; the code sets no deadline;
- the length of the backoff (main.go:390, 434-464): `App` takes timers in any order;
- power failures, and a second instance of the program;
- icon bytes, menu layout and page layout, PKCE and HTTP encodings, the browser
  launcher, the log file, the status and log requests, which keep no state that a
  property here could be about; the stubs for other systems.

Plan, in order:

1. The backoff: its length against a reference, and what a kick resets.
2. The client and the session composed, so that the stream's end is `WS`'s own and
   the link's break a step of it.
