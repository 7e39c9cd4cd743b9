-------------------------------- MODULE Bridge --------------------------------
(***************************************************************************)
(* internal/bridge/bridge.go: one session after another of bridge.Run, the *)
(* goroutine that keeps the endpoint volume and mute of this machine and   *)
(* two Home Assistant helpers equal, together with what it talks to:       *)
(*   - the polling goroutine started by audio.Client.Watch,                *)
(*   - the events channel filled by the WebSocket reader,                  *)
(*   - Home Assistant, which serves one service call at a time,            *)
(*   - the users on both sides, a clock, and a link that may break.        *)
(*                                                                         *)
(* A handler is cut into steps only where it blocks: at the CallService    *)
(* that pushes one field.  The two fields share every rule in the code     *)
(* (lastPushedVol/lastPushedMut and so on), so the state is indexed by     *)
(* field and each rule is written once.                                    *)
(***************************************************************************)
EXTENDS Integers, Sequences

CONSTANTS Top,        \* the loudest volume, 100 in the code
          HelperLevels, \* what the volume helper may show, in tenths: 476 is "47.6"
          HelperFlags,  \* what the mute helper may show: 1 is "on", 0 is "off"
          Window,     \* echoWindow, in ticks of the clock
          EventCap,   \* capacity of the events channel (16 in the code)
          AudioCap    \* capacity of the audioEvents channel (4 in the code)

ASSUME BridgeAssumption == /\ Top \in Nat
                           /\ HelperLevels \subseteq Int
                           /\ {10 * v : v \in 0..Top} \subseteq HelperLevels
                           /\ HelperFlags \subseteq Int /\ {0, 1} \subseteq HelperFlags
                           /\ Window \in Nat \ {0}
                           /\ EventCap \in Nat \ {0}
                           /\ AudioCap \in Nat

VARIABLES
  local,       \* the audio endpoint of the machine: audio.State
  remote,      \* the states of the two helpers in Home Assistant
  phase,       \* "down" | "greet" (initial pushes) | "serve" (the select loop)
  half,        \* the field the running handler is at, "none" in the select
  cur,         \* the audio.State the running handler was given
  call,        \* the CallService the bridge waits for
  link,        \* "up" | "lost" (WebSocket closed) | "cancelled" (ctx done)
  events,      \* the events channel, oldest first
  emissions,   \* the audioEvents channel, oldest first
  seen,        \* Watch's prev, <<>> before its first emission
  pushed,      \* lastPushedVol/Mut and their times
  received,    \* lastReceivedVol/Mut and their times
  truth,       \* history: the side the latest user change of the link was on
  blind        \* history: fields whose agreement this session gave up on

vars == <<local, remote, phase, half, cur, call, link, events, emissions, seen,
          pushed, received, truth, blind>>

-----------------------------------------------------------------------------
Dims == {"vol", "mut"}

\* What a field of the endpoint, and the state of its helper, can be.
Values(d) == IF d = "vol" THEN 0..Top ELSE {0, 1}
Shown(d) == IF d = "vol" THEN HelperLevels ELSE HelperFlags
State == [vol : 0..Top, mut : {0, 1}]
HelperState == [vol : HelperLevels, mut : HelperFlags]

\* What a helper shows when it is given a value: 47 is "47.0".
Told(d, v) == IF d = "vol" THEN 10 * v ELSE v

\* What the bridge makes of a state: the text of a level is cut at its point, and
\* any text but "on" is off.
Cut(x) == IF x >= 0 THEN x \div 10 ELSE -((-x) \div 10)
Heard(d, x) == IF d = "vol" THEN Cut(x) ELSE IF x = 1 THEN 1 ELSE 0

\* SetVolume clamps.
Clamp(v) == IF v < 0 THEN 0 ELSE IF v > Top THEN Top ELSE v

\* The value the endpoint has when the bridge has applied a state.
Reads(d, x) == IF d = "vol" THEN Clamp(Heard(d, x)) ELSE Heard(d, x)

\* A stamp is the value last sent in one direction and the time since then;
\* an age of Window means that the echo window is over.
Stamp == [val : Int, age : 0..Window]
Stamped(v) == [val |-> v, age |-> 0]
NeverPushed == [d \in Dims |-> [val |-> -1, age |-> Window]]
NeverReceived == [d \in Dims |-> [val |-> 0, age |-> Window]]

\* Mutant of Fresh: the echo window never ends.
FreshForever(s, v) == s.val = v

Fresh(s, v) == s.val = v /\ s.age < Window

NoCall == [dim |-> "none", val |-> 0, st |-> "none"]
Ask(d, v) == [dim |-> d, val |-> v, st |-> "sent"]
Event(d, x, src) == [dim |-> d, val |-> x, src |-> src]

Calls == UNION {[dim : {d}, val : Values(d), st : {"sent", "ok", "err"}] : d \in Dims}
Events == UNION {[dim : {d}, val : Shown(d), src : {"user", "bridge"}]
                   : d \in Dims \cup {"other"}}

\* Each handler does the volume half first and the mute half second.
After(d) == IF d = "vol" THEN "mut" ELSE "none"
AfterGreet(d) == IF phase = "greet" /\ d = "mut" THEN "serve" ELSE phase

TypeOK ==
  /\ local \in State /\ remote \in HelperState /\ cur \in State
  /\ phase \in {"down", "greet", "serve"}
  /\ half \in Dims \cup {"none"}
  /\ call \in {NoCall} \cup Calls
  /\ link \in {"up", "lost", "cancelled"}
  /\ events \in Seq(Events) /\ Len(events) <= EventCap
  /\ emissions \in Seq(State) /\ Len(emissions) <= AudioCap + 1
  /\ seen \in State \cup {<<>>}
  /\ pushed \in [Dims -> Stamp] /\ received \in [Dims -> Stamp]
  /\ truth \in {"none", "local", "remote"}
  /\ blind \in [Dims -> BOOLEAN]

Init ==
  /\ local \in State /\ remote \in HelperState
  /\ phase = "down" /\ half = "none" /\ cur = local /\ call = NoCall
  /\ link = "lost" /\ events = <<>> /\ emissions = <<>> /\ seen = <<>>
  /\ pushed = NeverPushed /\ received = NeverReceived
  /\ truth = "none" /\ blind = [d \in Dims |-> FALSE]

-----------------------------------------------------------------------------
(* Sessions.                                                               *)

\* Mutant of Connect: channels that outlive a session.
ConnectReuses ==
  /\ phase = "down"
  /\ phase' = "greet" /\ half' = "vol" /\ link' = "up" /\ seen' = <<>>
  /\ pushed' = NeverPushed /\ received' = NeverReceived
  /\ truth' = "local" /\ blind' = [d \in Dims |-> FALSE]
  /\ UNCHANGED <<local, remote, cur, call, events, emissions>>

\* bridge.Run up to the first push: dial, ensure the helpers, subscribe, start
\* Watch.  The echo stamps belong to the session and start out unset.
Connect ==
  /\ phase = "down"
  /\ phase' = "greet" /\ half' = "vol" /\ link' = "up"
  /\ events' = <<>> /\ emissions' = <<>> /\ seen' = <<>>
  /\ pushed' = NeverPushed /\ received' = NeverReceived
  /\ truth' = "local" /\ blind' = [d \in Dims |-> FALSE]
  /\ UNCHANGED <<local, remote, cur, call>>

\* The endpoint cannot be read: the initial push of the field is left out.
GreetUnread(d) ==
  /\ phase = "greet" /\ half = d /\ call = NoCall
  /\ half' = After(d) /\ phase' = AfterGreet(d)
  /\ UNCHANGED <<local, remote, cur, call, link, events, emissions, seen, pushed,
                 received, truth, blind>>

\* The initial push of one field: read the endpoint, call Home Assistant.
Greet(d) ==
  /\ phase = "greet" /\ half = d /\ call = NoCall /\ link # "lost"
  /\ call' = Ask(d, local[d])
  /\ UNCHANGED <<local, remote, phase, half, cur, link, events, emissions, seen,
                 pushed, received, truth, blind>>

\* The WebSocket closes, or the context of the run is cancelled.
Break(l) ==
  /\ phase # "down" /\ link = "up"
  /\ link' = l /\ truth' = "none"
  /\ UNCHANGED <<local, remote, phase, half, cur, call, events, emissions, seen,
                 pushed, received, blind>>

\* The select sees ctx.Done, or the events channel closed after its last event.
Leave ==
  /\ phase = "serve" /\ half = "none"
  /\ link = "cancelled" \/ (link = "lost" /\ events = <<>>)
  /\ phase' = "down"
  /\ UNCHANGED <<local, remote, half, cur, call, link, events, emissions, seen,
                 pushed, received, truth, blind>>

-----------------------------------------------------------------------------
(* handleAudioChange.                                                      *)

TakeEmission ==
  /\ phase = "serve" /\ half = "none" /\ emissions # <<>>
  /\ cur' = Head(emissions) /\ emissions' = Tail(emissions)
  /\ half' = "vol"
  /\ UNCHANGED <<local, remote, phase, call, link, events, seen, pushed, received,
                 truth, blind>>

\* The news of the helper's present value, set by a user, is in the channel.
OnItsWay(d) ==
  \E i \in 1..Len(events) : /\ events[i] = Event(d, remote[d], "user")
                            /\ \A j \in i+1..Len(events) : events[j].dim # d

\* Mutant of SkipPush: "return" where the code falls through to the mute half.
SkipBoth(d) ==
  /\ phase = "serve" /\ half = d /\ call = NoCall
  /\ Fresh(received[d], cur[d])
  /\ half' = "none"
  /\ blind' = [blind EXCEPT ![d] = @ \/ (cur[d] # Reads(d, remote[d]) /\ ~OnItsWay(d))]
  /\ UNCHANGED <<local, remote, phase, cur, call, link, events, emissions, seen,
                 pushed, received, truth>>

\* The field still has the value Home Assistant gave: taken for our own echo.
SkipPush(d) ==
  /\ phase = "serve" /\ half = d /\ call = NoCall
  /\ Fresh(received[d], cur[d])
  /\ half' = After(d)
  /\ blind' = [blind EXCEPT ![d] = @ \/ (cur[d] # Reads(d, remote[d]) /\ ~OnItsWay(d))]
  /\ UNCHANGED <<local, remote, phase, cur, call, link, events, emissions, seen,
                 pushed, received, truth>>

Push(d) ==
  /\ phase = "serve" /\ half = d /\ call = NoCall /\ link # "lost"
  /\ ~Fresh(received[d], cur[d])
  /\ call' = Ask(d, cur[d])
  /\ UNCHANGED <<local, remote, phase, half, cur, link, events, emissions, seen,
                 pushed, received, truth, blind>>

\* The call succeeded.  A push of the select loop is stamped; the two initial
\* pushes are made before the stamps exist.
PushOk(d) ==
  /\ half = d /\ call.dim = d /\ call.st = "ok"
  /\ call' = NoCall
  /\ half' = After(d) /\ phase' = AfterGreet(d)
  /\ pushed' = IF phase = "serve" THEN [pushed EXCEPT ![d] = Stamped(call.val)]
                                  ELSE pushed
  /\ UNCHANGED <<local, remote, cur, link, events, emissions, seen, received,
                 truth, blind>>

\* The call failed: refused by Home Assistant, never sent on a closed
\* WebSocket, or abandoned because the WebSocket closed or the context ended
\* (whether Home Assistant served it or not).  Nothing is retried.
PushFailed(d) ==
  /\ half = d
  /\ \/ call.st = "err"
     \/ link # "up" /\ call.st \in {"sent", "ok"}
     \/ link = "lost" /\ call = NoCall
          /\ (phase = "greet" \/ ~Fresh(received[d], cur[d]))
  /\ call' = NoCall
  /\ half' = After(d) /\ phase' = AfterGreet(d)
  /\ UNCHANGED <<local, remote, cur, link, events, emissions, seen, pushed,
                 received, truth, blind>>

-----------------------------------------------------------------------------
(* handleHAEvent.                                                          *)

NextEvent == /\ phase = "serve" /\ half = "none" /\ events # <<>>
             /\ events' = Tail(events)

\* The event has the value pushed last: taken for our own echo.
IgnoreEcho(d) ==
  /\ NextEvent
  /\ LET e == Head(events) IN
       /\ e.dim = d /\ Fresh(pushed[d], Heard(d, e.val))
       /\ blind' = [blind EXCEPT ![d] =
                       @ \/ (e.src = "user" /\ Reads(d, e.val) # local[d])]
  /\ UNCHANGED <<local, remote, phase, half, cur, call, link, emissions, seen,
                 pushed, received, truth>>

\* Any other value is a command.  The stamp is set before the endpoint is, and
\* whether or not that works.
Apply(d) ==
  /\ NextEvent
  /\ LET e == Head(events) IN
       /\ e.dim = d /\ ~Fresh(pushed[d], Heard(d, e.val))
       /\ received' = [received EXCEPT ![d] = Stamped(Heard(d, e.val))]
       /\ local' = [local EXCEPT ![d] = Reads(d, e.val)]
  /\ UNCHANGED <<remote, phase, half, cur, call, link, emissions, seen, pushed,
                 truth, blind>>

ApplyFails(d) ==
  /\ NextEvent
  /\ LET e == Head(events) IN
       /\ e.dim = d /\ ~Fresh(pushed[d], Heard(d, e.val))
       /\ received' = [received EXCEPT ![d] = Stamped(Heard(d, e.val))]
       /\ blind' = [blind EXCEPT ![d] = @ \/ Reads(d, e.val) # local[d]]
  /\ UNCHANGED <<local, remote, phase, half, cur, call, link, emissions, seen,
                 pushed, truth>>

\* The subscription covers every entity of the installation.
IgnoreOther ==
  /\ NextEvent /\ Head(events).dim = "other"
  /\ UNCHANGED <<local, remote, phase, half, cur, call, link, emissions, seen,
                 pushed, received, truth, blind>>

-----------------------------------------------------------------------------
(* Watch: read the endpoint, emit what differs from the last emission.  A    *)
(* sender blocked on the full channel holds one more value, which the queue  *)
(* counts as its last place.                                                 *)

\* Mutant of Poll: the state is dropped when the channel is full.
PollDrops ==
  /\ phase # "down" /\ link # "cancelled"
  /\ seen # local /\ seen' = local
  /\ emissions' = IF Len(emissions) <= AudioCap THEN Append(emissions, local)
                                                ELSE emissions
  /\ UNCHANGED <<local, remote, phase, half, cur, call, link, events, pushed,
                 received, truth, blind>>

\* Mutant of Poll: every read is sent.
PollRepeats ==
  /\ phase # "down" /\ link # "cancelled"
  /\ Len(emissions) <= AudioCap
  /\ emissions' = Append(emissions, local) /\ seen' = local
  /\ UNCHANGED <<local, remote, phase, half, cur, call, link, events, pushed,
                 received, truth, blind>>

\* A read that differs from prev is sent, whenever there is room for it.
Poll ==
  /\ phase # "down" /\ link # "cancelled"
  /\ seen # local /\ Len(emissions) <= AudioCap
  /\ emissions' = Append(emissions, local) /\ seen' = local
  /\ UNCHANGED <<local, remote, phase, half, cur, call, link, events, pushed,
                 received, truth, blind>>

-----------------------------------------------------------------------------
(* Home Assistant and the reader of the WebSocket.                         *)

\* state_changed reaches the events channel if there is a subscription and
\* room; with no room the reader drops it.
Deliver(e) ==
  LET full == Len(events) = EventCap IN
  /\ events' = IF phase = "down" \/ link = "lost" \/ full THEN events
               ELSE Append(events, e)
  /\ blind' = IF e.dim \in Dims /\ e.src = "user" /\ full
              THEN [blind EXCEPT ![e.dim] = TRUE] ELSE blind

\* Home Assistant serves the call; a value that does not change makes no event.
Serve ==
  /\ call.st = "sent"
  /\ call' = [call EXCEPT !.st = "ok"]
  /\ LET x == Told(call.dim, call.val) IN
       /\ remote' = [remote EXCEPT ![call.dim] = x]
       /\ IF remote[call.dim] = x THEN UNCHANGED <<events, blind>>
          ELSE Deliver(Event(call.dim, x, "bridge"))
  /\ UNCHANGED <<local, phase, half, cur, link, emissions, seen, pushed, received,
                 truth>>

Refuse ==
  /\ call.st = "sent" /\ link = "up"
  /\ call' = [call EXCEPT !.st = "err"]
  /\ blind' = [blind EXCEPT ![call.dim] = @ \/ phase = "serve"]
  /\ UNCHANGED <<local, remote, phase, half, cur, link, events, emissions, seen,
                 pushed, received, truth>>

\* Another entity of the installation changes.
OtherEntity ==
  /\ phase # "down" /\ link = "up"
  /\ Deliver(Event("other", 0, "user"))
  /\ UNCHANGED <<local, remote, phase, half, cur, call, link, emissions, seen,
                 pushed, received, truth>>

-----------------------------------------------------------------------------
(* Users and time.                                                         *)

\* Moving back, between two polls, to what Watch saw last goes unnoticed.
MoveLocal(d, v) ==
  /\ v # local[d]
  /\ local' = [local EXCEPT ![d] = v]
  /\ truth' = IF truth = "none" THEN "none" ELSE "local"
  /\ blind' = [blind EXCEPT ![d] = @ \/ (seen # <<>> /\ seen[d] = v
                                           /\ v # Reads(d, remote[d]))]
  /\ UNCHANGED <<remote, phase, half, cur, call, link, events, emissions, seen,
                 pushed, received>>

MoveRemote(d, x) ==
  /\ x # remote[d]
  /\ remote' = [remote EXCEPT ![d] = x]
  /\ Deliver(Event(d, x, "user"))
  /\ truth' = IF truth = "none" THEN "none" ELSE "remote"
  /\ UNCHANGED <<local, phase, half, cur, call, link, emissions, seen, pushed,
                 received>>

Older(s) == [d \in Dims |-> [s[d] EXCEPT !.age = IF @ < Window THEN @ + 1 ELSE @]]

Tick ==
  /\ pushed' = Older(pushed) /\ received' = Older(received)
  /\ <<pushed', received'>> # <<pushed, received>>
  /\ UNCHANGED <<local, remote, phase, half, cur, call, link, events, emissions,
                 seen, truth, blind>>

-----------------------------------------------------------------------------
(* A session is quiet when nothing about the two fields is on its way,      *)
(* and calm when its echo windows are over as well.                         *)
Quiet == /\ phase = "serve" /\ link = "up" /\ half = "none"
         /\ \A i \in 1..Len(events) : events[i].dim = "other"
         /\ emissions = <<>> /\ seen = local

Calm == /\ Quiet
        /\ \A d \in Dims : pushed[d].age = Window /\ received[d].age = Window

Handle == \/ Leave \/ TakeEmission \/ IgnoreOther
          \/ \E d \in Dims : \/ Greet(d) \/ SkipPush(d) \/ Push(d) \/ PushOk(d)
                             \/ PushFailed(d) \/ IgnoreEcho(d) \/ Apply(d)

Users == \E d \in Dims : \/ \E v \in Values(d) : MoveLocal(d, v)
                         \/ \E x \in Shown(d) : MoveRemote(d, x)

Faults == \/ \E l \in {"lost", "cancelled"} : Break(l)
          \/ Refuse \/ OtherEntity
          \/ \E d \in Dims : GreetUnread(d) \/ ApplyFails(d)

System == Connect \/ Handle \/ Poll \/ Serve

Next == System \/ Users \/ Faults \/ Tick

\* Goroutines run, Home Assistant answers; users, faults and time owe nothing.
Fairness == /\ WF_vars(Connect) /\ WF_vars(Handle)
            /\ WF_vars(Poll) /\ WF_vars(Serve)

Spec == Init /\ [][Next]_vars /\ Fairness

-----------------------------------------------------------------------------
(* The inductive invariant behind MCBridge's AgreeUnlessBlind: if nothing    *)
(* of the machine's is left to handle, a field agrees with what the poller    *)
(* saw, or something is on its way that makes it agree.                      *)

\* The last state the poller emitted has been handled, as far as the field goes.
Handled(d) == /\ phase = "serve" /\ half \in {"none", After(d)}
              /\ emissions = <<>> /\ seen # <<>>

\* Home Assistant has what was handled; or its own news is on its way, or has been
\* applied and the poller has yet to see it.
Mending(d) ==
  \/ blind[d]
  \/ OnItsWay(d)
  \/ Reads(d, remote[d]) = seen[d]
  \/ local[d] # seen[d] /\ \A i \in 1..Len(events) : events[i].dim # d

Repairable == \A d \in Dims : link = "up" /\ Handled(d) => Mending(d)

\* The newest emission is what the poller saw last, and the first of a session
\* waits for the loop.
LastSeen ==
  /\ emissions # <<>> => emissions[Len(emissions)] = seen
  /\ phase = "greet" /\ seen # <<>> => emissions # <<>>
  /\ phase = "serve" /\ half # "none" /\ emissions = <<>> => cur = seen

\* A call is that of the field its handler is at, and its success lasts until a
\* user's change is on its way.
CallKnown ==
  /\ phase = "down" => half = "none"
  /\ phase = "greet" => half # "none"
  /\ call # NoCall => call.dim = half
  /\ call # NoCall /\ phase = "serve" =>
       /\ call.val = cur[call.dim]
       /\ call.st = "err" => blind[call.dim]
       /\ call.st = "ok" /\ link = "up" =>
            \/ blind[call.dim] \/ OnItsWay(call.dim)
            \/ remote[call.dim] = Told(call.dim, call.val)

Inv == TypeOK /\ LastSeen /\ CallKnown /\ Repairable
=============================================================================
