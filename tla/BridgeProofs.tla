----------------------------- MODULE BridgeProofs -----------------------------
(***************************************************************************)
(* Proofs about Bridge, for any levels, echo window and capacities, with   *)
(* users, faults and time that do what they like.                          *)
(***************************************************************************)
EXTENDS MCBridge, TLAPS

\* A state has a value for each field, and may be given another.
LEMMA StateAt == ASSUME NEW s \in State, NEW d \in Dims
                 PROVE  s[d] \in Values(d)
BY DEF State, Dims, Values

LEMMA HelperAt == ASSUME NEW s \in HelperState, NEW d \in Dims
                  PROVE  s[d] \in Shown(d)
BY DEF HelperState, Dims, Shown

LEMMA StateThere == ASSUME NEW s \in State PROVE s # <<>>
<1>1. "vol" \in DOMAIN s BY DEF State
<1>2. "vol" \notin DOMAIN <<>> OBVIOUS
<1>3. QED BY <1>1, <1>2

\* What Home Assistant is told is heard as it was; whatever it shows has a value the
\* endpoint can have.
LEMMA Conversions ==
  /\ \A d \in Dims : \A v \in Values(d) :
       Told(d, v) \in Shown(d) /\ Heard(d, Told(d, v)) = v /\ Reads(d, Told(d, v)) = v
  /\ \A d \in Dims : \A x \in Shown(d) : Heard(d, x) \in Int /\ Reads(d, x) \in Values(d)
<1>1. Top \in Nat /\ HelperLevels \subseteq Int BY BridgeAssumption
<1>2. \A v \in 0..Top : 10 * v \in HelperLevels /\ Cut(10 * v) = v /\ Clamp(v) = v
  BY <1>1, BridgeAssumption DEF Cut, Clamp
<1>3. \A x \in HelperLevels : Cut(x) \in Int BY <1>1 DEF Cut
<1>4. \A v \in Int : Clamp(v) \in 0..Top BY <1>1 DEF Clamp
<1>5. {0, 1} \subseteq HelperFlags BY BridgeAssumption
<1>6. QED BY <1>2, <1>3, <1>4, <1>5 DEF Dims, Values, Shown, Told, Heard, Reads

\* What the first element of a channel leaves behind.
LEMMA Taken == ASSUME NEW S, NEW s \in Seq(S), s # <<>>
               PROVE  /\ Tail(s) \in Seq(S) /\ Len(Tail(s)) = Len(s) - 1
                      /\ Head(s) = s[1] /\ Head(s) \in S /\ Len(s) \in Nat \ {0}
                      /\ \A i \in 1..Len(Tail(s)) : Tail(s)[i] = s[i + 1]
OBVIOUS

\* What a channel has after a send.
LEMMA Sent == ASSUME NEW S, NEW s \in Seq(S), NEW e \in S
              PROVE  /\ Append(s, e) \in Seq(S) /\ Len(Append(s, e)) = Len(s) + 1
                     /\ Append(s, e) # <<>> /\ Append(s, e)[Len(s) + 1] = e
                     /\ \A i \in 1..Len(s) : Append(s, e)[i] = s[i]
OBVIOUS

LEMMA ValuesAreInts == \A d \in Dims : \A v \in Values(d) : v \in Int
BY BridgeAssumption DEF Values

\* Events and calls are of a field and its values.
LEMMA EventTyped == /\ \A e \in Events : /\ e.dim \in Dims \cup {"other"}
                                         /\ e.val \in Shown(e.dim)
                    /\ \A d \in Dims \cup {"other"} : \A v \in Shown(d) :
                         \A src \in {"user", "bridge"} :
                           /\ Event(d, v, src) \in Events
                           /\ Event(d, v, src).dim = d
                           /\ Event(d, v, src).val = v
                           /\ Event(d, v, src).src = src
BY DEF Events, Event

LEMMA CallTyped == /\ \A c \in Calls : /\ c.dim \in Dims /\ c.val \in Values(c.dim)
                                       /\ c.st \in {"sent", "ok", "err"} /\ c # NoCall
                                       /\ [c EXCEPT !.st = "ok"] \in Calls
                                       /\ [c EXCEPT !.st = "err"] \in Calls
                   /\ \A d \in Dims : \A v \in Values(d) : Ask(d, v) \in Calls
                   /\ NoCall.st = "none"
BY DEF Calls, NoCall, Ask, Dims

\* A stamp is of a value and an age within the window, and ages.
LEMMA StampTyped ==
  /\ \A v \in Int : Stamped(v) \in Stamp
  /\ \A s \in [Dims -> Stamp] : Older(s) \in [Dims -> Stamp]
<1>1. Window \in Nat \ {0} BY BridgeAssumption
<1>2. \A v \in Int : Stamped(v) \in Stamp BY <1>1 DEF Stamped, Stamp
<1>3. ASSUME NEW s \in Stamp
      PROVE  [s EXCEPT !.age = IF @ < Window THEN @ + 1 ELSE @] \in Stamp
  BY <1>1 DEF Stamp
<1>4. QED BY <1>2, <1>3 DEF Older

\* The news of a field stays on its way when other news follows it, ...
LEMMA WayKept ==
  ASSUME events \in Seq(Events), NEW e \in Events, NEW d \in Dims,
         events' = Append(events, e), remote'[d] = remote[d], e.dim # d, OnItsWay(d)
  PROVE  OnItsWay(d)'
<1>1. PICK i \in 1..Len(events) : /\ events[i] = Event(d, remote[d], "user")
                                  /\ \A j \in i+1..Len(events) : events[j].dim # d
  BY DEF OnItsWay
<1>2. /\ Len(events') = Len(events) + 1 /\ events'[Len(events) + 1] = e
      /\ \A j \in 1..Len(events) : events'[j] = events[j]
  BY Sent
<1>3. Len(events) \in Nat OBVIOUS
<1>4. i \in 1..Len(events') /\ events'[i] = Event(d, remote'[d], "user")
  BY <1>1, <1>2, <1>3
<1>5. \A j \in i+1..Len(events') : events'[j].dim # d
  BY <1>1, <1>2, <1>3
<1>6. QED BY <1>4, <1>5 DEF OnItsWay

\* ... is on its way when it is sent, ...
LEMMA WayOpened ==
  ASSUME events \in Seq(Events), NEW d \in Dims, NEW x \in Shown(d),
         events' = Append(events, Event(d, x, "user")), remote'[d] = x
  PROVE  OnItsWay(d)'
<1>1. Event(d, x, "user") \in Events BY EventTyped
<1>2. Len(events') = Len(events) + 1 /\ events'[Len(events) + 1] = Event(d, x, "user")
  BY <1>1, Sent
<1>3. Len(events) \in Nat OBVIOUS
<1>4. QED BY <1>2, <1>3 DEF OnItsWay

\* ... and ends with the event that carries it.
LEMMA WayTaken ==
  ASSUME events \in Seq(Events), events # <<>>, NEW d \in Dims,
         events' = Tail(events), remote'[d] = remote[d], OnItsWay(d)
  PROVE  \/ OnItsWay(d)'
         \/ /\ Head(events) = Event(d, remote[d], "user")
            /\ \A i \in 1..Len(events') : events'[i].dim # d
<1>1. PICK i \in 1..Len(events) : /\ events[i] = Event(d, remote[d], "user")
                                  /\ \A j \in i+1..Len(events) : events[j].dim # d
  BY DEF OnItsWay
<1>2. /\ Len(events') = Len(events) - 1 /\ Head(events) = events[1]
      /\ Len(events) \in Nat \ {0}
      /\ \A j \in 1..Len(events') : events'[j] = events[j + 1]
  BY Taken
<1>3. CASE i = 1
  <2>1. \A j \in 1..Len(events') : j + 1 \in 2..Len(events) BY <1>2
  <2>2. QED BY <1>1, <1>2, <1>3, <2>1
<1>4. CASE i # 1
  <2>1. i - 1 \in 1..Len(events') /\ events'[i - 1] = Event(d, remote'[d], "user")
    BY <1>1, <1>2, <1>4
  <2>2. \A j \in (i-1)+1..Len(events') : events'[j].dim # d
    BY <1>1, <1>2, <1>4
  <2>3. QED BY <2>1, <2>2 DEF OnItsWay
<1>5. QED BY <1>3, <1>4

\* An event taken is not of a field that has no events.
LEMMA NoneTaken ==
  ASSUME events \in Seq(Events), events # <<>>, NEW d \in Dims, events' = Tail(events),
         \A i \in 1..Len(events) : events[i].dim # d
  PROVE  Head(events).dim # d /\ \A i \in 1..Len(events') : events'[i].dim # d
BY Taken

\* What a delivery does to the channel, and to the fields that are blind.
LEMMA Delivered ==
  ASSUME TypeOK, NEW e \in Events, Deliver(e)
  PROVE  /\ events' \in Seq(Events) /\ Len(events') <= EventCap
         /\ blind' \in [Dims -> BOOLEAN]
         /\ \A d \in Dims : blind[d] => blind'[d]
         /\ \/ events' = events
            \/ events' = Append(events, e)
         /\ phase # "down" /\ link = "up" /\ e.dim \in Dims /\ e.src = "user" =>
              blind'[e.dim] \/ events' = Append(events, e)
<1> USE DEF TypeOK, Deliver
<1>1. Len(events) \in Nat /\ EventCap \in Nat BY BridgeAssumption
<1>2. Append(events, e) \in Seq(Events) /\ Len(Append(events, e)) = Len(events) + 1
  BY Sent
<1>3. events' \in Seq(Events) /\ Len(events') <= EventCap
  BY <1>1, <1>2
<1>4. blind' \in [Dims -> BOOLEAN] /\ \A d \in Dims : blind[d] => blind'[d]
  OBVIOUS
<1>5. phase # "down" /\ link = "up" /\ e.dim \in Dims /\ e.src = "user" =>
        blind'[e.dim] \/ events' = Append(events, e)
  OBVIOUS
<1>6. QED BY <1>3, <1>4, <1>5

\* A step that leaves both sides, the poller and the news where they are leaves the
\* fields that were handled repairable.
LEMMA RepairKept ==
  ASSUME Inv, UNCHANGED <<local, remote, events, emissions, seen>>,
         \A d \in Dims : blind[d] => blind'[d],
         \A d \in Dims : link' = "up" /\ Handled(d)' => link = "up" /\ Handled(d)
  PROVE  Repairable'
BY DEF Inv, Repairable, Mending, OnItsWay

\* A step that leaves handlers and calls where they are leaves what is known of them.
LEMMA CallKept ==
  ASSUME Inv, UNCHANGED <<phase, half, cur, call, link>>,
         \A d \in Dims : blind[d] => blind'[d],
         \A d \in Dims : /\ call # NoCall /\ call.st = "ok" /\ call.dim = d
                         /\ phase = "serve" /\ link = "up"
                         => \/ blind'[d] \/ OnItsWay(d)'
                            \/ ~OnItsWay(d) /\ remote'[d] = remote[d]
  PROVE  CallKnown'
<1>1. call # NoCall => call.dim \in Dims BY CallTyped DEF Inv, TypeOK
<1>2. QED BY <1>1 DEF Inv, CallKnown

-----------------------------------------------------------------------------
(* The invariant.                                                          *)

\* It holds before the first session.
LEMMA InitInv == Init => Inv
<1> SUFFICES ASSUME Init PROVE Inv OBVIOUS
<1> USE DEF Init
<1>1. TypeOK
  BY BridgeAssumption DEF TypeOK, NeverPushed, NeverReceived, Stamp, Dims
<1>2. LastSeen /\ CallKnown /\ Repairable
  BY DEF LastSeen, CallKnown, Repairable, Handled
<1>3. QED BY <1>1, <1>2 DEF Inv

\* Sessions begin and end.
LEMMA ConnectInv == Inv /\ Connect => Inv'
<1> SUFFICES ASSUME Inv, Connect PROVE Inv' OBVIOUS
<1> USE DEF Connect
<1>1. TypeOK'
  BY BridgeAssumption DEF Inv, TypeOK, NeverPushed, NeverReceived, Stamp, Dims
<1>2. LastSeen' /\ Repairable' BY DEF LastSeen, Repairable, Handled
<1>3. CallKnown'
  <2>1. call = NoCall
    BY CallTyped DEF Inv, CallKnown, TypeOK, Dims
  <2>2. QED BY <2>1 DEF CallKnown
<1>4. QED BY <1>1, <1>2, <1>3 DEF Inv

LEMMA BreakInv == ASSUME NEW l \in {"lost", "cancelled"}, Inv, Break(l) PROVE Inv'
<1> USE DEF Break
<1>1. TypeOK' BY DEF Inv, TypeOK
<1>2. LastSeen' BY DEF Inv, LastSeen
<1>3. CallKnown' BY DEF Inv, CallKnown
<1>4. Repairable' BY DEF Repairable
<1>5. QED BY <1>1, <1>2, <1>3, <1>4 DEF Inv

LEMMA LeaveInv == Inv /\ Leave => Inv'
<1> SUFFICES ASSUME Inv, Leave PROVE Inv' OBVIOUS
<1> USE DEF Leave
<1>1. TypeOK' BY DEF Inv, TypeOK
<1>2. LastSeen' BY DEF Inv, LastSeen
<1>3. CallKnown' BY DEF Inv, CallKnown
<1>4. Repairable' BY DEF Repairable, Handled
<1>5. QED BY <1>1, <1>2, <1>3, <1>4 DEF Inv

\* The initial pushes.
LEMMA GreetUnreadInv == ASSUME NEW d \in Dims, Inv, GreetUnread(d) PROVE Inv'
<1> USE DEF GreetUnread
<1>1. TypeOK' BY DEF Inv, TypeOK, After, AfterGreet, Dims
<1>2. LastSeen' BY DEF Inv, LastSeen, After, AfterGreet, Dims
<1>3. CallKnown' BY DEF Inv, CallKnown, After, AfterGreet, Dims
<1>4. Repairable' BY DEF Inv, LastSeen, Repairable, Handled
<1>5. QED BY <1>1, <1>2, <1>3, <1>4 DEF Inv

LEMMA GreetInv == ASSUME NEW d \in Dims, Inv, Greet(d) PROVE Inv'
<1> USE DEF Greet
<1>1. TypeOK'
  <2>1. call' \in Calls BY StateAt, CallTyped DEF Inv, TypeOK
  <2>2. QED BY <2>1 DEF Inv, TypeOK
<1>2. LastSeen' BY DEF Inv, LastSeen
<1>3. CallKnown' BY DEF Inv, CallKnown, Ask
<1>4. Repairable' BY DEF Repairable, Handled
<1>5. QED BY <1>1, <1>2, <1>3, <1>4 DEF Inv

\* The machine's emissions.
LEMMA TakeEmissionInv == Inv /\ TakeEmission => Inv'
<1> SUFFICES ASSUME Inv, TakeEmission PROVE Inv' OBVIOUS
<1> USE DEF TakeEmission
<1>1. /\ emissions' \in Seq(State) /\ Len(emissions') = Len(emissions) - 1
      /\ cur' = emissions[1] /\ cur' \in State /\ Len(emissions) \in Nat \ {0}
      /\ \A i \in 1..Len(emissions') : emissions'[i] = emissions[i + 1]
  BY Taken DEF Inv, TypeOK
<1>2. TypeOK' BY <1>1, BridgeAssumption DEF Inv, TypeOK, Dims
<1>3. LastSeen'
  <2>1. emissions[Len(emissions)] = seen BY DEF Inv, LastSeen
  <2>2. emissions' # <<>> => emissions'[Len(emissions')] = seen'
    <3>1. ASSUME emissions' # <<>> PROVE Len(emissions') \in 1..Len(emissions')
      BY <1>1, <3>1
    <3>2. QED BY <1>1, <2>1, <3>1
  <2>3. emissions' = <<>> => cur' = seen'
    BY <1>1, <2>1
  <2>4. QED BY <2>2, <2>3 DEF LastSeen
<1>4. call = NoCall BY CallTyped DEF Inv, CallKnown, TypeOK, Dims
<1>5. CallKnown' BY <1>4 DEF CallKnown
<1>6. Repairable' BY DEF Repairable, Handled, After, Dims
<1>7. QED BY <1>2, <1>3, <1>5, <1>6 DEF Inv

LEMMA SkipPushInv == ASSUME NEW d \in Dims, Inv, SkipPush(d) PROVE Inv'
<1> USE DEF SkipPush
<1>1. TypeOK' BY DEF Inv, TypeOK, After, Dims
<1>2. LastSeen' BY DEF Inv, LastSeen, Dims
<1>3. CallKnown' BY DEF Inv, CallKnown
<1>4. Repairable'
  <2> SUFFICES ASSUME NEW c \in Dims, link' = "up", Handled(c)'
               PROVE  Mending(c)'
    BY DEF Repairable
  <2> USE DEF Mending
  <2>1. CASE c = d
    <3>1. cur = seen BY <2>1 DEF Inv, LastSeen, Handled, Dims
    <3>2. blind'[d] = (blind[d] \/ (cur[d] # Reads(d, remote[d]) /\ ~OnItsWay(d)))
      BY DEF Inv, TypeOK
    <3>3. OnItsWay(d) => OnItsWay(d)' BY DEF OnItsWay
    <3>4. QED BY <2>1, <3>1, <3>2, <3>3
  <2>2. CASE c # d
    <3>1. Handled(c) BY <2>2 DEF Handled, After, Dims
    <3>2. blind'[c] = blind[c] BY <2>2 DEF Inv, TypeOK
    <3>3. QED BY <3>1, <3>2 DEF Inv, Repairable, OnItsWay
  <2>3. QED BY <2>1, <2>2
<1>5. QED BY <1>1, <1>2, <1>3, <1>4 DEF Inv

LEMMA PushInv == ASSUME NEW d \in Dims, Inv, Push(d) PROVE Inv'
<1> USE DEF Push
<1>1. TypeOK'
  <2>1. call' \in Calls BY StateAt, CallTyped DEF Inv, TypeOK
  <2>2. QED BY <2>1 DEF Inv, TypeOK
<1>2. LastSeen' BY DEF Inv, LastSeen
<1>3. CallKnown' BY DEF Inv, CallKnown, Ask
<1>4. Repairable' BY RepairKept DEF Handled
<1>5. QED BY <1>1, <1>2, <1>3, <1>4 DEF Inv

LEMMA PushOkInv == ASSUME NEW d \in Dims, Inv, PushOk(d) PROVE Inv'
<1> USE DEF PushOk
<1>0. call # NoCall /\ call \in Calls BY DEF NoCall, Inv, TypeOK
<1>1. TypeOK'
  <2>0. call.val \in Int BY <1>0, CallTyped, ValuesAreInts
  <2>1. Stamped(call.val) \in Stamp BY <2>0, StampTyped
  <2>2. pushed' \in [Dims -> Stamp] BY <2>1 DEF Inv, TypeOK
  <2>3. QED BY <2>2 DEF Inv, TypeOK, After, AfterGreet, Dims
<1>2. LastSeen' BY DEF Inv, LastSeen, After, AfterGreet, Dims
<1>3. CallKnown' BY DEF Inv, CallKnown, After, AfterGreet, Dims
<1>4. Repairable'
  <2> SUFFICES ASSUME NEW c \in Dims, link' = "up", Handled(c)'
               PROVE  Mending(c)'
    BY DEF Repairable
  <2> USE DEF Mending
  <2>0. phase = "serve" BY DEF Inv, LastSeen, Handled, AfterGreet
  <2>1. CASE c = d
    <3>1. cur = seen BY <2>0, <2>1 DEF Inv, LastSeen, Handled, Dims
    <3>2. blind[d] \/ OnItsWay(d) \/ remote[d] = Told(d, cur[d])
      BY <1>0, <2>0 DEF Inv, CallKnown
    <3>3. Reads(d, Told(d, cur[d])) = cur[d] BY StateAt, Conversions DEF Inv, TypeOK
    <3>4. OnItsWay(d) => OnItsWay(d)' BY DEF OnItsWay
    <3>5. QED BY <2>1, <3>1, <3>2, <3>3, <3>4
  <2>2. CASE c # d
    <3>1. Handled(c) BY <2>0, <2>2 DEF Handled, After, AfterGreet, Dims
    <3>2. QED BY <3>1 DEF Inv, Repairable, OnItsWay
  <2>3. QED BY <2>1, <2>2
<1>5. QED BY <1>1, <1>2, <1>3, <1>4 DEF Inv

LEMMA PushFailedInv == ASSUME NEW d \in Dims, Inv, PushFailed(d) PROVE Inv'
<1> USE DEF PushFailed
<1>1. TypeOK' BY DEF Inv, TypeOK, After, AfterGreet, Dims
<1>2. LastSeen' BY DEF Inv, LastSeen, After, AfterGreet, Dims
<1>3. CallKnown' BY DEF Inv, CallKnown, After, AfterGreet, Dims
<1>4. Repairable'
  <2> SUFFICES ASSUME NEW c \in Dims, link' = "up", Handled(c)'
               PROVE  Mending(c)'
    BY DEF Repairable
  <2> USE DEF Mending
  <2>0. phase = "serve" BY DEF Inv, LastSeen, Handled, AfterGreet
  <2>1. call.st = "err" /\ call # NoCall BY DEF NoCall
  <2>2. blind[d] BY <2>0, <2>1 DEF Inv, CallKnown
  <2>3. CASE c # d
    <3>1. Handled(c) BY <2>0, <2>3 DEF Handled, After, AfterGreet, Dims
    <3>2. QED BY <3>1 DEF Inv, Repairable, OnItsWay
  <2>4. QED BY <2>2, <2>3
<1>5. QED BY <1>1, <1>2, <1>3, <1>4 DEF Inv

\* Home Assistant's events: what the select takes, ...
LEMMA EventTaken ==
  ASSUME Inv, NextEvent
  PROVE  /\ events' \in Seq(Events) /\ Len(events') <= EventCap
         /\ Head(events) \in Events /\ call = NoCall
<1>1. call = NoCall BY CallTyped DEF Inv, CallKnown, TypeOK, NextEvent, Dims
<1>2. /\ events' \in Seq(Events) /\ Len(events') = Len(events) - 1
      /\ Head(events) \in Events /\ Len(events) \in Nat
  BY Taken DEF Inv, TypeOK, NextEvent
<1>3. QED BY <1>1, <1>2, BridgeAssumption DEF Inv, TypeOK

\* ... what it leaves of the loop, ...
LEMMA EventHandled ==
  ASSUME Inv, NextEvent,
         UNCHANGED <<phase, half, cur, call, link, emissions, seen>>
  PROVE  LastSeen' /\ CallKnown'
BY EventTaken DEF Inv, LastSeen, CallKnown

\* ... and of the repair of a field: it may be the news that was on its way.
LEMMA EventRepairs ==
  ASSUME Inv, NextEvent,
         UNCHANGED <<remote, phase, half, cur, call, link, emissions, seen>>,
         \A d \in Dims : blind[d] => blind'[d],
         NEW c \in Dims, link' = "up", Handled(c)'
  PROVE  \/ blind'[c] \/ OnItsWay(c)' \/ Reads(c, remote'[c]) = seen'[c]
         \/ /\ \/ local[c] # seen[c] /\ Head(events).dim # c
               \/ Head(events) = Event(c, remote[c], "user")
            /\ \A i \in 1..Len(events') : events'[i].dim # c
<1>1. events \in Seq(Events) /\ events # <<>> /\ events' = Tail(events)
  BY DEF Inv, TypeOK, NextEvent
<1>2. link = "up" /\ Handled(c) BY DEF Handled
<1>3. CASE OnItsWay(c) BY <1>1, <1>3, WayTaken
<1>4. CASE local[c] # seen[c] /\ \A i \in 1..Len(events) : events[i].dim # c
  BY <1>1, <1>4, NoneTaken
<1>5. QED BY <1>2, <1>3, <1>4 DEF Inv, Repairable, Mending

LEMMA IgnoreOtherInv == Inv /\ IgnoreOther => Inv'
<1> SUFFICES ASSUME Inv, IgnoreOther PROVE Inv' OBVIOUS
<1> USE DEF IgnoreOther
<1>1. TypeOK' BY EventTaken DEF Inv, TypeOK
<1>2. LastSeen' /\ CallKnown' BY EventHandled
<1>3. Repairable'
  <2> SUFFICES ASSUME NEW c \in Dims, link' = "up", Handled(c)'
               PROVE  Mending(c)'
    BY DEF Repairable
  <2> USE DEF Mending
  <2>1. remote[c] \in Shown(c) BY HelperAt DEF Inv, TypeOK
  <2>2. Head(events) # Event(c, remote[c], "user") BY <2>1, EventTyped DEF Dims
  <2>3. QED BY <2>2, EventRepairs
<1>4. QED BY <1>1, <1>2, <1>3 DEF Inv

LEMMA IgnoreEchoInv == ASSUME NEW d \in Dims, Inv, IgnoreEcho(d) PROVE Inv'
<1> USE DEF IgnoreEcho
<1>0. /\ blind' \in [Dims -> BOOLEAN]
      /\ \A c \in Dims : blind[c] => blind'[c]
      /\ Head(events).src = "user" /\ Reads(d, Head(events).val) # local[d] => blind'[d]
      /\ Head(events).dim = d /\ NextEvent
  BY DEF Inv, TypeOK
<1>1. TypeOK' BY <1>0, EventTaken DEF Inv, TypeOK
<1>2. LastSeen' /\ CallKnown' BY <1>0, EventHandled
<1>3. Repairable'
  <2> SUFFICES ASSUME NEW c \in Dims, link' = "up", Handled(c)'
               PROVE  Mending(c)'
    BY DEF Repairable
  <2> USE DEF Mending
  <2>1. remote[c] \in Shown(c) BY HelperAt DEF Inv, TypeOK
  <2>2. CASE Head(events) = Event(c, remote[c], "user")
    <3>1. Head(events).dim = c /\ Head(events).src = "user" /\ Head(events).val = remote[c]
      BY <2>1, <2>2, EventTyped
    <3>2. c = d /\ (blind'[c] \/ Reads(c, remote[c]) = local[c]) BY <1>0, <3>1
    <3>3. QED BY <1>0, <2>2, <3>2, EventRepairs
  <2>3. CASE Head(events) # Event(c, remote[c], "user")
    BY <1>0, <2>3, EventRepairs
  <2>4. QED BY <2>2, <2>3
<1>4. QED BY <1>1, <1>2, <1>3 DEF Inv

LEMMA ApplyInv == ASSUME NEW d \in Dims, Inv, Apply(d) PROVE Inv'
<1> USE DEF Apply
<1>0. /\ Head(events).dim = d /\ NextEvent
      /\ local' = [local EXCEPT ![d] = Reads(d, Head(events).val)]
      /\ received' = [received EXCEPT ![d] = Stamped(Heard(d, Head(events).val))]
  OBVIOUS
<1> HIDE DEF Apply
<1>v. Heard(d, Head(events).val) \in Int /\ Reads(d, Head(events).val) \in Values(d)
  BY <1>0, EventTaken, EventTyped, Conversions
<1>1. TypeOK'
  <2>0. local \in State BY DEF Inv, TypeOK
  <2>1. local' \in State BY <1>0, <1>v, <2>0 DEF State, Dims, Values
  <2>2. received' \in [Dims -> Stamp] BY <1>0, <1>v, StampTyped DEF Inv, TypeOK
  <2>3. QED BY <1>0, <2>1, <2>2, EventTaken DEF Apply, Inv, TypeOK
<1>2. LastSeen' /\ CallKnown' BY EventHandled DEF Apply
<1>3. Repairable'
  <2> SUFFICES ASSUME NEW c \in Dims, link' = "up", Handled(c)'
               PROVE  Mending(c)'
    BY DEF Repairable
  <2> USE DEF Mending
  <2>1. remote[c] \in Shown(c) BY HelperAt DEF Inv, TypeOK
  <2>2. local'[d] = Reads(d, Head(events).val) /\ \A b \in Dims \ {d} : local'[b] = local[b]
    BY <1>0, <1>v DEF Inv, TypeOK, State, Dims, Values
  <2>3. CASE Head(events) = Event(c, remote[c], "user")
    <3>1. Head(events).dim = c /\ Head(events).val = remote[c]
      BY <2>1, <2>3, EventTyped
    <3>2. local'[c] = Reads(c, remote[c]) BY <1>0, <2>2, <3>1
    <3>3. QED BY <1>0, <2>3, <3>2, EventRepairs DEF Apply
  <2>4. CASE Head(events) # Event(c, remote[c], "user")
    <3>1. Head(events).dim # c => local'[c] = local[c] BY <1>0, <2>2
    <3>2. QED BY <1>0, <2>4, <3>1, EventRepairs DEF Apply
  <2>5. QED BY <2>3, <2>4
<1>4. QED BY <1>1, <1>2, <1>3 DEF Inv

LEMMA ApplyFailsInv == ASSUME NEW d \in Dims, Inv, ApplyFails(d) PROVE Inv'
<1> USE DEF ApplyFails
<1>0. /\ blind' \in [Dims -> BOOLEAN]
      /\ \A c \in Dims : blind[c] => blind'[c]
      /\ Reads(d, Head(events).val) # local[d] => blind'[d]
      /\ Head(events).dim = d /\ NextEvent
      /\ received' = [received EXCEPT ![d] = Stamped(Heard(d, Head(events).val))]
  BY DEF Inv, TypeOK
<1>v. Heard(d, Head(events).val) \in Int /\ Reads(d, Head(events).val) \in Values(d)
  BY <1>0, EventTaken, EventTyped, Conversions
<1>1. TypeOK'
  <2>1. received' \in [Dims -> Stamp] BY <1>0, <1>v, StampTyped DEF Inv, TypeOK
  <2>2. QED BY <1>0, <2>1, EventTaken DEF Inv, TypeOK
<1>2. LastSeen' /\ CallKnown' BY <1>0, EventHandled
<1>3. Repairable'
  <2> SUFFICES ASSUME NEW c \in Dims, link' = "up", Handled(c)'
               PROVE  Mending(c)'
    BY DEF Repairable
  <2> USE DEF Mending
  <2>1. remote[c] \in Shown(c) BY HelperAt DEF Inv, TypeOK
  <2>2. CASE Head(events) = Event(c, remote[c], "user")
    <3>1. Head(events).dim = c /\ Head(events).val = remote[c]
      BY <2>1, <2>2, EventTyped
    <3>2. c = d /\ (blind'[c] \/ Reads(c, remote[c]) = local[c]) BY <1>0, <3>1
    <3>3. QED BY <1>0, <2>2, <3>2, EventRepairs
  <2>3. CASE Head(events) # Event(c, remote[c], "user")
    BY <1>0, <2>3, EventRepairs
  <2>4. QED BY <2>2, <2>3
<1>4. QED BY <1>1, <1>2, <1>3 DEF Inv

\* The poller.
LEMMA PollInv == Inv /\ Poll => Inv'
<1> SUFFICES ASSUME Inv, Poll PROVE Inv' OBVIOUS
<1> USE DEF Poll
<1>1. /\ emissions' \in Seq(State) /\ Len(emissions') = Len(emissions) + 1
      /\ emissions' # <<>> /\ emissions'[Len(emissions) + 1] = local
      /\ Len(emissions) \in Nat
  BY Sent DEF Inv, TypeOK
<1>2. TypeOK' BY <1>1, BridgeAssumption DEF Inv, TypeOK
<1>3. LastSeen' BY <1>1 DEF LastSeen
<1>4. CallKnown' BY DEF Inv, CallKnown, OnItsWay
<1>5. Repairable' BY <1>1 DEF Repairable, Handled
<1>6. QED BY <1>2, <1>3, <1>4, <1>5 DEF Inv

\* News of another field does not touch the repair of this one.
LEMMA MendingKept ==
  ASSUME events \in Seq(Events), NEW e \in Events, NEW c \in Dims, e.dim # c,
         events' = events \/ events' = Append(events, e),
         remote'[c] = remote[c], local'[c] = local[c], seen' = seen,
         blind[c] => blind'[c], Mending(c)
  PROVE  Mending(c)'
<1> USE DEF Mending
<1>1. CASE OnItsWay(c)
  <2>1. events' = events => OnItsWay(c)' BY <1>1 DEF OnItsWay
  <2>2. QED BY <1>1, <2>1, WayKept
<1>2. CASE local[c] # seen[c] /\ \A i \in 1..Len(events) : events[i].dim # c
  <2>1. ASSUME events' = Append(events, e)
        PROVE  \A i \in 1..Len(events') : events'[i].dim # c
    <3>1. /\ Len(events') = Len(events) + 1 /\ events'[Len(events) + 1] = e
          /\ \A i \in 1..Len(events) : events'[i] = events[i]
          /\ Len(events) \in Nat
      BY <2>1, Sent
    <3>2. \A i \in 1..Len(events') : i \in 1..Len(events) \/ i = Len(events) + 1
      BY <3>1
    <3>3. QED BY <1>2, <3>1, <3>2
  <2>2. QED BY <1>2, <2>1
<1>3. QED BY <1>1, <1>2

\* Home Assistant's steps that are not of a field.
LEMMA OtherEntityInv == Inv /\ OtherEntity => Inv'
<1> SUFFICES ASSUME Inv, OtherEntity PROVE Inv' OBVIOUS
<1> DEFINE e == Event("other", 0, "user")
<1>0. e \in Events /\ e.dim = "other" BY EventTyped, BridgeAssumption DEF Shown
<1>1. Deliver(e) BY DEF OtherEntity
<1> HIDE DEF e
<1>2. /\ events' \in Seq(Events) /\ Len(events') <= EventCap
      /\ blind' \in [Dims -> BOOLEAN] /\ \A c \in Dims : blind[c] => blind'[c]
      /\ events' = events \/ events' = Append(events, e)
  BY <1>0, <1>1, Delivered DEF Inv
<1>3. events \in Seq(Events) /\ \A c \in Dims : e.dim # c BY <1>0 DEF Inv, TypeOK, Dims
<1>4. TypeOK' BY <1>2 DEF OtherEntity, Inv, TypeOK
<1>5. LastSeen' BY DEF OtherEntity, Inv, LastSeen
<1>6. CallKnown'
  <2>1. \A c \in Dims : OnItsWay(c) => OnItsWay(c)'
    <3> SUFFICES ASSUME NEW c \in Dims, OnItsWay(c) PROVE OnItsWay(c)' OBVIOUS
    <3>1. remote'[c] = remote[c] BY DEF OtherEntity
    <3>2. events' = events => OnItsWay(c)' BY DEF OnItsWay, OtherEntity
    <3>3. QED BY <1>0, <1>2, <1>3, <3>1, <3>2, WayKept
  <2>2. QED BY <1>2, <2>1, CallKept DEF OtherEntity
<1>7. Repairable'
  BY <1>0, <1>2, <1>3, MendingKept DEF OtherEntity, Inv, Repairable, Handled
<1>8. QED BY <1>4, <1>5, <1>6, <1>7 DEF Inv

LEMMA RefuseInv == Inv /\ Refuse => Inv'
<1> SUFFICES ASSUME Inv, Refuse PROVE Inv' OBVIOUS
<1>0. call \in Calls /\ call.dim = half /\ call.dim \in Dims /\ call' \in Calls
  BY CallTyped DEF Refuse, Inv, TypeOK, CallKnown
<1>1. /\ call'.dim = call.dim /\ call'.val = call.val /\ call'.st = "err"
  BY <1>0 DEF Refuse, Calls
<1>2. /\ blind' \in [Dims -> BOOLEAN] /\ \A c \in Dims : blind[c] => blind'[c]
      /\ phase = "serve" => blind'[call.dim]
  BY <1>0 DEF Refuse, Inv, TypeOK
<1>3. TypeOK' BY <1>0, <1>2 DEF Refuse, Inv, TypeOK
<1>4. LastSeen' BY DEF Refuse, Inv, LastSeen
<1>5. CallKnown'
  <2>1. call # NoCall BY <1>0, CallTyped
  <2>2. QED BY <1>0, <1>1, <1>2, <2>1 DEF Refuse, Inv, CallKnown
<1>6. Repairable' BY <1>2, RepairKept DEF Refuse, Handled
<1>7. QED BY <1>3, <1>4, <1>5, <1>6 DEF Inv

LEMMA ServeInv == Inv /\ Serve => Inv'
<1> SUFFICES ASSUME Inv, Serve PROVE Inv' OBVIOUS
<1> DEFINE d == call.dim
           x == Told(d, call.val)
           e == Event(d, x, "bridge")
<1>0. call \in Calls /\ d = half /\ d \in Dims /\ call.val \in Values(d) /\ call' \in Calls
  BY CallTyped DEF Serve, Inv, TypeOK, CallKnown
<1>1. /\ call'.dim = d /\ call'.val = call.val /\ call'.st = "ok"
  BY <1>0 DEF Serve, Calls
<1>x. x \in Shown(d) BY <1>0, Conversions
<1>2. e \in Events /\ e.dim = d /\ e.src = "bridge" BY <1>0, <1>x, EventTyped
<1>3. /\ remote' \in HelperState /\ remote'[d] = x
      /\ \A c \in Dims \ {d} : remote'[c] = remote[c]
  <2>1. remote \in HelperState BY DEF Inv, TypeOK
  <2>2. remote' = [remote EXCEPT ![d] = x] BY DEF Serve
  <2> HIDE DEF x
  <2>3. QED BY <1>0, <1>x, <2>1, <2>2 DEF HelperState, Dims, Shown
<1>4. UNCHANGED <<events, blind>> \/ Deliver(e) BY DEF Serve
<1>c. call # NoCall BY <1>0, CallTyped
<1> HIDE DEF d, e, x
<1>5. /\ events' \in Seq(Events) /\ Len(events') <= EventCap
      /\ blind' \in [Dims -> BOOLEAN] /\ \A c \in Dims : blind[c] => blind'[c]
      /\ events' = events \/ events' = Append(events, e)
  <2>1. CASE Deliver(e) BY <1>2, <2>1, Delivered DEF Inv
  <2>2. CASE UNCHANGED <<events, blind>> BY <2>2 DEF Inv, TypeOK
  <2>3. QED BY <1>4, <2>1, <2>2
<1>6. TypeOK' BY <1>0, <1>3, <1>5 DEF Serve, Inv, TypeOK
<1>7. LastSeen' BY DEF Serve, Inv, LastSeen
<1>8. CallKnown'
  BY <1>0, <1>1, <1>3, <1>c DEF Serve, Inv, CallKnown, d, x
<1>9. Repairable'
  <2> SUFFICES ASSUME NEW c \in Dims, link' = "up", Handled(c)'
               PROVE  Mending(c)'
    BY DEF Repairable
  <2>1. link = "up" /\ Handled(c) BY DEF Serve, Handled
  <2>2. c # d BY <1>0, <2>1 DEF Handled, After, Dims
  <2>3. events \in Seq(Events) /\ Mending(c) BY <2>1 DEF Inv, TypeOK, Repairable
  <2>4. local' = local /\ seen' = seen BY DEF Serve
  <2>5. QED BY <1>2, <1>3, <1>5, <2>2, <2>3, <2>4, MendingKept
<1>10. QED BY <1>6, <1>7, <1>8, <1>9 DEF Inv

\* Users on both sides.
LEMMA MoveLocalInv == ASSUME NEW d \in Dims, NEW v \in Values(d), Inv, MoveLocal(d, v)
                      PROVE  Inv'
<1>0. /\ local' \in State /\ local'[d] = v
      /\ \A c \in Dims \ {d} : local'[c] = local[c]
  <2>1. local \in State BY DEF Inv, TypeOK
  <2>2. local' = [local EXCEPT ![d] = v] BY DEF MoveLocal
  <2>3. QED BY <2>1, <2>2 DEF State, Dims, Values
<1>1. /\ blind' \in [Dims -> BOOLEAN] /\ \A c \in Dims : blind[c] => blind'[c]
      /\ seen # <<>> /\ seen[d] = v /\ v # Reads(d, remote[d]) => blind'[d]
  BY DEF MoveLocal, Inv, TypeOK
<1>2. TypeOK' BY <1>0, <1>1 DEF MoveLocal, Inv, TypeOK
<1>3. LastSeen' BY DEF MoveLocal, Inv, LastSeen
<1>4. CallKnown' BY <1>1, CallKept DEF MoveLocal, OnItsWay
<1>5. Repairable'
  <2> SUFFICES ASSUME NEW c \in Dims, link' = "up", Handled(c)'
               PROVE  Mending(c)'
    BY DEF Repairable
  <2>1. link = "up" /\ Handled(c) BY DEF MoveLocal, Handled
  <2>2. Mending(c) /\ seen # <<>> BY <2>1 DEF Inv, Repairable, Handled
  <2>3. UNCHANGED <<remote, seen, events>> BY DEF MoveLocal
  <2>4. OnItsWay(c) => OnItsWay(c)' BY <2>3 DEF OnItsWay
  <2>5. QED BY <1>0, <1>1, <2>2, <2>3, <2>4 DEF Mending
<1>6. QED BY <1>2, <1>3, <1>4, <1>5 DEF Inv

LEMMA MoveRemoteInv == ASSUME NEW d \in Dims, NEW x \in Shown(d), Inv, MoveRemote(d, x)
                       PROVE  Inv'
<1> DEFINE e == Event(d, x, "user")
<1>0. /\ remote' \in HelperState /\ remote'[d] = x
      /\ \A c \in Dims \ {d} : remote'[c] = remote[c]
  <2>1. remote \in HelperState BY DEF Inv, TypeOK
  <2>2. remote' = [remote EXCEPT ![d] = x] BY DEF MoveRemote
  <2>3. QED BY <2>1, <2>2 DEF HelperState, Dims, Shown
<1>1. e \in Events /\ e.dim = d /\ e.src = "user" BY EventTyped
<1>2. /\ events' \in Seq(Events) /\ Len(events') <= EventCap
      /\ blind' \in [Dims -> BOOLEAN] /\ \A c \in Dims : blind[c] => blind'[c]
      /\ events' = events \/ events' = Append(events, e)
      /\ phase # "down" /\ link = "up" => blind'[d] \/ events' = Append(events, e)
  BY <1>1, Delivered DEF MoveRemote, Inv
<1>3. events \in Seq(Events) BY DEF Inv, TypeOK
<1>4. phase # "down" /\ link = "up" => blind'[d] \/ OnItsWay(d)'
  BY <1>0, <1>2, <1>3, WayOpened
<1> HIDE DEF e
<1>5. TypeOK' BY <1>0, <1>2 DEF MoveRemote, Inv, TypeOK
<1>6. LastSeen' BY DEF MoveRemote, Inv, LastSeen
<1>7. CallKnown'
  <2>1. \A c \in Dims \ {d} : OnItsWay(c) => OnItsWay(c)'
    <3> SUFFICES ASSUME NEW c \in Dims \ {d}, OnItsWay(c) PROVE OnItsWay(c)' OBVIOUS
    <3>1. remote'[c] = remote[c] BY <1>0
    <3>2. events' = events => OnItsWay(c)' BY <3>1 DEF OnItsWay
    <3>3. QED BY <1>1, <1>2, <1>3, <3>1, <3>2, WayKept
  <2>2. QED BY <1>0, <1>2, <1>4, <2>1, CallKept DEF MoveRemote
<1>8. Repairable'
  <2> SUFFICES ASSUME NEW c \in Dims, link' = "up", Handled(c)'
               PROVE  Mending(c)'
    BY DEF Repairable
  <2>1. link = "up" /\ Handled(c) /\ phase # "down" BY DEF MoveRemote, Handled
  <2>2. CASE c = d BY <1>4, <2>1, <2>2 DEF Mending
  <2>3. CASE c # d
    <3>1. Mending(c) /\ local' = local /\ seen' = seen
      BY <2>1 DEF MoveRemote, Inv, Repairable
    <3>2. QED BY <1>0, <1>1, <1>2, <1>3, <2>3, <3>1, MendingKept
  <2>4. QED BY <2>2, <2>3
<1>9. QED BY <1>5, <1>6, <1>7, <1>8 DEF Inv

\* Time.
LEMMA TickInv == Inv /\ Tick => Inv'
<1> SUFFICES ASSUME Inv, Tick PROVE Inv' OBVIOUS
<1> USE DEF Tick
<1>1. TypeOK' BY StampTyped DEF Inv, TypeOK
<1>2. LastSeen' BY DEF Inv, LastSeen
<1>3. CallKnown' BY CallKept DEF OnItsWay
<1>4. Repairable' BY RepairKept DEF Handled
<1>5. QED BY <1>1, <1>2, <1>3, <1>4 DEF Inv

\* Every step preserves the invariant.
LEMMA InvStep == Inv /\ [Next]_vars => Inv'
<1> SUFFICES ASSUME Inv, [Next]_vars PROVE Inv' OBVIOUS
<1>1. CASE Connect BY <1>1, ConnectInv
<1>2. CASE Handle
  BY <1>2, LeaveInv, TakeEmissionInv, IgnoreOtherInv, GreetInv, SkipPushInv, PushInv,
     PushOkInv, PushFailedInv, IgnoreEchoInv, ApplyInv DEF Handle
<1>3. CASE Poll BY <1>3, PollInv
<1>4. CASE Serve BY <1>4, ServeInv
<1>5. CASE Users BY <1>5, MoveLocalInv, MoveRemoteInv DEF Users
<1>6. CASE Faults
  BY <1>6, BreakInv, RefuseInv, OtherEntityInv, GreetUnreadInv, ApplyFailsInv DEF Faults
<1>7. CASE Tick BY <1>7, TickInv
<1>8. CASE UNCHANGED vars
  BY <1>8 DEF vars, Inv, TypeOK, LastSeen, CallKnown, Repairable, Mending, Handled, OnItsWay
<1>9. QED BY <1>1, <1>2, <1>3, <1>4, <1>5, <1>6, <1>7, <1>8 DEF Next, System

-----------------------------------------------------------------------------
(* The theorems.                                                           *)

\* Spec keeps the invariant: whatever users, faults and time do, a field that the
\* session has handled is right, or will be, or is one of the named exceptions.
THEOREM Invariance == Spec => []Inv
<1>1. QED BY InitInv, InvStep, PTL DEF Spec

\* Every variable has its type; no channel holds more than it can.
THEOREM TypeCorrect == Spec => []TypeOK
BY Invariance, PTL DEF Inv

\* The reasons of blind are all the ways in which bridge.go loses a change.
THEOREM LostOnlyIfBlind == Spec => []AgreeUnlessBlind
<1>1. Inv => AgreeUnlessBlind
  <2> SUFFICES ASSUME Inv, Quiet, NEW d \in Dims
               PROVE  blind[d] \/ local[d] = Reads(d, remote[d])
    BY DEF AgreeUnlessBlind
  <2>1. events \in Seq(Events) /\ \A c \in Dims : remote[c] \in Shown(c)
    BY HelperAt DEF Inv, TypeOK
  <2>2. \A i \in 1..Len(events) : events[i].dim # d BY DEF Quiet, Dims
  <2>3. ~OnItsWay(d) BY <2>1, <2>2, EventTyped DEF OnItsWay
  <2>4. CASE seen # <<>>
    <3>1. Mending(d) BY <2>4 DEF Quiet, Inv, Repairable, Handled
    <3>2. QED BY <2>3, <3>1 DEF Mending, Quiet
  <2>5. CASE seen = <<>>
    <3>1. local # <<>> BY StateThere DEF Inv, TypeOK
    <3>2. QED BY <2>5, <3>1 DEF Quiet
  <2>6. QED BY <2>4, <2>5
<1>2. QED BY <1>1, Invariance, PTL
=============================================================================
