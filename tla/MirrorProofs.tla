----------------------------- MODULE MirrorProofs -----------------------------
(***************************************************************************)
(* Proofs about MCBridge's SpacedSpec: with users who wait for the bridge  *)
(* to be calm, every step of Bridge is a step of Mirror, or none.          *)
(***************************************************************************)
EXTENDS BridgeProofs

\* A state is its fields.
LEMMA StateIsFields ==
  /\ \A s, t \in State : (\A d \in Dims : s[d] = t[d]) => s = t
  /\ \A s \in State : \A d \in Dims : [s EXCEPT ![d] = s[d]] = s
BY DEF State, Dims

LEMMA StateFunction ==
  /\ \A s \in State : s \in [Dims -> UNION {Values(d) : d \in Dims}]
  /\ \A s \in HelperState : s \in [Dims -> UNION {Shown(d) : d \in Dims}]
BY DEF State, HelperState, Dims, Values, Shown

\* Once a call is over, there is none but that of the running handler.
LEMMA CallOwned == ASSUME Inv
                   PROVE  /\ half = "none" \/ phase = "down" => call = NoCall
                          /\ call # NoCall => call \in Calls /\ call.dim = half
                          /\ call.st # "none" => call # NoCall
BY CallTyped DEF Inv, TypeOK, CallKnown, Dims

-----------------------------------------------------------------------------
(* The rounds.                                                             *)

\* There is no round before the first connection.
LEMMA RoundInit == Init => SpacedInv
BY InitInv DEF Init, SpacedInv, Links, NoCall

\* A connection begins a round of the machine.
LEMMA ConnectRound == ASSUME SpacedInv, Connect
                      PROVE  Links' /\ LocalRound' /\ truth' = "local"
<1>1. call = NoCall BY CallOwned DEF SpacedInv, Connect
<1>2. Links' BY <1>1 DEF SpacedInv, Connect, Links, NoCall
<1>3. LocalRound' BY <1>1, BridgeAssumption
  DEF Connect, LocalRound, OnlyLocal, NeverReceived, Handled, NoCall
<1>4. QED BY <1>2, <1>3 DEF Connect

\* The steps of the loop in a round of the machine.
LEMMA LoopLocalRound ==
  ASSUME SpacedInv, LocalRound, truth # "none", NEW d \in Dims,
         TakeEmission \/ Greet(d) \/ SkipPush(d) \/ Push(d) \/ PushOk(d) \/ PushFailed(d)
  PROVE  Links' /\ LocalRound' /\ UNCHANGED <<local, remote, truth>>
<1>0. Inv /\ link = "up" /\ phase # "down" /\ call.st # "err"
  BY DEF SpacedInv, Links
<1>1. CASE TakeEmission
  <2>1. /\ Len(emissions) \in Nat \ {0} /\ Head(emissions) = emissions[1]
        /\ Len(emissions') = Len(emissions) - 1
        /\ \A i \in 1..Len(emissions') : emissions'[i] = emissions[i + 1]
    BY <1>1, <1>0, Taken DEF TakeEmission, Inv, TypeOK
  <2>2. cur' = local /\ \A i \in 1..Len(emissions') : emissions'[i] = local
    BY <1>0, <1>1, <2>1 DEF TakeEmission, LocalRound, OnlyLocal
  <2>3. \A c \in Dims : ~Handled(c)' BY <1>1 DEF TakeEmission, Handled, After, Dims
  <2>4. QED BY <1>0, <1>1, <2>2, <2>3
    DEF TakeEmission, LocalRound, OnlyLocal, Links, SpacedInv
<1>2. CASE Greet(d)
  <2>1. \A c \in Dims : ~Handled(c)' BY <1>2 DEF Greet, Handled
  <2>2. QED BY <1>0, <1>2, <2>1 DEF Greet, LocalRound, OnlyLocal, Links, SpacedInv, Ask
<1>3. CASE SkipPush(d)
  <2>1. local[d] = Reads(d, remote[d]) BY <1>0, <1>3 DEF SkipPush, Fresh, LocalRound
  <2>2. \A c \in Dims : Handled(c)' => c = d \/ Handled(c)
    BY <1>3 DEF SkipPush, Handled, After, Dims
  <2>3. QED BY <1>0, <1>3, <2>1, <2>2
    DEF SkipPush, LocalRound, OnlyLocal, Links, SpacedInv, After, Dims
<1>4. CASE Push(d)
  <2>1. cur = local BY <1>0, <1>4 DEF Push, LocalRound, OnlyLocal, Dims
  <2>2. \A c \in Dims : Handled(c)' => Handled(c) BY <1>4 DEF Push, Handled
  <2>3. QED BY <1>0, <1>4, <2>1, <2>2
    DEF Push, LocalRound, OnlyLocal, Links, SpacedInv, Ask
<1>5. CASE PushOk(d)
  <2>1. local[d] = Reads(d, remote[d])
    <3>1. remote[d] = Told(d, local[d]) BY <1>0, <1>5, CallOwned DEF PushOk, LocalRound
    <3>2. QED BY <1>0, <3>1, StateAt, Conversions DEF Inv, TypeOK
  <2>2. \A c \in Dims : Handled(c)' => phase = "serve" /\ (c = d \/ Handled(c))
    BY <1>0, <1>5 DEF PushOk, Handled, After, AfterGreet, Dims, Inv, LastSeen
  <2>3. phase' = "serve" /\ half' # "none" => cur = local
    BY <1>0, <1>5 DEF PushOk, LocalRound, OnlyLocal, After, AfterGreet, Dims
  <2>4. QED BY <1>0, <1>5, <2>1, <2>2, <2>3
    DEF PushOk, LocalRound, OnlyLocal, Links, SpacedInv, AfterGreet, NoCall
<1>6. CASE PushFailed(d) BY <1>0, <1>6 DEF PushFailed
<1>7. QED BY <1>1, <1>2, <1>3, <1>4, <1>5, <1>6

\* The select's events in a round of the machine: each has the machine's value.
LEMMA EventLocalRound ==
  ASSUME SpacedInv, LocalRound, truth # "none", NEW d \in Dims,
         IgnoreOther \/ IgnoreEcho(d) \/ Apply(d)
  PROVE  Links' /\ LocalRound' /\ UNCHANGED <<local, remote, truth>>
<1>0. Inv /\ link = "up" /\ call.st # "err" BY DEF SpacedInv, Links
<1>1. NextEvent /\ UNCHANGED <<remote, phase, half, cur, call, link, emissions, seen, truth>>
  BY DEF IgnoreOther, IgnoreEcho, Apply
<1>2. /\ Len(events) \in Nat \ {0} /\ Head(events) = events[1]
      /\ Len(events') = Len(events) - 1
      /\ \A i \in 1..Len(events') : events'[i] = events[i + 1]
  BY <1>0, <1>1, Taken DEF NextEvent, Inv, TypeOK
<1>3. \A i \in 1..Len(events') : i + 1 \in 1..Len(events) BY <1>2
<1>4. Head(events).dim = d => /\ Reads(d, Head(events).val) = local[d]
                              /\ Reads(d, remote[d]) = local[d]
  BY <1>0, <1>2, StateAt, Conversions DEF LocalRound, OnlyLocal, Inv, TypeOK
<1>5. local' = local
  BY <1>0, <1>4, StateIsFields DEF IgnoreOther, IgnoreEcho, Apply, Inv, TypeOK
<1>6. \A c \in Dims : received'[c].age < Window => local[c] = Reads(c, remote[c])
  <2>1. CASE IgnoreOther \/ IgnoreEcho(d)
    BY <1>0, <2>1 DEF LocalRound, OnlyLocal, IgnoreOther, IgnoreEcho
  <2>2. CASE Apply(d)
    BY <1>0, <1>4, <2>2 DEF LocalRound, OnlyLocal, Apply, Inv, TypeOK
  <2>3. QED BY <2>1, <2>2
<1>7. \A c \in Dims : Handled(c)' => Handled(c) BY <1>1 DEF Handled
<1>8. \A i \in 1..Len(events') : LET e == events'[i] IN
        e.dim \in Dims /\ e.val = Told(e.dim, local[e.dim]) /\ remote[e.dim] = e.val
  BY <1>0, <1>2, <1>3 DEF LocalRound, OnlyLocal
<1>9. LocalRound' BY <1>0, <1>1, <1>5, <1>6, <1>7, <1>8 DEF LocalRound, OnlyLocal
<1>10. QED BY <1>1, <1>5, <1>9 DEF SpacedInv, Links

\* The poller, Home Assistant and time in a round of the machine.
LEMMA PollLocalRound == ASSUME SpacedInv, LocalRound, truth # "none", Poll
                        PROVE  Links' /\ LocalRound' /\ UNCHANGED <<local, remote, truth>>
<1>0. Inv BY DEF SpacedInv
<1>1. /\ Len(emissions') = Len(emissions) + 1 /\ emissions' # <<>>
      /\ emissions'[Len(emissions) + 1] = local /\ Len(emissions) \in Nat
      /\ \A i \in 1..Len(emissions) : emissions'[i] = emissions[i]
  BY <1>0, Sent DEF Poll, Inv, TypeOK
<1>2. \A i \in 1..Len(emissions') : i \in 1..Len(emissions) \/ i = Len(emissions) + 1
  BY <1>1
<1>3. \A i \in 1..Len(emissions') : emissions'[i] = local
  BY <1>0, <1>1, <1>2 DEF LocalRound, OnlyLocal
<1>4. \A c \in Dims : ~Handled(c)' BY <1>1 DEF Handled
<1>5. QED BY <1>0, <1>3, <1>4 DEF Poll, LocalRound, OnlyLocal, SpacedInv, Links

LEMMA ServeLocalRound ==
  ASSUME SpacedInv, LocalRound, truth # "none", Serve
  PROVE  /\ Links' /\ LocalRound' /\ UNCHANGED <<local, truth>>
         /\ call.dim \in Dims
         /\ remote' = [remote EXCEPT ![call.dim] = Told(call.dim, local[call.dim])]
<1> DEFINE d == call.dim
           x == Told(d, local[d])
           e == Event(d, x, "bridge")
<1>0. Inv BY DEF SpacedInv
<1>1. /\ call \in Calls /\ call # NoCall /\ d \in Dims /\ call.val \in Values(d)
      /\ call.val = local[d] /\ x \in Shown(d)
  BY <1>0, CallOwned, CallTyped, Conversions DEF Serve, LocalRound, OnlyLocal
<1>2. /\ call'.dim = d /\ call'.val = call.val /\ call'.st = "ok"
  BY <1>1 DEF Serve, Calls
<1>3. e \in Events /\ e.dim = d /\ e.val = x BY <1>1, EventTyped
<1>4. /\ remote' = [remote EXCEPT ![d] = x]
      /\ UNCHANGED <<local, phase, half, cur, link, emissions, seen, received, truth>>
  BY <1>1 DEF Serve
<1>5. remote'[d] = x /\ \A c \in Dims \ {d} : remote'[c] = remote[c]
  BY <1>0, <1>1, <1>4 DEF Inv, TypeOK, HelperState, Dims
<1>6. Reads(d, x) = local[d] BY <1>1, Conversions
<1>7. events' = events \/ events' = Append(events, e) BY <1>1 DEF Serve, Deliver
<1>8. events \in Seq(Events) BY <1>0 DEF Inv, TypeOK
<1> HIDE DEF d, e, x
<1>9. \A i \in 1..Len(events') : LET f == events'[i] IN
        f.dim \in Dims /\ f.val = Told(f.dim, local[f.dim]) /\ remote'[f.dim] = f.val
  <2>1. \A i \in 1..Len(events) : LET f == events[i] IN
          f.dim \in Dims /\ f.val = Told(f.dim, local[f.dim]) /\ remote'[f.dim] = f.val
    BY <1>5 DEF LocalRound, OnlyLocal, x
  <2>2. ASSUME events' = Append(events, e), NEW i \in 1..Len(events')
        PROVE  events'[i] = e \/ \E j \in 1..Len(events) : events'[i] = events[j]
    <3>1. /\ Len(events') = Len(events) + 1 /\ events'[Len(events) + 1] = e
          /\ Len(events) \in Nat
          /\ \A j \in 1..Len(events) : events'[j] = events[j]
      BY <1>3, <1>8, <2>2, Sent
    <3>2. i \in 1..Len(events) \/ i = Len(events) + 1 BY <3>1
    <3>3. QED BY <3>1, <3>2
  <2>3. QED BY <1>1, <1>3, <1>5, <1>7, <2>1, <2>2 DEF x
<1>10. \A c \in Dims : Handled(c)' => Handled(c) BY <1>4 DEF Handled
<1>11. LocalRound'
  <2>1. \A c \in Dims : received'[c].age < Window \/ (Handled(c)' /\ seen' = local')
                         => local'[c] = Reads(c, remote'[c])
    BY <1>4, <1>5, <1>6, <1>10 DEF LocalRound, OnlyLocal
  <2>2. QED BY <1>1, <1>2, <1>4, <1>5, <1>9, <2>1 DEF LocalRound, OnlyLocal, x
<1>12. QED BY <1>1, <1>2, <1>4, <1>11 DEF SpacedInv, Links, d, x

\* A stamp that time has made fresh was fresh.
LEMMA TickAges == ASSUME Inv, Tick, NEW c \in Dims
                  PROVE  /\ received'[c].age < Window => received[c].age < Window
                         /\ pushed[c].age = Window => pushed'[c].age = Window
<1>1. /\ pushed \in [Dims -> Stamp] /\ received \in [Dims -> Stamp]
      /\ Window \in Nat \ {0}
  BY BridgeAssumption DEF Inv, TypeOK
<1>2. QED BY <1>1 DEF Tick, Older, Stamp

LEMMA TickLocalRound == ASSUME SpacedInv, LocalRound, Tick
                        PROVE  Links' /\ LocalRound' /\ UNCHANGED <<local, remote, truth>>
<1>0. Inv BY DEF SpacedInv
<1>1. \A c \in Dims : received'[c].age < Window => local[c] = Reads(c, remote[c])
  BY <1>0, TickAges DEF LocalRound, OnlyLocal
<1>2. QED BY <1>0, <1>1 DEF Tick, LocalRound, OnlyLocal, Handled, SpacedInv, Links

\* News is the one thing under way, and no stamp takes it for an echo: only Apply
\* can follow, and ends it.
LEMMA NewsStep ==
  ASSUME SpacedInv, truth = "remote", NewsRound, Handle \/ Poll \/ Serve
  PROVE  \E d \in Dims : /\ Apply(d) /\ local' = [local EXCEPT ![d] = Reads(d, remote[d])]
                         /\ UNCHANGED <<remote, truth>> /\ AppliedRound'
<1>0. Inv /\ link = "up" /\ call = NoCall /\ local \in State /\ remote \in HelperState
  BY CallOwned DEF SpacedInv, Links, NewsRound, Inv, TypeOK
<1>1. PICK b \in Dims : /\ events = <<Event(b, remote[b], "user")>>
                        /\ \A c \in Dims \ {b} : local[c] = Reads(c, remote[c])
  BY DEF NewsRound
<1>2. remote[b] \in Shown(b) BY <1>0, HelperAt
<1>3. Head(events) = Event(b, remote[b], "user") /\ Tail(events) = <<>> BY <1>1
<1>4. Head(events).dim = b /\ Head(events).val = remote[b] /\ b # "other"
  BY <1>2, <1>3, EventTyped DEF Dims
<1>5. ~Poll /\ ~Serve /\ ~TakeEmission /\ ~Leave /\ ~IgnoreOther
  BY <1>0, <1>4 DEF NewsRound, Poll, Serve, TakeEmission, Leave, IgnoreOther, NoCall
<1>6. \A d \in Dims : ~Greet(d) /\ ~SkipPush(d) /\ ~Push(d) /\ ~PushOk(d) /\ ~PushFailed(d)
  BY DEF NewsRound, Greet, SkipPush, Push, PushOk, PushFailed, Dims
<1>7. \A d \in Dims : ~IgnoreEcho(d)
  BY BridgeAssumption DEF NewsRound, IgnoreEcho, Fresh
<1>8. PICK d \in Dims : Apply(d) BY <1>5, <1>6, <1>7 DEF Handle
<1>9. /\ d = b /\ local' = [local EXCEPT ![d] = Reads(d, remote[d])]
      /\ UNCHANGED <<remote, truth>>
  BY <1>4, <1>8 DEF Apply
<1>10. \A c \in Dims : local'[c] = Reads(c, remote[c])
  BY <1>0, <1>1, <1>9 DEF State, Dims
<1>11. AppliedRound'
  BY <1>0, <1>3, <1>8, <1>9, <1>10
  DEF Apply, NextEvent, NewsRound, AppliedRound, LocalRound, OnlyLocal, NoCall
<1>12. QED BY <1>8, <1>9, <1>11

\* After the news the endpoint is emitted and Home Assistant told what it was set to:
\* the two sides go on agreeing.
LEMMA AppliedStep ==
  ASSUME SpacedInv, truth = "remote", AppliedRound, Handle \/ Poll \/ Serve
  PROVE  /\ AppliedRound' /\ UNCHANGED <<local, truth>>
         /\ remote' = remote \/ \E d \in Dims : Abstract!Tidy(d)
<1>0. /\ Inv /\ link = "up" /\ LocalRound /\ phase = "serve" /\ "vol" \in Dims
      /\ \A c \in Dims : local[c] = Reads(c, remote[c])
  BY DEF SpacedInv, Links, AppliedRound, Dims
<1>1. ~Leave /\ \A d \in Dims : ~Greet(d) BY <1>0 DEF Leave, Greet
<1>2. CASE Handle
  <2>1. LocalRound' /\ UNCHANGED <<local, remote, truth>>
    BY <1>0, <1>1, <1>2, LoopLocalRound, EventLocalRound DEF Handle
  <2>2. phase' = "serve"
    BY <1>0, <1>1, <1>2 DEF Handle, TakeEmission, IgnoreOther, SkipPush, Push, PushOk,
                            PushFailed, IgnoreEcho, Apply, AfterGreet
  <2>3. QED BY <1>0, <2>1, <2>2 DEF AppliedRound
<1>3. CASE Poll BY <1>0, <1>3, PollLocalRound DEF Poll, AppliedRound
<1>4. CASE Serve
  <2>1. /\ LocalRound' /\ UNCHANGED <<local, phase, truth>> /\ call.dim \in Dims
        /\ remote' = [remote EXCEPT ![call.dim] = Told(call.dim, local[call.dim])]
    BY <1>0, <1>4, ServeLocalRound DEF Serve
  <2>2. local[call.dim] = Reads(call.dim, Told(call.dim, local[call.dim]))
    BY <1>0, <2>1, StateAt, Conversions DEF Inv, TypeOK
  <2>3. \A c \in Dims : local[c] = Reads(c, remote'[c])
    BY <1>0, <2>1, <2>2 DEF Inv, TypeOK, HelperState, Dims
  <2>4. Abstract!Tidy(call.dim)
    BY <1>0, <2>1 DEF Abstract!Tidy, Abstract!Agree
  <2>5. QED BY <1>0, <2>1, <2>3, <2>4 DEF AppliedRound
<1>5. QED BY <1>2, <1>3, <1>4

\* When a session is quiet the two sides agree, and its channels are empty.
LEMMA QuietRound ==
  ASSUME SpacedInv, Quiet
  PROVE  /\ \A d \in Dims : local[d] = Reads(d, remote[d])
         /\ events = <<>> /\ call = NoCall /\ truth # "none"
<1>0. Inv /\ local \in State /\ remote \in HelperState /\ events \in Seq(Events)
  BY DEF SpacedInv, Inv, TypeOK
<1>1. call = NoCall /\ truth \in {"local", "remote"}
  BY <1>0, CallOwned DEF Quiet, SpacedInv, Links, Inv, TypeOK
<1>2. CASE LocalRound
  <2>1. events = <<>>
    <3>1. \A i \in 1..Len(events) : FALSE BY <1>2 DEF Quiet, LocalRound, OnlyLocal, Dims
    <3>2. Len(events) = 0 BY <1>0, <3>1
    <3>3. QED BY <1>0, <3>2
  <2>2. seen # <<>> BY <1>0, StateThere DEF Quiet
  <2>3. \A d \in Dims : Handled(d) BY <2>2 DEF Quiet, Handled
  <2>4. \A d \in Dims : local[d] = Reads(d, remote[d])
    BY <1>2, <2>3 DEF Quiet, LocalRound, OnlyLocal
  <2>5. QED BY <1>1, <2>1, <2>4
<1>3. CASE NewsRound
  <2>1. PICK b \in Dims : events = <<Event(b, remote[b], "user")>> BY <1>3 DEF NewsRound
  <2>2. remote[b] \in Shown(b) BY <1>0, HelperAt
  <2>3. events[1].dim = b /\ 1 \in 1..Len(events) BY <2>1, <2>2, EventTyped
  <2>4. QED BY <2>3 DEF Quiet, Dims
<1>4. QED BY <1>1, <1>2, <1>3 DEF SpacedInv, AppliedRound

\* A user who waits until the bridge is calm begins a round of his own side.
LEMMA CalmLocal ==
  ASSUME SpacedInv, Calm, NEW d \in Dims, NEW v \in Values(d), MoveLocal(d, v)
  PROVE  Links' /\ LocalRound' /\ truth' = "local" /\ Abstract!AgreeAll
<1>1. /\ events = <<>> /\ call = NoCall /\ truth # "none" /\ Quiet
      /\ \A c \in Dims : local[c] = Reads(c, remote[c])
  BY QuietRound DEF Calm
<1>2. /\ emissions = <<>> /\ half = "none" /\ seen = local /\ local \in State
      /\ \A c \in Dims : received[c].age = Window
  BY <1>1 DEF Calm, Quiet, SpacedInv, Inv, TypeOK
<1>3. local'[d] = v /\ v # local[d] BY <1>2 DEF MoveLocal, State, Dims
<1>4. local' # local BY <1>3
<1>5. LocalRound'
  BY <1>1, <1>2, <1>4, BridgeAssumption
  DEF MoveLocal, LocalRound, OnlyLocal, Handled, NoCall
<1>6. Links' /\ truth' = "local" BY <1>1 DEF MoveLocal, SpacedInv, Links
<1>7. QED BY <1>1, <1>5, <1>6 DEF Abstract!AgreeAll, Abstract!Agree

LEMMA CalmRemote ==
  ASSUME SpacedInv, Calm, NEW d \in Dims, NEW x \in Shown(d), MoveRemote(d, x)
  PROVE  Links' /\ NewsRound' /\ truth' = "remote" /\ Abstract!AgreeAll
<1>1. /\ events = <<>> /\ call = NoCall /\ truth # "none" /\ Quiet
      /\ \A c \in Dims : local[c] = Reads(c, remote[c])
  BY QuietRound DEF Calm
<1>2. /\ emissions = <<>> /\ half = "none" /\ seen = local /\ phase = "serve"
      /\ remote \in HelperState /\ link = "up"
      /\ \A c \in Dims : pushed[c].age = Window
  BY <1>1 DEF Calm, Quiet, SpacedInv, Inv, TypeOK
<1>3. remote'[d] = x /\ \A c \in Dims \ {d} : remote'[c] = remote[c]
  BY <1>2 DEF MoveRemote, HelperState, Dims
<1>4. events' = <<Event(d, x, "user")>>
  BY <1>1, <1>2, BridgeAssumption DEF MoveRemote, Deliver
<1>5. NewsRound' BY <1>1, <1>2, <1>3, <1>4 DEF MoveRemote, NewsRound
<1>6. Links' /\ truth' = "remote" BY <1>1 DEF MoveRemote, SpacedInv, Links
<1>7. QED BY <1>1, <1>5, <1>6 DEF Abstract!AgreeAll, Abstract!Agree

-----------------------------------------------------------------------------
(* Every step.                                                             *)

\* What no step of the system does: refuse, or change the link without a Break.
LEMMA LinksKept == ASSUME SpacedInv, Handle \/ Poll \/ Serve \/ Tick
                   PROVE  Links' /\ truth' = truth
<1>0. Links /\ Inv BY DEF SpacedInv
<1>1. CASE Handle
  <2>1. /\ truth' = truth /\ link' = link
        /\ phase' = "down" => phase = "down" \/ Leave
    BY <1>1 DEF Handle, Leave, TakeEmission, IgnoreOther, Greet, SkipPush, Push, PushOk,
                PushFailed, IgnoreEcho, Apply, AfterGreet
  <2>2. call'.st # "err"
    BY <1>0, <1>1 DEF Links, Handle, Leave, TakeEmission, IgnoreOther, Greet, SkipPush,
                      Push, PushOk, PushFailed, IgnoreEcho, Apply, Ask, NoCall
  <2>3. Leave => link # "up" BY DEF Leave
  <2>4. QED BY <1>0, <2>1, <2>2, <2>3 DEF Links
<1>2. CASE Poll BY <1>0, <1>2 DEF Poll, Links
<1>3. CASE Tick BY <1>0, <1>3 DEF Tick, Links
<1>4. CASE Serve
  <2>1. call \in Calls BY <1>0, <1>4, CallOwned DEF Serve, NoCall
  <2>2. call'.st = "ok" BY <1>4, <2>1 DEF Serve, Calls
  <2>3. QED BY <1>0, <1>4, <2>2 DEF Serve, Links
<1>5. QED BY <1>1, <1>2, <1>3, <1>4

\* Where there is no link both sides may move.
LEMMA UnlinkedStep ==
  ASSUME SpacedInv, truth = "none", Handle \/ Poll \/ Serve \/ Tick \/ Users
  PROVE  truth' = "none" /\ [Abstract!Next]_Abstract!mvars
<1>0. Inv BY DEF SpacedInv
<1>1. ASSUME NEW d \in Dims, Apply(d)
      PROVE  truth' = "none" /\ Abstract!Next
  <2>1. Reads(d, Head(events).val) \in Values(d)
    BY <1>0, <1>1, EventTaken, EventTyped, Conversions DEF Apply
  <2>2. Abstract!MoveLocal(d, Reads(d, Head(events).val))
    BY <1>1 DEF Apply, Abstract!MoveLocal
  <2>3. QED BY <1>1, <2>1, <2>2 DEF Apply, Abstract!Next
<1>2. CASE Serve
  <2>1. call.dim \in Dims /\ Told(call.dim, call.val) \in Shown(call.dim)
    BY <1>0, <1>2, CallOwned, CallTyped, Conversions DEF Serve
  <2>2. Abstract!MoveRemote(call.dim, Told(call.dim, call.val))
    BY <1>2 DEF Serve, Abstract!MoveRemote
  <2>3. QED BY <1>2, <2>1, <2>2 DEF Serve, Abstract!Next
<1>3. ASSUME NEW d \in Dims, NEW v \in Values(d), MoveLocal(d, v)
      PROVE  truth' = "none" /\ Abstract!Next
  BY <1>3 DEF MoveLocal, Abstract!Next, Abstract!MoveLocal
<1>4. ASSUME NEW d \in Dims, NEW x \in Shown(d), MoveRemote(d, x)
      PROVE  truth' = "none" /\ Abstract!Next
  BY <1>4 DEF MoveRemote, Abstract!Next, Abstract!MoveRemote
<1>5. ASSUME NEW d \in Dims,
             \/ Leave \/ TakeEmission \/ IgnoreOther \/ Greet(d) \/ SkipPush(d) \/ Push(d)
             \/ PushOk(d) \/ PushFailed(d) \/ IgnoreEcho(d) \/ Poll \/ Tick
      PROVE  UNCHANGED <<local, remote, truth>>
  BY <1>5 DEF Leave, TakeEmission, IgnoreOther, Greet, SkipPush, Push, PushOk,
              PushFailed, IgnoreEcho, Poll, Tick
<1>6. "vol" \in Dims BY DEF Dims
<1>7. CASE Handle \/ Poll \/ Tick BY <1>1, <1>5, <1>6, <1>7 DEF Handle, Abstract!mvars
<1>8. CASE Users BY <1>3, <1>4, <1>8 DEF Users
<1>9. QED BY <1>2, <1>7, <1>8

\* In a round of the machine its state is copied out; nothing else moves.
LEMMA LocalStep ==
  ASSUME SpacedInv, truth = "local", Handle \/ Poll \/ Serve \/ Tick
  PROVE  LocalRound' /\ truth' = "local" /\ [Abstract!Next]_Abstract!mvars
<1>1. ~Leave /\ LocalRound BY DEF SpacedInv, Links, Leave
<1>2. CASE Handle
  BY <1>1, <1>2, LoopLocalRound, EventLocalRound DEF Handle, Abstract!mvars, Dims
<1>3. CASE Poll BY <1>1, <1>3, PollLocalRound DEF Abstract!mvars
<1>4. CASE Tick BY <1>1, <1>4, TickLocalRound DEF Abstract!mvars
<1>5. CASE Serve
  <2>1. /\ LocalRound' /\ UNCHANGED <<local, truth>> /\ call.dim \in Dims
        /\ remote' = [remote EXCEPT ![call.dim] = Told(call.dim, local[call.dim])]
    BY <1>1, <1>5, ServeLocalRound
  <2>2. Abstract!CopyOut(call.dim) \/ Abstract!Tidy(call.dim)
    BY <2>1 DEF Abstract!CopyOut, Abstract!Tidy
  <2>3. QED BY <2>1, <2>2 DEF Abstract!Next, Abstract!Copy
<1>6. QED BY <1>2, <1>3, <1>4, <1>5

\* In a round of Home Assistant the news is copied in; nothing else moves.
LEMMA RemoteStep ==
  ASSUME SpacedInv, truth = "remote", Handle \/ Poll \/ Serve \/ Tick
  PROVE  /\ NewsRound' \/ AppliedRound'
         /\ truth' = "remote" /\ [Abstract!Next]_Abstract!mvars
<1>0. Inv BY DEF SpacedInv
<1>1. CASE Tick
  <2>1. NewsRound => NewsRound' BY <1>0, <1>1, TickAges DEF Tick, NewsRound
  <2>2. AppliedRound => AppliedRound' BY <1>1, TickLocalRound DEF Tick, AppliedRound
  <2>3. QED BY <1>1, <2>1, <2>2 DEF SpacedInv, Tick, Abstract!mvars
<1>2. CASE NewsRound /\ ~Tick
  <2>1. PICK d \in Dims : /\ local' = [local EXCEPT ![d] = Reads(d, remote[d])]
                          /\ UNCHANGED <<remote, truth>> /\ AppliedRound'
    BY <1>2, NewsStep
  <2>2. CASE local[d] = Reads(d, remote[d])
    <3>1. local' = local BY <1>0, <2>1, <2>2, StateIsFields DEF Inv, TypeOK
    <3>2. QED BY <2>1, <3>1 DEF Abstract!mvars
  <2>3. CASE local[d] # Reads(d, remote[d])
    <3>1. Abstract!CopyIn(d) BY <2>1, <2>3 DEF Abstract!CopyIn, Abstract!Agree
    <3>2. QED BY <2>1, <3>1 DEF Abstract!Next, Abstract!Copy
  <2>4. QED BY <2>2, <2>3
<1>3. CASE AppliedRound /\ ~Tick
  BY <1>3, AppliedStep DEF Abstract!mvars, Abstract!Next
<1>4. QED BY <1>1, <1>2, <1>3 DEF SpacedInv

\* With the link or without it, a session has only the state of the machine to handle,
\* or only news.
LEMMA OnlyLocalStep ==
  ASSUME Inv, OnlyLocal, phase # "down", Handle \/ Poll \/ Serve \/ Tick
  PROVE  OnlyLocal' /\ local' = local
<1>0. events \in Seq(Events) /\ emissions \in Seq(State) /\ local \in State
  BY DEF Inv, TypeOK
<1>1. CASE TakeEmission
  <2>1. /\ cur' = emissions[1] /\ 1 \in 1..Len(emissions)
        /\ \A i \in 1..Len(emissions') : /\ i + 1 \in 1..Len(emissions)
                                         /\ emissions'[i] = emissions[i + 1]
    BY <1>0, <1>1, Taken DEF TakeEmission
  <2>2. QED BY <1>1, <2>1 DEF TakeEmission, OnlyLocal
<1>2. ASSUME NEW d \in Dims, Leave \/ SkipPush(d) \/ PushOk(d) \/ PushFailed(d)
      PROVE  OnlyLocal' /\ local' = local
  BY <1>2 DEF Leave, SkipPush, PushOk, PushFailed, OnlyLocal, After, AfterGreet, NoCall,
              Dims
<1>3. ASSUME NEW d \in Dims, Greet(d) \/ Push(d)
      PROVE  OnlyLocal' /\ local' = local
  <2>1. CASE Greet(d) BY <2>1 DEF Greet, OnlyLocal, Ask
  <2>2. CASE Push(d)
    <3>1. cur = local BY <2>2 DEF Push, OnlyLocal, Dims
    <3>2. QED BY <2>2, <3>1 DEF Push, OnlyLocal, Ask
  <2>3. QED BY <1>3, <2>1, <2>2
<1>4. ASSUME NEW d \in Dims, IgnoreOther \/ IgnoreEcho(d) \/ Apply(d)
      PROVE  OnlyLocal' /\ local' = local
  <2>1. NextEvent /\ UNCHANGED <<phase, half, cur, call, emissions>>
    BY <1>4 DEF IgnoreOther, IgnoreEcho, Apply
  <2>2. /\ Head(events) = events[1] /\ 1 \in 1..Len(events)
        /\ \A i \in 1..Len(events') : /\ i + 1 \in 1..Len(events)
                                      /\ events'[i] = events[i + 1]
    BY <1>0, <2>1, Taken DEF NextEvent
  <2>3. Head(events).dim = d => Reads(d, Head(events).val) = local[d]
    BY <1>0, <2>2, StateAt, Conversions DEF OnlyLocal
  <2>4. local' = local
    BY <1>0, <1>4, <2>3, StateIsFields DEF IgnoreOther, IgnoreEcho, Apply
  <2>5. QED BY <2>1, <2>2, <2>4 DEF OnlyLocal
<1>5. CASE Poll
  <2>1. /\ Len(emissions') = Len(emissions) + 1
        /\ emissions'[Len(emissions) + 1] = local
        /\ \A i \in 1..Len(emissions) : emissions'[i] = emissions[i]
    BY <1>0, <1>5, Sent DEF Poll
  <2>2. \A i \in 1..Len(emissions') : i \in 1..Len(emissions) \/ i = Len(emissions) + 1
    BY <1>0, <2>1
  <2>3. QED BY <1>5, <2>1, <2>2 DEF Poll, OnlyLocal
<1>6. CASE Serve
  <2> DEFINE e == Event(call.dim, Told(call.dim, call.val), "bridge")
  <2>1. call \in Calls /\ call # NoCall BY <1>6, CallOwned DEF Serve, NoCall
  <2>2. call.dim \in Dims /\ call.val = local[call.dim] /\ call'.val = call.val
        /\ call'.dim = call.dim
    BY <1>6, <2>1, CallTyped DEF Serve, OnlyLocal, Calls
  <2>3. e \in Events /\ e.dim = call.dim /\ e.val = Told(call.dim, local[call.dim])
    <3>1. Told(call.dim, call.val) \in Shown(call.dim)
      BY <2>1, CallTyped, Conversions
    <3>2. QED BY <2>2, <3>1, EventTyped
  <2>4. events' = events \/ events' = Append(events, e) BY <1>6 DEF Serve, Deliver
  <2> HIDE DEF e
  <2>5. \A i \in 1..Len(events') : events'[i] = e
                                     \/ \E j \in 1..Len(events) : events'[i] = events[j]
    <3>1. CASE events' = Append(events, e)
      <4>1. /\ Len(events') = Len(events) + 1 /\ events'[Len(events) + 1] = e
            /\ \A j \in 1..Len(events) : events'[j] = events[j]
        BY <1>0, <2>3, <3>1, Sent
      <4>2. \A i \in 1..Len(events') : i \in 1..Len(events) \/ i = Len(events) + 1
        BY <1>0, <4>1
      <4>3. QED BY <4>1, <4>2
    <3>2. QED BY <2>4, <3>1
  <2>6. UNCHANGED <<local, phase, half, cur, emissions>> BY <1>6 DEF Serve
  <2>7. QED BY <2>2, <2>3, <2>5, <2>6 DEF OnlyLocal
<1>7. CASE Tick BY <1>7 DEF Tick, OnlyLocal
<1>8. "vol" \in Dims BY DEF Dims
<1>9. QED BY <1>1, <1>2, <1>3, <1>4, <1>5, <1>6, <1>7, <1>8 DEF Handle

LEMMA NewsKept ==
  ASSUME SpacedInv, NewsRound, Handle \/ Poll \/ Serve \/ Tick
  PROVE  phase' # "down" => OnlyLocal' \/ NewsRound'
<1>0. /\ Inv /\ events \in Seq(Events) /\ remote \in HelperState /\ call = NoCall
      /\ half = "none"
  BY CallOwned DEF SpacedInv, NewsRound, Inv, TypeOK
<1>1. CASE Tick BY <1>0, <1>1, TickAges DEF Tick, NewsRound
<1>2. Leave => phase' = "down" BY DEF Leave
<1>3. ~Poll /\ ~Serve /\ ~TakeEmission
  BY <1>0 DEF NewsRound, Poll, Serve, TakeEmission, NoCall
<1>4. \A d \in Dims : ~Greet(d) /\ ~SkipPush(d) /\ ~Push(d) /\ ~PushOk(d) /\ ~PushFailed(d)
  BY <1>0 DEF NewsRound, Greet, SkipPush, Push, PushOk, PushFailed, Dims
<1>5. ASSUME NEW d \in Dims, IgnoreOther \/ IgnoreEcho(d) \/ Apply(d)
      PROVE  OnlyLocal'
  <2>1. events' = <<>> /\ UNCHANGED <<emissions, call, half>>
    BY <1>5 DEF NewsRound, NextEvent, IgnoreOther, IgnoreEcho, Apply
  <2>2. QED BY <1>0, <2>1 DEF NewsRound, OnlyLocal
<1>6. "vol" \in Dims BY DEF Dims
<1>7. QED BY <1>1, <1>2, <1>3, <1>4, <1>5, <1>6 DEF Handle

LEMMA SessionStep ==
  ASSUME SpacedInv, [SpacedNext]_mcvars
  PROVE  phase' # "down" => OnlyLocal' \/ NewsRound'
<1>0. Inv /\ (phase # "down" => OnlyLocal \/ NewsRound) BY DEF SpacedInv
<1>1. CASE Connect
  <2>1. call' = NoCall /\ events' = <<>> /\ emissions' = <<>> /\ phase' = "greet"
    BY <1>0, <1>1, CallOwned DEF Connect
  <2>2. QED BY <2>1 DEF OnlyLocal
<1>2. CASE Handle \/ Poll \/ Serve \/ Tick
  <2>1. CASE phase = "down"
    <3>1. half = "none" /\ call = NoCall BY <1>0, <2>1, CallOwned DEF Inv, CallKnown
    <3>2. phase' = "down"
      BY <1>2, <2>1, <3>1
      DEF Handle, Leave, TakeEmission, IgnoreOther, NextEvent, Greet, SkipPush, Push,
          PushOk, PushFailed, IgnoreEcho, Apply, Poll, Serve, Tick, NoCall, Dims
    <3>3. QED BY <3>2
  <2>2. CASE phase # "down" BY <1>0, <1>2, <2>2, OnlyLocalStep, NewsKept
  <2>3. QED BY <2>1, <2>2
<1>3. CASE Users /\ phase = "down" BY <1>3 DEF Users, MoveLocal, MoveRemote
<1>4. CASE Users /\ Calm BY <1>4, CalmLocal, CalmRemote DEF Users, LocalRound
<1>5. CASE UNCHANGED vars \/ \E l \in {"lost", "cancelled"} : Break(l)
  BY <1>0, <1>5 DEF vars, Break, OnlyLocal, NewsRound
<1>6. QED BY <1>1, <1>2, <1>3, <1>4, <1>5 DEF SpacedNext, System, Free, mcvars

\* A step of SpacedSpec is one of Bridge, and Mirror sees it as one of its own.
LEMMA SpacedStep ==
  SpacedInv /\ [SpacedNext]_mcvars => SpacedInv' /\ [Abstract!Next]_Abstract!mvars
<1> SUFFICES ASSUME SpacedInv, [SpacedNext]_mcvars
             PROVE  SpacedInv' /\ [Abstract!Next]_Abstract!mvars
  OBVIOUS
<1>1. [Next]_vars
  BY DEF SpacedNext, Free, mcvars, Next, Faults
<1>2. /\ Inv'
      /\ phase' # "down" => OnlyLocal' \/ NewsRound'
  BY <1>1, InvStep, SessionStep DEF SpacedInv
<1>3. CASE Connect
  <2>1. truth = "none" BY <1>3 DEF Connect, SpacedInv, Links
  <2>2. Abstract!Link BY <1>3, <2>1 DEF Connect, Abstract!Link
  <2>3. QED BY <1>2, <1>3, <2>2, ConnectRound DEF SpacedInv, Abstract!Next
<1>4. CASE Handle \/ Poll \/ Serve \/ Tick
  <2>1. Links' /\ truth \in {"none", "local", "remote"}
    BY <1>4, LinksKept DEF SpacedInv, Inv, TypeOK
  <2>2. CASE truth = "none" BY <1>2, <1>4, <2>1, <2>2, UnlinkedStep DEF SpacedInv
  <2>3. CASE truth = "local" BY <1>2, <1>4, <2>1, <2>3, LocalStep DEF SpacedInv
  <2>4. CASE truth = "remote" BY <1>2, <1>4, <2>1, <2>4, RemoteStep DEF SpacedInv
  <2>5. QED BY <2>1, <2>2, <2>3, <2>4
<1>5. CASE phase = "down" /\ Users
  <2>1. truth = "none" BY <1>5 DEF SpacedInv, Links
  <2>2. truth' = "none" /\ [Abstract!Next]_Abstract!mvars BY <1>5, <2>1, UnlinkedStep
  <2>3. Links' BY <1>5, <2>1, <2>2 DEF Users, MoveLocal, MoveRemote, SpacedInv, Links
  <2>4. QED BY <1>2, <2>2, <2>3 DEF SpacedInv
<1>6. ASSUME Calm, NEW d \in Dims, NEW v \in Values(d), MoveLocal(d, v)
      PROVE  SpacedInv' /\ Abstract!Next
  <2>1. Links' /\ LocalRound' /\ truth' = "local" /\ Abstract!AgreeAll BY <1>6, CalmLocal
  <2>2. Abstract!MoveLocal(d, v) BY <1>6, <2>1 DEF MoveLocal, Abstract!MoveLocal
  <2>3. QED BY <1>2, <2>1, <2>2 DEF SpacedInv, Abstract!Next
<1>7. ASSUME Calm, NEW d \in Dims, NEW x \in Shown(d), MoveRemote(d, x)
      PROVE  SpacedInv' /\ Abstract!Next
  <2>1. Links' /\ NewsRound' /\ truth' = "remote" /\ Abstract!AgreeAll BY <1>7, CalmRemote
  <2>2. Abstract!MoveRemote(d, x) BY <1>7, <2>1 DEF MoveRemote, Abstract!MoveRemote
  <2>3. QED BY <1>2, <2>1, <2>2 DEF SpacedInv, Abstract!Next
<1>8. ASSUME NEW l \in {"lost", "cancelled"}, Break(l)
      PROVE  SpacedInv' /\ Abstract!Next
  <2>1. SpacedInv' BY <1>2, <1>8 DEF Break, SpacedInv, Links
  <2>2. Abstract!Unlink BY <1>8 DEF Break, Abstract!Unlink
  <2>3. QED BY <2>1, <2>2 DEF Abstract!Next
<1>9. CASE UNCHANGED vars
  <2>1. SpacedInv'
    BY <1>2, <1>9 DEF vars, SpacedInv, Links, LocalRound, OnlyLocal,
                        NewsRound, AppliedRound, Handled
  <2>2. QED BY <1>9, <2>1 DEF vars, Abstract!mvars
<1>10. QED BY <1>3, <1>4, <1>5, <1>6, <1>7, <1>8, <1>9
  DEF SpacedNext, System, Users, Free, mcvars

-----------------------------------------------------------------------------
(* The work left.                                                          *)

\* The parts of the work left: a call is work of its handler, less what is done of it.
LEMMA WorkParts ==
  SpacedInv =>
         /\ Len(events) \in Nat /\ Len(emissions) \in Nat
         /\ HalfWork \in {0, 4, 8} /\ CallWork \in {0, 1, 3}
         /\ HalfWork = 0 <=> half = "none"
         /\ CallWork # 0 => HalfWork # 0
         /\ Work \in Nat
<1> SUFFICES ASSUME SpacedInv
             PROVE  /\ Len(events) \in Nat /\ Len(emissions) \in Nat
                    /\ HalfWork \in {0, 4, 8} /\ CallWork \in {0, 1, 3}
                    /\ HalfWork = 0 <=> half = "none"
                    /\ CallWork # 0 => HalfWork # 0
                    /\ Work \in Nat
  OBVIOUS
<1>1. events \in Seq(Events) /\ emissions \in Seq(State) /\ half \in Dims \cup {"none"}
  BY DEF SpacedInv, Inv, TypeOK
<1>2. Len(events) \in Nat /\ Len(emissions) \in Nat BY <1>1
<1>3. HalfWork \in {0, 4, 8} /\ (HalfWork = 0 <=> half = "none")
  BY <1>1 DEF HalfWork, Dims
<1>4. CallWork \in {0, 1, 3} BY DEF CallWork
<1>5. CallWork # 0 => HalfWork # 0
  BY <1>3, CallOwned DEF SpacedInv, CallWork, NoCall
<1>6. Work \in Nat BY <1>2, <1>3, <1>4, <1>5 DEF Work
<1>7. QED BY <1>2, <1>3, <1>4, <1>5, <1>6

LEMMA WorkIsNat == SpacedInv => Work \in Nat
BY WorkParts

\* In a round of the machine no event changes the endpoint.
LEMMA NoNews == Inv /\ LocalRound => ~News
<1> SUFFICES ASSUME Inv, LocalRound PROVE ~News OBVIOUS
<1>1. \A i \in 1..Len(events) : LET e == events[i] IN
        e.dim \in Dims /\ Reads(e.dim, e.val) = local[e.dim]
  BY StateAt, Conversions DEF Inv, TypeOK, LocalRound, OnlyLocal
<1>2. QED BY <1>1 DEF News

\* In a round of the machine each step does a part of it.
LEMMA LocalWork ==
  ASSUME SpacedInv, LocalRound, truth # "none", Handle \/ Poll \/ Serve
  PROVE  Work' < Work
<1>0. /\ Inv /\ link = "up" /\ call.st # "err" /\ ~News
      /\ events \in Seq(Events) /\ emissions \in Seq(State)
  BY NoNews DEF SpacedInv, Links, Inv, TypeOK
<1>1. /\ Len(events) \in Nat /\ Len(emissions) \in Nat
      /\ HalfWork \in {0, 4, 8} /\ CallWork \in {0, 1, 3}
  BY WorkParts
<1>2. /\ ~Leave /\ \A d \in Dims : ~PushFailed(d)
      /\ UNCHANGED <<local, truth>> /\ LocalRound'
  <2>1. "vol" \in Dims /\ phase # "down" BY <1>0 DEF Dims, SpacedInv, Links
  <2>2. ~Leave /\ \A d \in Dims : ~PushFailed(d) BY <1>0 DEF Leave, PushFailed
  <2>3. QED BY <2>1, <2>2, LoopLocalRound, EventLocalRound, PollLocalRound,
               ServeLocalRound DEF Handle
<1>3. ~News'
  <2>1. Inv' BY <1>0, InvStep DEF Next, System
  <2>2. Inv' /\ LocalRound' => ~News' BY NoNews, PTL
  <2>3. QED BY <1>2, <2>1, <2>2
<1>4. CASE TakeEmission
  <2>1. /\ HalfWork = 0 /\ CallWork = 0 /\ HalfWork' = 8 /\ CallWork' = 0
        /\ Len(emissions') = Len(emissions) - 1 /\ UNCHANGED <<events, seen>>
    BY <1>0, <1>4, Taken, WorkParts DEF TakeEmission, HalfWork, CallWork
  <2>2. QED BY <1>0, <1>1, <1>2, <1>3, <2>1 DEF Work
<1>5. ASSUME NEW d \in Dims, Greet(d) \/ Push(d) PROVE Work' < Work
  <2>1. /\ CallWork = 0 /\ CallWork' = 1
        /\ UNCHANGED <<HalfWork, events, emissions, seen>>
    BY <1>5 DEF Greet, Push, HalfWork, CallWork, NoCall, Ask
  <2>2. QED BY <1>0, <1>1, <1>2, <1>3, <2>1 DEF Work
<1>6. ASSUME NEW d \in Dims, SkipPush(d) PROVE Work' < Work
  <2>1. /\ HalfWork' = HalfWork - 4 /\ UNCHANGED <<call, events, emissions, seen>>
    BY <1>6 DEF SkipPush, HalfWork, After, Dims
  <2>2. CallWork' = CallWork BY <2>1 DEF CallWork
  <2>3. QED BY <1>0, <1>1, <1>2, <1>3, <2>1, <2>2 DEF Work
<1>7. ASSUME NEW d \in Dims, PushOk(d) PROVE Work' < Work
  <2>1. /\ HalfWork' = HalfWork - 4 /\ CallWork = 3 /\ CallWork' = 0
        /\ UNCHANGED <<events, emissions, seen>>
    BY <1>7 DEF PushOk, HalfWork, CallWork, NoCall, After, Dims
  <2>2. QED BY <1>0, <1>1, <1>2, <1>3, <2>1 DEF Work
<1>8. ASSUME NEW d \in Dims, IgnoreOther \/ IgnoreEcho(d) \/ Apply(d) PROVE Work' < Work
  <2>1. NextEvent /\ UNCHANGED <<half, call, emissions, seen>>
    BY <1>8 DEF IgnoreOther, IgnoreEcho, Apply
  <2>2. Len(events') = Len(events) - 1 BY <1>0, <2>1, Taken DEF NextEvent
  <2>3. HalfWork' = HalfWork /\ CallWork' = CallWork BY <2>1 DEF HalfWork, CallWork
  <2>4. QED BY <1>0, <1>1, <1>2, <1>3, <2>1, <2>2, <2>3 DEF Work
<1>9. CASE Poll
  <2>1. /\ Len(emissions') = Len(emissions) + 1 /\ seen # local /\ seen' = local
        /\ UNCHANGED <<half, call, events>>
    BY <1>0, <1>9, Sent DEF Poll, Inv, TypeOK
  <2>2. HalfWork' = HalfWork /\ CallWork' = CallWork BY <2>1 DEF HalfWork, CallWork
  <2>3. QED BY <1>0, <1>1, <1>2, <1>3, <2>1, <2>2 DEF Work
<1>10. CASE Serve
  <2>1. /\ CallWork = 1 /\ CallWork' = 3 /\ UNCHANGED <<half, emissions, seen>>
    <3>1. call \in Calls BY <1>0, <1>10, CallOwned DEF Serve
    <3>2. QED BY <1>10, <3>1 DEF Serve, CallWork, Calls
  <2>2. Len(events') \in {Len(events), Len(events) + 1}
    <3>1. call \in Calls BY <1>0, <1>10, CallOwned DEF Serve
    <3>2. Event(call.dim, Told(call.dim, call.val), "bridge") \in Events
      BY <3>1, CallTyped, Conversions, EventTyped
    <3>3. QED BY <1>0, <1>10, <3>2, Sent DEF Serve, Deliver
  <2>3. HalfWork' = HalfWork BY <2>1 DEF HalfWork
  <2>4. QED BY <1>0, <1>1, <1>2, <1>3, <2>1, <2>2, <2>3 DEF Work
<1>11. "vol" \in Dims BY DEF Dims
<1>12. QED BY <1>2, <1>4, <1>5, <1>6, <1>7, <1>8, <1>9, <1>10, <1>11 DEF Handle

\* News is applied, and leaves at most the emission of what it set.
LEMMA NewsWork ==
  ASSUME SpacedInv, truth = "remote", NewsRound, Handle \/ Poll \/ Serve
  PROVE  Work' < Work
<1>0. /\ Inv /\ local \in State /\ remote \in HelperState /\ events \in Seq(Events)
      /\ call = NoCall
  BY CallOwned DEF SpacedInv, NewsRound, Inv, TypeOK
<1>1. PICK b \in Dims : /\ events = <<Event(b, remote[b], "user")>>
                        /\ \A c \in Dims \ {b} : local[c] = Reads(c, remote[c])
  BY DEF NewsRound
<1>2. /\ events[1] = Event(b, remote[b], "user") /\ Len(events) = 1
      /\ Head(events) = events[1] /\ Tail(events) = <<>>
      /\ events[1].dim = b /\ events[1].val = remote[b]
  BY <1>0, <1>1, HelperAt, EventTyped
<1>3. PICK d \in Dims : /\ Apply(d) /\ local' = [local EXCEPT ![d] = Reads(d, remote[d])]
                        /\ AppliedRound'
  BY NewsStep
<1>4. /\ d = b /\ events' = <<>> /\ UNCHANGED <<half, call, emissions, seen>>
      /\ Len(events') = 0 /\ ~News'
  <2>1. d = b /\ events' = <<>> /\ UNCHANGED <<half, call, emissions, seen>>
    BY <1>2, <1>3 DEF Apply, NextEvent
  <2>2. QED BY <2>1 DEF News
<1>5. /\ emissions = <<>> /\ Len(emissions) = 0 /\ half = "none" /\ seen = local
      /\ HalfWork = 0 /\ HalfWork' = 0 /\ CallWork = 0 /\ CallWork' = 0
  BY <1>0, <1>4 DEF NewsRound, HalfWork, CallWork, NoCall
<1>6. ~News => local' = local
  <2>1. 1 \in 1..Len(events) BY <1>2
  <2>2. ~News => Reads(b, remote[b]) = local[b] BY <1>2, <2>1 DEF News
  <2>3. QED BY <1>0, <1>3, <1>4, <2>2, StateIsFields
<1>7. QED BY <1>2, <1>4, <1>5, <1>6 DEF Work

\* Of SpacedSpec's steps, those of the system come nearer to rest.
LEMMA WorkStep ==
  SpacedInv /\ [SpacedNext]_mcvars =>
    (truth # "none" /\ System => Work' \in Nat /\ Work' < Work)
<1> SUFFICES ASSUME SpacedInv, [SpacedNext]_mcvars, truth # "none", System
             PROVE  Work' \in Nat /\ Work' < Work
  OBVIOUS
<1>1. Work' \in Nat
  <2>1. SpacedInv' BY SpacedStep
  <2>2. (SpacedInv => Work \in Nat)' BY WorkIsNat, PTL
  <2>3. QED BY <2>1, <2>2
<1>2. ~Connect BY DEF Connect, SpacedInv, Links
<1>3. LocalRound \/ (truth = "remote" /\ NewsRound)
  BY DEF SpacedInv, Inv, TypeOK, AppliedRound
<1>4. QED BY <1>1, <1>2, <1>3, LocalWork, NewsWork DEF System

\* Nothing is left exactly when the session is quiet.
LEMMA NoWorkQuiet == SpacedInv /\ truth # "none" => (Work = 0 <=> Quiet)
<1> SUFFICES ASSUME SpacedInv, truth # "none" PROVE Work = 0 <=> Quiet OBVIOUS
<1>1. /\ Len(events) \in Nat /\ Len(emissions) \in Nat
      /\ HalfWork \in {0, 4, 8} /\ CallWork \in {0, 1, 3}
      /\ HalfWork = 0 <=> half = "none"
      /\ CallWork # 0 => HalfWork # 0
  BY WorkParts
<1>2. ASSUME Quiet PROVE Work = 0
  <2>1. events = <<>> /\ call = NoCall BY <1>2, QuietRound
  <2>2. Len(events) = 0 /\ ~News BY <2>1 DEF News
  <2>3. Len(emissions) = 0 /\ HalfWork = 0 /\ CallWork = 0 /\ seen = local
    BY <1>1, <1>2, <2>1 DEF Quiet, CallWork, NoCall
  <2>4. QED BY <2>2, <2>3 DEF Work
<1>3. ASSUME Work = 0 PROVE Quiet
  <2>1. events \in Seq(Events) /\ emissions \in Seq(State) /\ link = "up"
    BY DEF SpacedInv, Links, Inv, TypeOK
  <2>2. Len(events) = 0 /\ Len(emissions) = 0 /\ HalfWork = 0 /\ seen = local
    BY <1>1, <1>3 DEF Work
  <2>3. events = <<>> /\ emissions = <<>> /\ half = "none" BY <1>1, <2>1, <2>2
  <2>4. phase = "serve" BY <2>3 DEF SpacedInv, Links, Inv, TypeOK, CallKnown
  <2>5. QED BY <2>1, <2>2, <2>3, <2>4 DEF Quiet
<1>4. QED BY <1>2, <1>3

\* A connection, or a move by a user who waited, leaves eighteen steps at most.
LEMMA WorkBegins ==
  ASSUME SpacedInv, Connect \/ (Calm /\ Users) PROVE Work' <= 18
<1>0. Inv /\ local \in State BY DEF SpacedInv, Inv, TypeOK
<1>1. CASE Connect
  <2>1. call' = NoCall BY <1>1, CallOwned DEF SpacedInv, Connect
  <2>2. /\ Len(events') = 0 /\ Len(emissions') = 0 /\ ~News'
        /\ HalfWork' = 8 /\ CallWork' = 0
    BY <1>1, <2>1 DEF Connect, News, HalfWork, CallWork, NoCall
  <2>3. QED BY <2>2 DEF Work
<1>2. ASSUME Calm, NEW d \in Dims, \E v \in Values(d) : MoveLocal(d, v)
      PROVE  Work' <= 18
  <2>1. events = <<>> /\ call = NoCall /\ half = "none" /\ emissions = <<>>
    BY <1>2, QuietRound DEF Calm, Quiet
  <2>2. UNCHANGED <<events, call, half, emissions>> BY <1>2 DEF MoveLocal
  <2>3. /\ Len(events') = 0 /\ Len(emissions') = 0 /\ ~News'
        /\ HalfWork' = 0 /\ CallWork' = 0
    BY <2>1, <2>2 DEF News, HalfWork, CallWork, NoCall
  <2>4. QED BY <2>3 DEF Work
<1>3. ASSUME Calm, NEW d \in Dims, NEW x \in Shown(d), MoveRemote(d, x)
      PROVE  Work' <= 18
  <2>1. /\ events = <<>> /\ call = NoCall /\ half = "none" /\ emissions = <<>>
        /\ seen = local
    BY <1>3, QuietRound DEF Calm, Quiet
  <2>2. UNCHANGED <<local, seen, call, half, emissions>> BY <1>3 DEF MoveRemote
  <2>3. Len(events') \in {0, 1}
    <3>1. events' = <<>> \/ events' = Append(<<>>, Event(d, x, "user"))
      BY <1>3, <2>1 DEF MoveRemote, Deliver
    <3>2. QED BY <3>1
  <2>4. Len(emissions') = 0 /\ HalfWork' = 0 /\ CallWork' = 0
    BY <2>1, <2>2 DEF HalfWork, CallWork, NoCall
  <2>5. QED BY <2>1, <2>2, <2>3, <2>4 DEF Work
<1>4. QED BY <1>1, <1>2, <1>3 DEF Users

\* So wherever a side holds the truth, eighteen steps at most are left.
BoundedInv == truth # "none" => Bounded

LEMMA BoundedStep == SpacedInv /\ BoundedInv /\ [SpacedNext]_mcvars => BoundedInv'
<1> SUFFICES ASSUME SpacedInv, BoundedInv, [SpacedNext]_mcvars, truth' # "none"
             PROVE  Work' \in 0..18 /\ (Work' = 0 <=> Quiet')
  BY DEF BoundedInv, Bounded
<1>0. SpacedInv' BY SpacedStep
<1>1. Work' \in Nat /\ (Work' = 0 <=> Quiet')
  <2>1. (SpacedInv => Work \in Nat)' BY WorkIsNat, PTL
  <2>2. (SpacedInv /\ truth # "none" => (Work = 0 <=> Quiet))'
    BY NoWorkQuiet, PTL
  <2>3. QED BY <1>0, <2>1, <2>2
<1>2. CASE truth = "none"
  <2>1. ~Break("lost") /\ ~Break("cancelled") BY DEF Break
  <2>2. Handle \/ Poll \/ Serve \/ Tick => truth' = truth BY LinksKept
  <2>3. Users => truth' = truth BY <1>2 DEF Users, MoveLocal, MoveRemote
  <2>4. UNCHANGED mcvars => truth' = truth BY DEF mcvars, vars
  <2>5. Connect BY <1>2, <2>1, <2>2, <2>3, <2>4 DEF SpacedNext, System, Free
  <2>6. QED BY <1>1, <2>5, WorkBegins
<1>3. CASE truth # "none"
  <2>1. Work \in 0..18 BY <1>3 DEF BoundedInv, Bounded
  <2>2. CASE System BY <1>1, <1>3, <2>1, <2>2, WorkStep
  <2>3. CASE Tick \/ UNCHANGED mcvars
    <3>1. UNCHANGED <<local, half, call, events, emissions, seen>>
      BY <2>3 DEF Tick, mcvars, vars
    <3>2. Work' = Work BY <3>1 DEF Work, News, HalfWork, CallWork
    <3>3. QED BY <1>1, <2>1, <3>2
  <2>4. CASE Users /\ (phase = "down" \/ Calm)
    <3>1. phase # "down" BY <1>3 DEF SpacedInv, Links
    <3>2. QED BY <1>1, <2>4, <3>1, WorkBegins
  <2>5. ASSUME NEW l \in {"lost", "cancelled"}, Break(l) PROVE FALSE
    BY <2>5 DEF Break
  <2>6. QED BY <2>2, <2>3, <2>4, <2>5 DEF SpacedNext, Free
<1>4. QED BY <1>2, <1>3

-----------------------------------------------------------------------------
(* The theorems.                                                           *)

\* SpacedSpec keeps its invariant: what is under way belongs to the side that moved.
THEOREM SpacedInvariance == SpacedSpec => []SpacedInv
<1>1. QED BY RoundInit, SpacedStep, PTL DEF SpacedSpec, MCInit

\* When nothing is left to handle, the machine and Home Assistant agree.
THEOREM QuietMeansAgreed == SpacedSpec => []QuietAgree
<1>1. SpacedInv => QuietAgree BY QuietRound DEF QuietAgree
<1>2. QED BY <1>1, SpacedInvariance, PTL

\* bridge.go implements the two-copy mirror, but for liveness: only the side that moved
\* last is copied, field by field, and a user who waits finds the two sides equal.
THEOREM MirrorImplemented == SpacedSpec => Abstract!Init /\ [][Abstract!Next]_Abstract!mvars
<1>1. Init => Abstract!Init
  BY StateAt, HelperAt, StateFunction DEF Init, Abstract!Init
<1>2. QED BY <1>1, SpacedStep, SpacedInvariance, PTL DEF SpacedSpec, MCInit

\* When users wait, no echo moves the endpoint, not even where the link has broken: the
\* event of a push has the value the endpoint still has.
THEOREM EchoMovesNothing == SpacedSpec => EchoNeverMoves
<1>1. ASSUME SpacedInv, NEW d \in Dims, Apply(d), Head(events).src = "bridge"
      PROVE  local' = local
  <2>1. Inv /\ phase = "serve" /\ events # <<>> /\ (OnlyLocal \/ NewsRound)
    BY <1>1 DEF SpacedInv, Apply, NextEvent
  <2>2. ~NewsRound
    <3>1. ASSUME NEW b \in Dims, events = <<Event(b, remote[b], "user")>> PROVE FALSE
      <4>1. Head(events).src = "user" BY <3>1 DEF Event
      <4>2. QED BY <1>1, <4>1
    <3>2. QED BY <3>1 DEF NewsRound
  <2>3. Handle BY <1>1 DEF Handle
  <2>4. QED BY <2>1, <2>2, <2>3, OnlyLocalStep
<1>2. SpacedInv => [EchoStays]_mcvars BY <1>1 DEF EchoStays
<1>3. QED BY <1>2, SpacedInvariance, PTL DEF SpacedSpec, EchoNeverMoves

\* And what is taken for an echo while the endpoint has another value is one: a change
\* of a user who waited finds the stamps too old to match.
THEOREM ExternalFlows == SpacedSpec => ExternalFlowsThrough
<1>1. ASSUME SpacedInv, NEW d \in Dims, IgnoreEcho(d),
             Reads(d, Head(events).val) # local[d]
      PROVE  FALSE
  <2>1. /\ phase = "serve" /\ events # <<>> /\ (OnlyLocal \/ NewsRound)
        /\ events \in Seq(Events) /\ local \in State
    BY <1>1 DEF SpacedInv, Inv, TypeOK, IgnoreEcho, NextEvent
  <2>2. ~NewsRound BY <1>1, BridgeAssumption DEF NewsRound, IgnoreEcho, Fresh
  <2>3. Head(events) = events[1] /\ 1 \in 1..Len(events) BY <2>1, Taken
  <2>4. Head(events).dim = d /\ Head(events).val = Told(d, local[d])
    BY <1>1, <2>1, <2>2, <2>3 DEF OnlyLocal, IgnoreEcho
  <2>5. QED BY <1>1, <2>1, <2>4, StateAt, Conversions
<1>2. SpacedInv => [OnlyEchoIgnored]_mcvars BY <1>1 DEF OnlyEchoIgnored
<1>3. QED BY <1>2, SpacedInvariance, PTL DEF SpacedSpec, ExternalFlowsThrough

\* So the two things the README says of echoes hold of sessions with such users.
THEOREM EchoesToldApart == SpacedSpec => EchoesTold
BY EchoMovesNothing, ExternalFlows, PTL
DEF EchoesTold, EchoNeverMoves, ExternalFlowsThrough

\* No more than eighteen steps are ever left before both sides rest, ...
THEOREM EighteenSteps == SpacedSpec => []BoundedInv
<1>1. MCInit => BoundedInv BY DEF MCInit, Init, BoundedInv
<1>2. QED BY <1>1, BoundedStep, SpacedInvariance, PTL DEF SpacedSpec

\* ... and every step of the bridge, the poller and Home Assistant takes one of them.
THEOREM EveryStepSettles == SpacedSpec => Settles
<1>1. SpacedInv /\ BoundedInv /\ [SpacedNext]_mcvars =>
        [truth # "none" => Bounded /\ (System => Work' \in Nat /\ Work' < Work)]_mcvars
  BY WorkStep DEF BoundedInv
<1>2. QED BY <1>1, EighteenSteps, SpacedInvariance, PTL DEF SpacedSpec, Settles
=============================================================================
