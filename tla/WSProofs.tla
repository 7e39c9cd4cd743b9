------------------------------- MODULE WSProofs -------------------------------
(***************************************************************************)
(* Safety of the WebSocket client for any number of requests: the          *)
(* invariant Inv of module WS is inductive and implies what the runs check.*)
(***************************************************************************)
EXTENDS MCWS, TLAPS

\* A step of Next is one of these actions.
LEMMA NextCases ==
  ASSUME [Next]_vars
  PROVE  \/ UNCHANGED vars
         \/ \E id \in Ids, k \in Kinds : Start(id, k)
         \/ \E id \in Ids : Write(id)
         \/ \E id \in Ids : WriteFails(id)
         \/ \E id \in Ids, ok \in BOOLEAN : Receive(id, ok)
         \/ \E id \in Ids : ReceiveClosed(id)
         \/ \E id \in Ids : GiveUp(id)
         \/ \E id \in Ids : TakeEvent(id)
         \/ \E id \in Ids : Unsub(id)
         \/ \E id \in Ids, u \in Ids : SendUnsub(id, u)
         \/ CallClose \/ CloseConn \/ Drain
         \/ \E f \in Frames : Read(f)
         \/ ReadFails \/ HandleResult \/ HandleEvent \/ HandleOther
         \/ PeerLost \/ CtxDone
  BY DEF Next, Requests, Progress, Close, ReadLoop

\* A channel stays a channel under what is done to it, and Put and Took keep it
\* open or closed.
LEMMA NilMade == ASSUME NEW cap \in Nat PROVE Nil \in Chan(cap) /\ Made \in Chan(cap)
  BY DEF Nil, Made, Chan

LEMMA Channels ==
  ASSUME NEW cap \in Nat \ {0}, NEW c \in Chan(cap)
  PROVE  /\ Open(Made) /\ Made.len = 0
         /\ Closed(c) \in Chan(cap) /\ ~Open(Closed(c)) /\ Closed(c).len = c.len
         /\ c.len > 0 => Took(c) \in Chan(cap) /\ Open(Took(c)) = Open(c)
         /\ c.len < cap => /\ Put(c) \in Chan(cap) /\ Open(Put(c)) = Open(c)
                           /\ Put(c).len = c.len + 1
  BY DEF Chan, Made, Open, Closed, Took, Put

\* The initial state: nothing made, nothing sent.
LEMMA InitInv == Init => Inv
<1> SUFFICES ASSUME Init PROVE Inv
  OBVIOUS
<1>1. TypeOK
  <2>1. /\ Nil \in Chan(1) /\ Nil \in Chan(EventCap)
    BY WSAssumption, NilMade
  <2>2. /\ resp \in [Ids -> Chan(1)] /\ stream \in [Ids -> Chan(EventCap)]
    BY <2>1 DEF Init
  <2>3. QED
    BY <2>2 DEF Init, TypeOK, Kinds
<1>2. QED
  BY <1>1 DEF Init, Inv, Healthy, PendingUnused, SubsOpen, WaitingServed,
              StreamServed, FramesKnown, DrainedMaps, AnswersKnown, FrameKept,
              EntryOwed, NoFrame, Nil

\* Types are preserved by every step.
LEMMA TypeStep == TypeOK /\ [Next]_vars => TypeOK'
<1> SUFFICES ASSUME TypeOK, [Next]_vars PROVE TypeOK'
  OBVIOUS
<1> USE WSAssumption DEF TypeOK, callers, maps, channels, server
<1>0. CASE UNCHANGED vars
  BY <1>0 DEF vars
<1>1. ASSUME NEW id \in Ids, NEW k \in Kinds, Start(id, k) PROVE TypeOK'
  BY <1>1, NilMade DEF Start
<1>2. ASSUME NEW id \in Ids, Write(id) PROVE TypeOK'
  BY <1>2 DEF Write
<1>3. ASSUME NEW id \in Ids, WriteFails(id) PROVE TypeOK'
  BY <1>3 DEF WriteFails
<1>4. ASSUME NEW id \in Ids, NEW ok \in BOOLEAN, Receive(id, ok) PROVE TypeOK'
  BY <1>4, Channels DEF Receive
<1>5. ASSUME NEW id \in Ids, ReceiveClosed(id) PROVE TypeOK'
  BY <1>5 DEF ReceiveClosed
<1>6. ASSUME NEW id \in Ids, GiveUp(id) PROVE TypeOK'
  BY <1>6 DEF GiveUp
<1>7. ASSUME NEW id \in Ids, TakeEvent(id) PROVE TypeOK'
  BY <1>7, Channels DEF TakeEvent
<1>8. ASSUME NEW id \in Ids, Unsub(id) PROVE TypeOK'
  BY <1>8, Channels DEF Unsub
<1>9. ASSUME NEW id \in Ids, NEW u \in Ids, SendUnsub(id, u) PROVE TypeOK'
  BY <1>9, NilMade DEF SendUnsub, Kinds
<1>10. CASE CallClose
  BY <1>10 DEF CallClose
<1>11. CASE CloseConn
  BY <1>11 DEF CloseConn
<1>12. CASE Drain
  BY <1>12, Channels DEF Drain
<1>13. ASSUME NEW f \in Frames, Read(f) PROVE TypeOK'
  BY <1>13 DEF Read, Frames
<1>14. CASE ReadFails
  BY <1>14 DEF ReadFails
<1>15. CASE HandleResult
  BY <1>15, Channels DEF HandleResult
<1>16. CASE HandleEvent
  BY <1>16, Channels DEF HandleEvent
<1>17. CASE HandleOther
  BY <1>17 DEF HandleOther
<1>18. CASE PeerLost
  BY <1>18 DEF PeerLost
<1>19. CASE CtxDone
  BY <1>19 DEF CtxDone
<1> QED
  BY <1>0, <1>1, <1>2, <1>3, <1>4, <1>5, <1>6, <1>7, <1>8, <1>9, <1>10, <1>11,
     <1>12, <1>13, <1>14, <1>15, <1>16, <1>17, <1>18, <1>19, NextCases
\* Every step preserves the invariant.
LEMMA InvStep == Inv /\ [Next]_vars => Inv'
<1> SUFFICES ASSUME Inv, [Next]_vars PROVE Inv'
  OBVIOUS
<1> USE WSAssumption DEF callers, maps, channels, server
<1>t. TypeOK /\ TypeOK'
  BY TypeStep DEF Inv
<1> DEFINE Parts == /\ Healthy /\ PendingUnused /\ SubsOpen /\ WaitingServed
                    /\ StreamServed /\ FramesKnown /\ DrainedMaps /\ AnswersKnown
                    /\ FrameKept /\ EntryOwed
<1>p. SUFFICES Parts'
  BY <1>t DEF Inv
<1> USE DEF TypeOK, Inv, Healthy, PendingUnused, SubsOpen, WaitingServed,
            StreamServed, FramesKnown, DrainedMaps, AnswersKnown, FrameKept, EntryOwed
<1>0. CASE UNCHANGED vars
  BY <1>t, <1>0, Channels DEF vars
<1>1. ASSUME NEW id \in Ids, NEW k \in Kinds, Start(id, k) PROVE Parts'
  BY <1>t, <1>1, Channels DEF Start, Kinds
<1>2. ASSUME NEW id \in Ids, Write(id) PROVE Parts'
  BY <1>t, <1>2, Channels DEF Write, connOpen
<1>3. ASSUME NEW id \in Ids, WriteFails(id) PROVE Parts'
  BY <1>t, <1>3, Channels DEF WriteFails
<1>4. ASSUME NEW id \in Ids, NEW ok \in BOOLEAN, Receive(id, ok) PROVE Parts'
  BY <1>t, <1>4, Channels DEF Receive
<1>5. ASSUME NEW id \in Ids, ReceiveClosed(id) PROVE Parts'
  BY <1>t, <1>5, Channels DEF ReceiveClosed
<1>6. ASSUME NEW id \in Ids, GiveUp(id) PROVE Parts'
  BY <1>t, <1>6, Channels DEF GiveUp
<1>7. ASSUME NEW id \in Ids, TakeEvent(id) PROVE Parts'
  BY <1>t, <1>7, Channels DEF TakeEvent
<1>8. ASSUME NEW id \in Ids, Unsub(id) PROVE Parts'
  BY <1>t, <1>8, Channels DEF Unsub
<1>9. ASSUME NEW id \in Ids, NEW u \in Ids, SendUnsub(id, u) PROVE Parts'
  BY <1>t, <1>9, Channels DEF SendUnsub, Kinds
<1>10. CASE CallClose
  BY <1>t, <1>10, Channels DEF CallClose
<1>11. CASE CloseConn
  BY <1>t, <1>11, Channels DEF CloseConn
<1>12. CASE Drain
  BY <1>t, <1>12, Channels DEF Drain
<1>13. ASSUME NEW f \in Frames, Read(f) PROVE Parts'
  BY <1>t, <1>13, Channels DEF Read, Frames, OtherFrame, NoFrame, connOpen
<1>14. CASE ReadFails
  BY <1>t, <1>14, Channels DEF ReadFails, closed
<1>15. CASE HandleResult
  BY <1>t, <1>15, Channels DEF HandleResult, Frames, NoFrame, OtherFrame
<1>16. CASE HandleEvent
  BY <1>t, <1>16, Channels DEF HandleEvent, Frames, NoFrame, OtherFrame
<1>17. CASE HandleOther
  BY <1>t, <1>17, Channels DEF HandleOther, Frames, NoFrame, OtherFrame
<1>18. CASE PeerLost
  BY <1>t, <1>18, Channels DEF PeerLost
<1>19. CASE CtxDone
  BY <1>t, <1>19, Channels DEF CtxDone
<1> QED
  BY <1>0, <1>1, <1>2, <1>3, <1>4, <1>5, <1>6, <1>7, <1>8, <1>9, <1>10, <1>11,
     <1>12, <1>13, <1>14, <1>15, <1>16, <1>17, <1>18, <1>19, NextCases

-----------------------------------------------------------------------------
\* The invariant holds in every reachable state: whatever goroutines send,
\* cancel, unsubscribe and close, in whatever order (ws.go:131-315).
THEOREM Invariance == Spec => []Inv
  BY InitInv, InvStep, PTL DEF Spec

\* The variables of the client keep their types.
THEOREM TypeCorrect == Spec => []TypeOK
<1>1. Inv => TypeOK
  BY DEF Inv
<1> QED
  BY <1>1, Invariance, PTL

\* readLoop never panics nor blocks with mu held, and no channel is closed twice
\* (ws.go:140-149, 170-189, 302-308).
THEOREM NoPanicNoBlock == Spec => []Healthy
<1>1. Inv => Healthy
  BY DEF Inv
<1> QED
  BY <1>1, Invariance, PTL

\* No request waits on a closed client for an answer that cannot come
\* (ws.go:131-151 against 193-211 and 251-269).
THEOREM NobodyOrphaned == Spec => []NoOrphan
<1>1. Inv => NoOrphan
  BY DEF Inv, NoOrphan, WaitingServed, DrainedMaps
<1> QED
  BY <1>1, Invariance, PTL

\* The event channel closes when the WS closes or on unsubscribe (ws.go:246).
THEOREM StreamsClose == Spec => []StreamCloses
<1>1. Inv => StreamCloses
  BY DEF Inv, StreamCloses, StreamServed, DrainedMaps
<1> QED
  BY <1>1, Invariance, PTL

\* An event that is read while Subscribe still waits finds its stream
\* (ws.go:248-258).
THEOREM EarlyEventsKept == Spec => []EarlyEventKept
<1>1. Inv => EarlyEventKept
  BY DEF Inv, TypeOK, Frames, NoFrame, OtherFrame, EarlyEventKept, StreamServed,
         FramesKnown
<1> QED
  BY <1>1, Invariance, PTL

\* No slot outlives the request or the subscription it was made for
\* (ws.go:204-209, 263-300).
THEOREM NothingLeaks == Spec => []NoLeak
<1>1. Inv => NoLeak
  BY DEF Inv, NoLeak, SubsOpen, DrainedMaps
<1> QED
  BY <1>1, Invariance, PTL

\* What pending holds beyond a waiting request, the server still owes: nothing piles up
\* in a long session (ws.go:170-176, 202-210, 240-246).
THEOREM EntriesOwed == Spec => []EntryOwed
<1>1. Inv => EntryOwed
  BY DEF Inv
<1> QED
  BY <1>1, Invariance, PTL

-----------------------------------------------------------------------------
(* The promises of module Client.                                          *)

\* How far a request is, told from its owner and its stream.
LEMMA RequestAt ==
  ASSUME NEW id \in Ids
  PROVE  /\ request[id] =
              IF pc[id] = "idle" \/ ~Own(id) THEN "none"
              ELSE IF pc[id] \in {"registered", "waiting"} THEN "asked"
              ELSE IF pc[id] # "streaming" THEN "settled"
              ELSE IF Open(stream[id]) THEN "streaming" ELSE "cut"
         /\ request'[id] =
              IF pc'[id] = "idle" \/ ~Own(id)' THEN "none"
              ELSE IF pc'[id] \in {"registered", "waiting"} THEN "asked"
              ELSE IF pc'[id] # "streaming" THEN "settled"
              ELSE IF Open(stream'[id]) THEN "streaming" ELSE "cut"
BY DEF request, Open

\* The request of one goroutine changes, and no other.
LEMMA OneRequest ==
  ASSUME NEW id \in Ids, NEW r,
         request'[id] = r, \A i \in Ids \ {id} : request'[i] = request[i]
  PROVE  request' = [request EXCEPT ![id] = r]
BY DEF request

LEMMA SameRequests ==
  ASSUME \A i \in Ids : request'[i] = request[i]
  PROVE  request' = request
BY DEF request

\* Steps the callers cannot see.
LEMMA Unseen ==
  ASSUME Inv, [Next]_vars,
         UNCHANGED <<pc, kind, answered, stage, peerUp, ctxDone>>,
         \A id \in Ids : pc[id] = "streaming" => Open(stream'[id]) = Open(stream[id])
  PROVE  UNCHANGED Abstract!cvars
<1>1. \A i \in Ids : request'[i] = request[i] BY RequestAt DEF Own
<1>2. request' = request BY <1>1, SameRequests
<1>3. QED BY <1>2 DEF Abstract!cvars, Own, closed

\* Every step of the client is one its callers were promised, or one they do not see.
LEMMA ClientStep == Inv /\ [Next]_vars => [Abstract!Next]_Abstract!cvars
<1> SUFFICES ASSUME Inv, [Next]_vars PROVE [Abstract!Next]_Abstract!cvars
  OBVIOUS
<1> USE DEF callers, maps, channels, server
<1>t. /\ TypeOK
      /\ answered \subseteq sent
      /\ \A id \in sent : pc[id] \notin {"idle", "registered"}
  BY DEF Inv, AnswersKnown, FramesKnown
<1>0. CASE UNCHANGED vars
  BY <1>0, Unseen DEF vars
<1>1. ASSUME NEW id \in Ids, NEW k \in Kinds, Start(id, k) PROVE Abstract!Ask(id)
  <2>1. /\ request[id] = "none" /\ request'[id] = "asked"
        /\ \A i \in Ids \ {id} : request'[i] = request[i]
    BY <1>t, <1>1, RequestAt DEF Start, Own, TypeOK
  <2>2. {i \in answered' : Own(i)'} = {i \in answered : Own(i)}
    BY <1>t, <1>1 DEF Start, Own, TypeOK
  <2>3. QED BY <1>1, <2>1, <2>2, OneRequest
            DEF Start, Abstract!Ask, Abstract!Becomes, closed
<1>2. ASSUME NEW id \in Ids, Write(id) PROVE UNCHANGED Abstract!cvars
  <2>1. \A i \in Ids : request'[i] = request[i]
    BY <1>t, <1>2, RequestAt DEF Write, Own, TypeOK
  <2>2. request' = request BY <2>1, SameRequests
  <2>3. QED BY <1>2, <2>2 DEF Write, Own, closed, Abstract!cvars
<1>3. ASSUME NEW id \in Ids, NEW r \in {"streaming", "cut", "settled"},
             pc[id] \in {"registered", "waiting"}, Own(id),
             \A i \in Ids \ {id} : request'[i] = request[i], request'[id] = r,
             UNCHANGED <<kind, answered, stage, peerUp, ctxDone>>,
             \/ id \in answered /\ (r = "cut" => closed)
             \/ r = "settled" /\ (closed \/ ~peerUp \/ ctxDone)
      PROVE  Abstract!Settle(id)
  <2>1. request[id] = "asked" BY <1>3, RequestAt
  <2>2. Abstract!Becomes(id, r) BY <1>3, OneRequest DEF Abstract!Becomes, Own, closed
  <2>3. QED BY <1>3, <2>1, <2>2 DEF Abstract!Settle
<1>4. ASSUME NEW id \in Ids, WriteFails(id)
      PROVE  Abstract!Settle(id) \/ UNCHANGED Abstract!cvars
  <2>1. /\ pc' = [pc EXCEPT ![id] = "done"] /\ pc[id] = "registered"
        /\ UNCHANGED <<kind, stream, answered, stage, peerUp, ctxDone>>
        /\ closed \/ ~peerUp
    BY <1>4 DEF WriteFails
  <2>2. /\ \A i \in Ids \ {id} : request'[i] = request[i]
        /\ request'[id] = IF Own(id) THEN "settled" ELSE "none"
    BY <1>t, <2>1, RequestAt DEF Own, TypeOK
  <2>3. CASE Own(id) BY <1>3, <2>1, <2>2, <2>3
  <2>4. CASE ~Own(id)
    <3>1. request' = request BY <2>1, <2>2, <2>4, RequestAt, SameRequests
    <3>2. QED BY <2>1, <3>1 DEF Own, closed, Abstract!cvars
  <2>5. QED BY <2>3, <2>4
<1>5. ASSUME NEW id \in Ids, NEW r \in {"streaming", "cut", "settled"},
             pc[id] = "waiting", \A i \in Ids \ {id} : request'[i] = request[i],
             request'[id] = IF Own(id) THEN r ELSE "none",
             UNCHANGED <<kind, answered, stage, peerUp, ctxDone>>,
             \/ id \in answered /\ (r = "cut" => closed)
             \/ r = "settled" /\ (closed \/ ~peerUp \/ ctxDone)
      PROVE  Abstract!Settle(id) \/ UNCHANGED Abstract!cvars
  <2>1. CASE Own(id) BY <1>3, <1>5, <2>1
  <2>2. CASE ~Own(id)
    <3>1. request' = request BY <1>5, <2>2, RequestAt, SameRequests
    <3>2. QED BY <1>5, <3>1 DEF Own, closed, Abstract!cvars
  <2>3. QED BY <2>1, <2>2
<1>6. ASSUME NEW id \in Ids, NEW ok \in BOOLEAN, Receive(id, ok)
      PROVE  Abstract!Settle(id) \/ UNCHANGED Abstract!cvars
  <2> DEFINE r == IF kind[id] = "sub" /\ ok
                  THEN IF Open(stream[id]) THEN "streaming" ELSE "cut" ELSE "settled"
  <2>1. /\ pc[id] = "waiting"
        /\ pc' = [pc EXCEPT ![id] = IF kind[id] = "sub" /\ ok THEN "streaming"
                                                            ELSE "done"]
        /\ UNCHANGED <<kind, stream, answered, stage, peerUp, ctxDone>>
        /\ id \in answered
    BY <1>6 DEF Receive, Inv, AnswersKnown
  <2>2. r = "cut" => closed
    BY <2>1 DEF Inv, SubsOpen, StreamServed, closed
  <2>3. /\ \A i \in Ids \ {id} : request'[i] = request[i]
        /\ request'[id] = IF Own(id) THEN r ELSE "none"
    BY <1>t, <2>1, RequestAt DEF Own, TypeOK
  <2>4. r \in {"streaming", "cut", "settled"} OBVIOUS
  <2> HIDE DEF r
  <2>5. QED BY <1>5, <2>1, <2>2, <2>3, <2>4
<1>7. ASSUME NEW id \in Ids, ReceiveClosed(id) \/ GiveUp(id)
      PROVE  Abstract!Settle(id) \/ UNCHANGED Abstract!cvars
  <2>1. /\ pc[id] = "waiting" /\ pc' = [pc EXCEPT ![id] = "done"]
        /\ UNCHANGED <<kind, stream, answered, stage, peerUp, ctxDone>>
    BY <1>7 DEF ReceiveClosed, GiveUp
  <2>2. closed \/ ctxDone
    BY <1>7 DEF ReceiveClosed, GiveUp, Inv, AnswersKnown, closed
  <2>3. /\ \A i \in Ids \ {id} : request'[i] = request[i]
        /\ request'[id] = IF Own(id) THEN "settled" ELSE "none"
    BY <1>t, <2>1, RequestAt DEF Own, TypeOK
  <2>4. QED BY <1>5, <2>1, <2>2, <2>3
<1>8. ASSUME NEW id \in Ids, TakeEvent(id) PROVE UNCHANGED Abstract!cvars
  BY <1>t, <1>8, Unseen, Channels, WSAssumption DEF TakeEvent, TypeOK
<1>9. ASSUME NEW id \in Ids, Unsub(id) PROVE Abstract!End(id)
  <2>1. /\ pc[id] = "streaming" /\ pc' = [pc EXCEPT ![id] = "unsubbing"] /\ Own(id)
        /\ UNCHANGED <<kind, answered, stage, peerUp, ctxDone>>
        /\ \A i \in Ids \ {id} : stream'[i] = stream[i]
    BY <1>t, <1>9 DEF Unsub, Own, Inv, StreamServed, TypeOK
  <2>2. /\ request[id] \in {"streaming", "cut"} /\ request'[id] = "settled"
        /\ \A i \in Ids \ {id} : request'[i] = request[i]
    BY <1>t, <2>1, RequestAt DEF Own, TypeOK
  <2>3. QED BY <2>1, <2>2, OneRequest DEF Abstract!End, Abstract!Becomes, Own, closed
<1>10. ASSUME NEW id \in Ids, NEW u \in Ids, SendUnsub(id, u)
       PROVE  UNCHANGED Abstract!cvars
  <2>1. \A i \in Ids : request'[i] = request[i]
    BY <1>t, <1>10, RequestAt DEF SendUnsub, Own, TypeOK
  <2>2. {i \in answered' : Own(i)'} = {i \in answered : Own(i)}
    BY <1>t, <1>10 DEF SendUnsub, Own, TypeOK
  <2>3. QED BY <1>10, <2>1, <2>2, SameRequests DEF SendUnsub, Abstract!cvars, closed
<1>11. CASE CallClose \/ CloseConn \/ ReadFails \/ PeerLost
  <2>1. /\ UNCHANGED <<pc, kind, stream, answered, ctxDone>>
        /\ closed => closed'
        /\ peerUp' => peerUp
    BY <1>11 DEF CallClose, CloseConn, ReadFails, PeerLost, closed
  <2>2. request' = request BY <2>1, RequestAt, SameRequests DEF Own
  <2>3. QED BY <2>1, <2>2 DEF Abstract!Next, Abstract!Die, Abstract!cvars, Own, closed
<1>12. CASE Drain
  <2>1. /\ UNCHANGED <<pc, kind, answered, peerUp, ctxDone>> /\ closed /\ closed'
        /\ \A i \in Ids : pc[i] = "streaming" => ~Open(stream'[i])
    BY <1>t, <1>12 DEF Drain, closed, Inv, StreamServed, TypeOK, Open, Closed
  <2>2. \A i \in Ids :
          request'[i] = IF request[i] = "streaming" THEN "cut" ELSE request[i]
    BY <2>1, RequestAt DEF Own
  <2>3. CASE \E i \in Ids : request[i] = "streaming"
    <3>1. request' = [i \in Ids |-> IF request[i] = "streaming" THEN "cut"
                                                                ELSE request[i]]
      BY <2>2 DEF request
    <3>2. QED BY <2>1, <2>3, <3>1 DEF Abstract!Next, Abstract!Cut, Own
  <2>4. CASE ~\E i \in Ids : request[i] = "streaming"
    BY <2>1, <2>2, <2>4, SameRequests DEF Abstract!cvars, Own
  <2>5. QED BY <2>3, <2>4
<1>13. ASSUME NEW f \in Frames, Read(f) PROVE [Abstract!Next]_Abstract!cvars
  <2>1. UNCHANGED <<pc, kind, stream, stage, peerUp, ctxDone>> BY <1>13 DEF Read
  <2>2. request' = request BY <2>1, RequestAt, SameRequests DEF Own
  <2>3. CASE f.type = "result" /\ Own(f.id)
    <3>1. /\ f.id \in Ids /\ f.id \in sent \ answered /\ answered' = answered \cup {f.id}
      BY <1>13, <2>3 DEF Read, Frames, OtherFrame
    <3>2. request[f.id] # "none" BY <1>t, <2>3, <3>1, RequestAt
    <3>3. {i \in answered' : Own(i)'} = {i \in answered : Own(i)} \cup {f.id}
      BY <2>1, <2>3, <3>1 DEF Own
    <3>4. Abstract!Answer(f.id)
      BY <2>1, <2>2, <3>1, <3>2, <3>3 DEF Abstract!Answer, closed
    <3>5. QED BY <3>1, <3>4 DEF Abstract!Next
  <2>4. CASE ~(f.type = "result" /\ Own(f.id))
    <3>1. {i \in answered' : Own(i)'} = {i \in answered : Own(i)}
      BY <1>13, <2>1, <2>4 DEF Read, Own
    <3>2. QED BY <2>1, <2>2, <3>1 DEF Abstract!cvars, closed
  <2>5. QED BY <2>3, <2>4
<1>14. CASE HandleResult \/ HandleEvent \/ HandleOther
  <2>1. UNCHANGED <<pc, kind, answered, stage, peerUp, ctxDone>>
    BY <1>14 DEF HandleResult, HandleEvent, HandleOther
  <2>2. \A i \in Ids : Open(stream'[i]) = Open(stream[i])
    BY <1>t, <1>14, Channels, WSAssumption
    DEF HandleResult, HandleEvent, HandleOther, TypeOK
  <2>3. QED BY <2>1, <2>2, Unseen
<1>15. CASE CtxDone
  <2>1. request' = request BY <1>15, RequestAt, SameRequests DEF CtxDone, Own
  <2>2. QED BY <1>15, <2>1 DEF CtxDone, Abstract!Next, Abstract!Over, Own, closed
<1>16. QED
  BY <1>0, <1>1, <1>2, <1>4, <1>6, <1>7, <1>8, <1>9, <1>10, <1>11, <1>12, <1>13, <1>14,
     <1>15, NextCases
  DEF Abstract!Next

\* The client keeps the promises of module Client, but for liveness: a request returns
\* once, and never without an answer, a dead connection or a done context; a stream is
\* cut only when the connection is dead, and Close cuts them all (ws.go:131-315).
THEOREM ClientPromises == Spec => Abstract!Init /\ [][Abstract!Next]_Abstract!cvars
<1>1. Init => Abstract!Init BY DEF Init, Abstract!Init, request, Own, closed
<1>2. QED BY <1>1, ClientStep, Invariance, PTL DEF Spec
=============================================================================
