---------------------------------- MODULE WS ----------------------------------
(***************************************************************************)
(* internal/haclient/ws.go: the WebSocket client.  Goroutines that send    *)
(* requests, one reader that hands results and events to them, and Close,  *)
(* which anyone may call and which the reader calls when it cannot read.   *)
(*                                                                         *)
(* A request is identified by its message id.  nextID.Add(1) is atomic, so *)
(* an id is used once: ids are an unordered set, each either idle or owned *)
(* by the goroutine that sent it.  A step is one critical section of mu,   *)
(* one write, one read, or one receive; between any two of them the other  *)
(* goroutines run.                                                         *)
(***************************************************************************)
EXTENDS Naturals

CONSTANTS Ids,        \* the message ids
          EventCap    \* capacity of an event stream (16 in the code)

ASSUME WSAssumption == EventCap \in Nat \ {0}

VARIABLES
  pc,        \* where the goroutine that owns the request is
  kind,      \* what the request is: Call, Subscribe, or the send of unsub
  pending,   \* the ids in w.pending
  subs,      \* the ids in w.subs
  resp,      \* the response channel of each request
  stream,    \* the event channel of each subscription
  stage,     \* how far Close has got
  reader,    \* where readLoop is
  frame,     \* the frame readLoop is handling
  sent,      \* the requests written to the connection
  answered,  \* those whose result the server has sent
  peerUp,    \* FALSE when the connection to the server is lost
  ctxDone,   \* the context given to the calls is cancelled
  health     \* "panic" after a send on, or a close of, a closed channel;
             \* "stuck" when readLoop blocks on a channel while holding mu

callers == <<pc, kind>>
maps == <<pending, subs>>
channels == <<resp, stream>>
server == <<sent, answered, peerUp>>
vars == <<callers, maps, channels, stage, reader, frame, server, ctxDone, health>>

-----------------------------------------------------------------------------
Kinds == {"call", "sub", "unsub"}

\* A channel is open or closed and holds some messages; a closed channel still
\* gives what it holds.
Chan(cap) == [st : {"open", "closed"}, len : 0..cap]
Nil == [st |-> "closed", len |-> 0]
Made == [st |-> "open", len |-> 0]
Open(c) == c.st = "open"
Closed(c) == [c EXCEPT !.st = "closed"]
Put(c) == [c EXCEPT !.len = @ + 1]
Took(c) == [c EXCEPT !.len = @ - 1]

NoFrame == [type |-> "none", id |-> "none"]
OtherFrame == [type |-> "other", id |-> "none"]
Frames == [type : {"result", "event"}, id : Ids] \cup {OtherFrame}

\* The fields of WS.closed and of the connection, told from the stage of Close.
closed == stage # "open"

\* Mutant of connOpen: Close does not close the connection.
connNeverCloses == TRUE

connOpen == stage \in {"open", "flagged"}

TypeOK ==
  /\ pc \in [Ids -> {"idle", "registered", "waiting", "streaming", "unsubbing", "done"}]
  /\ kind \in [Ids -> Kinds]
  /\ pending \in SUBSET Ids /\ subs \in SUBSET Ids
  /\ resp \in [Ids -> Chan(1)] /\ stream \in [Ids -> Chan(EventCap)]
  /\ stage \in {"open", "flagged", "shut", "drained"}
  /\ reader \in {"reading", "handling", "gone"}
  /\ frame \in Frames \cup {NoFrame}
  /\ sent \in SUBSET Ids /\ answered \in SUBSET Ids
  /\ peerUp \in BOOLEAN /\ ctxDone \in BOOLEAN
  /\ health \in {"fine", "panic", "stuck"}

Init ==
  /\ pc = [id \in Ids |-> "idle"] /\ kind = [id \in Ids |-> "call"]
  /\ pending = {} /\ subs = {}
  /\ resp = [id \in Ids |-> Nil] /\ stream = [id \in Ids |-> Nil]
  /\ stage = "open" /\ reader = "reading" /\ frame = NoFrame
  /\ sent = {} /\ answered = {} /\ peerUp = TRUE /\ ctxDone = FALSE
  /\ health = "fine"

-----------------------------------------------------------------------------
(* Requests: send, Call and Subscribe.                                     *)

\* A fresh id and its response channel are put into the map before the write;
\* Subscribe reserves the event stream in the same critical section.
Start(id, k) ==
  /\ pc[id] = "idle" /\ k \in {"call", "sub"}
  /\ pc' = [pc EXCEPT ![id] = "registered"] /\ kind' = [kind EXCEPT ![id] = k]
  /\ pending' = pending \cup {id} /\ resp' = [resp EXCEPT ![id] = Made]
  /\ IF k = "sub"
     THEN subs' = subs \cup {id} /\ stream' = [stream EXCEPT ![id] = Made]
     ELSE UNCHANGED <<subs, stream>>
  /\ UNCHANGED <<stage, reader, frame, server, ctxDone, health>>

\* The send of unsub does not wait for its result.
Write(id) ==
  /\ pc[id] = "registered" /\ connOpen
  /\ sent' = sent \cup {id}
  /\ pc' = [pc EXCEPT ![id] = IF kind[id] = "unsub" THEN "done" ELSE "waiting"]
  /\ UNCHANGED <<kind, maps, channels, stage, reader, frame, answered, peerUp,
                 ctxDone, health>>

\* Mutant of WriteFails: the entries stay in the maps.
WriteFailsKeeps(id) ==
  /\ pc[id] = "registered" /\ (closed \/ ~peerUp)
  /\ pc' = [pc EXCEPT ![id] = "done"]
  /\ UNCHANGED <<kind, maps, channels, stage, reader, frame, server, ctxDone, health>>

\* A write fails on a lost connection, and once Close has begun.
WriteFails(id) ==
  /\ pc[id] = "registered" /\ (closed \/ ~peerUp)
  /\ pending' = pending \ {id} /\ subs' = subs \ {id}
  /\ pc' = [pc EXCEPT ![id] = "done"]
  /\ UNCHANGED <<kind, channels, stage, reader, frame, server, ctxDone, health>>

\* The result arrived.  A Subscribe that was refused gives its slot back.
Receive(id, ok) ==
  /\ pc[id] = "waiting" /\ resp[id].len > 0
  /\ resp' = [resp EXCEPT ![id] = Took(@)]
  /\ LET streams == kind[id] = "sub" /\ ok IN
       /\ pc' = [pc EXCEPT ![id] = IF streams THEN "streaming" ELSE "done"]
       /\ subs' = IF streams THEN subs ELSE subs \ {id}
  /\ UNCHANGED <<kind, pending, stream, stage, reader, frame, server, ctxDone, health>>

ReceiveClosed(id) ==
  /\ pc[id] = "waiting" /\ resp[id].len = 0 /\ ~Open(resp[id])
  /\ pc' = [pc EXCEPT ![id] = "done"]
  /\ UNCHANGED <<kind, maps, channels, stage, reader, frame, server, ctxDone, health>>

\* The context ended first.  The pending entry stays for the late result.
GiveUp(id) ==
  /\ pc[id] = "waiting" /\ ctxDone
  /\ subs' = subs \ {id}
  /\ pc' = [pc EXCEPT ![id] = "done"]
  /\ UNCHANGED <<kind, pending, channels, stage, reader, frame, server, ctxDone, health>>

TakeEvent(id) ==
  /\ pc[id] = "streaming" /\ stream[id].len > 0
  /\ stream' = [stream EXCEPT ![id] = Took(@)]
  /\ UNCHANGED <<callers, maps, resp, stage, reader, frame, server, ctxDone, health>>

\* Mutant of Unsub: the stream is closed and stays in the map.
UnsubKeeps(id) ==
  /\ pc[id] = "streaming"
  /\ pc' = [pc EXCEPT ![id] = "unsubbing"]
  /\ stream' = [stream EXCEPT ![id] = Closed(@)]
  /\ UNCHANGED <<kind, maps, resp, stage, reader, frame, server, ctxDone, health>>

\* unsub: drop and close the stream unless Close has done it, then send.
Unsub(id) ==
  /\ pc[id] = "streaming"
  /\ pc' = [pc EXCEPT ![id] = "unsubbing"]
  /\ subs' = subs \ {id}
  /\ IF id \in subs
     THEN /\ stream' = [stream EXCEPT ![id] = Closed(@)]
          /\ health' = IF Open(stream[id]) THEN health ELSE "panic"
     ELSE UNCHANGED <<stream, health>>
  /\ UNCHANGED <<kind, pending, resp, stage, reader, frame, server, ctxDone>>

SendUnsub(id, u) ==
  /\ pc[id] = "unsubbing" /\ pc[u] = "idle"
  /\ pc' = [pc EXCEPT ![id] = "done", ![u] = "registered"]
  /\ kind' = [kind EXCEPT ![u] = "unsub"]
  /\ pending' = pending \cup {u} /\ resp' = [resp EXCEPT ![u] = Made]
  /\ UNCHANGED <<subs, stream, stage, reader, frame, server, ctxDone, health>>

-----------------------------------------------------------------------------
(* Close.  Only the first call gets past closed.Swap.                      *)

CallClose ==
  /\ stage = "open" /\ stage' = "flagged"
  /\ UNCHANGED <<callers, maps, channels, reader, frame, server, ctxDone, health>>

CloseConn ==
  /\ stage = "flagged" /\ stage' = "shut"
  /\ UNCHANGED <<callers, maps, channels, reader, frame, server, ctxDone, health>>

\* Mutant of Drain: it forgets the streams.
DrainPending ==
  /\ stage = "shut" /\ stage' = "drained"
  /\ resp' = [id \in Ids |-> IF id \in pending THEN Closed(resp[id]) ELSE resp[id]]
  /\ pending' = {}
  /\ UNCHANGED <<callers, subs, stream, reader, frame, server, ctxDone, health>>

Drain ==
  /\ stage = "shut" /\ stage' = "drained"
  /\ resp' = [id \in Ids |-> IF id \in pending THEN Closed(resp[id]) ELSE resp[id]]
  /\ stream' = [id \in Ids |-> IF id \in subs THEN Closed(stream[id]) ELSE stream[id]]
  /\ pending' = {} /\ subs' = {}
  /\ health' = IF /\ \A id \in pending : Open(resp[id])
                  /\ \A id \in subs : Open(stream[id])
               THEN health ELSE "panic"
  /\ UNCHANGED <<callers, reader, frame, server, ctxDone>>

-----------------------------------------------------------------------------
(* readLoop.  Reading a frame and handling it under mu are two steps.      *)

\* The server answers a request once; it sends events for what was subscribed,
\* perhaps before the result and after the unsubscribe.
Read(f) ==
  /\ reader = "reading" /\ connOpen /\ peerUp
  /\ f.type = "result" => f.id \in sent \ answered
  /\ f.type = "event" => f.id \in sent /\ kind[f.id] = "sub"
  /\ answered' = IF f.type = "result" THEN answered \cup {f.id} ELSE answered
  /\ reader' = "handling" /\ frame' = f
  /\ UNCHANGED <<callers, maps, channels, stage, sent, peerUp, ctxDone, health>>

\* Mutant of ReadFails: the reader goes without calling Close.
ReadFailsSilently ==
  /\ reader = "reading" /\ (~connOpen \/ ~peerUp)
  /\ reader' = "gone"
  /\ UNCHANGED <<callers, maps, channels, stage, frame, server, ctxDone, health>>

ReadFails ==
  /\ reader = "reading" /\ (~connOpen \/ ~peerUp)
  /\ reader' = "gone"
  /\ stage' = IF closed THEN stage ELSE "flagged"
  /\ UNCHANGED <<callers, maps, channels, frame, server, ctxDone, health>>

\* Mutant of HandleResult: the entry of the result is not deleted.
HandleResultKeeps ==
  /\ reader = "handling" /\ frame.type = "result"
  /\ resp' = IF frame.id \in pending THEN [resp EXCEPT ![frame.id] = Put(@)] ELSE resp
  /\ reader' = "reading" /\ frame' = NoFrame
  /\ UNCHANGED <<callers, maps, stream, stage, server, ctxDone, health>>

HandleResult ==
  /\ reader = "handling" /\ frame.type = "result"
  /\ IF frame.id \in pending
     THEN LET c == resp[frame.id]
              sendable == Open(c) /\ c.len = 0 IN
          /\ resp' = IF sendable THEN [resp EXCEPT ![frame.id] = Put(@)] ELSE resp
          /\ health' = IF sendable THEN health ELSE IF Open(c) THEN "stuck" ELSE "panic"
          /\ pending' = pending \ {frame.id}
     ELSE UNCHANGED <<resp, health, pending>>
  /\ reader' = "reading" /\ frame' = NoFrame
  /\ UNCHANGED <<callers, subs, stream, stage, server, ctxDone>>

\* A slow consumer loses the event.
HandleEvent ==
  /\ reader = "handling" /\ frame.type = "event"
  /\ IF frame.id \in subs
     THEN LET c == stream[frame.id] IN
          /\ stream' = IF c.len < EventCap THEN [stream EXCEPT ![frame.id] = Put(@)]
                                           ELSE stream
          /\ health' = IF Open(c) THEN health ELSE "panic"
     ELSE UNCHANGED <<stream, health>>
  /\ reader' = "reading" /\ frame' = NoFrame
  /\ UNCHANGED <<callers, maps, resp, stage, server, ctxDone>>

HandleOther ==
  /\ reader = "handling" /\ frame.type = "other"
  /\ reader' = "reading" /\ frame' = NoFrame
  /\ UNCHANGED <<callers, maps, channels, stage, server, ctxDone, health>>

-----------------------------------------------------------------------------
PeerLost == /\ peerUp /\ peerUp' = FALSE
            /\ UNCHANGED <<callers, maps, channels, stage, reader, frame, sent,
                           answered, ctxDone, health>>

CtxDone == /\ ~ctxDone /\ ctxDone' = TRUE
           /\ UNCHANGED <<callers, maps, channels, stage, reader, frame, server, health>>

\* What the goroutine that owns a request does until it returns.
Progress(id) == \/ Write(id) \/ WriteFails(id) \/ ReceiveClosed(id) \/ GiveUp(id)
                \/ \E ok \in BOOLEAN : Receive(id, ok)

ReadLoop == \/ \E f \in Frames : Read(f)
            \/ ReadFails \/ HandleResult \/ HandleEvent \/ HandleOther

Close == CallClose \/ CloseConn \/ Drain

Requests == \E id \in Ids :
              \/ \E k \in Kinds : Start(id, k)
              \/ Progress(id) \/ TakeEvent(id) \/ Unsub(id)
              \/ \E u \in Ids : SendUnsub(id, u)

Next == health = "fine" /\ (Requests \/ Close \/ ReadLoop \/ PeerLost \/ CtxDone)

\* Every goroutine runs; Close is not obliged to be called, but is finished.
Fairness == /\ \A id \in Ids : WF_vars(Progress(id))
            /\ WF_vars(CloseConn) /\ WF_vars(Drain)
            /\ WF_vars(ReadFails)
            /\ WF_vars(HandleResult \/ HandleEvent \/ HandleOther)

Spec == Init /\ [][Next]_vars /\ Fairness

-----------------------------------------------------------------------------
\* readLoop never sends on a closed channel nor blocks on a full one while it
\* holds mu, and no channel is closed twice, whatever the order of Close, unsub
\* and a late result (ws.go:140-149, 170-189, 302-308).
Healthy == health = "fine"

\* Once Close has drained the maps, a goroutine that still waits finds its
\* channel filled or closed: none that registered while the connection was
\* closing is left behind (ws.go:131-151 against 193-211 and 251-269).
NoOrphan ==
  stage = "drained" =>
    \A id \in Ids : pc[id] = "waiting" => resp[id].len > 0 \/ ~Open(resp[id])

\* "The channel closes when the WS closes or on unsubscribe" (ws.go:246).
StreamCloses ==
  \A id \in Ids :
    (stage = "drained" /\ pc[id] = "streaming") \/ pc[id] = "unsubbing"
      => ~Open(stream[id])

\* "Reserve the subscription slot BEFORE sending so we don't race with the
\* server's first event" (ws.go:248): an event read while Subscribe still waits
\* for its result finds the stream, unless Close was first.
EarlyEventKept ==
  frame.type = "event" /\ stage # "drained" =>
    (pc[frame.id] = "waiting" => frame.id \in subs)

\* No slot outlives its owner: a subscription that was refused, given up or
\* ended has no stream in the map, and after Close only requests whose write is
\* about to fail are in the maps.
NoLeak ==
  /\ \A id \in subs : pc[id] \in {"registered", "waiting", "streaming"}
  /\ stage = "drained" => \A id \in pending \cup subs : pc[id] = "registered"

\* An entry of pending outlives the goroutine that made it only as long as the server
\* owes the answer: requests that were given up, refused or unsubscribed do not pile up
\* in a session that lasts (ws.go:170-176, 202-210, 240-246).
EntryOwed ==
  \A id \in pending :
    pc[id] # "registered" => /\ id \in sent
                             /\ id \in answered => frame = [type |-> "result", id |-> id]

-----------------------------------------------------------------------------
(* The inductive invariant behind them.                                     *)

\* Under mu, an entry of pending is a response channel nobody used yet.
PendingUnused == \A id \in pending : pc[id] # "idle" /\ resp[id] = Made

\* Under mu, an entry of subs is an open stream somebody has or will get.
SubsOpen == \A id \in subs : /\ kind[id] = "sub" /\ Open(stream[id])
                             /\ pc[id] \in {"registered", "waiting", "streaming"}

\* A request that is in flight has an entry, or an answer; only Drain takes the
\* entry away, and it closes the channel.
WaitingServed ==
  \A id \in Ids :
    /\ pc[id] = "registered" => id \in pending \/ stage = "drained"
    /\ pc[id] = "waiting" => \/ id \in pending
                             \/ resp[id].len > 0
                             \/ stage = "drained" /\ ~Open(resp[id])

\* A subscription in use has an entry; only Drain takes it away early.
StreamServed ==
  \A id \in Ids :
    /\ pc[id] = "streaming" => kind[id] = "sub"
    /\ pc[id] \in {"registered", "waiting", "streaming"} /\ kind[id] = "sub" =>
         id \in subs \/ (stage = "drained" /\ ~Open(stream[id]))
    /\ pc[id] = "unsubbing" => ~Open(stream[id])

\* What is on its way belongs to a request that was made.
FramesKnown ==
  /\ \A id \in sent : pc[id] \notin {"idle", "registered"}
  /\ frame.type = "result" => frame.id \in sent
  /\ frame.type = "event" => frame.id \in sent /\ kind[frame.id] = "sub"

\* After Drain, only a request about to fail its write gets into the maps.
DrainedMaps ==
  stage = "drained" => \A id \in pending \cup subs : pc[id] = "registered"

\* Between two frames there is none at work.
FrameKept == reader # "handling" <=> frame = NoFrame

\* A result is that of a request the server has answered, and before Drain no response
\* channel somebody waits at is closed.
AnswersKnown ==
  /\ answered \subseteq sent
  /\ frame.type = "result" => frame.id \in answered
  /\ \A id \in Ids : /\ resp[id].len > 0 => id \in answered
                     /\ pc[id] \in {"registered", "waiting"} /\ ~Open(resp[id])
                          => stage = "drained"

Inv == /\ TypeOK /\ Healthy /\ PendingUnused /\ SubsOpen /\ WaitingServed
       /\ StreamServed /\ FramesKnown /\ DrainedMaps /\ AnswersKnown /\ FrameKept
       /\ EntryOwed
=============================================================================
