------------------------------- MODULE Authorize -------------------------------
(***************************************************************************)
(* "Connect" on the settings page, from the click to the outcome:          *)
(*   - the POST handler, which starts a flow and then makes its channel    *)
(*     the one that streams read (settings.go:159-185);                    *)
(*   - the flow, a goroutine that opens the browser, waits for the         *)
(*     callback, exchanges the code, saves the account and reports to its  *)
(*     channel (main.go:245-288, oauth.go:77-182);                         *)
(*   - the loopback server of the flow, whose handlers pass one result on; *)
(*   - the stream handler, which moves messages from the channel to the    *)
(*     page (settings.go:188-221), and the page (page.html:229-264).       *)
(*                                                                         *)
(* A click starts at most one flow, so flows, their channels and their     *)
(* streams bear the name of the click.  The button is disabled until its   *)
(* stream ended; a second use of it, in this tab or another, is another    *)
(* click.                                                                  *)
(***************************************************************************)
EXTENDS Naturals, Sequences

CONSTANTS Clicks,     \* uses of the Connect button
          Cap,        \* capacity of a flow's channel, 8 in the code
          AtOnce      \* callbacks the browser may have open at once

\* A flow reports three times on its way and once at its end.
ASSUME AuthAssumption == /\ Cap \in Nat /\ Cap >= 4 /\ AtOnce \in Nat
                         /\ "none" \notin Clicks

VARIABLES
  page,       \* the click, as its page and the POST handler see it
  here,       \* TRUE while the tab of the click is open
  stream,     \* the channel its stream handler reads, or "none"
  seen,       \* the outcome its page was told
  overlap,    \* history: clicks whose start overlapped the start of another
  authCh,     \* App.authCh, the flow in flight
  authChan,   \* Server.authChan, the channel a stream will read
  flow,       \* where the goroutine of each flow is
  verdict,    \* what Authorize returns
  ch,         \* the messages in the flow's channel
  callbacks,  \* handlers of the loopback server at work
  once,       \* TRUE when the once of the flow is done
  result,     \* the result in the channel of one place
  account     \* the flow whose account the configuration holds

pages == <<page, here, stream, seen, overlap>>
loopback == <<callbacks, once, result>>
vars == <<pages, authCh, authChan, flow, verdict, ch, loopback, account>>

-----------------------------------------------------------------------------
Stages == {"info", "success", "error"}
Outcomes == {"success", "error"}

\* The browser knows the URL of the loopback server; the flow is in authCh.
Listening == {"opened", "waiting", "exchanging"}
InFlight == Listening \cup {"new", "shutting", "returned", "saved", "leaving"}

\* The channel is closed.
Ended(f) == flow[f] = "ended"

\* Between the start of its flow and its stream.
Starting(c) == page[c] = "started" \/ (page[c] = "ready" /\ here[c])

TypeOK ==
  /\ page \in [Clicks -> {"idle", "posted", "started", "ready", "following",
                          "done", "refused"}]
  /\ here \in [Clicks -> BOOLEAN] /\ overlap \in SUBSET Clicks
  /\ stream \in [Clicks -> Clicks \cup {"none"}]
  /\ seen \in [Clicks -> Outcomes \cup {"nothing"}]
  /\ authCh \in Clicks \cup {"none"} /\ authChan \in Clicks \cup {"none"}
  /\ account \in Clicks \cup {"none"}
  /\ flow \in [Clicks -> {"none", "closing", "ended"} \cup InFlight]
  /\ verdict \in [Clicks -> Outcomes \cup {"nothing"}]
  /\ ch \in [Clicks -> Seq(Stages)] /\ \A f \in Clicks : Len(ch[f]) <= Cap
  /\ callbacks \in [Clicks -> 0..AtOnce] /\ once \in [Clicks -> BOOLEAN]
  /\ result \in [Clicks -> {"none", "code", "refusal"}]

Init ==
  /\ page = [c \in Clicks |-> "idle"] /\ here = [c \in Clicks |-> TRUE]
  /\ stream = [c \in Clicks |-> "none"] /\ seen = [c \in Clicks |-> "nothing"]
  /\ overlap = {}
  /\ authCh = "none" /\ authChan = "none" /\ account = "none"
  /\ flow = [f \in Clicks |-> "none"] /\ verdict = [f \in Clicks |-> "nothing"]
  /\ ch = [f \in Clicks |-> <<>>]
  /\ callbacks = [f \in Clicks |-> 0] /\ once = [f \in Clicks |-> FALSE]
  /\ result = [f \in Clicks |-> "none"]

-----------------------------------------------------------------------------
(* The page and the handlers of the settings server.                       *)

Click(c) ==
  /\ page[c] = "idle" /\ here[c] /\ page' = [page EXCEPT ![c] = "posted"]
  /\ UNCHANGED <<here, stream, seen, overlap, authCh, authChan, flow, verdict, ch,
                 loopback, account>>

\* The tab is closed or reloaded; its handlers go on.
Leave(c) ==
  /\ here[c] /\ page[c] \notin {"idle", "done", "refused"}
  /\ here' = [here EXCEPT ![c] = FALSE]
  /\ UNCHANGED <<page, stream, seen, overlap, authCh, authChan, flow, verdict, ch,
                 loopback, account>>

\* Mutant of StartAuthorize: authCh is not looked at.
StartAuthorizeAnyway(c) ==
  /\ page[c] = "posted" /\ page' = [page EXCEPT ![c] = "started"]
  /\ authCh' = c /\ flow' = [flow EXCEPT ![c] = "new"]
  /\ UNCHANGED <<here, stream, seen, overlap, authChan, verdict, ch, loopback, account>>

StartAuthorize(c) ==
  /\ page[c] = "posted" /\ authCh = "none"
  /\ page' = [page EXCEPT ![c] = "started"]
  /\ authCh' = c /\ flow' = [flow EXCEPT ![c] = "new"]
  /\ overlap' = LET others == {d \in Clicks : Starting(d)}
                IN  overlap \cup others \cup (IF others = {} THEN {} ELSE {c})
  /\ UNCHANGED <<here, stream, seen, authChan, verdict, ch, loopback, account>>

\* "authorization already in progress"
Refuse(c) ==
  /\ page[c] = "posted" /\ authCh # "none"
  /\ page' = [page EXCEPT ![c] = "refused"]
  /\ UNCHANGED <<here, stream, seen, overlap, authCh, authChan, flow, verdict, ch,
                 loopback, account>>

\* Mutant of SetChan: the page is answered and the channel never set, so that its
\* stream reads what was there before.
AnswerFirst(c) ==
  /\ page[c] = "started" /\ page' = [page EXCEPT ![c] = "ready"]
  /\ UNCHANGED <<here, stream, seen, overlap, authCh, authChan, flow, verdict, ch,
                 loopback, account>>

\* The channel is set and the page answered.
SetChan(c) ==
  /\ page[c] = "started" /\ page' = [page EXCEPT ![c] = "ready"]
  /\ authChan' = c
  /\ UNCHANGED <<here, stream, seen, overlap, authCh, flow, verdict, ch, loopback, account>>

\* new EventSource; a stream without a channel is refused with an HTTP error.
OpenStream(c) ==
  /\ page[c] = "ready" /\ here[c]
  /\ page' = [page EXCEPT ![c] = IF authChan = "none" THEN "done" ELSE "following"]
  /\ stream' = [stream EXCEPT ![c] = authChan]
  /\ UNCHANGED <<here, seen, overlap, authCh, authChan, flow, verdict, ch, loopback, account>>

\* The stream handler takes a message.  The page closes the stream at an outcome;
\* the handler itself returns after an error only.  What it writes for a page that
\* is gone is lost.
Pass(c) ==
  /\ stream[c] # "none" /\ ch[stream[c]] # <<>>
  /\ LET f == stream[c]
         m == Head(ch[f])
         read == m \in Outcomes /\ page[c] = "following" /\ here[c]
     IN  /\ ch' = [ch EXCEPT ![f] = Tail(@)]
         /\ stream' = [stream EXCEPT ![c] = IF m = "error" THEN "none" ELSE @]
         /\ seen' = [seen EXCEPT ![c] = IF read THEN m ELSE @]
         /\ page' = [page EXCEPT ![c] = IF read THEN "done" ELSE @]
  /\ UNCHANGED <<here, overlap, authCh, authChan, flow, verdict, loopback, account>>

\* The channel is closed and empty: the event "done".
PassDone(c) ==
  /\ stream[c] # "none" /\ Ended(stream[c]) /\ ch[stream[c]] = <<>>
  /\ stream' = [stream EXCEPT ![c] = "none"]
  /\ page' = [page EXCEPT ![c] = "done"]
  /\ UNCHANGED <<here, seen, overlap, authCh, authChan, flow, verdict, ch, loopback, account>>

\* The context of a request ends with its connection.
PassCancelled(c) ==
  /\ stream[c] # "none" /\ (page[c] = "done" \/ ~here[c])
  /\ stream' = [stream EXCEPT ![c] = "none"]
  /\ UNCHANGED <<page, here, seen, overlap, authCh, authChan, flow, verdict, ch,
                 loopback, account>>

-----------------------------------------------------------------------------
(* The loopback server.                                                    *)

\* The browser, with the code, with an error, or with anything else.
CallbackBegins(f) ==
  /\ flow[f] \in Listening /\ callbacks[f] < AtOnce
  /\ callbacks' = [callbacks EXCEPT ![f] = @ + 1]
  /\ UNCHANGED <<pages, authCh, authChan, flow, verdict, ch, once, result, account>>

\* Mutant of CallbackReturns: no once, so the second result waits for room.
CallbackSends(f, r) ==
  /\ callbacks[f] > 0 /\ result[f] = "none"
  /\ callbacks' = [callbacks EXCEPT ![f] = @ - 1]
  /\ result' = [result EXCEPT ![f] = r] /\ once' = [once EXCEPT ![f] = TRUE]
  /\ UNCHANGED <<pages, authCh, authChan, flow, verdict, ch, account>>

\* The first result is sent to the channel of one place, later ones are dropped.
CallbackReturns(f, r) ==
  /\ callbacks[f] > 0
  /\ callbacks' = [callbacks EXCEPT ![f] = @ - 1]
  /\ result' = [result EXCEPT ![f] = IF once[f] THEN @ ELSE r]
  /\ once' = [once EXCEPT ![f] = TRUE]
  /\ UNCHANGED <<pages, authCh, authChan, flow, verdict, ch, account>>

-----------------------------------------------------------------------------
(* The flow.                                                               *)

\* A send that gives up when the channel is full.
Emit(f, m) == ch' = [ch EXCEPT ![f] = IF Len(@) < Cap THEN Append(@, m) ELSE @]
Goto(f, pc) == flow' = [flow EXCEPT ![f] = pc]
Decide(f, o) == verdict' = [verdict EXCEPT ![f] = o]

\* The listener or the random numbers fail.
CannotListen(f) ==
  /\ flow[f] = "new" /\ Goto(f, "returned") /\ Decide(f, "error")
  /\ UNCHANGED <<pages, authCh, authChan, ch, loopback, account>>

OpenBrowser(f) ==
  /\ flow[f] = "new" /\ Goto(f, "opened") /\ Emit(f, "info")
  /\ UNCHANGED <<pages, authCh, authChan, verdict, loopback, account>>

\* The browser was opened, or the user is given the URL.
AskUser(f) ==
  /\ flow[f] = "opened" /\ Goto(f, "waiting") /\ Emit(f, "info")
  /\ UNCHANGED <<pages, authCh, authChan, verdict, loopback, account>>

TakeCode(f) ==
  /\ flow[f] = "waiting" /\ result[f] = "code"
  /\ result' = [result EXCEPT ![f] = "none"]
  /\ Goto(f, "exchanging") /\ Emit(f, "info")
  /\ UNCHANGED <<pages, authCh, authChan, verdict, callbacks, once, account>>

TakeRefusal(f) ==
  /\ flow[f] = "waiting" /\ result[f] = "refusal"
  /\ result' = [result EXCEPT ![f] = "none"]
  /\ Goto(f, "shutting") /\ Decide(f, "error")
  /\ UNCHANGED <<pages, authCh, authChan, ch, callbacks, once, account>>

\* Ten minutes, of the context or of the timer.
TimedOut(f) ==
  /\ flow[f] = "waiting" /\ Goto(f, "shutting") /\ Decide(f, "error")
  /\ UNCHANGED <<pages, authCh, authChan, ch, loopback, account>>

\* The token endpoint answers, refuses, or the request times out.
Exchange(f, o) ==
  /\ flow[f] = "exchanging" /\ Goto(f, "shutting") /\ Decide(f, o)
  /\ UNCHANGED <<pages, authCh, authChan, ch, loopback, account>>

\* srv.Shutdown waits for the handlers at work; the once and the channel of the
\* result go with Authorize.
ShutDown(f) ==
  /\ flow[f] = "shutting" /\ callbacks[f] = 0 /\ Goto(f, "returned")
  /\ once' = [once EXCEPT ![f] = FALSE] /\ result' = [result EXCEPT ![f] = "none"]
  /\ UNCHANGED <<pages, authCh, authChan, verdict, ch, callbacks, account>>

\* Mutant of ReportError: the status line has the error, the channel has not.
FailSilently(f) ==
  /\ flow[f] = "returned" /\ verdict[f] = "error" /\ Goto(f, "leaving")
  /\ UNCHANGED <<pages, authCh, authChan, verdict, ch, loopback, account>>

ReportError(f) ==
  /\ flow[f] = "returned" /\ verdict[f] = "error"
  /\ Goto(f, "leaving") /\ Emit(f, "error")
  /\ UNCHANGED <<pages, authCh, authChan, verdict, loopback, account>>

SaveAccount(f) ==
  /\ flow[f] = "returned" /\ verdict[f] = "success"
  /\ Goto(f, "saved") /\ account' = f
  /\ UNCHANGED <<pages, authCh, authChan, verdict, ch, loopback>>

\* ... and kick the bridge loop (module App).
ReportSuccess(f) ==
  /\ flow[f] = "saved" /\ Goto(f, "leaving") /\ Emit(f, "success")
  /\ UNCHANGED <<pages, authCh, authChan, verdict, loopback, account>>

\* The deferred function: authCh is free again, then the channel is closed.
Vacate(f) ==
  /\ flow[f] = "leaving" /\ Goto(f, "closing") /\ authCh' = "none"
  /\ UNCHANGED <<pages, authChan, verdict, ch, loopback, account>>

\* Mutant of CloseChan: the goroutine ends without it.
CloseForgotten(f) ==
  /\ flow[f] = "closing" /\ Goto(f, "gone")
  /\ UNCHANGED <<pages, authCh, authChan, verdict, ch, loopback, account>>

CloseChan(f) ==
  /\ flow[f] = "closing" /\ Goto(f, "ended")
  /\ UNCHANGED <<pages, authCh, authChan, verdict, ch, loopback, account>>

-----------------------------------------------------------------------------
(* Who takes steps.                                                        *)

Post(c) == StartAuthorize(c) \/ Refuse(c) \/ SetChan(c)

Stream(c) == Pass(c) \/ PassDone(c) \/ PassCancelled(c)

Callback(f) == \E r \in {"code", "refusal"} : CallbackReturns(f, r)

Flow(f) == \/ CannotListen(f) \/ OpenBrowser(f) \/ AskUser(f)
           \/ TakeCode(f) \/ TakeRefusal(f) \/ TimedOut(f)
           \/ (\E o \in Outcomes : Exchange(f, o))
           \/ ShutDown(f) \/ ReportError(f) \/ SaveAccount(f) \/ ReportSuccess(f)
           \/ Vacate(f) \/ CloseChan(f)

Next == \E c \in Clicks : \/ Click(c) \/ Leave(c) \/ OpenStream(c) \/ CallbackBegins(c)
                          \/ Post(c) \/ Stream(c) \/ Callback(c) \/ Flow(c)

\* Handlers and flows run; the timers of a flow fire.  Users, browsers and pages
\* need do nothing.
Fairness == \A c \in Clicks : /\ WF_vars(Post(c)) /\ WF_vars(Stream(c))
                              /\ WF_vars(Callback(c)) /\ WF_vars(Flow(c))

Spec == Init /\ [][Next]_vars /\ Fairness

-----------------------------------------------------------------------------
\* "Only one authorize may be in flight at a time" (main.go:244): authCh names the
\* flow that is, until its last message is in the channel.
OneInFlight == \A f \in Clicks : authCh = f <=> flow[f] \in InFlight

\* A page that followed its click to the end was told the outcome of its own
\* flow, unless another click was between its start and its stream at the same
\* time: authChan may then be the other's (settings.go:182-193).  It needs room
\* in the channel for a flow that ends before anybody reads (main.go:263-268).
Told == \A c \in Clicks :
          page[c] = "done" /\ here[c] /\ c \notin overlap =>
            seen[c] \in Outcomes /\ seen[c] = verdict[c]

\* A page does not wait for ever, whichever channel it was given: its flow ends and
\* every channel is closed (page.html:257-258, settings.go:206-212).
Answered ==
  \A c \in Clicks : page[c] = "following" ~> page[c] = "done" \/ ~here[c]

\* How many steps of a flow are left at most, and of the handlers of its loopback server
\* that its end has to wait for.
FlowLeft(f) == IF flow[f] \in {"none", "ended"} THEN 0
               ELSE IF flow[f] = "closing" THEN 1 ELSE IF flow[f] = "leaving" THEN 2
               ELSE IF flow[f] = "saved" THEN 3 ELSE IF flow[f] = "returned" THEN 4
               ELSE IF flow[f] = "shutting" THEN 5 ELSE IF flow[f] = "exchanging" THEN 6
               ELSE IF flow[f] = "waiting" THEN 7 ELSE IF flow[f] = "opened" THEN 8
               ELSE 9
Waited(f) == IF flow[f] \in Listening \cup {"new"} THEN AtOnce ELSE callbacks[f]
Left(f) == FlowLeft(f) + Waited(f)

\* Once it has begun, a flow comes nearer to its end with every step of its own, and
\* from the shutdown of its server on with every handler that returns; nothing the
\* pages, the browser or other flows do takes it back, and it ends with no handler at
\* work (oauth.go:104-178, main.go:254-290).
Bounded(f) == /\ Left(f) \in 0..(9 + AtOnce)
              /\ Left(f) = 0 <=> flow[f] \in {"none", "ended"}
ComesToEnd ==
  [][\A f \in Clicks :
       /\ Bounded(f)
       /\ flow[f] # "none" => Left(f)' <= Left(f)
       /\ Flow(f) \/ (Callback(f) /\ flow[f] \notin Listening) => Left(f)' < Left(f)
    ]_vars

\* Every flow makes room for the next, whatever the browser sends to its loopback
\* server and whoever reads its channel (oauth.go:104-139, main.go:254-259).
FreeAgain == ComesToEnd /\ \A f \in Clicks : authCh = f ~> authCh # f

-----------------------------------------------------------------------------
(* The inductive invariant behind OneInFlight and Told.                     *)

Reported(f) == flow[f] \in {"leaving", "closing", "ended"}

\* A flow belongs to the click that started it.
FlowStarted == \A c \in Clicks : page[c] \in {"idle", "posted", "refused"} <=> flow[c] = "none"

\* There is a verdict from the end of Authorize on, and only success is saved.
Decided == \A f \in Clicks :
  /\ Reported(f) \/ flow[f] \in {"shutting", "returned", "saved"} => verdict[f] \in Outcomes
  /\ flow[f] = "saved" => verdict[f] = "success"

\* How often a flow has reported: the channel never has to drop.
Room == \A f \in Clicks :
  /\ flow[f] \in {"none", "new"} => Len(ch[f]) = 0
  /\ flow[f] = "opened" => Len(ch[f]) <= 1
  /\ flow[f] = "waiting" => Len(ch[f]) <= 2
  /\ flow[f] \in {"exchanging", "shutting", "returned", "saved"} => Len(ch[f]) <= 3

\* Messages are progress, but for the verdict at the end.
Content == \A f \in Clicks : \A i \in 1..Len(ch[f]) :
  ch[f][i] = "info" \/ (Reported(f) /\ ch[f][i] = verdict[f])

\* Two clicks that start at the same time know it, and only they can find the
\* other's channel in authChan or read it.
StartsApart == \A c, d \in Clicks :
  c # d /\ Starting(c) /\ Starting(d) => c \in overlap
OwnChan == \A c \in Clicks : page[c] = "ready" /\ here[c] =>
  authChan = c \/ {authChan, c} \subseteq overlap
OwnStream == \A c \in Clicks :
  /\ stream[c] \in {"none", c} \/ {stream[c], c} \subseteq overlap
  /\ page[c] \notin {"following", "done"} => stream[c] = "none"
  /\ page[c] = "following" /\ here[c] => stream[c] # "none"

\* The verdict waits in the channel for the page that will read it.
Pending == \A c \in Clicks :
  c \notin overlap /\ here[c] /\ page[c] \in {"started", "ready", "following"} /\ Reported(c)
    => ch[c] # <<>> /\ ch[c][Len(ch[c])] = verdict[c]

Followed == \A c \in Clicks : page[c] = "done" /\ here[c] /\ c \notin overlap => Reported(c)

\* A page is told once.
NotTold == \A c \in Clicks : page[c] # "done" => seen[c] = "nothing"

Inv == /\ TypeOK /\ OneInFlight /\ Told /\ NotTold
       /\ FlowStarted /\ Decided /\ Room /\ Content
       /\ StartsApart /\ OwnChan /\ OwnStream /\ Pending /\ Followed
=============================================================================
