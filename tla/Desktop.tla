-------------------------------- MODULE Desktop --------------------------------
(***************************************************************************)
(* The tray over the endpoint: Refresh reads a status from the application *)
(* and shows it under the tray's mutex (tray.go:63-89).  It is called by   *)
(* the bridge loop after most changes of the status, by a ticker every     *)
(* 750 ms, and by onReady, which makes the menu (main.go:322-381, 396-411, *)
(* tray.go:91-113).                                                        *)
(*                                                                         *)
(* A status is read in pieces: the endpoint first, which takes its time,   *)
(* then the text and the flag (main.go:138-156).  Volume and Muted are the *)
(* same accessor; one of them stands for both here.                        *)
(***************************************************************************)
EXTENDS Endpoint

\* The goroutines that refresh the tray are the readers of the endpoint.
ASSUME DesktopAssumption == Readers = {"loop", "ticker", "main"}

VARIABLES
  status,     \* the text and the connected flag: how often they were set
  text,       \* the status a refresh has read
  ready,      \* TRUE when the menu items exist
  shown       \* what the menu and the icon show

tray == <<status, text, ready, shown>>
vars == <<evars, tray>>

TypeOK ==
  /\ ETypeOK
  /\ status \in Nat /\ text \in [Readers -> Nat] /\ ready \in BOOLEAN
  /\ shown \in [title : Nat, icon : Nat, volume : Values \cup {"none"}]

Init ==
  /\ EInit
  /\ status = 0 /\ text = [r \in Readers |-> 0] /\ ready = FALSE
  /\ shown = [title |-> 0, icon |-> 0, volume |-> "none"]

-----------------------------------------------------------------------------
Begin(r) == /\ at[r] = "off" /\ Take(r, "vol")
            /\ UNCHANGED <<machine, client, vol, mut, retried, cancelled, together>>

\* bridgeLoop and the timer of a session: set the status, refresh.
Report == Begin("loop") /\ status' = status + 1 /\ UNCHANGED <<text, ready, shown>>

\* A status nobody refreshes for: the authorize flow, a kick (main.go:260-271).
SetStatus == status' = status + 1 /\ UNCHANGED <<evars, text, ready, shown>>

Tick == Begin("ticker") /\ UNCHANGED tray

\* systray.Run calls onReady once.
OnReady == ~ready /\ Begin("main") /\ UNCHANGED tray

\* Status: the endpoint is used, then the text is read.
Status(r, v) == /\ Volume(r, v, "show") /\ text' = [text EXCEPT ![r] = status]
                /\ UNCHANGED <<status, ready, shown>>

\* The menu is made with the title that was read; a refresh follows.
MakeMenu ==
  /\ at["main"] = "show" /\ ~ready /\ Take("main", "vol")
  /\ ready' = TRUE
  /\ shown' = [shown EXCEPT !.title = text["main"], !.icon = text["main"]]
  /\ UNCHANGED <<machine, client, vol, mut, retried, cancelled, together, status, text>>

\* Mutant of Show: a status that is shown already is not shown again.
ShowWhenNew(r) ==
  /\ at[r] = "show" /\ (r = "main" => ready) /\ Goto(r, "off")
  /\ shown' = IF ready /\ (text[r] # shown.title \/ shown.volume = "none")
              THEN [title |-> text[r], icon |-> text[r], volume |-> vol[r]]
              ELSE [shown EXCEPT !.icon = text[r]]
  /\ vol' = [vol EXCEPT ![r] = "error"] /\ text' = [text EXCEPT ![r] = 0]
  /\ UNCHANGED <<machine, client, taken, mut, retried, cancelled, together, status, ready>>

\* Items that do not exist are passed over; the icon is set in any case.
Show(r) ==
  /\ at[r] = "show" /\ (r = "main" => ready) /\ Goto(r, "off")
  /\ shown' = IF ready
              THEN [title |-> text[r], icon |-> text[r], volume |-> vol[r]]
              ELSE [shown EXCEPT !.icon = text[r]]
  /\ vol' = [vol EXCEPT ![r] = "error"] /\ text' = [text EXCEPT ![r] = 0]
  /\ UNCHANGED <<machine, client, taken, mut, retried, cancelled, together, status, ready>>

Refreshing(r) == (\E v \in Values : Status(r, v)) \/ Show(r)

-----------------------------------------------------------------------------
Watching(w) == Poll(w) /\ UNCHANGED tray

Sessions == \E w \in Watchers : (Watch(w) \/ Cancel(w)) /\ UNCHANGED tray

Machine == (Devicing \/ \E w \in Watchers : ActivateFails(w)) /\ UNCHANGED tray

Statuses == Report \/ SetStatus

System == \/ (\E w \in Watchers : Watching(w))
          \/ (\E r \in Readers : Refreshing(r))
          \/ Tick \/ OnReady \/ MakeMenu

Next == System \/ Sessions \/ Machine \/ Statuses

\* Goroutines run, COM calls return, the ticker ticks, the bridge takes what a
\* watcher sends; nothing is assumed of devices, sessions and statuses.  select picks
\* at random: a watcher that finds its context done time and again leaves.
Fairness == /\ \A w \in Watchers : WF_vars(Watching(w)) /\ SF_vars(Leave(w) /\ UNCHANGED tray)
            /\ \A r \in Readers : WF_vars(Refreshing(r))
            /\ WF_vars(Tick) /\ WF_vars(OnReady) /\ WF_vars(MakeMenu)

Spec == Init /\ [][Next]_vars /\ Fairness

-----------------------------------------------------------------------------
(* What the safety properties of Endpoint rest on.                         *)

\* A goroutine has an endpoint in its hands in two places.
Hands == \A g \in Goroutines : at[g] \in {"vol", "mutUse"} <=> taken[g] # "none"

Met == \A w, x \in Watchers : w # x /\ Running(w) /\ Running(x) => w \in together

\* A watcher that is alone still has the endpoint whose volume it has read.
Alone == \A w \in Watchers :
           at[w] \in {"mut", "mutUse"} /\ w \notin together /\ vol[w] # "error" => vol[w] = endpoint

Inv == TypeOK /\ Balanced /\ SafeUse /\ OneDevice /\ Hands /\ Met /\ Alone

-----------------------------------------------------------------------------
\* While a session watches, the endpoint comes to be one that is plugged in, if
\* there is a default device at all: unplugged, gone and back, or exchanged
\* (audio_windows.go:186-193).
Recovers ==
  \A w \in Watchers : <>[](Running(w) /\ ~cancelled[w]) => <>[](default # "none" => Works)

\* Once the status and the devices are at rest the tray shows them, though a refresh
\* reads before it takes the mutex and may overwrite a newer one, some changes are
\* not refreshed for, and the first come before there is a menu (tray.go:63-89).
TrayFresh ==
  <>[](shown = [title |-> status, icon |-> status,
                volume |-> IF Works THEN endpoint ELSE "error"])
=============================================================================
