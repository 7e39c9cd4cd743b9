------------------------------- MODULE MCBridge -------------------------------
(***************************************************************************)
(* Bridge in three environments, from the kindest to the real one, with    *)
(* budgets for what the environment may do.                                *)
(***************************************************************************)
EXTENDS Bridge

CONSTANTS MaxChanges,   \* changes by users, where they are budgeted
          MaxFaults     \* faults, where they are budgeted

VARIABLES changes,      \* changes made so far
          faults        \* faults so far

mcvars == <<vars, changes, faults>>

MCInit == Init /\ changes = 0 /\ faults = 0

Free(A) == A /\ UNCHANGED <<changes, faults>>
User(A) == A /\ changes < MaxChanges /\ changes' = changes + 1 /\ UNCHANGED faults
Fault(A) == A /\ faults < MaxFaults /\ faults' = faults + 1 /\ UNCHANGED changes

MCFairness == /\ WF_mcvars(Free(Connect)) /\ WF_mcvars(Free(Handle))
              /\ WF_mcvars(Free(Poll)) /\ WF_mcvars(Free(Serve))

\* Users move, as often as they like, when the bridge is calm or between two
\* sessions; the link breaks at any time.
SpacedNext == \/ Free(System)
              \/ Free(Tick)
              \/ Free((phase = "down" \/ Calm) /\ Users)
              \/ Free(\E l \in {"lost", "cancelled"} : Break(l))

SpacedSpec == MCInit /\ [][SpacedNext]_mcvars /\ MCFairness

\* Users do not wait, but no time passes while anything is on its way: "state
\* changes are otherwise instantaneous on a LAN".  Every echo is in the window.
LanNext == \/ Free(System)
           \/ Free(Quiet /\ Tick)
           \/ User(Users)

LanSpec == MCInit /\ [][LanNext]_mcvars

\* Everything at any time.
AsyncNext == \/ Free(System)
             \/ Free(Tick)
             \/ User(Users)
             \/ Fault(Faults)

AsyncSpec == MCInit /\ [][AsyncNext]_mcvars

-----------------------------------------------------------------------------
Abstract == INSTANCE Mirror WITH Dims <- Dims, Values <- Values, Shown <- Shown,
                                 Told <- Told, Reads <- Reads,
                                 local <- local, remote <- remote, truth <- truth

\* If users wait for the bridge to be calm, it is the two-copy mirror of module
\* Mirror: only the side that moved last is copied, the two sides agree whenever
\* a user moves again, a new session starts from this machine, and the copying
\* ends.  bridge.go:125-198 with both echo filters.
MirrorSpec == Abstract!Spec

\* When nothing is left to handle, the machine and Home Assistant agree.  It is
\* what the two filters together must never spoil (bridge.go:128, 140, 177, 189).
QuietAgree == Quiet => \A d \in Dims : local[d] = Reads(d, remote[d])

\* With any interleaving, fault and delay: when nothing is left to handle, a
\* field agrees unless this session took for its own echo a value that was not,
\* or missed a change for one of the named reasons: an event dropped by the
\* reader, a call refused, an endpoint that would not be set, a change undone
\* between two polls.  There is no other way to lose a change.
AgreeUnlessBlind == Quiet => \A d \in Dims : blind[d] \/ local[d] = Reads(d, remote[d])

EchoStays == \A d \in Dims : Apply(d) /\ Head(events).src = "bridge" => local' = local
OnlyEchoIgnored ==
  \A d \in Dims : IgnoreEcho(d) /\ Reads(d, Head(events).val) # local[d]
                    => Head(events).src = "bridge"

\* "The matching state_changed event coming back within 2 s is treated as our
\* own echo and ignored" (README): no echo moves the endpoint, where every echo
\* is back within the window.
EchoNeverMoves == [][EchoStays]_mcvars

\* "External changes -- which won't match the stamp -- flow through as real
\* commands" (README): what is ignored as an echo, though the endpoint has
\* another value, is one.
ExternalFlowsThrough == [][OnlyEchoIgnored]_mcvars

\* Where users wait until the bridge is calm, both hold: only an echo is ignored, but
\* where it makes no difference, and no echo moves the endpoint (bridge.go:166-198).
EchoesTold == [][EchoStays /\ OnlyEchoIgnored]_mcvars

-----------------------------------------------------------------------------
(* What is left to do before a session with such users is quiet, in steps:   *)
(* an event may set the endpoint, its next emission makes two calls, and a    *)
(* call may change a helper, which makes an event.                           *)

HalfWork == IF half = "vol" THEN 8 ELSE IF half = "mut" THEN 4 ELSE 0
CallWork == IF call.st = "none" THEN 0 ELSE IF call.st = "sent" THEN 1 ELSE 3

\* An event that will change the endpoint.
News == \E i \in 1..Len(events) : LET e == events[i] IN
          e.dim \in Dims /\ Reads(e.dim, e.val) # local[e.dim]

Work == Len(events) + 9 * Len(emissions) + HalfWork - CallWork
        + (IF seen = local THEN 0 ELSE 10) + (IF News THEN 11 ELSE 0)

\* No more than the 18 steps after a connection are ever left, and none when quiet.
Bounded == Work \in 0..18 /\ (Work = 0 <=> Quiet)

\* The mirror never plays ping-pong with itself: every step of the bridge, the poller
\* and Home Assistant comes nearer to a rest that is never far, whatever the window and
\* the channels.  It is what the echo filters of bridge.go:125-198 are for.
Settles ==
  [][truth # "none" => Bounded /\ (System => Work' \in Nat /\ Work' < Work)]_mcvars

-----------------------------------------------------------------------------
(* The inductive invariant behind MirrorSpec and QuietAgree, of SpacedSpec:  *)
(* a round is what follows the last move of a user, or the connection.       *)

\* Everything under way is the state of the machine.
OnlyLocal ==
  /\ \A i \in 1..Len(emissions) : emissions[i] = local
  /\ \A i \in 1..Len(events) : LET e == events[i] IN
       e.dim \in Dims /\ e.val = Told(e.dim, local[e.dim])
  /\ phase = "serve" /\ half # "none" => cur = local
  /\ call # NoCall => call.val = local[call.dim]

\* And what Home Assistant has of it is there to stay.
LocalRound ==
  /\ OnlyLocal
  /\ \A i \in 1..Len(events) : remote[events[i].dim] = events[i].val
  /\ call.st = "ok" => remote[call.dim] = Told(call.dim, local[call.dim])
  /\ \A d \in Dims : received[d].age < Window \/ (Handled(d) /\ seen = local)
                       => local[d] = Reads(d, remote[d])

\* A change in Home Assistant is the one thing under way, and no echo.
NewsRound ==
  /\ phase = "serve" /\ half = "none" /\ emissions = <<>> /\ seen = local
  /\ \A d \in Dims : pushed[d].age = Window
  /\ \E d \in Dims : /\ events = <<Event(d, remote[d], "user")>>
                     /\ \A c \in Dims \ {d} : local[c] = Reads(c, remote[c])

\* The change has been applied: what follows is the machine's, and no news.
AppliedRound == LocalRound /\ phase = "serve" /\ \A d \in Dims : local[d] = Reads(d, remote[d])

\* The link is up exactly while a side holds the truth, and no call is refused.
Links == /\ truth = "none" <=> link # "up"
         /\ phase = "down" => link # "up"
         /\ call.st # "err"

SpacedInv ==
  /\ Inv /\ Links
  /\ phase # "down" => OnlyLocal \/ NewsRound
  /\ truth = "local" => LocalRound
  /\ truth = "remote" => NewsRound \/ AppliedRound
=============================================================================
