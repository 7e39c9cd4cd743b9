------------------------------- MODULE Endpoint -------------------------------
(***************************************************************************)
(* internal/audio: the handles of the default output device.  The pollers  *)
(* of Watch and any other goroutine read through the endpoint they take    *)
(* under mu and use after it; a poller that fails to read releases the     *)
(* handles and acquires new ones (audio_windows.go:68-97, 114-213).        *)
(*                                                                         *)
(* What is read is represented by the device it is read from.  A handle    *)
(* that is used after its release may give anything.                       *)
(***************************************************************************)
EXTENDS Integers

CONSTANTS Devices,    \* output devices
          Watchers,   \* goroutines of Watch that may be alive at once
          Readers     \* other goroutines that read, set or mute the endpoint

Goroutines == Watchers \cup Readers

ASSUME EndpointAssumption == /\ Watchers \cap Readers = {}
                             /\ {"none", "nil", "error"} \cap Devices = {}

VARIABLES
  plugged,    \* the devices there are
  default,    \* the default one
  endpoint,   \* winClient.endpoint: "nil", or the device it is of
  device,     \* TRUE when winClient.device is not nil
  refs,       \* endpoint and device handles acquired less those released
  at,         \* where a goroutine is
  taken,      \* the endpoint it took: nil, the one that is held, a released one
  vol, mut,   \* what it read
  retried,    \* TRUE after refreshDefault in this poll
  cancelled,  \* the context of a watcher is done
  together    \* history: watchers that were alive at the same time as another

machine == <<plugged, default>>
client == <<endpoint, device, refs>>
reading == <<at, taken, vol, mut, retried>>
evars == <<machine, client, reading, cancelled, together>>

-----------------------------------------------------------------------------
Values == Devices \cup {"error"}

\* What a read through an endpoint gives.  Any call may fail, also when the device is
\* still there; nil is an error.
Reads(handle) == CASE handle = "nil" -> {"error"}
                   [] handle = "held" -> ({endpoint} \cap plugged) \cup {"error"}
                   [] handle = "released" -> Values

Running(w) == at[w] # "off"

ETypeOK ==
  /\ plugged \subseteq Devices /\ default \in plugged \cup {"none"}
  /\ endpoint \in Devices \cup {"nil"} /\ device \in BOOLEAN
  /\ refs \in [endpoint : Nat, device : Nat]
  /\ at \in [Goroutines -> {"off", "vol", "mut", "mutUse", "refresh", "send", "wait", "show"}]
  /\ taken \in [Goroutines -> {"none", "nil", "held", "released"}]
  /\ vol \in [Goroutines -> Values] /\ mut \in [Watchers -> Values]
  /\ retried \in [Watchers -> BOOLEAN] /\ cancelled \in [Watchers -> BOOLEAN]
  /\ together \subseteq Watchers

\* openImpl has found a device; without one the application runs without audio.
EInit ==
  /\ plugged \in SUBSET Devices /\ default \in plugged
  /\ endpoint = default /\ device = TRUE /\ refs = [endpoint |-> 1, device |-> 1]
  /\ at = [g \in Goroutines |-> "off"] /\ taken = [g \in Goroutines |-> "none"]
  /\ vol = [g \in Goroutines |-> "error"] /\ mut = [w \in Watchers |-> "error"]
  /\ retried = [w \in Watchers |-> FALSE] /\ cancelled = [w \in Watchers |-> TRUE]
  /\ together = {}

-----------------------------------------------------------------------------
(* Accessors: the endpoint is taken under mu, and used after it.           *)

Goto(g, pc) == at' = [at EXCEPT ![g] = pc]

\* c.mu.Lock(); ep := c.endpoint; c.mu.Unlock()
Take(g, pc) ==
  /\ taken' = [taken EXCEPT ![g] = IF endpoint = "nil" THEN "nil"
                                  ELSE IF refs.endpoint = 0 THEN "released" ELSE "held"]
  /\ Goto(g, pc)

Use(g, v, pc) ==
  v \in Reads(taken[g]) /\ taken' = [taken EXCEPT ![g] = "none"] /\ Goto(g, pc)

\* A goroutine at "vol" has taken the endpoint to read the volume.
Volume(g, v, pc) ==
  /\ at[g] = "vol" /\ Use(g, v, pc) /\ vol' = [vol EXCEPT ![g] = v]
  /\ UNCHANGED <<machine, client, mut, retried, cancelled, together>>

TakeMuted(w) ==
  /\ at[w] = "mut" /\ Take(w, "mutUse")
  /\ UNCHANGED <<machine, client, vol, mut, retried, cancelled, together>>

\* Then: both values were read, or it is time to recover, or that did not help.
Muted(w, v) ==
  /\ at[w] = "mutUse" /\ mut' = [mut EXCEPT ![w] = v]
  /\ Use(w, v, IF vol[w] # "error" /\ v # "error" THEN "send"
               ELSE IF retried[w] THEN "wait" ELSE "refresh")
  /\ UNCHANGED <<machine, client, vol, retried, cancelled, together>>

-----------------------------------------------------------------------------
(* refreshDefault: all of it under mu.                                     *)

\* What others took of the endpoint is released under them.
Pulled == [g \in Goroutines |-> IF taken[g] = "held" THEN "released" ELSE taken[g]]

\* References left after the release of what is not nil.
Kept == [endpoint |-> refs.endpoint - (IF endpoint # "nil" THEN 1 ELSE 0),
         device |-> refs.device - (IF device THEN 1 ELSE 0)]

\* Mutant of Again: what failed is read again, what did not is kept.
AgainHalf(w) == IF vol[w] = "error"
                THEN taken' = [Pulled EXCEPT ![w] = "held"] /\ Goto(w, "vol")
                ELSE taken' = Pulled /\ Goto(w, "mut")

\* Both values are read again.
Again(w) == taken' = [Pulled EXCEPT ![w] = "held"] /\ Goto(w, "vol")

Refresh(w) ==
  /\ at[w] = "refresh" /\ default # "none"
  /\ endpoint' = default /\ device' = TRUE
  /\ refs' = [endpoint |-> Kept.endpoint + 1, device |-> Kept.device + 1]
  /\ retried' = [retried EXCEPT ![w] = TRUE] /\ Again(w)
  /\ UNCHANGED <<machine, vol, mut, cancelled, together>>

\* Mutant of NoDefault: the pointers keep what was released.
NoDefaultKeeps(w) ==
  /\ at[w] = "refresh" /\ default = "none" /\ Goto(w, "wait")
  /\ taken' = Pulled /\ refs' = Kept
  /\ UNCHANGED <<machine, endpoint, device, vol, mut, retried, cancelled, together>>

NoDefault(w) ==
  /\ at[w] = "refresh" /\ default = "none" /\ Goto(w, "wait")
  /\ taken' = Pulled /\ refs' = Kept /\ endpoint' = "nil" /\ device' = FALSE
  /\ UNCHANGED <<machine, vol, mut, retried, cancelled, together>>

\* Mutant of ActivateFails: the device that was found is not released.
ActivateFailsLeaks(w) ==
  /\ at[w] = "refresh" /\ default # "none" /\ Goto(w, "wait")
  /\ taken' = Pulled /\ refs' = [Kept EXCEPT !.device = @ + 1]
  /\ endpoint' = "nil" /\ device' = FALSE
  /\ UNCHANGED <<machine, vol, mut, retried, cancelled, together>>

\* The device is found and released again, since it cannot be activated.
ActivateFails(w) ==
  /\ at[w] = "refresh" /\ default # "none" /\ Goto(w, "wait")
  /\ taken' = Pulled /\ refs' = Kept /\ endpoint' = "nil" /\ device' = FALSE
  /\ UNCHANGED <<machine, vol, mut, retried, cancelled, together>>

-----------------------------------------------------------------------------
(* Watch.                                                                  *)

\* bridge.Run calls Watch; the former session was cancelled, but its watcher may
\* still be in the middle of a poll.
Watch(w) ==
  /\ at[w] = "off" /\ (\A x \in Watchers : cancelled[x]) /\ Take(w, "vol")
  /\ cancelled' = [cancelled EXCEPT ![w] = FALSE]
  /\ LET others == {x \in Watchers : Running(x)}
     IN  together' = IF others = {} THEN together \ {w} ELSE together \cup others \cup {w}
  /\ UNCHANGED <<machine, client, vol, mut, retried>>

Cancel(w) ==
  /\ ~cancelled[w] /\ cancelled' = [cancelled EXCEPT ![w] = TRUE]
  /\ UNCHANGED <<machine, client, reading, together>>

Forget(w) == /\ vol' = [vol EXCEPT ![w] = "error"] /\ mut' = [mut EXCEPT ![w] = "error"]

\* The state is sent, if it differs from the last; then the wait for the ticker.
Sent(w) ==
  /\ at[w] = "send" /\ Goto(w, "wait") /\ Forget(w)
  /\ UNCHANGED <<machine, client, taken, retried, cancelled, together>>

\* Mutant of NextPoll: one recovery in the life of a watcher.
NextPollKeeps(w) ==
  /\ at[w] = "wait" /\ Take(w, "vol") /\ Forget(w)
  /\ UNCHANGED <<machine, client, retried, cancelled, together>>

NextPoll(w) ==
  /\ at[w] = "wait" /\ Take(w, "vol") /\ Forget(w)
  /\ retried' = [retried EXCEPT ![w] = FALSE]
  /\ UNCHANGED <<machine, client, cancelled, together>>

\* The two waits see the context.
Leave(w) ==
  /\ at[w] \in {"send", "wait"} /\ cancelled[w] /\ Goto(w, "off") /\ Forget(w)
  /\ retried' = [retried EXCEPT ![w] = FALSE]
  /\ UNCHANGED <<machine, client, taken, cancelled, together>>

-----------------------------------------------------------------------------
(* The machine.                                                            *)

Unplug(d) ==
  /\ d \in plugged /\ plugged' = plugged \ {d}
  /\ IF default = d THEN default' \in (IF plugged' = {} THEN {"none"} ELSE plugged')
                    ELSE default' = default
  /\ UNCHANGED <<client, reading, cancelled, together>>

\* A device that is plugged in may become the default one.
Plug(d) ==
  /\ d \notin plugged /\ plugged' = plugged \cup {d}
  /\ default' \in IF default = "none" THEN {d} ELSE {default, d}
  /\ UNCHANGED <<client, reading, cancelled, together>>

SwitchDefault(d) ==
  /\ d \in plugged /\ d # default /\ default' = d
  /\ UNCHANGED <<plugged, client, reading, cancelled, together>>

Devicing == \E d \in Devices : Unplug(d) \/ Plug(d) \/ SwitchDefault(d)

Poll(w) == \/ TakeMuted(w)
           \/ (\E v \in Values : Volume(w, v, "mut") \/ Muted(w, v))
           \/ Refresh(w) \/ NoDefault(w)
           \/ Sent(w) \/ NextPoll(w) \/ Leave(w)

-----------------------------------------------------------------------------
Works == endpoint \in plugged

\* The client has one reference for each pointer that is not nil and no other:
\* nothing leaks and nothing is released twice, whichever step of refreshDefault
\* fails (audio_windows.go:73-95).
Balanced == /\ refs.endpoint = IF endpoint # "nil" THEN 1 ELSE 0
            /\ refs.device = IF device THEN 1 ELSE 0
            /\ device <=> endpoint # "nil"

\* A watcher that meets no other one never uses an endpoint it has released itself,
\* whatever call fails and whichever step of refreshDefault fails after the release
\* (audio_windows.go:73-95, 114-120, 186-192).
SafeUse == \A w \in Watchers : taken[w] = "released" => w \in together

\* What openImpl says: the interfaces are only touched "from the goroutine that owns
\* them" (audio_windows.go:34-36), so that nobody uses what another one has released.
\* A call that fails in a poller is enough to break it.
NoUseAfterRelease == \A g \in Goroutines : taken[g] # "released"

\* The volume and the mute flag that a watcher sends are of one device, though it
\* may have changed between the two reads, unless two watchers met (186-194).
OneDevice == \A w \in Watchers :
               at[w] = "send" /\ w \notin together => vol[w] = mut[w] /\ vol[w] # "error"
=============================================================================
