--------------------------------- MODULE Store ---------------------------------
(***************************************************************************)
(* What the application keeps outside its memory, over kills and restarts: *)
(* the configuration file, the Run key of the registry and the helpers in  *)
(* Home Assistant.                                                         *)
(*   - Handlers of the settings page change the live configuration and     *)
(*     save it under cfgMu (main.go:182-230).                              *)
(*   - A session takes a snapshot, makes sure that its helpers exist and   *)
(*     saves the snapshot (bridge.go:44-55, 219-275).  Module App shows    *)
(*     that no two of them are alive, and has the loop around them.        *)
(***************************************************************************)
EXTENDS ConfigFile

CONSTANTS Handlers,   \* requests to the settings server at once
          Kinds,      \* helpers of a session, created in this order: 1..Kinds
          Slugs       \* names that Home Assistant makes the very entity id of

\* The derived name is one (hostSlug).
ASSUME StoreAssumption == /\ Writers = Handlers \cup {"session"}
                          /\ "session" \notin Handlers /\ "free" \notin Writers
                          /\ Kinds \in Nat \ {0}
                          /\ Slugs \subseteq Names \cup {"default"} /\ "default" \in Slugs

VARIABLES
  up,         \* TRUE while the process runs
  live,       \* App.cfg
  cfgMu,      \* who holds cfgMu for a change, or "free"
  handler,    \* "on", "off": the registry was written, the flag is not
  reg,        \* TRUE when the Run key starts this program
  sess,       \* where the session is
  snap,       \* its snapshot
  kind,       \* the helper it is at
  order,      \* its request to create one
  removed,    \* history: kinds of helpers removed since the session had them
  late,       \* requests of sessions that are gone, still on their way
  made,       \* helpers that exist in Home Assistant, by kind and name asked for
  reason,     \* history: why the file is not the live configuration
  apart,      \* history: what pulled the flag and the registry apart
  delayed     \* history: Home Assistant served a request of a session that was gone

coord == <<live, cfgMu, handler>>
session == <<sess, snap, kind, order, removed>>
ha == <<late, made>>
history == <<reason, apart, delayed>>
vars == <<files, up, coord, reg, session, ha, history>>

-----------------------------------------------------------------------------
Named == Names \cup {"default"}
Filled(c) == [c EXCEPT !.name = IF @ = "unset" THEN "default" ELSE @]
Same(c, d) == Filled(c) = Filled(d)

Toggling(h) == handler[h] \in {"on", "off"}

\* Only an entity whose id is the name asked for is found again.
Exists(k, n) == n \in Slugs /\ made[k][n] > 0

\* The session has its helper of kind k: it found it, or it was created.
Has(k) == \/ sess \in {"saving", "serving"}
          \/ sess # "off" /\ (k < kind \/ (k = kind /\ order = "served"))

\* Why the flag in the live configuration may not be the registry's: a first start finds
\* them different, somebody edited the key, two toggles overlapped, or the next start
\* finds an older flag in the file, because the process was killed between the registry
\* and the file, a handler's save failed, or a session saved its older snapshot.
Causes == {"found", "edited", "crossed", "killed", "unsaved", "stale"}
Blame(c) == IF apart = "none" THEN c ELSE apart

\* Numbers by kind and name.
Counts == [1..Kinds -> [Named -> Nat]]

TypeOK ==
  /\ FileTypeOK
  /\ up \in BOOLEAN /\ live \in Config /\ cfgMu \in Handlers \cup {"free"}
  /\ handler \in [Handlers -> {"idle", "on", "off", "saving"}] /\ reg \in BOOLEAN
  /\ sess \in {"off", "looking", "creating", "saving", "serving"}
  /\ snap \in Config /\ kind \in 1..Kinds /\ order \in {"none", "sent", "served"}
  /\ removed \in SUBSET (1..Kinds)
  /\ late \in Counts /\ made \in Counts
  /\ reason \in {"none", "failed", "older"} /\ apart \in Causes \cup {"none"}
  /\ delayed \in BOOLEAN

Init ==
  /\ FileInit
  /\ up = TRUE /\ live = Load /\ cfgMu = "free"
  /\ handler = [h \in Handlers |-> "idle"] /\ reg \in BOOLEAN
  /\ sess = "off" /\ snap = Empty /\ kind = 1 /\ order = "none" /\ removed = {}
  /\ late = [k \in 1..Kinds |-> [n \in Named |-> 0]]
  /\ made = [k \in 1..Kinds |-> [n \in Named |-> 0]]
  /\ reason = "none" /\ delayed = FALSE
  /\ apart = IF reg = Load.startup THEN "none" ELSE "found"

-----------------------------------------------------------------------------
(* Handlers of the settings page.                                          *)

\* Mutant of Change: the copy is saved after cfgMu was given back.
ChangeUnlocked(h, c) ==
  /\ cfgMu = "free" /\ handler' = [handler EXCEPT ![h] = "saving"]
  /\ live' = c /\ Save(h, c)
  /\ UNCHANGED <<cfgMu, up, reg, session, ha, reason, delayed>>

\* Take cfgMu, change the live configuration, and call Save.
Change(h, c) ==
  /\ cfgMu = "free" /\ cfgMu' = h
  /\ handler' = [handler EXCEPT ![h] = "saving"]
  /\ live' = c /\ Save(h, c)
  /\ UNCHANGED <<up, reg, session, ha, reason, delayed>>

SetAccount(h, b) ==
  up /\ handler[h] = "idle" /\ Change(h, [live EXCEPT !.account = b]) /\ UNCHANGED apart

SaveConfig(h, n) ==
  up /\ handler[h] = "idle" /\ Change(h, [live EXCEPT !.name = n]) /\ UNCHANGED apart

\* Mutant of SetEnabled: an error of the registry is not looked at.
SetEnabledAnyway(h, b) ==
  /\ up /\ handler[h] = "idle"
  /\ handler' = [handler EXCEPT ![h] = IF b THEN "on" ELSE "off"]
  /\ reg' \in {reg, b}
  /\ apart' = IF \E g \in Handlers : Toggling(g) THEN Blame("crossed") ELSE apart
  /\ UNCHANGED <<files, up, live, cfgMu, session, ha, reason, delayed>>

\* startup.SetEnabled writes or deletes the key; when it fails nothing happens.
SetEnabled(h, b) ==
  /\ up /\ handler[h] = "idle"
  /\ handler' = [handler EXCEPT ![h] = IF b THEN "on" ELSE "off"]
  /\ reg' = b
  /\ apart' = IF \E g \in Handlers : Toggling(g) THEN Blame("crossed") ELSE apart
  /\ UNCHANGED <<files, up, live, cfgMu, session, ha, reason, delayed>>

\* The last toggle under way brings the two together again, unless it crossed another.
SetRunAtStartup(h) ==
  /\ up /\ Toggling(h) /\ Change(h, [live EXCEPT !.startup = (handler[h] = "on")])
  /\ apart' = IF live'.startup = reg /\ (\A g \in Handlers \ {h} : ~Toggling(g))
              THEN "none" ELSE apart

HandlerReturns(h) ==
  /\ handler[h] = "saving" /\ Returned(h)
  /\ handler' = [handler EXCEPT ![h] = "idle"]
  /\ cfgMu' = "free"
  /\ UNCHANGED <<up, live, reg, session, ha, history>>

-----------------------------------------------------------------------------
(* Save, and what its end means for the live configuration.                *)

SaveGoesOn(w) ==
  /\ Lock(w) \/ Open(w) \/ Write(w)
  /\ UNCHANGED <<up, coord, reg, session, ha, history>>

SaveEnds(w) ==
  /\ Rename(w)
  /\ reason' = IF w = "session" /\ ~Same(content[w], live) THEN "older" ELSE "none"
  /\ UNCHANGED <<up, coord, reg, session, ha, apart, delayed>>

SaveError(w) ==
  /\ SaveFails(w) /\ reason' = IF w = "session" THEN reason ELSE "failed"
  /\ UNCHANGED <<up, coord, reg, session, ha, apart, delayed>>

-----------------------------------------------------------------------------
(* A session.                                                              *)

Start ==
  /\ up /\ sess = "off" /\ cfgMu = "free" /\ live.account
  /\ sess' = "looking" /\ snap' = Filled(live) /\ kind' = 1
  /\ UNCHANGED <<files, up, coord, reg, order, removed, ha, history>>

\* Mutant of Found: the first helper that is there ends the search.
FoundOne ==
  /\ order' = "none" /\ sess' = "saving" /\ Save("session", snap)
  /\ UNCHANGED kind

\* The helper is there: on to the next one, or save.
Found ==
  /\ order' = "none"
  /\ IF kind < Kinds
       THEN /\ kind' = kind + 1 /\ sess' = "looking"
            /\ UNCHANGED files
       ELSE /\ sess' = "saving" /\ Save("session", snap)
            /\ UNCHANGED kind

LookFinds ==
  /\ sess = "looking" /\ Exists(kind, snap.name) /\ Found
  /\ UNCHANGED <<up, coord, reg, snap, removed, ha, history>>

\* Mutant of LookMisses: create without a look.
CreateAnyway ==
  /\ sess = "looking" /\ sess' = "creating" /\ order' = "sent"
  /\ UNCHANGED <<files, up, coord, reg, snap, kind, removed, ha, history>>

LookMisses ==
  /\ sess = "looking" /\ ~Exists(kind, snap.name)
  /\ sess' = "creating" /\ order' = "sent"
  /\ UNCHANGED <<files, up, coord, reg, snap, kind, removed, ha, history>>

\* The result of the create call.
Created ==
  /\ sess = "creating" /\ order = "served" /\ Found
  /\ UNCHANGED <<up, coord, reg, snap, removed, ha, history>>

SnapshotSaved ==
  /\ sess = "saving" /\ Returned("session") /\ sess' = "serving"
  /\ UNCHANGED <<up, coord, reg, snap, kind, order, removed, ha, history>>

\* Requests that nobody waits for any more.
Abandon == late' = IF order = "sent" THEN [late EXCEPT ![kind][snap.name] = @ + 1] ELSE late

\* An error, the connection or the context; a Save in progress is finished first.
End ==
  /\ sess \in {"looking", "creating", "serving"}
  /\ sess' = "off" /\ snap' = Empty /\ kind' = 1 /\ order' = "none" /\ Abandon
  /\ removed' = {}
  /\ UNCHANGED <<files, up, coord, reg, made, history>>

-----------------------------------------------------------------------------
(* Home Assistant: input_number/create and input_boolean/create, and what  *)
(* its users remove.                                                       *)

Serve ==
  /\ order = "sent" /\ order' = "served"
  /\ made' = [made EXCEPT ![kind][snap.name] = @ + 1]
  /\ UNCHANGED <<files, up, coord, reg, sess, snap, kind, removed, late, history>>

ServeLate(k, n) ==
  /\ late[k][n] > 0 /\ late' = [late EXCEPT ![k][n] = @ - 1]
  /\ made' = [made EXCEPT ![k][n] = @ + 1] /\ delayed' = TRUE
  /\ UNCHANGED <<files, up, coord, reg, session, reason, apart>>

LoseLate(k, n) ==
  /\ late[k][n] > 0 /\ late' = [late EXCEPT ![k][n] = @ - 1]
  /\ UNCHANGED <<files, up, coord, reg, session, made, history>>

\* Its entity goes; a session that has it does nothing about it (bridge.go:161-163).
Remove(k, n) ==
  /\ made[k][n] > 0 /\ made' = [made EXCEPT ![k][n] = @ - 1]
  /\ removed' = IF n = snap.name /\ Has(k) THEN removed \cup {k} ELSE removed
  /\ UNCHANGED <<files, up, coord, reg, sess, snap, kind, order, late, history>>

-----------------------------------------------------------------------------
(* The machine: the process is killed at any moment and starts again; the  *)
(* user edits the Run key.                                                 *)

\* A handler has written the registry, and its flag is not in the file yet.
Midway(h) == \/ Toggling(h)
             \/ /\ save[h] \notin {"idle", "ok", "error"}
                /\ content[h].startup # Load.startup

\* Why the next start finds another flag than the registry's.
LostFlag == IF \E h \in Handlers : Midway(h) THEN "killed"
            ELSE IF reason = "failed" THEN "unsaved"
            ELSE IF reason = "older" THEN "stale" ELSE "none"

Kill ==
  /\ up /\ up' = FALSE /\ FileKilled
  /\ cfgMu' = "free" /\ handler' = [h \in Handlers |-> "idle"]
  /\ sess' = "off" /\ snap' = Empty /\ kind' = 1 /\ order' = "none" /\ Abandon
  /\ removed' = {}
  /\ apart' = IF Load.startup = reg THEN "none" ELSE Blame(LostFlag)
  /\ UNCHANGED <<live, reg, made, reason, delayed>>

Restart ==
  /\ ~up /\ up' = TRUE
  /\ live' = Load /\ reason' = "none"
  /\ UNCHANGED <<files, cfgMu, handler, reg, session, ha, apart, delayed>>

EditRegistry ==
  /\ reg' = ~reg /\ apart' = Blame("edited")
  /\ UNCHANGED <<files, up, coord, session, ha, reason, delayed>>

-----------------------------------------------------------------------------
Saving(w) == SaveGoesOn(w) \/ SaveEnds(w)

Session == Start \/ LookFinds \/ LookMisses \/ Created \/ SnapshotSaved

Answers == Serve \/ \E k \in 1..Kinds, n \in Named : ServeLate(k, n) \/ LoseLate(k, n)

Removals == \E k \in 1..Kinds, n \in Named : Remove(k, n)

Request(h) == \/ \E b \in BOOLEAN : SetAccount(h, b) \/ SetEnabled(h, b)
              \/ \E n \in Names \cup {"unset"} : SaveConfig(h, n)

Goroutines == \/ (\E h \in Handlers : SetRunAtStartup(h) \/ HandlerReturns(h))
              \/ (\E w \in Writers : Saving(w))
              \/ Session \/ Answers \/ Restart

Next == \/ Goroutines \/ End \/ Kill \/ EditRegistry \/ Removals
        \/ (\E h \in Handlers : Request(h))
        \/ (\E w \in Writers : SaveError(w))

\* A save that has begun goes on.
Fairness == \A w \in Writers : WF_vars(Saving(w))

Spec == Init /\ [][Next]_vars /\ Fairness

-----------------------------------------------------------------------------
\* Between two changes, the next start would find the live configuration, unless a
\* handler's save failed after it had changed it (main.go:184-188), or a session has
\* written the snapshot it started from over a later change (bridge.go:55).
FileCurrent == up /\ cfgMu = "free" => Same(Load, live) \/ reason # "none"

\* The flag of the live configuration is the registry's, over restarts too, but for one
\* of six causes since the two last agreed: a first start found them different, somebody
\* edited the key, two toggles overlapped, or a start found an older flag in the file,
\* because the process was killed between the registry and the file, because a handler's
\* save had failed, or because a session had saved its older snapshot over the flag
\* (main.go:221-229, bridge.go:55).
FlagMirrors ==
  up /\ (\A h \in Handlers : ~Toggling(h)) => live.startup = reg \/ apart # "none"

\* "RunAtStartup mirrors the registry Run-key state" (config.go:34), also when nothing
\* failed, nobody edited the key, no two toggles overlapped and no kill came in between.
MirrorsRegistry ==
  up /\ (\A h \in Handlers : ~Toggling(h)) =>
    live.startup = reg \/ apart \notin {"none", "stale"}

\* There is one helper of each kind of a name that Home Assistant takes as it is, whatever
\* answers were lost, however often the process was killed and whatever was removed,
\* unless a request was served after its session had given up on it (bridge.go:226-250).
OneHelper ==
  \A k \in 1..Kinds, n \in Named : n \in Slugs /\ ~delayed => made[k][n] <= 1

\* A session that serves such a name has both helpers, whether it found or created each,
\* so that its calls have an entity to act on, but for what was removed after the session
\* had it (bridge.go:161-163, 219-224).
ServesExisting ==
  sess \in {"saving", "serving"} /\ snap.name \in Slugs =>
    \A k \in 1..Kinds : made[k][snap.name] > 0 \/ k \in removed

-----------------------------------------------------------------------------
(* The inductive invariant behind them.                                     *)

Writing(w) == save[w] \in {"locked", "opened", "written"}

\* saveMu belongs to the writer at work, and what it wrote is in the temporary file.
SaveOwned == \A w \in Writers : /\ Writing(w) <=> saveMu = w
                                /\ save[w] = "written" => tmp = Whole(content[w])

FileWhole == file.is # "partial" /\ (file.is # "whole" => file.of = Empty)

\* A handler that saves has cfgMu, and saves the live configuration; a session saves
\* its snapshot; a process that is down does neither.
ChangeOwned ==
  /\ \A h \in Handlers : /\ handler[h] = "saving" <=> cfgMu = h
                         /\ save[h] # "idle" <=> cfgMu = h
                         /\ save[h] # "idle" => content[h] = live
  /\ save["session"] # "idle" <=> sess = "saving"
  /\ ~up => /\ cfgMu = "free" /\ sess = "off"
            /\ \A h \in Handlers : handler[h] = "idle"

Current ==
  up /\ (cfgMu # "free" => save[cfgMu] \in {"ok", "error"}) =>
    Same(Load, live) \/ reason # "none"

\* One toggle at a time has the registry's value; a process that is down left it in
\* the file.
FlagKnown ==
  apart = "none" =>
    /\ \A g, h \in Handlers : Toggling(g) /\ Toggling(h) => g = h
    /\ \A h \in Handlers : Toggling(h) => reg = (handler[h] = "on")
    /\ ~up => Load.startup = reg

\* A helper that the session had is there, or was removed since.
There(k) == made[k][snap.name] > 0 \/ k \in removed

\* Where a session is with its helpers.
OrderKnown ==
  /\ order # "none" => sess = "creating"
  /\ order = "served" => There(kind)
  /\ order = "sent" /\ snap.name \in Slugs /\ ~delayed => made[kind][snap.name] = 0
  /\ sess # "off" => snap.name # "unset" /\ \A k \in 1..(kind - 1) : There(k)
  /\ sess \in {"saving", "serving"} => \A k \in 1..Kinds : There(k)

Inv == /\ TypeOK /\ SaveOwned /\ FileWhole /\ ChangeOwned /\ Current /\ FlagKnown
       /\ FlagMirrors /\ OneHelper /\ OrderKnown
=============================================================================
