-------------------------------- MODULE MCStore --------------------------------
(***************************************************************************)
(* Store with budgets for what users, the disk and the machine may do, and *)
(* the atomic file it implements.                                          *)
(***************************************************************************)
EXTENDS Store, FiniteSetsExt

CONSTANTS MaxOps,     \* requests of the settings page
          MaxFaults,  \* kills, failed saves, edits of the registry, removals
          MaxMade     \* helpers that may be there or on their way

VARIABLES ops, faults

mcvars == <<vars, ops, faults>>

\* A first start, a file somebody spoiled, and one from before names were saved.
Starts == {Bad("missing"), Bad("garbage"), Whole([Empty EXCEPT !.account = TRUE])}

MCInit == Init /\ file \in Starts /\ ops = 0 /\ faults = 0

Fault == Kill \/ EditRegistry \/ Removals \/ \E w \in Writers : SaveError(w)

SumTable(f) == MapThenSumSet(LAMBDA k : MapThenSumSet(LAMBDA n : f[k][n], Named), 1..Kinds)

\* Helpers there or on their way.
Requested == SumTable(made) + SumTable(late)

\* A name that is never found again is not asked for again and again.
Allowed == IF snap.name \in Slugs THEN MaxMade ELSE Kinds

\* Handlers are interchangeable: one that is idle takes the next request.
NextHandler == CHOOSE h \in Handlers : handler[h] = "idle"

MCNext ==
  \/ /\ Goroutines \/ End
     /\ sess = "looking" /\ sess' = "creating" => Requested < Allowed
     /\ UNCHANGED <<ops, faults>>
  \/ /\ \E h \in Handlers : handler[h] = "idle"
     /\ Request(NextHandler) /\ ops < MaxOps /\ ops' = ops + 1 /\ UNCHANGED faults
  \/ Fault /\ faults < MaxFaults /\ faults' = faults + 1 /\ UNCHANGED ops

MCSpec == MCInit /\ [][MCNext]_mcvars /\ Fairness

-----------------------------------------------------------------------------
Nothing == Bad("missing")
wanted == [w \in Writers |-> IF save[w] = "idle" THEN Nothing ELSE Whole(content[w])]
answer == [w \in Writers |-> IF save[w] \in {"ok", "error"} THEN save[w] ELSE "none"]

File == INSTANCE AtomicFile WITH Contents <- {Whole(c) : c \in Config},
                                 Others <- {Bad("missing"), Bad("garbage")},
                                 Nothing <- Nothing, Writers <- Writers,
                                 file <- file, wanted <- wanted, answer <- answer

\* "Save writes config atomically" (config.go:97): with several writers, errors of
\* the disk and a kill at any step, config.json goes from one whole configuration
\* to another that somebody asked to save, and every save comes to an end.
FileSpec == File!Spec
=============================================================================
