------------------------------ MODULE AtomicFile ------------------------------
(***************************************************************************)
(* What "Save writes config atomically" promises: a file that changes, in  *)
(* one step, from one whole content to another that somebody asked to      *)
(* save; a save that fails or is killed leaves it alone, and one that      *)
(* succeeds was in the file.                                               *)
(***************************************************************************)
CONSTANTS Contents,   \* whole contents
          Others,     \* what a file may be before anybody saved
          Nothing,    \* no content
          Writers     \* who saves

VARIABLES file,       \* what a reader finds
          wanted,     \* what a writer is saving, or Nothing
          answer      \* what it was told

fvars == <<file, wanted, answer>>

Init == /\ file \in Contents \cup Others
        /\ wanted = [w \in Writers |-> Nothing]
        /\ answer = [w \in Writers |-> "none"]

Ask(w, c) == /\ wanted[w] = Nothing /\ c \in Contents
             /\ wanted' = [wanted EXCEPT ![w] = c]
             /\ UNCHANGED <<file, answer>>

Succeed(w) == /\ wanted[w] # Nothing /\ answer[w] = "none"
              /\ file' = wanted[w]
              /\ answer' = [answer EXCEPT ![w] = "ok"]
              /\ UNCHANGED wanted

Fail(w) == /\ wanted[w] # Nothing /\ answer[w] = "none"
           /\ answer' = [answer EXCEPT ![w] = "error"]
           /\ UNCHANGED <<file, wanted>>

Return(w) == /\ answer[w] # "none"
             /\ wanted' = [wanted EXCEPT ![w] = Nothing]
             /\ answer' = [answer EXCEPT ![w] = "none"]
             /\ UNCHANGED file

Kill == /\ wanted' = [w \in Writers |-> Nothing]
        /\ answer' = [w \in Writers |-> "none"]
        /\ UNCHANGED file

Next == \/ Kill
        \/ \E w \in Writers : \/ Succeed(w) \/ Fail(w) \/ Return(w)
                              \/ \E c \in Contents : Ask(w, c)

\* Whoever saves is told how it went, unless the process is killed.
Spec == Init /\ [][Next]_fvars
             /\ \A w \in Writers : WF_fvars(Succeed(w) \/ Fail(w))
=============================================================================
