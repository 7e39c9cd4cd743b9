-------------------------------- MODULE Attempt --------------------------------
(***************************************************************************)
(* What "Connect" on the settings page promises, with no callbacks,        *)
(* channels or streams: one attempt to authorize at a time, each ends in   *)
(* one outcome, success means that its account is the one the application  *)
(* holds, and nobody is told of an outcome that has not come.              *)
(***************************************************************************)
CONSTANT Clicks       \* uses of the Connect button; each starts one attempt at most

VARIABLES attempt,    \* how far the attempt of each click is
          account,    \* the click whose account the application holds
          told        \* what the page of each click was told

avars == <<attempt, account, told>>

Outcomes == {"success", "error"}

Init == /\ attempt = [c \in Clicks |-> "none"]
        /\ account = "none"
        /\ told = [c \in Clicks |-> "nothing"]

Begin(c) == /\ attempt[c] = "none" /\ \A d \in Clicks : attempt[d] # "running"
            /\ attempt' = [attempt EXCEPT ![c] = "running"]
            /\ UNCHANGED <<account, told>>

Succeed(c) == /\ attempt[c] = "running"
              /\ attempt' = [attempt EXCEPT ![c] = "success"]
              /\ account' = c
              /\ UNCHANGED told

Fail(c) == /\ attempt[c] = "running"
           /\ attempt' = [attempt EXCEPT ![c] = "error"]
           /\ UNCHANGED <<account, told>>

\* A page is told one outcome, that of an attempt which has it.
Tell(c, o) == /\ told[c] = "nothing" /\ o \in Outcomes
              /\ \E d \in Clicks : attempt[d] = o
              /\ told' = [told EXCEPT ![c] = o]
              /\ UNCHANGED <<attempt, account>>

End(c) == Succeed(c) \/ Fail(c)

Next == \E c \in Clicks : Begin(c) \/ End(c) \/ \E o \in Outcomes : Tell(c, o)

Spec == Init /\ [][Next]_avars /\ \A c \in Clicks : WF_avars(End(c))
=============================================================================
