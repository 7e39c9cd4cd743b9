------------------------------ MODULE MCAuthorize ------------------------------
(***************************************************************************)
(* Authorize, and the attempts it implements.                              *)
(***************************************************************************)
EXTENDS Authorize

\* An attempt has its outcome when the account is saved or the error reported.
attempt == [c \in Clicks |->
              IF flow[c] = "none" THEN "none"
              ELSE IF flow[c] \in {"saved", "leaving", "closing", "ended"} THEN verdict[c]
              ELSE "running"]

Abstract == INSTANCE Attempt WITH Clicks <- Clicks, attempt <- attempt,
                                  account <- account, told <- seen

\* Connect is module Attempt: one attempt at a time, each ends, success is
\* reported after its account is in the configuration, and no page is told an
\* outcome that no attempt has (main.go:245-288, settings.go:188-221).
AttemptSpec == Abstract!Spec
=============================================================================
