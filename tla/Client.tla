--------------------------------- MODULE Client ---------------------------------
(***************************************************************************)
(* What the WebSocket client promises to those who call it, with no maps,  *)
(* ids, frames or channels: a request returns once, with the answer of the *)
(* server or because the connection or the context is over; a stream is    *)
(* cut when the connection is dead, and then every stream is; nobody waits *)
(* for ever where there is a reason to return.                             *)
(***************************************************************************)
CONSTANT Ids          \* the requests

VARIABLES request,    \* how far each Call and Subscribe is
          answered,   \* those the server has answered
          dead,       \* the connection is closed or lost
          over        \* the context of the callers is done

cvars == <<request, answered, dead, over>>

Init == /\ request = [id \in Ids |-> "none"]
        /\ answered = {} /\ dead = FALSE /\ over = FALSE

Becomes(id, r) == /\ request' = [request EXCEPT ![id] = r]
                  /\ UNCHANGED <<answered, dead, over>>

Ask(id) == request[id] = "none" /\ Becomes(id, "asked")

Answer(id) == /\ request[id] # "none" /\ id \notin answered
              /\ answered' = answered \cup {id}
              /\ UNCHANGED <<request, dead, over>>

\* A request returns for one of three reasons, and only an answer makes a stream.
Settle(id) == /\ request[id] = "asked"
              /\ \/ id \in answered /\ Becomes(id, "streaming")
                 \/ id \in answered /\ dead /\ Becomes(id, "cut")
                 \/ (id \in answered \/ dead \/ over) /\ Becomes(id, "settled")

Cut == /\ dead /\ \E id \in Ids : request[id] = "streaming"
       /\ request' = [id \in Ids |-> IF request[id] = "streaming" THEN "cut"
                                                                  ELSE request[id]]
       /\ UNCHANGED <<answered, dead, over>>

End(id) == request[id] \in {"streaming", "cut"} /\ Becomes(id, "settled")

Die == ~dead /\ dead' = TRUE /\ UNCHANGED <<request, answered, over>>
Over == ~over /\ over' = TRUE /\ UNCHANGED <<request, answered, dead>>

Next == \/ \E id \in Ids : Ask(id) \/ Answer(id) \/ Settle(id) \/ End(id)
        \/ Cut \/ Die \/ Over

Spec == Init /\ [][Next]_cvars /\ WF_cvars(Cut) /\ \A id \in Ids : WF_cvars(Settle(id))
=============================================================================
