--------------------------------- MODULE MCWS ---------------------------------
(***************************************************************************)
(* WS, and the promises to its callers that it keeps.                      *)
(***************************************************************************)
EXTENDS WS

\* How far a Call or Subscribe is for its caller; the send of unsub is nobody's.
Own(id) == kind[id] # "unsub"
request == [id \in Ids |->
              IF pc[id] = "idle" \/ ~Own(id) THEN "none"
              ELSE IF pc[id] \in {"registered", "waiting"} THEN "asked"
              ELSE IF pc[id] # "streaming" THEN "settled"
              ELSE IF Open(stream[id]) THEN "streaming" ELSE "cut"]

Abstract == INSTANCE Client WITH Ids <- Ids, request <- request,
                                 answered <- {id \in answered : Own(id)},
                                 dead <- closed \/ ~peerUp, over <- ctxDone

\* The client is module Client: every request returns once, with an answer the server
\* gave or because the connection or the context is over; an answered request returns;
\* streams are cut only, but then always, when the connection is dead, whatever the
\* order of Close, the reader, unsub and the callers (ws.go:131-315).
ClientSpec == Abstract!Spec
=============================================================================
