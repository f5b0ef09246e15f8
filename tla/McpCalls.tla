------------------------------ MODULE McpCalls ------------------------------
(***************************************************************************)
(* The refinement mapping from McpClient to Calls: a request that waits is *)
(* an open call, and a reply counts wherever it is on its way - in the     *)
(* pipe, in the queue, set aside or returned.                              *)
(***************************************************************************)
EXTENDS McpClient

callOf ==
    [i \in Ids |->
        IF i > ident THEN "unmade"
        ELSE IF i = ident /\ at = "waiting" THEN "open"
        ELSE IF \E g \in given : g[1] = i THEN "answered"
        ELSE "failed"]

Abstract == INSTANCE Calls
                WITH MaxCalls <- MaxRequests, call <- callOf,
                     replied <- InPipe \cup Queued \cup aside \cup Returned,
                     returned <- given, serving <- server = "up"

(* The client is what its callers take it for: through timeouts, replies   *)
(* that come late and out of order, and a server that exits anywhere,      *)
(* every call ends at most once, with the reply made to it or with an      *)
(* error, before the next one is made, and nothing waits on a call the     *)
(* server cannot have got (request, mcp_client.py:188-212).                *)
CallsEndInOrder == Abstract!CallsSpec
=============================================================================
