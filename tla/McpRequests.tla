------------------------------ MODULE McpRequests ------------------------------
(***************************************************************************)
(* What either end of an MCP connection promises for a request it has      *)
(* taken: it stays pending until it is reported, and it is reported once.  *)
(* On the client (mcp_client_server_state.cpp) the report is the call of   *)
(* the application's callback with a result, an error or a timeout.        *)
(***************************************************************************)
CONSTANT Ids

VARIABLE request       \* [Ids -> {"new", "pending", "reported"}]

Init == request = [i \in Ids |-> "new"]

Take(i) ==
    /\ request[i] = "new"
    /\ request' = [request EXCEPT ![i] = "pending"]

Report(i) ==
    /\ request[i] = "pending"
    /\ request' = [request EXCEPT ![i] = "reported"]

Next == \E i \in Ids : Take(i) \/ Report(i)

Safety == Init /\ [][Next]_request

Spec ==
    /\ Safety
    /\ \A i \in Ids : WF_request(Report(i))
===============================================================================
