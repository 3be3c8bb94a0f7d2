------------------------------ MODULE MCMcpServer ------------------------------
(***************************************************************************)
(* The MCP server over either transport.  Over stdio: two requests, two    *)
(* features, one request of the server's own.  Over HTTP: the sessions,    *)
(* with and without a state, given three POSTs in at most two of them, of  *)
(* which one may be a batch of two messages.  A behaviour is of one        *)
(* transport and the variables of the other stand still, so the run visits *)
(* the sum of their states.                                                *)
(***************************************************************************)
EXTENDS McpServer, McpHttp

CONSTANTS tool, doc, i1, h1, h2, h3

VARIABLE transport

MCFeatures == {tool, doc}
MCKindOf == [f \in MCFeatures |-> IF f = tool THEN "tool" ELSE "resource"]
MCMaxMessages == [h \in Handlers |-> IF h = h2 THEN 2 ELSE 1]

\* features change between two updates, or in a feature's own callback; new ones
\* may also be registered where results are reported
MCUses == ({"register", "modify", "unregister", "roots", "sampling"} \X {"main"})
            \cup ({"modify"} \X {"feature"}) \cup ({"register", "sampling"} \X {"result"})

ASSUME UsesAssumption == QuietResults

serverVars == <<vars, httpVars, transport>>
OverStdio == transport = "stdio" /\ UNCHANGED <<httpVars, transport>>
OverHttp == transport = "http" /\ UNCHANGED <<vars, transport>>

ServerInit ==
    /\ transport \in {"stdio", "http"}
    /\ Init /\ H!Init
    /\ transport = "stdio" => ~stateful

ServerNext == (OverStdio /\ Next) \/ (OverHttp /\ H!Next)

\* Over HTTP every behaviour is finite, so that it is enough that some thread runs on.
HttpRunsOn == H!Update \/ \E h \in Handlers : H!Handle(h)

ServerSpec ==
    /\ ServerInit /\ [][ServerNext]_serverVars
    /\ WF_serverVars((OverStdio /\ Owner) \/ (OverHttp /\ HttpRunsOn))
    /\ WF_serverVars(OverStdio /\ Reader)

\* Every call that was queued is answered over stdio and every POST returns over HTTP, the known
\* exceptions aside (one of each stands for all, which are alike).
EveryCallAnswered == CallAnswered(i1) /\ H!PostReturns(h1)
===============================================================================
