------------------------------- MODULE MCNetwork -------------------------------
(* Two models, a behaviour of one of them each: one network connection, and   *)
(* the MAIP server on top of such connections.                                *)
EXTENDS Network

\* Data of no, one or two cells beyond the head: none, in the buffer, longer than the buffer
MCKinds == {[len |-> 0, op |-> "INF", STOK |-> FALSE], [len |-> 2, op |-> "EXEC", STOK |-> TRUE],
            [len |-> 3, op |-> "EXEC", STOK |-> TRUE], [len |-> 3, op |-> "INF", STOK |-> FALSE],
            [len |-> 0, op |-> "custom", STOK |-> TRUE], [len |-> 0, op |-> "create", STOK |-> TRUE]}
MCAsks == <<2, 1>>

VARIABLE part

allVars == <<part, peerVars, vars>>

AllInit == part \in {"peer", "server"} /\ N!Init /\ Init
InPeer == part = "peer" /\ UNCHANGED <<part, vars>>
InServer == part = "server" /\ UNCHANGED <<part, peerVars>>
AllNext == (InPeer /\ N!Next) \/ (InServer /\ Next)

\* The fairness of both parts.  Of each of these disjunctions only those of one part can ever be
\* taken, so that this is the conjunction of the parts' own; it is stated in few conjuncts because
\* TLC's time grows with each.
AllFairness ==
    /\ WF_allVars((InPeer /\ N!Thread) \/ (InServer /\ OnData(1)))
    /\ WF_allVars((InPeer /\ N!UpdateAccept) \/ (InServer /\ OnData(2)))
    /\ WF_allVars((InPeer /\ N!UpdateDisconnected) \/ (InServer /\ Write(1)))
    /\ WF_allVars((InPeer /\ N!UpdateData) \/ (InServer /\ Write(2)))
    /\ \A c \in Conns : WF_allVars(InServer /\ OnDisconnect(c))
AllSpec == AllInit /\ [][AllNext]_allVars /\ AllFairness

\* A read that was asked for is served unless the flags swallowed it, a connection that ends is
\* reported as disconnected, and a request the server reads to its end is answered.
Served == N!ReadServed /\ N!DisconnectReported /\ RequestAnswered
===============================================================================
