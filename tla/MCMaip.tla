--------------------------------- MODULE MCMaip ---------------------------------
(* Three behaviours, one of them each: two users without model descriptions,   *)
(* one user with two model descriptions, and the contexts of two sessions, the *)
(* first of which has two connections.                                         *)
EXTENDS MaipContexts, MaipAccounts

VARIABLE part

MCConnsOf == [s1 |-> {"c1", "c2"}, s2 |-> {"c1"}]
MCFlags == {"USER_CD", "CTX_MODIFY", "LOAD"}
MCLimits == {"max_context_length", "batch_size"}
MCTornUsers == {{}, {"super", "flags", "models", "static"}}
MCTornDescriptions == {{}, {"original"}}

CreatedWith(super, static, flags, context, batch) ==
    [super |-> super, static |-> static, flags |-> flags, models |-> {},
     limits |-> [l \in MCLimits |-> IF l = "batch_size" THEN batch ELSE context]]
\* A superuser, a static user who may create and delete users, one who may change a limit
CreatedUsers == {CreatedWith(TRUE, FALSE, {}, 2, 1), CreatedWith(FALSE, TRUE, {"USER_CD"}, 2, 1),
                 CreatedWith(FALSE, FALSE, {"CTX_MODIFY"}, 2, 1)}
\* A user who may describe models, perhaps a superuser, whose batch is cut to the context
CreatedDescribers == {CreatedWith(super, FALSE, {"LOAD"}, 1, 2) : super \in BOOLEAN}
MCCreated == CreatedUsers \cup CreatedDescribers

ASSUME ContextsAssumption == ConstantsFit

\* Of the requests only some are made: those about users, which may not describe models
P == INSTANCE MaipUsers WITH
        Names <- {}, Flags <- {"USER_CD", "CTX_MODIFY"},
        Created <- CreatedUsers, TornDescriptions <- {}, mSessionMap <- tokens
\* or those about descriptions, by one user in one session
D == INSTANCE MaipUsers WITH
        Users <- {"ann"}, Tokens <- {"t1"}, Flags <- {"LOAD"}, LimitValues <- {1},
        Created <- CreatedDescribers, TornUsers <- {{}}, mSessionMap <- tokens

contextVars == vars
allVars == <<part, userVars, contextVars>>

AllInit == part \in {"users", "descriptions", "contexts"} /\ U!Init /\ Init
AllNext ==
    \/ part = "users" /\ P!Next /\ UNCHANGED <<part, contextVars>>
    \/ part = "descriptions" /\ D!Next /\ UNCHANGED <<part, contextVars>>
    \/ part = "contexts" /\ Next /\ UNCHANGED <<part, userVars>>
AllSpec == AllInit /\ [][AllNext]_allVars /\ (part = "contexts" => Fairness)
===============================================================================
