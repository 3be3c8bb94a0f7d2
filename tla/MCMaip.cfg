CONSTANTS
    Sessions = {"s1", "s2"}
    Conns = {"c1", "c2"}
    ConnsOf <- MCConnsOf
    Models = {"m"}
    Procs = {"p1", "p2"}
    Room = 2
    MaxContext = 2
    Nobody = "nobody"
    Users = {"ann", "bob"}
    Tokens = {"t1", "t2"}
    Names = {"m1", "m2"}
    Flags <- MCFlags
    Limits <- MCLimits
    LimitValues = {1, 2}
    Created <- MCCreated
    TornUsers <- MCTornUsers
    TornDescriptions <- MCTornDescriptions
SPECIFICATION AllSpec
INVARIANTS UsersKept ContextsKept
PROPERTIES RightsKept CreationsAnswered
