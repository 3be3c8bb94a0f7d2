------------------------------- MODULE MaipServer -------------------------------
(***************************************************************************)
(* How InfMaipServerBase and InfMaipDefaultServer                          *)
(* (inference/inf_maip_server.cpp) make requests out of what connections   *)
(* deliver.  A request is a head of one cell and len cells of data.  A     *)
(* read overlays what came on the buffer of the connection and on_data is  *)
(* given the whole buffer; data that is longer than the buffer is          *)
(* accumulated in mAccumulationMap, under the socket of the connection.    *)
(* Clients ask one thing at a time.                                        *)
(***************************************************************************)
EXTENDS Naturals, SequencesExt

CONSTANTS
    Conns,          \* 1..n: connections, each made once
    BufferSize,     \* gNetDefaultPacketSize, at least two cells
    Kinds,          \* requests: records [len, op, STOK]; op "create" is inf_create_context, an INF
                    \* request that the program answers itself
    Asks            \* bound: requests of each connection

ConstantsFit ==
    /\ Cardinality(Conns) \in Nat /\ Conns = 1..Cardinality(Conns)
    /\ BufferSize \in Nat \ {0}
    /\ Kinds \subseteq [len : Nat, op : {"INF", "EXEC", "custom", "create"}, STOK : BOOLEAN]
    /\ Asks \in [Conns -> Nat]
ASSUME RequestsAssumption == ConstantsFit

VARIABLES
    running,            \* FALSE once an exception has left on_data
    socket,             \* [Conns -> descriptor], 0 before accept
    state,              \* [Conns -> {"none", "open", "closed", "reported"}]
    mPacketContent,     \* [Conns -> [1..BufferSize -> cell]]
    reading, writing,   \* [Conns -> BOOLEAN]: the signals of the connection
    mAccumulationMap,   \* descriptor -> [ask, mDataToRead, mAccumulatedData]
    asked,              \* [Conns -> Seq(Kinds)]
    stream,             \* [Conns -> Seq(cell)]: sent and not yet received
    waiting,            \* [Conns -> BOOLEAN]: the client has no answer yet
    held,               \* connections whose request the program has to answer
    run,                \* history: the content of the accumulated request that ran last
    odd                 \* history: connections that got a "short" read, another's data
                        \* ("inherited"), or whose answer, or another's, went astray ("strayed")

netVars == <<socket, state, reading, writing>>
clientVars == <<asked, stream, waiting>>
vars == <<running, netVars, mPacketContent, mAccumulationMap, clientVars, held, run, odd>>

Empty == <<0, 0, 0>>                        \* a byte of the buffer nothing was received into
Request(c, k) == [i \in 1..(asked[c][k].len + 1) |-> <<c, k, i - 1>>]
IsHead(cell) == cell # Empty /\ cell[3] = 0
Data(ask) == Tail(Request(ask[1], ask[2]))
KindOf(ask) == asked[ask[1]][ask[2]]
NoRun == [conn |-> 0, ask |-> <<0, 0>>, data |-> <<>>]
Cells == {Empty} \cup UNION {{c} \X (1..Asks[c]) \X (0..q.len) : c \in Conns, q \in Kinds}

TypeOK ==
    /\ running \in BOOLEAN
    /\ socket \in [Conns -> 0..Cardinality(Conns)]
    /\ state \in [Conns -> {"none", "open", "closed", "reported"}]
    /\ mPacketContent \in [Conns -> [1..BufferSize -> Cells]]
    /\ {reading, writing, waiting} \subseteq [Conns -> BOOLEAN]
    /\ DOMAIN mAccumulationMap \subseteq 1..Cardinality(Conns)
    /\ \A fd \in DOMAIN mAccumulationMap :
            LET acc == mAccumulationMap[fd] IN
            /\ Len(acc.mAccumulatedData) < acc.mDataToRead      \* else the request has run
            /\ Range(acc.mAccumulatedData) \subseteq Cells
    /\ \A c \in Conns : Range(asked[c]) \subseteq Kinds /\ Range(stream[c]) \subseteq Cells
    /\ Range(run.data) \subseteq Cells
    /\ held \subseteq Conns
    /\ odd \subseteq Conns \X {"short", "inherited", "strayed"}

Init ==
    /\ running = TRUE
    /\ socket = [c \in Conns |-> 0] /\ state = [c \in Conns |-> "none"]
    /\ mPacketContent = [c \in Conns |-> [i \in 1..BufferSize |-> Empty]]
    /\ reading = [c \in Conns |-> FALSE] /\ writing = [c \in Conns |-> FALSE]
    /\ mAccumulationMap = <<>>
    /\ asked = [c \in Conns |-> <<>>] /\ stream = [c \in Conns |-> <<>>]
    /\ waiting = [c \in Conns |-> FALSE]
    /\ held = {}
    /\ run = NoRun
    /\ odd = {}

-----------------------------------------------------------------------------
(* Connections and their clients.                                          *)

Used == {socket[c] : c \in {d \in Conns : state[d] = "open"}}

\* accept() gives the lowest free descriptor; on_accept
Accept(c) ==
    /\ running /\ state[c] = "none"
    /\ \A d \in Conns : d < c => state[d] # "none"
    /\ \E fd \in (1..Cardinality(Conns)) \ Used :
          /\ 1..(fd - 1) \subseteq Used
          /\ socket' = [socket EXCEPT ![c] = fd]
    /\ state' = [state EXCEPT ![c] = "open"]
    /\ reading' = [reading EXCEPT ![c] = TRUE]
    /\ UNCHANGED <<running, writing, mPacketContent, mAccumulationMap, clientVars, held, run, odd>>

Ask(c, kind) ==
    /\ running /\ state[c] = "open" /\ ~waiting[c] /\ Len(asked[c]) < Asks[c]
    /\ asked' = [asked EXCEPT ![c] = Append(@, kind)]
    /\ stream' = [stream EXCEPT ![c] = @ \o [i \in 1..(kind.len + 1) |->
                                                <<c, Len(asked[c]) + 1, i - 1>>]]
    /\ waiting' = [waiting EXCEPT ![c] = TRUE]
    /\ UNCHANGED <<running, netVars, mPacketContent, mAccumulationMap, held, run, odd>>

\* The client has read the answer
Write(c) ==
    /\ running /\ state[c] = "open" /\ writing[c]
    /\ writing' = [writing EXCEPT ![c] = FALSE]
    /\ waiting' = [waiting EXCEPT ![c] = FALSE]
    /\ UNCHANGED <<running, socket, state, reading, mPacketContent, mAccumulationMap, asked, stream, held,
                   run, odd>>

\* The connection ends; _destroy_peer, after which its socket is -1
Close(c) ==
    /\ running /\ state[c] = "open"
    /\ state' = [state EXCEPT ![c] = "closed"]
    /\ reading' = [reading EXCEPT ![c] = FALSE] /\ writing' = [writing EXCEPT ![c] = FALSE]
    /\ stream' = [stream EXCEPT ![c] = <<>>] /\ waiting' = [waiting EXCEPT ![c] = FALSE]
    /\ mPacketContent' = [mPacketContent EXCEPT ![c] = [i \in 1..BufferSize |-> Empty]]
    /\ run' = NoRun
    /\ UNCHANGED <<running, socket, mAccumulationMap, asked, held, odd>>

\* on_disconnect erases the entry of the socket -1: there is none
OnDisconnect(c) ==
    /\ running /\ state[c] = "closed"
    /\ state' = [state EXCEPT ![c] = "reported"]
    /\ UNCHANGED <<running, socket, reading, writing, mPacketContent, mAccumulationMap, clientVars, held,
                   run, odd>>

-----------------------------------------------------------------------------
(* on_data.                                                                *)

Receive(c, n) ==
    /\ running /\ state[c] = "open" /\ reading[c] /\ n \in 1..Len(stream[c])
    /\ mPacketContent' = [mPacketContent EXCEPT ![c] =
                            [i \in 1..BufferSize |-> IF i <= n THEN stream[c][i] ELSE @[i]]]
    /\ stream' = [stream EXCEPT ![c] = SubSeq(@, n + 1, Len(@))]
    /\ UNCHANGED <<socket, state, asked, waiting>>

\* write_data, which refuses a second answer, and the two signals
Answer(c) ==
    /\ writing' = [writing EXCEPT ![c] = TRUE]
    /\ reading' = [reading EXCEPT ![c] = TRUE]
SendReadSignal(c) == reading' = [reading EXCEPT ![c] = TRUE] /\ UNCHANGED writing
StaysUnread(c) == reading' = [reading EXCEPT ![c] = FALSE] /\ UNCHANGED writing

\* on_custom_request does nothing; on_execution_request answers, and on_informatic_request unless
\* the callback, create_context_cb after a success, leaves that to the program
on_request(c, ask) ==
    LET op == KindOf(ask).op IN
    \/ op # "custom" /\ Answer(c) /\ UNCHANGED held
    \/ op = "custom" /\ StaysUnread(c) /\ UNCHANGED held
    \/ op = "create" /\ StaysUnread(c) /\ held' = held \cup {c}

\* on_register or on_init_fail of the session, from update(), on the connection that the session has
\* by now: d may be another one than c, where a client takes it for its own answer, or be closed
ProgramAnswers(c, d) ==
    /\ running /\ c \in held
    /\ held' = held \ {c}
    /\ IF state[d] = "open" THEN Answer(d) ELSE UNCHANGED <<reading, writing>>
    /\ odd' = odd \cup (IF d = c THEN {} ELSE {c, d} \X {"strayed"})
    /\ UNCHANGED <<running, socket, state, mPacketContent, mAccumulationMap, clientVars, run>>

data(c) == mPacketContent'[c]               \* what on_data is given
head(c) == data(c)[1]
Accumulating(c) == socket[c] \in DOMAIN mAccumulationMap

\* mutant of accumulated_processing: the entry of a request that has all its data is not erased
accumulated_processing_kept(c, n) ==
    /\ Accumulating(c)
    /\ Receive(c, n)
    /\ LET acc == mAccumulationMap[socket[c]]
           dataToWrite == Min({BufferSize, acc.mDataToRead - Len(acc.mAccumulatedData)})
           accumulated == acc.mAccumulatedData \o SubSeq(data(c), 1, dataToWrite)
       IN
       /\ mAccumulationMap' = [mAccumulationMap EXCEPT ![socket[c]].mAccumulatedData = accumulated]
       /\ run' = [conn |-> c, ask |-> acc.ask, data |-> accumulated]
    /\ Answer(c)
    /\ UNCHANGED <<running, held, odd>>

accumulated_processing(c, n) ==
    /\ Accumulating(c)
    /\ Receive(c, n)
    /\ LET acc == mAccumulationMap[socket[c]]
           dataToWrite == Min({BufferSize, acc.mDataToRead - Len(acc.mAccumulatedData)})
           accumulated == acc.mAccumulatedData \o SubSeq(data(c), 1, dataToWrite)
       IN
       /\ IF Len(accumulated) = acc.mDataToRead
          THEN /\ run' = [conn |-> c, ask |-> acc.ask, data |-> accumulated]
               /\ on_request(c, acc.ask)
               /\ mAccumulationMap' = Restrict(mAccumulationMap,
                                               DOMAIN mAccumulationMap \ {socket[c]})
          ELSE /\ mAccumulationMap' = [mAccumulationMap EXCEPT
                                           ![socket[c]].mAccumulatedData = accumulated]
               /\ SendReadSignal(c)
               /\ UNCHANGED <<held, run>>
       /\ odd' = odd \cup (IF acc.ask[1] = c THEN {} ELSE {<<c, "inherited">>})
                     \cup (IF n < dataToWrite THEN {<<c, "short">>} ELSE {})
    /\ UNCHANGED running

simple_processing(c, n) ==
    /\ ~Accumulating(c)
    /\ Receive(c, n)

\* The buffer does not begin with a head, or the data does not fit and there is no session to
\* account it to (MISSING_MANDATORY_KEYS)
SimpleError(c, n) ==
    /\ simple_processing(c, n)
    /\ ~IsHead(head(c)) \/ (KindOf(head(c)).len > BufferSize /\ ~KindOf(head(c)).STOK)
    /\ Answer(c)
    /\ UNCHANGED <<running, mAccumulationMap, held, run, odd>>

SimpleNoData(c, n) ==
    /\ simple_processing(c, n)
    /\ IsHead(head(c)) /\ KindOf(head(c)).len = 0
    /\ on_request(c, head(c))
    /\ UNCHANGED <<running, mAccumulationMap, run, odd>>

\* The data fits: parse_data runs over the end of its stream, and reverse_safe throws in its handler
SimpleData(c, n) ==
    /\ simple_processing(c, n)
    /\ IsHead(head(c)) /\ KindOf(head(c)).len \in 1..BufferSize
    /\ running' = FALSE
    /\ UNCHANGED <<reading, writing, mAccumulationMap, held, run, odd>>

Accumulate(c, n, first) ==
    /\ simple_processing(c, n)
    /\ IsHead(head(c)) /\ KindOf(head(c)).len > BufferSize /\ KindOf(head(c)).STOK
    /\ mAccumulationMap' = [fd \in DOMAIN mAccumulationMap \cup {socket[c]} |->
            IF fd = socket[c]
            THEN [ask |-> <<head(c)[1], head(c)[2]>>, mDataToRead |-> KindOf(head(c)).len,
                  mAccumulatedData |-> SubSeq(data(c), first, BufferSize)]
            ELSE mAccumulationMap[fd]]
    /\ odd' = odd \cup (IF n < BufferSize THEN {<<c, "short">>} ELSE {})
    /\ UNCHANGED <<running, held, run>>

\* mutant of SimpleAccumulate: the cursor is not moved beyond the head
SimpleAccumulateHead(c, n) == Accumulate(c, n, 1) /\ SendReadSignal(c)

\* mutant of SimpleAccumulate: the connection is not read on
SimpleAccumulateOnce(c, n) == Accumulate(c, n, 2) /\ StaysUnread(c)

SimpleAccumulate(c, n) == Accumulate(c, n, 2) /\ SendReadSignal(c)

-----------------------------------------------------------------------------

OnData(c) == \E n \in 1..BufferSize :
    \/ accumulated_processing(c, n)
    \/ SimpleError(c, n) \/ SimpleNoData(c, n) \/ SimpleData(c, n) \/ SimpleAccumulate(c, n)

Next == \E c \in Conns :
    \/ Accept(c) \/ (\E kind \in Kinds : Ask(c, kind)) \/ Write(c) \/ Close(c) \/ OnDisconnect(c)
    \/ OnData(c)
    \/ \E d \in Conns : ProgramAnswers(c, d)

Fairness == \A c \in Conns : WF_vars(OnData(c)) /\ WF_vars(Write(c)) /\ WF_vars(OnDisconnect(c))
Spec == Init /\ [][Next]_vars /\ Fairness

-----------------------------------------------------------------------------

\* An accumulated request runs with exactly the data its client sent, unless a read came short (the
\* rest of the buffer is taken for data, on_data) or the accumulation was another connection's.
DataWhole ==
    run.conn = 0 \/ <<run.conn, "short">> \in odd \/ <<run.conn, "inherited">> \in odd
        \/ run.data = Data(run.ask)

\* A request is answered or its connection ends, unless its type is neither INF nor EXEC
\* (on_custom_request), the program has yet to answer it (create_context_cb), or the server is no
\* longer there.  There is no such promise for a connection that takes over the accumulation of an
\* earlier one with its socket (on_disconnect), counts bytes that did not come, has its answer sent
\* to another connection of the session, or gets such an answer (set_network_peer).
RequestAnswered == \A c \in Conns :
    waiting[c] ~> \/ ~waiting[c] \/ ~running \/ c \in held
                  \/ \E i \in DOMAIN asked[c] : asked[c][i].op = "custom"
                  \/ odd \cap ({c} \X {"short", "inherited", "strayed"}) # {}
===============================================================================
