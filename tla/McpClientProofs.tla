---------------------------- MODULE McpClientProofs ----------------------------
(* Proofs about the requests of an MCP client, for any number of requests, *)
(* methods, timeouts and offers: the client keeps what RequestsKept says,  *)
(* and implements McpRequests.                                             *)
EXTENDS McpClient, FiniteSetTheorems, TLAPS

Messages == [kind : {"response"}, id : Ids, code : {"success", "error"}]
                \cup [kind : {"sampling/createMessage", "other"}]

\* No two responses are to the same request.
Distinct(s) == \A m, n \in DOMAIN s : s[m].id = s[n].id => m = n
Reported == {i \in Ids : called[i] # <<>>}

Types ==
    /\ TypeOK
    /\ IsFiniteSet(DOMAIN mRequestMap)
    /\ called \in [Ids -> Seq(Codes)]
    /\ body \in Seq(Messages)

\* A request waits in the map, or its response is in one of the three lists, or reported.
PlaceInv ==
    /\ Distinct(mQueuedResponses) /\ Distinct(movedResponseObject) /\ Distinct(found)
    /\ DOMAIN mRequestMap \cap (IdsOf(found) \cup IdsOf(mQueuedResponses)
                                  \cup IdsOf(movedResponseObject) \cup Reported) = {}
    /\ IdsOf(found) \cap (IdsOf(mQueuedResponses) \cup IdsOf(movedResponseObject) \cup Reported) = {}
    /\ IdsOf(mQueuedResponses) \cap (IdsOf(movedResponseObject) \cup Reported) = {}
    /\ IdsOf(movedResponseObject) \cap Reported = {}
    /\ \A i \in Ids : Len(called[i]) <= 1

\* What a thread holds, it holds at the right place.
ThreadInv ==
    /\ mIsProcessorRunning <=> sender # "none"
    /\ sender # "read" => body = <<>> /\ found = <<>>
    /\ place # "moved" => movedResponseObject = <<>>
    /\ place # "sampling" => tmpSamplingRequests = 0

\* Only an answer initializes the server, and any answer gives a stateful server's session id.
Succeeded(s) == \E n \in DOMAIN s : s[n].code = "success"
SessionInv == Stateful =>
    /\ \/ sender = "read" \/ mIsServerInitialized \/ Succeeded(found)
       \/ Succeeded(mQueuedResponses) \/ Succeeded(movedResponseObject)
       => mSessionHeader
    /\ \A n \in DOMAIN mPayloadList : mPayloadList[n].bound => mSessionHeader
    /\ SessionKept

IInv == Types /\ PlaceInv /\ ThreadInv /\ SessionInv /\ ServerRequestsAccounted

-----------------------------------------------------------------------------
(* Sequences of responses.                                                 *)

LEMMA NoIds == IdsOf(<<>>) = {} /\ Distinct(<<>>) /\ ~Succeeded(<<>>)
BY DEF IdsOf, Distinct, Succeeded

LEMMA TailIds ==
  ASSUME NEW s \in Seq(Responses), s # <<>>, Distinct(s)
  PROVE  /\ Tail(s) \in Seq(Responses) /\ Head(s) \in Responses
         /\ IdsOf(Tail(s)) = IdsOf(s) \ {Head(s).id} /\ Head(s).id \in IdsOf(s)
         /\ Distinct(Tail(s))
         /\ Succeeded(Tail(s)) \/ Head(s).code = "success" => Succeeded(s)
<1> DEFINE t == Tail(s)
<1>1. /\ t \in Seq(Responses) /\ Len(s) \in Nat \ {0}
      /\ DOMAIN s = 1..Len(s) /\ DOMAIN t = 1..(Len(s) - 1)
  OBVIOUS
<1>2. Head(s) = s[1] /\ 1 \in DOMAIN s /\ s[1] \in Responses
  OBVIOUS
<1>3. \A n \in DOMAIN t : t[n] = s[n + 1] /\ n + 1 \in DOMAIN s /\ n + 1 # 1
  OBVIOUS
<1>4. \A n \in DOMAIN s : n = 1 \/ (n - 1 \in DOMAIN t /\ t[n - 1] = s[n])
  OBVIOUS
<1> HIDE DEF t
<1>5. \A n \in DOMAIN t : t[n].id # Head(s).id
  BY <1>3 DEF Distinct
<1>6. IdsOf(t) = IdsOf(s) \ {Head(s).id}
  BY <1>3, <1>4, <1>5 DEF IdsOf
<1>7. Distinct(t)
  BY <1>1, <1>3 DEF Distinct
<1>8. Head(s).id \in IdsOf(s)
  BY DEF IdsOf
<1>9. Succeeded(t) \/ Head(s).code = "success" => Succeeded(s)
  BY <1>3 DEF Succeeded
<1> QED
  BY <1>6, <1>7, <1>8, <1>9 DEF t

LEMMA JoinedIds ==
  ASSUME NEW s \in Seq(Responses), NEW t \in Seq(Responses)
  PROVE  /\ s \o t \in Seq(Responses)
         /\ IdsOf(s \o t) = IdsOf(s) \cup IdsOf(t)
         /\ Distinct(s) /\ Distinct(t) /\ IdsOf(s) \cap IdsOf(t) = {} => Distinct(s \o t)
         /\ Succeeded(s \o t) => Succeeded(s) \/ Succeeded(t)
<1> DEFINE u == s \o t
<1>1. /\ u \in Seq(Responses) /\ Len(s) \in Nat /\ Len(t) \in Nat
      /\ DOMAIN s = 1..Len(s) /\ DOMAIN t = 1..Len(t) /\ DOMAIN u = 1..(Len(s) + Len(t))
  OBVIOUS
<1>2. \A n \in DOMAIN s : u[n] = s[n] /\ n \in DOMAIN u
  OBVIOUS
<1>3. \A n \in DOMAIN t : u[n + Len(s)] = t[n] /\ n + Len(s) \in DOMAIN u
  OBVIOUS
<1>4. \A n \in DOMAIN u : n \in DOMAIN s \/ (n - Len(s) \in DOMAIN t /\ u[n] = t[n - Len(s)])
  OBVIOUS
<1> HIDE DEF u
<1>5. IdsOf(u) = IdsOf(s) \cup IdsOf(t)
  BY <1>2, <1>3, <1>4 DEF IdsOf
<1>6. ASSUME Distinct(s), Distinct(t), IdsOf(s) \cap IdsOf(t) = {}
      PROVE  Distinct(u)
  <2> SUFFICES ASSUME NEW m \in DOMAIN u, NEW n \in DOMAIN u, u[m].id = u[n].id
               PROVE  m = n
    BY DEF Distinct
  <2>1. CASE m \in DOMAIN s /\ n \in DOMAIN s
    BY <1>2, <1>6, <2>1 DEF Distinct
  <2>2. CASE m \in DOMAIN s /\ n \notin DOMAIN s
    BY <1>2, <1>4, <1>6, <2>2 DEF IdsOf
  <2>3. CASE m \notin DOMAIN s /\ n \in DOMAIN s
    BY <1>2, <1>4, <1>6, <2>3 DEF IdsOf
  <2>4. CASE m \notin DOMAIN s /\ n \notin DOMAIN s
    <3>1. m - Len(s) = n - Len(s)
      BY <1>4, <1>6, <2>4 DEF Distinct
    <3> QED
      BY <3>1
  <2> QED
    BY <2>1, <2>2, <2>3, <2>4
<1>7. Succeeded(u) => Succeeded(s) \/ Succeeded(t)
  BY <1>2, <1>4 DEF Succeeded
<1> QED
  BY <1>5, <1>6, <1>7 DEF u

LEMMA FunctionSeq ==
  ASSUME NEW S, NEW n \in Nat, NEW f \in [1..n -> S]
  PROVE  f \in Seq(S)
OBVIOUS

LEMMA TimedOut ==
  ASSUME Types, NEW out \in SUBSET DOMAIN mRequestMap, NEW s \in SetToSeqs(out),
         NEW t, t = [n \in DOMAIN s |->
            [id |-> s[n], method |-> mRequestMap[s[n]].method, code |-> "timeout"]]
  PROVE  t \in Seq(Responses) /\ IdsOf(t) = out /\ Distinct(t) /\ ~Succeeded(t)
<1>1. IsFiniteSet(out) /\ Cardinality(out) \in Nat
  BY FS_Subset, FS_CardinalityType DEF Types
<1>2. /\ s \in [1..Cardinality(out) -> out]
      /\ \A i, j \in 1..Cardinality(out) : i # j => s[i] # s[j]
  BY DEF SetToSeqs
<1>3. IsFiniteSet(1..Cardinality(out)) /\ Cardinality(1..Cardinality(out)) = Cardinality(out)
  BY <1>1, FS_Interval
<1>4. s \in Injection(1..Cardinality(out), out)
  BY <1>2 DEF Injection, IsInjective
<1>5. s \in Surjection(1..Cardinality(out), out)
  BY <1>1, <1>3, <1>4, FS_Injection
<1>6. \A i \in out : \E n \in DOMAIN s : s[n] = i
  BY <1>5 DEF Surjection
<1>7. \A i \in out : i \in Ids /\ mRequestMap[i].method \in Methods \cup {"initialize"}
  BY DEF Types, TypeOK
<1>8. DOMAIN t = 1..Cardinality(out)
  BY <1>2
<1>9. \A n \in DOMAIN t : t[n] \in Responses /\ t[n].id = s[n] /\ t[n].code = "timeout"
  BY <1>2, <1>7 DEF Responses, Codes
<1>10. t \in [1..Cardinality(out) -> Responses]
  BY <1>8, <1>9
<1>11. t \in Seq(Responses)
  BY <1>1, <1>10, FunctionSeq
<1>12. IdsOf(t) = out
  BY <1>2, <1>6 DEF IdsOf
<1>13. \A m, n \in DOMAIN t : m # n => s[m] # s[n]
  BY <1>2
<1>14. Distinct(t)
  BY <1>13 DEF Distinct
<1>15. \A n \in DOMAIN t : t[n].code # "success"
  OBVIOUS
<1> QED
  BY <1>11, <1>12, <1>14 DEF Succeeded

\* The requests among the messages of a body that has been read up to one.
LEMMA TailRequests ==
  ASSUME NEW s \in Seq(Messages)
  PROVE  /\ Requests(s) \in Nat
         /\ s = <<>> => Requests(s) = 0
         /\ s # <<>> => /\ Tail(s) \in Seq(Messages) /\ Head(s) \in Messages
                        /\ Requests(s) = Requests(Tail(s))
                              + IF Head(s).kind # "response" THEN 1 ELSE 0
<1> DEFINE t == Tail(s)
           N == {n \in DOMAIN s : s[n].kind # "response"}
           M == {n \in DOMAIN t : t[n].kind # "response"}
<1>1. Len(s) \in Nat /\ DOMAIN s = 1..Len(s)
  OBVIOUS
<1>2. IsFiniteSet(N) /\ Cardinality(N) \in Nat /\ Requests(s) = Cardinality(N)
  <2>1. IsFiniteSet(1..Len(s)) /\ N \in SUBSET (1..Len(s))
    BY FS_Interval
  <2> QED
    BY <2>1, FS_Subset, FS_CardinalityType DEF Requests
<1>3. CASE s = <<>>
  <2>1. N = {}
    BY <1>3
  <2> QED
    BY <1>2, <1>3, FS_EmptySet
<1>4. CASE s # <<>>
  <2>1. t \in Seq(Messages) /\ Head(s) \in Messages /\ DOMAIN t = 1..(Len(s) - 1) /\ Head(s) = s[1]
    BY <1>4
  <2>2. \A n \in DOMAIN t : t[n] = s[n + 1] /\ n + 1 \in DOMAIN s /\ n + 1 # 1
    OBVIOUS
  <2>3. \A n \in DOMAIN s : n = 1 \/ (n - 1 \in DOMAIN t /\ t[n - 1] = s[n])
    OBVIOUS
  <2>4. 1 \in DOMAIN s
    BY <1>4
  <2> DEFINE f == [n \in M |-> n + 1]
  <2> HIDE DEF t
  <2>5. f \in Bijection(M, N \ {1})
    <3>1. f \in [M -> N \ {1}]
      BY <2>2
    <3>2. \A m, n \in M : f[m] = f[n] => m = n
      BY <2>1
    <3>3. \A n \in N \ {1} : n - 1 \in M /\ f[n - 1] = n
      BY <2>3
    <3> QED
      BY <3>1, <3>2, <3>3 DEF Bijection, Injection, Surjection, IsInjective
  <2>6. IsFiniteSet(M)
    <3>1. IsFiniteSet(1..(Len(s) - 1)) /\ M \in SUBSET (1..(Len(s) - 1))
      BY <2>1, FS_Interval
    <3> QED
      BY <3>1, FS_Subset
  <2>7. Cardinality(N \ {1}) = Cardinality(M)
    <3> HIDE DEF M, N, f
    <3>1. ExistsBijection(M, N \ {1})
      BY <2>5 DEF ExistsBijection
    <3> QED
      BY <2>6, <3>1, FS_Bijection
  <2>8. Cardinality(N) = Cardinality(N \ {1}) + IF 1 \in N THEN 1 ELSE 0
    <3> HIDE DEF N, f
    <3>1. Cardinality(N \ {1}) = IF 1 \in N THEN Cardinality(N) - 1 ELSE Cardinality(N)
      BY <1>2, FS_RemoveElement
    <3> QED
      BY <1>2, <3>1
  <2>9. Requests(t) = Cardinality(M)
    BY DEF Requests
  <2>10. 1 \in N <=> Head(s).kind # "response"
    BY <2>4
  <2> HIDE DEF M, N
  <2> QED
    BY <1>2, <2>1, <2>7, <2>8, <2>9, <2>10 DEF t
<1> QED
  BY <1>3, <1>4

\* The count of a request's responses, in a list that holds no two of them.
LEMMA CountOne ==
  ASSUME NEW s \in Seq(Responses), Distinct(s), NEW i
  PROVE  Count(s, i) = IF i \in IdsOf(s) THEN 1 ELSE 0
<1> DEFINE N == {n \in DOMAIN s : s[n].id = i}
<1>1. CASE i \in IdsOf(s)
  <2>1. PICK n \in DOMAIN s : s[n].id = i
    BY <1>1 DEF IdsOf
  <2>2. N = {n}
    BY <2>1 DEF Distinct
  <2> QED
    BY <1>1, <2>2, FS_Singleton DEF Count
<1>2. CASE i \notin IdsOf(s)
  <2>1. N = {}
    BY <1>2 DEF IdsOf
  <2> QED
    BY <1>2, <2>1, FS_EmptySet DEF Count
<1> QED
  BY <1>1, <1>2

LEMMA Accounted ==
  ASSUME Types, PlaceInv
  PROVE  RequestsAccounted
<1> SUFFICES ASSUME NEW i \in Asked
             PROVE  (IF i \in DOMAIN mRequestMap THEN 1 ELSE 0) + Count(found, i)
                        + Count(mQueuedResponses, i) + Count(movedResponseObject, i)
                        + Len(called[i]) = 1
  BY DEF RequestsAccounted
<1>1. {found, mQueuedResponses, movedResponseObject} \subseteq Seq(Responses)
  BY DEF Types, TypeOK
<1>2. /\ Count(found, i) = IF i \in IdsOf(found) THEN 1 ELSE 0
      /\ Count(mQueuedResponses, i) = IF i \in IdsOf(mQueuedResponses) THEN 1 ELSE 0
      /\ Count(movedResponseObject, i) = IF i \in IdsOf(movedResponseObject) THEN 1 ELSE 0
  BY <1>1, CountOne DEF PlaceInv
<1>3. i \in Ids
  <2>1. ASSUME NEW s \in Seq(Responses), NEW n \in DOMAIN s
        PROVE  s[n].id \in Ids
    <3>1. s[n] \in Responses
      OBVIOUS
    <3> QED
      BY <3>1 DEF Responses
  <2>2. UNION {IdsOf(found), IdsOf(mQueuedResponses), IdsOf(movedResponseObject)} \subseteq Ids
    BY <1>1, <2>1 DEF IdsOf
  <2>3. DOMAIN mRequestMap \subseteq Ids
    BY DEF Types, TypeOK
  <2> QED
    BY <2>2, <2>3 DEF Asked
<1>4. Len(called[i]) = IF i \in Reported THEN 1 ELSE 0
  <2>1. called[i] \in Seq(Codes) /\ Len(called[i]) <= 1
    BY <1>3 DEF Types, PlaceInv
  <2>2. called[i] = <<>> <=> Len(called[i]) = 0
    OBVIOUS
  <2> QED
    BY <1>3, <2>1 DEF Reported
<1>5. i \in DOMAIN mRequestMap \cup IdsOf(found) \cup IdsOf(mQueuedResponses)
            \cup IdsOf(movedResponseObject) \cup Reported
  BY DEF Asked, Reported
<1> QED
  BY <1>2, <1>4, <1>5 DEF PlaceInv

-----------------------------------------------------------------------------
(* The actions.                                                            *)

LEMMA SamePlace ==
  ASSUME PlaceInv, UNCHANGED <<requestVars, found>>
  PROVE  PlaceInv'
<1>1. UNCHANGED <<mRequestMap, mQueuedResponses, movedResponseObject, called, found>>
  BY DEF requestVars
<1>2. Reported' = Reported /\ IdsOf(found') = IdsOf(found) /\ Distinct(found') = Distinct(found)
  BY <1>1 DEF Reported
<1>3. /\ IdsOf(mQueuedResponses') = IdsOf(mQueuedResponses)
      /\ Distinct(mQueuedResponses') = Distinct(mQueuedResponses)
      /\ IdsOf(movedResponseObject') = IdsOf(movedResponseObject)
      /\ Distinct(movedResponseObject') = Distinct(movedResponseObject)
  BY <1>1
<1> QED
  BY <1>1, <1>2 DEF PlaceInv

LEMMA SameAccount ==
  ASSUME ServerRequestsAccounted, UNCHANGED <<body, samplingVars, served, answered>>
  PROVE  ServerRequestsAccounted'
BY DEF samplingVars, ServerRequestsAccounted

LEMMA CreateRequestStateHolds ==
  ASSUME IInv, NEW m \in Methods \cup {"initialize"}, create_request_state(m)
  PROVE  IInv' /\ \E i \in Ids \ Asked : Asked' = Asked \cup {i} /\ UNCHANGED Reported
<1>1. Types'
  <2>1. PICK i \in Ids \ Asked, limit \in Timeouts :
           /\ mRequestMap' = Extended(mRequestMap, i,
                [method |-> m, mTimeoutInSeconds |-> limit, mAttemptCount |-> 0])
           /\ Queued([kind |-> "request", id |-> i, bound |-> mIsServerInitialized])
    BY DEF create_request_state
  <2>2. /\ DOMAIN mRequestMap' = DOMAIN mRequestMap \cup {i}
        /\ \A j \in DOMAIN mRequestMap \ {i} : mRequestMap'[j] = mRequestMap[j]
        /\ mRequestMap'[i] = [method |-> m, mTimeoutInSeconds |-> limit, mAttemptCount |-> 0]
    BY <2>1 DEF Extended
  <2>3. IsFiniteSet(DOMAIN mRequestMap')
    <3>1. IsFiniteSet(DOMAIN mRequestMap)
      BY DEF IInv, Types
    <3> QED
      BY <2>2, <3>1, FS_AddElement
  <2>4. mPayloadList' \in Seq(Payloads)
    BY <2>1 DEF Queued, Payloads, IInv, Types, TypeOK
  <2>5. mRequestMap'[i] \in [method : Methods \cup {"initialize"}, mTimeoutInSeconds : Timeouts,
                             mAttemptCount : Nat]
    BY <2>2
  <2>6. ~Endless(mRequestMap'[i]) => mRequestMap'[i].mAttemptCount <= mRequestMap'[i].mTimeoutInSeconds
    BY <2>2, TimeoutsAssumption DEF Endless
  <2>7. TypeOK'
    BY ZenonT(60), <2>1, <2>2, <2>4, <2>5, <2>6 DEF create_request_state, serverVars, senderVars,
       samplingVars, boundVars, IInv, Types, TypeOK
  <2> QED
    BY <2>3, <2>7 DEF create_request_state, senderVars, IInv, Types
<1>2. PlaceInv'
  <2>1. PICK i \in Ids \ Asked : DOMAIN mRequestMap' = DOMAIN mRequestMap \cup {i}
    BY DEF create_request_state, Extended
  <2>2. UNCHANGED <<mQueuedResponses, movedResponseObject, found, called>>
    BY DEF create_request_state, senderVars
  <2>3. Reported' = Reported
    BY <2>2 DEF Reported
  <2>4. i \notin Reported \cup IdsOf(found) \cup IdsOf(mQueuedResponses) \cup IdsOf(movedResponseObject)
    BY DEF Reported, Asked
  <2> QED
    BY <2>1, <2>2, <2>3, <2>4 DEF IInv, PlaceInv
<1>3. ThreadInv'
  BY DEF create_request_state, senderVars, samplingVars, IInv, ThreadInv
<1>4. SessionInv'
  BY DEF create_request_state, Queued, serverVars, senderVars, IInv, SessionInv, SessionKept
<1>5. ServerRequestsAccounted'
  BY SameAccount DEF create_request_state, senderVars, boundVars, IInv
<1>6. \E i \in Ids \ Asked : Asked' = Asked \cup {i} /\ UNCHANGED Reported
  <2>1. PICK i \in Ids \ Asked : DOMAIN mRequestMap' = DOMAIN mRequestMap \cup {i}
    BY DEF create_request_state, Extended
  <2>2. UNCHANGED <<mQueuedResponses, movedResponseObject, found, called>>
    BY DEF create_request_state, senderVars
  <2> QED
    BY <2>1, <2>2 DEF Asked, Reported
<1> QED
  BY <1>1, <1>2, <1>3, <1>4, <1>5, <1>6 DEF IInv

LEMMA RootsChangedHolds ==
  ASSUME IInv, RootsChanged
  PROVE  IInv'
<1>1. Types'
  BY DEF RootsChanged, Queued, requestVars, serverVars, senderVars, samplingVars, IInv, Types,
     TypeOK, Payloads
<1>2. PlaceInv'
  BY SamePlace DEF RootsChanged, senderVars, IInv
<1>3. ThreadInv'
  BY DEF RootsChanged, requestVars, senderVars, samplingVars, IInv, ThreadInv
<1>4. SessionInv'
  BY DEF RootsChanged, Queued, requestVars, serverVars, senderVars, IInv, SessionInv, SessionKept
<1>5. ServerRequestsAccounted'
  BY SameAccount DEF RootsChanged, senderVars, IInv
<1> QED
  BY <1>1, <1>2, <1>3, <1>4, <1>5 DEF IInv

LEMMA StartProcessorHolds ==
  ASSUME IInv, start_processor
  PROVE  IInv'
<1>1. Types'
  BY DEF start_processor, requestVars, serverVars, samplingVars, boundVars, IInv, Types, TypeOK
<1>2. PlaceInv'
  BY SamePlace DEF start_processor, IInv
<1>3. ThreadInv'
  BY DEF start_processor, requestVars, samplingVars, IInv, ThreadInv
<1>4. SessionInv'
  BY DEF start_processor, requestVars, serverVars, IInv, SessionInv, SessionKept
<1>5. ServerRequestsAccounted'
  BY SameAccount DEF start_processor, boundVars, IInv
<1> QED
  BY <1>1, <1>2, <1>3, <1>4, <1>5 DEF IInv

LEMMA RunTimersHolds ==
  ASSUME IInv, RunTimers
  PROVE  IInv'
<1>1. Types'
  BY DEF RunTimers, requestVars, serverVars, senderVars, samplingVars, boundVars, IInv, Types,
     TypeOK
<1>2. PlaceInv'
  BY SamePlace DEF RunTimers, senderVars, IInv
<1>3. ThreadInv'
  BY DEF RunTimers, Frame, requestVars, senderVars, samplingVars, IInv, ThreadInv
<1>4. SessionInv'
  BY DEF RunTimers, requestVars, serverVars, senderVars, IInv, SessionInv, SessionKept
<1>5. ServerRequestsAccounted'
  BY SameAccount DEF RunTimers, senderVars, boundVars, IInv
<1> QED
  BY <1>1, <1>2, <1>3, <1>4, <1>5 DEF IInv

LEMMA RunTimersDueHolds ==
  ASSUME IInv, RunTimersDue
  PROVE  IInv' /\ UNCHANGED <<Asked, Reported>>
<1>s. PICK some \in SUBSET {i \in DOMAIN mRequestMap : ~Endless(mRequestMap[i])} : Ticked(some)
  BY DEF RunTimersDue
<1> DEFINE out == {i \in some : Expired(mRequestMap[i])}
<1>m. mRequestMap' = [i \in DOMAIN mRequestMap \ out |->
              [mRequestMap[i] EXCEPT !.mAttemptCount = IF i \in some THEN @ + 1 ELSE @]]
  BY <1>s DEF Ticked
<1>q. PICK s \in SetToSeqs(out) : mQueuedResponses' = mQueuedResponses \o
              [n \in DOMAIN s |-> [id |-> s[n], method |-> mRequestMap[s[n]].method,
                                   code |-> "timeout"]]
  BY <1>s DEF Ticked
<1> DEFINE t == [n \in DOMAIN s |-> [id |-> s[n], method |-> mRequestMap[s[n]].method,
                                     code |-> "timeout"]]
<1>t. /\ t \in Seq(Responses) /\ IdsOf(t) = out /\ Distinct(t) /\ ~Succeeded(t)
      /\ mQueuedResponses' = mQueuedResponses \o t
      /\ out \subseteq DOMAIN mRequestMap
  BY <1>q, TimedOut DEF IInv
<1>d. DOMAIN mRequestMap' = DOMAIN mRequestMap \ out
  BY <1>m
<1>u. UNCHANGED <<movedResponseObject, called, found>>
  BY DEF RunTimersDue, senderVars
<1> HIDE DEF t, out
<1>1. Types'
  <2>1. IsFiniteSet(DOMAIN mRequestMap')
    BY <1>d, FS_Difference DEF IInv, Types
  <2>2. mQueuedResponses' \in Seq(Responses)
    BY <1>t DEF IInv, Types, TypeOK
  <2>3. ASSUME NEW i \in DOMAIN mRequestMap'
        PROVE  /\ mRequestMap'[i] \in [method : Methods \cup {"initialize"},
                                       mTimeoutInSeconds : Timeouts, mAttemptCount : Nat]
               /\ ~Endless(mRequestMap'[i]) =>
                     mRequestMap'[i].mAttemptCount <= mRequestMap'[i].mTimeoutInSeconds
    <3> DEFINE r == mRequestMap[i]
    <3>1. /\ r \in [method : Methods \cup {"initialize"}, mTimeoutInSeconds : Timeouts,
                    mAttemptCount : Nat]
          /\ ~Endless(r) => r.mAttemptCount <= r.mTimeoutInSeconds
      BY <1>d DEF IInv, Types, TypeOK
    <3>2. mRequestMap'[i] = [r EXCEPT !.mAttemptCount = IF i \in some THEN @ + 1 ELSE @]
      BY <1>m
    <3>3. i \in some => ~Endless(r) /\ r.mAttemptCount # r.mTimeoutInSeconds
      BY <1>d DEF out, Expired
    <3> HIDE DEF r
    <3>4. r.mAttemptCount \in Nat /\ r.mTimeoutInSeconds \in Int
      BY <3>1, TimeoutsAssumption
    <3> QED
      BY <3>1, <3>2, <3>3, <3>4
  <2>4. TypeOK'
    BY <1>d, <2>2, <2>3 DEF RunTimersDue, serverVars, senderVars, samplingVars, boundVars, IInv,
       Types, TypeOK
  <2> QED
    BY <2>1, <2>4 DEF RunTimersDue, senderVars, IInv, Types
<1>2. PlaceInv'
  <2>1. Reported' = Reported
    BY <1>u DEF Reported
  <2>2. mQueuedResponses \in Seq(Responses)
    BY DEF IInv, Types, TypeOK
  <2>3. IdsOf(mQueuedResponses') = IdsOf(mQueuedResponses) \cup out
    BY <1>t, <2>2, JoinedIds
  <2>4. Distinct(mQueuedResponses')
    BY <1>t, <2>2, JoinedIds DEF IInv, PlaceInv
  <2> QED
    BY <1>d, <1>t, <1>u, <2>1, <2>3, <2>4 DEF IInv, PlaceInv
<1>3. ThreadInv'
  BY DEF RunTimersDue, Frame, senderVars, samplingVars, IInv, ThreadInv
<1>4. SessionInv'
  <2>1. mQueuedResponses \in Seq(Responses)
    BY DEF IInv, Types, TypeOK
  <2>2. Succeeded(mQueuedResponses') => Succeeded(mQueuedResponses)
    BY <1>t, <2>1, JoinedIds
  <2> QED
    BY <2>2 DEF RunTimersDue, serverVars, senderVars, IInv, SessionInv, SessionKept
<1>5. ServerRequestsAccounted'
  BY SameAccount DEF RunTimersDue, senderVars, boundVars, IInv
<1>6. UNCHANGED <<Asked, Reported>>
  <2>1. IdsOf(mQueuedResponses') = IdsOf(mQueuedResponses) \cup out
    BY <1>t, JoinedIds DEF IInv, Types, TypeOK
  <2> QED
    BY <1>d, <1>t, <1>u, <2>1 DEF Asked, Reported
<1> QED
  BY <1>1, <1>2, <1>3, <1>4, <1>5, <1>6 DEF IInv

LEMMA TakeResponsesHolds ==
  ASSUME IInv, TakeResponses
  PROVE  IInv' /\ UNCHANGED <<Asked, Reported>>
<1>1. Types'
  BY DEF TakeResponses, serverVars, senderVars, samplingVars, boundVars, IInv, Types, TypeOK
<1>2. PlaceInv'
  BY DEF TakeResponses, senderVars, IInv, PlaceInv, Distinct, IdsOf, Reported
<1>3. ThreadInv'
  BY DEF TakeResponses, senderVars, samplingVars, IInv, ThreadInv
<1>4. SessionInv'
  BY DEF TakeResponses, serverVars, senderVars, IInv, SessionInv, SessionKept, Succeeded
<1>5. ServerRequestsAccounted'
  BY SameAccount DEF TakeResponses, senderVars, boundVars, IInv
<1>6. UNCHANGED <<Asked, Reported>>
  <2>1. movedResponseObject = <<>> /\ mQueuedResponses' = <<>>
    BY DEF TakeResponses, IInv, ThreadInv
  <2>2. /\ movedResponseObject' = mQueuedResponses
        /\ UNCHANGED <<mRequestMap, found, called>>
    BY DEF TakeResponses, senderVars
  <2> QED
    BY <2>1, <2>2 DEF Asked, Reported
<1> QED
  BY <1>1, <1>2, <1>3, <1>4, <1>5, <1>6 DEF IInv

LEMMA CalledHolds ==
  ASSUME IInv, Delivering, Called(Head(movedResponseObject)), UNCHANGED found
  PROVE  /\ PlaceInv' /\ UNCHANGED <<mRequestMap, mQueuedResponses>>
         /\ movedResponseObject' \in Seq(Responses) /\ called' \in [Ids -> Seq(Codes)]
         /\ Succeeded(movedResponseObject') => Succeeded(movedResponseObject)
         /\ Head(movedResponseObject).code = "success" => Succeeded(movedResponseObject)
         /\ \E i \in Asked \ Reported : Reported' = Reported \cup {i} /\ UNCHANGED Asked
<1> DEFINE r == Head(movedResponseObject)
<1>1. movedResponseObject \in Seq(Responses) /\ movedResponseObject # <<>>
  BY DEF IInv, Types, TypeOK, Delivering
<1>2. /\ movedResponseObject' \in Seq(Responses) /\ r \in Responses
      /\ IdsOf(movedResponseObject') = IdsOf(movedResponseObject) \ {r.id}
      /\ r.id \in IdsOf(movedResponseObject)
      /\ Distinct(movedResponseObject')
      /\ Succeeded(movedResponseObject') \/ r.code = "success" => Succeeded(movedResponseObject)
  BY <1>1, TailIds DEF Called, IInv, PlaceInv
<1>3. r.id \in Ids /\ r.code \in Codes
  BY <1>2 DEF Responses
<1>4. /\ called' = [called EXCEPT ![r.id] = Append(@, r.code)]
      /\ UNCHANGED <<mRequestMap, mQueuedResponses>>
  BY DEF Called
<1> HIDE DEF r
<1>5. called[r.id] = <<>>
  BY <1>2, <1>3 DEF IInv, PlaceInv, Reported
<1>6. called' \in [Ids -> Seq(Codes)] /\ called'[r.id] # <<>> /\ Len(called'[r.id]) <= 1
  BY <1>3, <1>4, <1>5 DEF IInv, Types
<1>7. Reported' = Reported \cup {r.id} /\ \A i \in Ids \ {r.id} : called'[i] = called[i]
  BY <1>4, <1>6 DEF Reported
<1>8. \A i \in Ids : Len(called'[i]) <= 1
  <2>1. \A i \in Ids : Len(called[i]) <= 1
    BY DEF IInv, PlaceInv
  <2>2. ASSUME NEW i \in Ids PROVE Len(called'[i]) <= 1
    <3>1. CASE i = r.id
      BY <1>6, <3>1
    <3>2. CASE i # r.id
      BY <1>7, <2>1, <3>2
    <3> QED
      BY <3>1, <3>2
  <2> QED
    BY <2>2
<1>9. UNCHANGED Asked
  BY <1>2, <1>4, <1>7 DEF Asked, Reported
<1>10. r.id \in Asked \ Reported
  BY <1>2, <1>5 DEF Asked, Reported
<1> QED
  BY <1>2, <1>4, <1>6, <1>7, <1>9, <1>10 DEF IInv, PlaceInv, r

LEMMA DeliverHolds ==
  ASSUME IInv, Deliver
  PROVE  IInv' /\ \E i \in Asked \ Reported : Reported' = Reported \cup {i} /\ UNCHANGED Asked
<1>1. Types'
  BY CalledHolds DEF Deliver, serverVars, senderVars, threadVars, samplingVars, boundVars, IInv,
     Types, TypeOK
<1>2. PlaceInv'
  BY CalledHolds DEF Deliver, senderVars
<1>3. ThreadInv'
  BY DEF Deliver, Delivering, senderVars, threadVars, samplingVars, IInv, ThreadInv
<1>4. SessionInv'
  BY DEF Deliver, Called, serverVars, senderVars, IInv, SessionInv, SessionKept, Succeeded
<1>5. ServerRequestsAccounted'
  BY SameAccount DEF Deliver, senderVars, boundVars, IInv
<1>6. \E i \in Asked \ Reported : Reported' = Reported \cup {i} /\ UNCHANGED Asked
  BY CalledHolds DEF Deliver, senderVars
<1> QED
  BY <1>1, <1>2, <1>3, <1>4, <1>5, <1>6 DEF IInv

LEMMA DeliverInitializedHolds ==
  ASSUME IInv, DeliverInitialized
  PROVE  IInv' /\ \E i \in Asked \ Reported : Reported' = Reported \cup {i} /\ UNCHANGED Asked
<1>1. Types'
  <2>1. mPayloadList' \in Seq(Payloads)
    BY DEF DeliverInitialized, Queued, Payloads, IInv, Types, TypeOK
  <2>2. mSupported' \in SUBSET UNION Offers
    BY DEF DeliverInitialized, IInv, Types, TypeOK
  <2> QED
    BY <2>1, CalledHolds DEF DeliverInitialized, senderVars, samplingVars, boundVars, IInv, Types,
       TypeOK
<1>2. PlaceInv'
  BY CalledHolds DEF DeliverInitialized, senderVars
<1>3. ThreadInv'
  BY DEF DeliverInitialized, Delivering, senderVars, samplingVars, IInv, ThreadInv
<1>4. SessionInv'
  BY DEF DeliverInitialized, Delivering, senderVars, IInv, SessionInv, SessionKept, Succeeded
<1>5. ServerRequestsAccounted'
  BY SameAccount DEF DeliverInitialized, senderVars, boundVars, IInv
<1>6. \E i \in Asked \ Reported : Reported' = Reported \cup {i} /\ UNCHANGED Asked
  BY CalledHolds DEF DeliverInitialized, senderVars
<1> QED
  BY <1>1, <1>2, <1>3, <1>4, <1>5, <1>6 DEF IInv

LEMMA TakeSamplingHolds ==
  ASSUME IInv, TakeSampling
  PROVE  IInv'
<1>1. Types'
  BY DEF TakeSampling, requestVars, serverVars, senderVars, boundVars, IInv, Types, TypeOK
<1>2. PlaceInv'
  BY SamePlace DEF TakeSampling, senderVars, IInv
<1>3. ThreadInv'
  BY DEF TakeSampling, requestVars, senderVars, IInv, ThreadInv
<1>4. SessionInv'
  BY DEF TakeSampling, requestVars, serverVars, senderVars, IInv, SessionInv, SessionKept
<1>5. ServerRequestsAccounted'
  <2>1. Requests(body) \in Nat
    BY TailRequests DEF IInv, Types
  <2>2. body' = body
    BY DEF TakeSampling, senderVars
  <2>3. Requests(body') = Requests(body)
    BY <2>2
  <2> QED
    BY <2>1, <2>3 DEF TakeSampling, boundVars, IInv, Types, TypeOK, ThreadInv,
       ServerRequestsAccounted
<1> QED
  BY <1>1, <1>2, <1>3, <1>4, <1>5 DEF IInv

LEMMA AnswerSamplingHolds ==
  ASSUME IInv, AnswerSampling
  PROVE  IInv'
<1>1. Types'
  BY DEF AnswerSampling, Queued, requestVars, serverVars, senderVars, IInv, Types, TypeOK,
     Payloads
<1>2. PlaceInv'
  BY SamePlace DEF AnswerSampling, senderVars, IInv
<1>3. ThreadInv'
  BY DEF AnswerSampling, requestVars, senderVars, IInv, ThreadInv
<1>4. SessionInv'
  BY DEF AnswerSampling, Queued, requestVars, serverVars, senderVars, IInv, SessionInv,
     SessionKept
<1>5. ServerRequestsAccounted'
  <2>1. Requests(body) \in Nat
    BY TailRequests DEF IInv, Types
  <2>2. body' = body
    BY DEF AnswerSampling, senderVars
  <2>3. Requests(body') = Requests(body)
    BY <2>2
  <2> QED
    BY <2>1, <2>3 DEF AnswerSampling, Queued, requestVars, serverVars, senderVars, IInv, Types,
       TypeOK, ThreadInv, ServerRequestsAccounted
<1> QED
  BY <1>1, <1>2, <1>3, <1>4, <1>5 DEF IInv

LEMMA UpdateEndsHolds ==
  ASSUME IInv, UpdateEnds
  PROVE  IInv'
<1>1. Types'
  BY DEF UpdateEnds, requestVars, serverVars, senderVars, samplingVars, boundVars, IInv, Types,
     TypeOK
<1>2. PlaceInv'
  BY SamePlace DEF UpdateEnds, senderVars, IInv
<1>3. ThreadInv'
  BY DEF UpdateEnds, requestVars, senderVars, samplingVars, IInv, ThreadInv
<1>4. SessionInv'
  BY DEF UpdateEnds, requestVars, serverVars, senderVars, IInv, SessionInv, SessionKept
<1>5. ServerRequestsAccounted'
  BY SameAccount DEF UpdateEnds, senderVars, boundVars, IInv
<1> QED
  BY <1>1, <1>2, <1>3, <1>4, <1>5 DEF IInv

LEMMA LookHolds ==
  ASSUME IInv, Look
  PROVE  IInv'
<1>1. Types'
  BY DEF Look, requestVars, serverVars, threadVars, samplingVars, boundVars, IInv, Types, TypeOK
<1>2. PlaceInv'
  BY SamePlace DEF Look, IInv
<1>3. ThreadInv'
  BY DEF Look, requestVars, threadVars, samplingVars, IInv, ThreadInv
<1>4. SessionInv'
  BY DEF Look, requestVars, serverVars, IInv, SessionInv, SessionKept
<1>5. ServerRequestsAccounted'
  BY SameAccount DEF Look, boundVars, IInv
<1> QED
  BY <1>1, <1>2, <1>3, <1>4, <1>5 DEF IInv

LEMMA LookEmptyHolds ==
  ASSUME IInv, LookEmpty
  PROVE  IInv'
<1>1. Types'
  BY DEF LookEmpty, requestVars, serverVars, threadVars, samplingVars, boundVars, IInv, Types,
     TypeOK
<1>2. PlaceInv'
  BY SamePlace DEF LookEmpty, IInv
<1>3. ThreadInv'
  BY DEF LookEmpty, requestVars, threadVars, samplingVars, IInv, ThreadInv
<1>4. SessionInv'
  BY DEF LookEmpty, requestVars, serverVars, IInv, SessionInv, SessionKept
<1>5. ServerRequestsAccounted'
  BY SameAccount DEF LookEmpty, boundVars, IInv
<1> QED
  BY <1>1, <1>2, <1>3, <1>4, <1>5 DEF IInv

LEMMA LeaveHolds ==
  ASSUME IInv, Leave
  PROVE  IInv'
<1>1. Types'
  BY DEF Leave, requestVars, serverVars, samplingVars, boundVars, IInv, Types, TypeOK
<1>2. PlaceInv'
  BY SamePlace DEF Leave, IInv
<1>3. ThreadInv'
  BY DEF Leave, requestVars, samplingVars, IInv, ThreadInv
<1>4. SessionInv'
  BY DEF Leave, requestVars, serverVars, IInv, SessionInv, SessionKept
<1>5. ServerRequestsAccounted'
  BY SameAccount DEF Leave, boundVars, IInv
<1> QED
  BY <1>1, <1>2, <1>3, <1>4, <1>5 DEF IInv

LEMMA BodiesSeq ==
  ASSUME NEW ids \in SUBSET Ids, NEW b \in Bodies(ids)
  PROVE  b \in Seq(Messages)
<1> DEFINE some == [kind : {"response"}, id : ids, code : {"success", "error"}]
                        \cup [kind : {"sampling/createMessage", "other"}]
<1>1. some \subseteq Messages
  BY DEF Messages
<1>2. b = <<>> \/ \E m \in some : b = <<m>> \/ b = <<m, m>>
  BY DEF Bodies
<1>3. \A m \in some : <<m>> \in Seq(Messages) /\ <<m, m>> \in Seq(Messages)
  <2> HIDE DEF some
  <2> QED
    BY <1>1
<1> HIDE DEF some
<1>4. CASE b = <<>>
  BY <1>4
<1>5. CASE \E m \in some : b = <<m>> \/ b = <<m, m>>
  <2>1. PICK m \in some : b = <<m>> \/ b = <<m, m>>
    BY <1>5
  <2>2. CASE b = <<m>>
    BY <1>3, <2>2
  <2>3. CASE b = <<m, m>>
    BY <1>3, <2>3
  <2> QED
    BY <2>1, <2>2, <2>3
<1> QED
  BY <1>2, <1>4, <1>5

LEMMA PostHolds ==
  ASSUME IInv, Post
  PROVE  IInv'
<1>1. Types'
  <2> DEFINE p == Head(payloadList)
  <2>1. p \in Payloads /\ payloadList' \in Seq(Payloads)
    BY DEF Post, IInv, Types, TypeOK
  <2>2. seen' \in SUBSET Ids
    BY <2>1 DEF Post, Payloads, IInv, Types, TypeOK
  <2>3. body' \in Seq(Messages)
    BY <2>2, BodiesSeq DEF Post, IInv, Types
  <2>4. mSessionHeader' \in BOOLEAN
    BY DEF Post, IInv, Types, TypeOK
  <2>5. served' \in Nat
    BY <2>3, TailRequests DEF Post, IInv, Types, TypeOK
  <2>6. sender' \in {"none", "look", "post", "read", "leave"}
    BY DEF Post
  <2> QED
    BY <2>2, <2>3, <2>4, <2>5 DEF Post, requestVars, serverVars, threadVars, samplingVars, IInv,
       Types, TypeOK
<1>2. PlaceInv'
  BY SamePlace DEF Post, IInv
<1>3. ThreadInv'
  BY DEF Post, requestVars, threadVars, samplingVars, IInv, ThreadInv
<1>4. SessionInv'
  <2>1. payloadList \in Seq(Payloads) /\ payloadList # <<>> /\ payloadList' = Tail(payloadList)
    BY DEF Post, IInv, Types, TypeOK
  <2>2. \A n \in DOMAIN payloadList' :
            n + 1 \in DOMAIN payloadList /\ payloadList'[n] = payloadList[n + 1]
    BY <2>1
  <2>3. SessionKept'
    BY DEF Post, IInv, SessionInv, SessionKept
  <2>4. Stateful /\ (mSessionHeader \/ sender' = "read") => mSessionHeader'
    BY DEF Post
  <2> QED
    BY <2>3, <2>4 DEF Post, requestVars, serverVars, IInv, SessionInv
<1>5. ServerRequestsAccounted'
  <2>1. body = <<>> /\ body \in Seq(Messages) /\ body' \in Seq(Messages)
    BY <1>1 DEF Post, IInv, Types, ThreadInv
  <2>2. Requests(body) = 0 /\ Requests(body') \in Nat
    BY <2>1, TailRequests
  <2>3. \/ served' = served /\ body' = body
        \/ served' = served + Requests(body')
    BY DEF Post
  <2> QED
    BY SMTT(30), <2>2, <2>3 DEF Post, samplingVars, IInv, Types, TypeOK, ServerRequestsAccounted
<1> QED
  BY <1>1, <1>2, <1>3, <1>4, <1>5 DEF IInv

LEMMA PostEndsHolds ==
  ASSUME IInv, PostEnds
  PROVE  IInv'
<1>1. Types'
  BY DEF PostEnds, requestVars, serverVars, threadVars, samplingVars, boundVars, IInv, Types,
     TypeOK
<1>2. PlaceInv'
  BY SamePlace DEF PostEnds, IInv
<1>3. ThreadInv'
  BY DEF PostEnds, requestVars, threadVars, samplingVars, IInv, ThreadInv
<1>4. SessionInv'
  BY DEF PostEnds, requestVars, serverVars, IInv, SessionInv, SessionKept
<1>5. ServerRequestsAccounted'
  BY SameAccount DEF PostEnds, boundVars, IInv
<1> QED
  BY <1>1, <1>2, <1>3, <1>4, <1>5 DEF IInv

LEMMA ReadEndsHolds ==
  ASSUME IInv, ReadEnds
  PROVE  IInv'
<1>1. Types'
  BY DEF ReadEnds, requestVars, serverVars, threadVars, samplingVars, boundVars, IInv, Types,
     TypeOK
<1>2. PlaceInv'
  BY SamePlace DEF ReadEnds, IInv
<1>3. ThreadInv'
  BY DEF ReadEnds, Reading, requestVars, threadVars, samplingVars, IInv, ThreadInv
<1>4. SessionInv'
  BY DEF ReadEnds, requestVars, serverVars, IInv, SessionInv, SessionKept
<1>5. ServerRequestsAccounted'
  BY SameAccount DEF ReadEnds, boundVars, IInv
<1> QED
  BY <1>1, <1>2, <1>3, <1>4, <1>5 DEF IInv

LEMMA ReadResponseHolds ==
  ASSUME IInv, ReadResponse
  PROVE  IInv' /\ UNCHANGED <<Asked, Reported>>
<1> DEFINE i == Head(body).id
           c == Head(body).code
<1>a. /\ body \in Seq(Messages) /\ body # <<>> /\ Head(body).kind = "response"
      /\ body' = Tail(body) /\ found = <<>>
      /\ UNCHANGED <<mQueuedResponses, movedResponseObject, called>>
      /\ \/ /\ i \in DOMAIN mRequestMap
            /\ Forget(i)
            /\ found' = <<[id |-> i, method |-> mRequestMap[i].method, code |-> c]>>
         \/ UNCHANGED <<mRequestMap, found>>
  BY DEF ReadResponse, Reading, IInv, Types
<1>b. /\ body' \in Seq(Messages) /\ Head(body) \in Messages
      /\ Requests(body') \in Nat /\ Requests(body') = Requests(body)
  <2> HIDE DEF i, c
  <2>1. Requests(body) = Requests(Tail(body)) + IF Head(body).kind # "response" THEN 1 ELSE 0
    BY <1>a, TailRequests
  <2>2. Tail(body) \in Seq(Messages) /\ Head(body) \in Messages
    BY <1>a
  <2>3. Requests(Tail(body)) \in Nat
    BY <2>2, TailRequests
  <2> QED
    BY <1>a, <2>1, <2>3
<1>c. i \in Ids /\ c \in {"success", "error"}
  BY <1>a DEF Messages
<1>d. \/ UNCHANGED <<mRequestMap, found>>
      \/ /\ i \in DOMAIN mRequestMap
         /\ DOMAIN mRequestMap' = DOMAIN mRequestMap \ {i}
         /\ \A j \in DOMAIN mRequestMap' : mRequestMap'[j] = mRequestMap[j]
         /\ found' = <<[id |-> i, method |-> mRequestMap[i].method, code |-> c]>>
  BY <1>a DEF Forget, Restrict
<1> HIDE DEF i, c
<1>1. Types'
  <2>1. IsFiniteSet(DOMAIN mRequestMap')
    BY <1>d, FS_RemoveElement DEF IInv, Types
  <2>2. found' \in Seq(Responses)
    <3>1. found \in Seq(Responses)
      BY DEF IInv, Types, TypeOK
    <3>2. i \in DOMAIN mRequestMap => mRequestMap[i].method \in Methods \cup {"initialize"}
      BY DEF IInv, Types, TypeOK
    <3>3. i \in DOMAIN mRequestMap =>
              [id |-> i, method |-> mRequestMap[i].method, code |-> c] \in Responses
      BY <1>c, <3>2 DEF Responses, Codes
    <3> DEFINE q == [id |-> i, method |-> mRequestMap[i].method, code |-> c]
    <3>4. found' = found \/ (q \in Responses /\ found' = <<q>>)
      BY <1>d, <3>3
    <3> HIDE DEF q
    <3>5. q \in Responses => <<q>> \in Seq(Responses)
      OBVIOUS
    <3> QED
      BY <3>1, <3>4, <3>5
  <2>3. TypeOK'
    BY <1>d, <2>2 DEF ReadResponse, serverVars, threadVars, samplingVars, boundVars, IInv, Types,
       TypeOK
  <2> QED
    BY <1>a, <2>1, <2>3 DEF IInv, Types
<1>2. PlaceInv'
  <2>1. CASE UNCHANGED <<mRequestMap, found>>
    BY <1>a, <2>1, SamePlace DEF requestVars, IInv
  <2>2. CASE i \in DOMAIN mRequestMap /\ DOMAIN mRequestMap' = DOMAIN mRequestMap \ {i}
             /\ found' = <<[id |-> i, method |-> mRequestMap[i].method, code |-> c]>>
    <3>1. IdsOf(found') = {i} /\ Distinct(found')
      BY <2>2 DEF IdsOf, Distinct
    <3>2. Reported' = Reported
      BY <1>a DEF Reported
    <3> QED
      BY <1>a, <2>2, <3>1, <3>2 DEF IInv, PlaceInv
  <2> QED
    BY <1>d, <2>1, <2>2
<1>3. ThreadInv'
  BY DEF ReadResponse, threadVars, samplingVars, IInv, ThreadInv
<1>4. SessionInv'
  BY DEF ReadResponse, Reading, IInv, SessionInv, SessionKept
<1>5. ServerRequestsAccounted'
  BY <1>b DEF ReadResponse, samplingVars, boundVars, IInv, ServerRequestsAccounted
<1>6. UNCHANGED <<Asked, Reported>>
  <2>1. DOMAIN mRequestMap' \cup IdsOf(found') = DOMAIN mRequestMap \cup IdsOf(found)
    <3>1. CASE UNCHANGED <<mRequestMap, found>>
      BY <3>1
    <3>2. CASE i \in DOMAIN mRequestMap /\ DOMAIN mRequestMap' = DOMAIN mRequestMap \ {i}
               /\ found' = <<[id |-> i, method |-> mRequestMap[i].method, code |-> c]>>
      <4>1. IdsOf(found') = {i} /\ IdsOf(found) = {}
        BY <1>a, <3>2 DEF IdsOf
      <4> QED
        BY <3>2, <4>1
    <3> QED
      BY <1>d, <3>2
  <2> QED
    BY <1>a, <2>1 DEF Asked, Reported
<1> QED
  BY <1>1, <1>2, <1>3, <1>4, <1>5, <1>6 DEF IInv

LEMMA QueueResponseHolds ==
  ASSUME IInv, QueueResponse
  PROVE  IInv' /\ UNCHANGED <<Asked, Reported>>
<1>1. Types'
  BY DEF QueueResponse, serverVars, threadVars, samplingVars, boundVars, IInv, Types, TypeOK
<1>2. PlaceInv'
  <2>1. mQueuedResponses \in Seq(Responses) /\ found \in Seq(Responses)
    BY DEF IInv, Types, TypeOK
  <2>2. /\ IdsOf(mQueuedResponses') = IdsOf(mQueuedResponses) \cup IdsOf(found)
        /\ Distinct(mQueuedResponses')
    BY <2>1, JoinedIds DEF QueueResponse, IInv, PlaceInv
  <2>3. IdsOf(found') = {} /\ Distinct(found')
    BY NoIds DEF QueueResponse
  <2>4. UNCHANGED <<mRequestMap, movedResponseObject, called>>
    BY DEF QueueResponse
  <2>5. Reported' = Reported
    BY <2>4 DEF Reported
  <2> QED
    BY <2>2, <2>3, <2>4, <2>5 DEF IInv, PlaceInv
<1>3. ThreadInv'
  BY DEF QueueResponse, threadVars, samplingVars, IInv, ThreadInv
<1>4. SessionInv'
  BY DEF QueueResponse, serverVars, samplingVars, IInv, SessionInv, SessionKept, Succeeded
<1>5. ServerRequestsAccounted'
  BY SameAccount DEF QueueResponse, boundVars, IInv
<1>6. UNCHANGED <<Asked, Reported>>
  <2>1. mQueuedResponses \in Seq(Responses) /\ found \in Seq(Responses)
    BY DEF IInv, Types, TypeOK
  <2>2. /\ IdsOf(mQueuedResponses') = IdsOf(mQueuedResponses) \cup IdsOf(found)
        /\ IdsOf(found') = {}
    BY <2>1, JoinedIds, NoIds DEF QueueResponse
  <2> QED
    BY <2>2 DEF QueueResponse, Asked, Reported
<1> QED
  BY <1>1, <1>2, <1>3, <1>4, <1>5, <1>6 DEF IInv

LEMMA ReadRequestHolds ==
  ASSUME IInv, ReadRequest
  PROVE  IInv'
<1>1. Types'
  <2>1. body' \in Seq(Messages)
    BY DEF ReadRequest, IInv, Types
  <2>2. [kind |-> "answer", bound |-> mIsServerInitialized] \in Payloads
    BY DEF Payloads, IInv, Types, TypeOK
  <2>3. mPayloadList \in Seq(Payloads)
    BY DEF IInv, Types, TypeOK
  <2>4. mPayloadList' \in Seq(Payloads)
    <3>1. \/ UNCHANGED mPayloadList
          \/ mPayloadList' = Append(mPayloadList, [kind |-> "answer", bound |-> mIsServerInitialized])
      BY DEF ReadRequest, Queued
    <3> QED
      BY <2>2, <2>3, <3>1
  <2>5. TypeOK'
    BY SMTT(30), <2>4 DEF ReadRequest, requestVars, serverVars, threadVars, IInv, Types, TypeOK
  <2> QED
    BY <2>5 DEF ReadRequest, requestVars, IInv, Types
<1>2. PlaceInv'
  BY SamePlace DEF ReadRequest, IInv
<1>3. ThreadInv'
  BY DEF ReadRequest, requestVars, threadVars, IInv, ThreadInv
<1>4. SessionInv'
  BY DEF ReadRequest, Reading, IInv, SessionInv, SessionKept
<1>5. ServerRequestsAccounted'
  <2>1. /\ Requests(body) = Requests(body') + 1
        /\ Requests(body') \in Nat
    BY TailRequests DEF ReadRequest, IInv, Types
  <2> QED
    BY SMTT(30), <2>1 DEF ReadRequest, IInv, Types, TypeOK, ServerRequestsAccounted
<1> QED
  BY <1>1, <1>2, <1>3, <1>4, <1>5 DEF IInv

-----------------------------------------------------------------------------
(* The theorems.                                                           *)

LEMMA InitHolds ==
  ASSUME Init
  PROVE  IInv
<1>1. Types
  <2>1. DOMAIN mRequestMap = {} /\ IsFiniteSet(DOMAIN mRequestMap)
    BY FS_EmptySet DEF Init
  <2>2. /\ {mQueuedResponses, movedResponseObject, found} \subseteq Seq(Responses)
        /\ {mPayloadList, payloadList} \subseteq Seq(Payloads) /\ body \in Seq(Messages)
        /\ called \in [Ids -> Seq(Codes)]
    BY DEF Init
  <2>3. {mIsServerInitialized, mSessionHeader, requestHeaders, mIsProcessorRunning, starting}
            \subseteq BOOLEAN
    BY DEF Init
  <2>4. /\ {mSamplingRequestsList, tmpSamplingRequests, roots, served, answered} \subseteq Nat
        /\ mSupported = {} /\ seen = {} /\ sender = "none" /\ place = "idle"
    BY DEF Init
  <2> QED
    BY <2>1, <2>2, <2>3, <2>4 DEF Types, TypeOK
<1>2. Reported = {}
  BY DEF Init, Reported
<1>3. PlaceInv
  BY NoIds DEF Init, PlaceInv
<1>4. ThreadInv
  BY DEF Init, ThreadInv
<1>5. SessionInv
  BY NoIds DEF Init, SessionInv, SessionKept
<1>6. ServerRequestsAccounted
  <2>1. <<>> \in Seq(Messages)
    OBVIOUS
  <2>2. Requests(<<>>) = 0
    BY <2>1, TailRequests
  <2> QED
    BY <2>2 DEF Init, ServerRequestsAccounted
<1> QED
  BY <1>1, <1>3, <1>4, <1>5, <1>6 DEF IInv

\* What a step does to the requests: it asks one, reports one, or neither.
Kept == UNCHANGED <<Asked, Reported>>
Step == \/ Kept
        \/ \E i \in Ids \ Asked : Asked' = Asked \cup {i} /\ UNCHANGED Reported
        \/ \E i \in Asked \ Reported : Reported' = Reported \cup {i} /\ UNCHANGED Asked

LEMMA SameRequests ==
  ASSUME UNCHANGED <<requestVars, found>>
  PROVE  Step
BY DEF requestVars, Asked, Reported, Kept, Step

LEMMA UnchangedHolds ==
  ASSUME IInv, UNCHANGED vars
  PROVE  IInv' /\ Step
<1>1. Types'
  BY DEF vars, requestVars, serverVars, senderVars, threadVars, samplingVars, boundVars, IInv,
     Types, TypeOK
<1>2. PlaceInv' /\ Step
  BY SamePlace, SameRequests DEF vars, senderVars, IInv
<1>3. ThreadInv'
  BY DEF vars, requestVars, senderVars, threadVars, samplingVars, IInv, ThreadInv
<1>4. SessionInv'
  BY DEF vars, requestVars, serverVars, senderVars, IInv, SessionInv, SessionKept
<1>5. ServerRequestsAccounted'
  BY SameAccount DEF vars, senderVars, boundVars, IInv
<1> QED
  BY <1>1, <1>2, <1>3, <1>4, <1>5 DEF IInv

LEMMA NextHolds ==
  ASSUME IInv, [Next]_vars
  PROVE  IInv' /\ Step
<1>1. CASE Application
  <2>1. CASE initialize
    BY <2>1, CreateRequestStateHolds DEF initialize, Step
  <2>2. ASSUME NEW m \in Methods, Request(m)
        PROVE  IInv' /\ Step
    BY <2>2, CreateRequestStateHolds DEF Request, Step
  <2>3. CASE RootsChanged
    BY <2>3, RootsChangedHolds, SameRequests DEF RootsChanged, senderVars
  <2> QED
    BY <1>1, <2>1, <2>2, <2>3 DEF Application
<1>2. CASE Owner
  <2>1. CASE start_processor
    BY <2>1, StartProcessorHolds, SameRequests DEF start_processor
  <2>2. CASE RunTimers
    BY <2>2, RunTimersHolds, SameRequests DEF RunTimers, senderVars
  <2>3. CASE RunTimersDue
    BY <2>3, RunTimersDueHolds DEF Kept, Step
  <2>4. CASE TakeResponses
    BY <2>4, TakeResponsesHolds DEF Kept, Step
  <2>5. CASE Deliver \/ DeliverInitialized
    BY <2>5, DeliverHolds, DeliverInitializedHolds DEF Step
  <2>6. CASE TakeSampling
    BY <2>6, TakeSamplingHolds, SameRequests DEF TakeSampling, senderVars
  <2>7. CASE AnswerSampling
    BY <2>7, AnswerSamplingHolds, SameRequests DEF AnswerSampling, senderVars
  <2>8. CASE UpdateEnds
    BY <2>8, UpdateEndsHolds, SameRequests DEF UpdateEnds, senderVars
  <2>9. CASE Spin
    BY <2>9, UnchangedHolds DEF Spin
  <2> QED
    BY <1>2, <2>1, <2>2, <2>3, <2>4, <2>5, <2>6, <2>7, <2>8, <2>9 DEF Owner
<1>3. CASE Sender
  <2>1. CASE Look
    BY <2>1, LookHolds, SameRequests DEF Look
  <2>2. CASE LookEmpty
    BY <2>2, LookEmptyHolds, SameRequests DEF LookEmpty
  <2>3. CASE Leave
    BY <2>3, LeaveHolds, SameRequests DEF Leave
  <2>4. CASE Post
    BY <2>4, PostHolds, SameRequests DEF Post
  <2>5. CASE PostEnds
    BY <2>5, PostEndsHolds, SameRequests DEF PostEnds
  <2>6. CASE ReadEnds
    BY <2>6, ReadEndsHolds, SameRequests DEF ReadEnds
  <2>7. CASE ReadResponse
    BY <2>7, ReadResponseHolds DEF Kept, Step
  <2>8. CASE QueueResponse
    BY <2>8, QueueResponseHolds DEF Kept, Step
  <2>9. CASE ReadRequest
    BY <2>9, ReadRequestHolds, SameRequests DEF ReadRequest
  <2> QED
    BY <1>3, <2>1, <2>2, <2>3, <2>4, <2>5, <2>6, <2>7, <2>8, <2>9 DEF Sender
<1>4. CASE UNCHANGED vars
  BY <1>4, UnchangedHolds
<1> QED
  BY <1>1, <1>2, <1>3, <1>4 DEF Next

LEMMA Invariance == Spec => []IInv
<1>1. Init => IInv
  BY InitHolds
<1>2. IInv /\ [Next]_vars => IInv'
  BY NextHolds
<1> QED
  BY <1>1, <1>2, PTL DEF Spec

\* What RequestsKept says holds for any number of requests, whatever their timeouts, of an
\* application that makes them from callbacks as it likes, and whatever the server answers,
\* late, twice or never: a request is in one place at a time and its callback called at most
\* once (on_call, process_response_message, update), what is queued for an initialized
\* server is posted with its session id (update_t), and each of the server's requests is
\* answered once.
THEOREM RequestsStay == Spec => []RequestsKept
<1>1. IInv => RequestsKept
  BY Accounted DEF IInv, Types, SessionInv, SessionKept, RequestsKept
<1> QED
  BY <1>1, Invariance, PTL

\* A step is one of McpRequests, or leaves its requests alone.
LEMMA StepImplements ==
  ASSUME IInv, Step
  PROVE  [Promise!Next]_request
<1>1. \A i \in Ids : called[i] # <<>> <=> i \in Reported
  BY DEF Reported
<1>2. \A i \in Ids : called'[i] # <<>> <=> i \in Reported'
  BY DEF Reported
<1>3. CASE Kept
  BY <1>1, <1>2, <1>3 DEF Kept, request
<1>4. ASSUME NEW i \in Ids \ Asked, Asked' = Asked \cup {i}, UNCHANGED Reported
      PROVE  Promise!Take(i)
  <2>1. i \notin Reported
    BY DEF Asked, Reported
  <2>2. request[i] = "new"
    BY <1>1, <2>1 DEF request
  <2>3. request' = [request EXCEPT ![i] = "pending"]
    BY <1>1, <1>2, <1>4, <2>1 DEF request
  <2> QED
    BY <2>2, <2>3 DEF Promise!Take
<1>5. ASSUME NEW i \in Asked \ Reported, Reported' = Reported \cup {i}, UNCHANGED Asked
      PROVE  i \in Ids /\ Promise!Report(i)
  <2>1. i \in Ids
    BY <1>5 DEF Reported
  <2>2. request[i] = "pending"
    BY <1>1, <2>1 DEF request
  <2>3. request' = [request EXCEPT ![i] = "reported"]
    BY <1>1, <1>2, <1>5 DEF request
  <2> QED
    BY <2>1, <2>2, <2>3 DEF Promise!Report
<1> QED
  BY <1>3, <1>4, <1>5 DEF Step, Promise!Next

\* The client implements McpRequests: a request that has been made stays pending until the
\* application's callback is called with a result, an error or a timeout, and is never
\* reported again (create_request_state, update).
THEOREM RequestsImplemented == Spec => IsMcpRequests
<1>1. Init => Promise!Init
  <2>1. ASSUME Init, NEW i \in Ids
        PROVE  called[i] = <<>> /\ i \notin Asked
    BY <2>1, NoIds DEF Init, Asked
  <2> QED
    BY <2>1 DEF Promise!Init, request
<1>2. IInv /\ [Next]_vars => [Promise!Next]_request
  BY NextHolds, StepImplements
<1> QED
  BY <1>1, <1>2, Invariance, PTL DEF Spec, IsMcpRequests, Promise!Safety

===============================================================================
