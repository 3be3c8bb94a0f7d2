---------------------------- MODULE McpServerProofs ----------------------------
(***************************************************************************)
(* Proofs about the MCP server over stdio, for any requests, queries and   *)
(* features: the reader's answers and those of update() do not meet, a     *)
(* cancellation comes in time or too late, and the client knows when a     *)
(* list it has read is stale.                                              *)
(***************************************************************************)
EXTENDS McpServer, McpHttp, FiniteSetTheorems, SequenceTheorems, TLAPS

QueueIds(s) == {s[n].id : n \in DOMAIN s}
Once(s) == \A m, n \in DOMAIN s : s[m].id = s[n].id => m = n
Elements(s) == {s[n] : n \in DOMAIN s}
Different(s) == \A m, n \in DOMAIN s : s[m] = s[n] => m = n

\* The application's thread: it holds the mutex while it reports results, and what it has taken is
\* empty outside of the calls.
PlaceInv ==
    /\ place # "stuck"
    /\ place # "crashed" => (mClientListMutex = "owner" <=> place \in {"results", "result"})
    /\ place \notin {"calls", "feature", "crashed"} => syncFeatureRequests = <<>>
    /\ place = "feature" => syncFeatureRequests # <<>>

\* A request is in one hand at a time: the reader's, the queue, what update() took; and is answered
\* once it is in none.
OnceInv ==
    /\ Len(hand) <= 1
    /\ Once(mSyncFeatureRequests) /\ Once(syncFeatureRequests)
    /\ QueueIds(hand) \cap QueueIds(mSyncFeatureRequests) = {}
    /\ QueueIds(hand) \cap QueueIds(syncFeatureRequests) = {}
    /\ QueueIds(mSyncFeatureRequests) \cap QueueIds(syncFeatureRequests) = {}
    /\ QueueIds(hand) \cup QueueIds(mSyncFeatureRequests) \cup
         QueueIds(syncFeatureRequests) \subseteq read
    /\ \A i \in Ids :
          /\ answers[i] \in {0, 1}
          /\ answers[i] = 1 =>
                /\ i \in read
                /\ i \notin QueueIds(hand) \cup QueueIds(mSyncFeatureRequests) \cup
                     QueueIds(syncFeatureRequests)

\* The mark of a queued call says whether it was cancelled, a call that ran is with the application's
\* thread or answered.
CancelInv ==
    /\ cancelled \subseteq read /\ cancelled \cap QueueIds(hand) = {} /\ cancelled \cap ran = {}
    /\ \A n \in DOMAIN mSyncFeatureRequests :
          mSyncFeatureRequests[n].mIsCancelled <=> mSyncFeatureRequests[n].id \in cancelled
    /\ \A n \in DOMAIN syncFeatureRequests :
          syncFeatureRequests[n].mIsCancelled <=> syncFeatureRequests[n].id \in cancelled
    /\ \A i \in ran : \/ answers[i] = 1
                      \/ place \in {"feature", "crashed"} /\ i = Head(syncFeatureRequests).id

\* A client is in the list only once, and was listed nothing before it was initialized.
ClientInv ==
    /\ mConnectedClients > 0 => mIsInitializing \/ mIsClientInitialized
    /\ ~mIsClientInitialized => \A f \in Features : view[f] = 0
    /\ ViewFresh

\* A request of the server waits for its answer or for its report, once.
QueryInv ==
    /\ Different(mRootsResultObjects) /\ Different(mSamplingResultObjects)
    /\ DOMAIN mRequestObject \cap Elements(mRootsResultObjects) = {}
    /\ DOMAIN mRequestObject \cap Elements(mSamplingResultObjects) = {}
    /\ Elements(mRootsResultObjects) \cap Elements(mSamplingResultObjects) = {}
    /\ \A q \in Queries :
          reported[q] \in {0, 1} /\ (reported[q] = 1 => ~Pending(q))

IInv == TypeOK /\ PlaceInv /\ OnceInv /\ CancelInv /\ ClientInv /\ QueryInv

-----------------------------------------------------------------------------
(* Queues.                                                                 *)

LEMMA AppendFacts ==
  ASSUME NEW S, NEW s \in Seq(S), NEW e \in S
  PROVE  /\ Append(s, e) \in Seq(S)
         /\ Elements(Append(s, e)) = Elements(s) \cup {e}
         /\ QueueIds(Append(s, e)) = QueueIds(s) \cup {e.id}
         /\ Different(s) /\ e \notin Elements(s) => Different(Append(s, e))
         /\ Once(s) /\ e.id \notin QueueIds(s) => Once(Append(s, e))
<1>1. /\ Append(s, e) \in Seq(S) /\ DOMAIN s = 1..Len(s) /\ Len(s) \in Nat
      /\ DOMAIN Append(s, e) = 1..(Len(s) + 1) /\ Append(s, e)[Len(s) + 1] = e
      /\ \A i \in 1..Len(s) : Append(s, e)[i] = s[i]
  OBVIOUS
<1>2. \A i \in 1..(Len(s) + 1) : i \in 1..Len(s) \/ i = Len(s) + 1
  OBVIOUS
<1>3. \A i \in 1..Len(s) : i \in 1..(Len(s) + 1) /\ Len(s) + 1 \in 1..(Len(s) + 1)
  OBVIOUS
<1>4. Len(s) + 1 \in 1..(Len(s) + 1)
  OBVIOUS
<1>5. Elements(Append(s, e)) = Elements(s) \cup {e}
  BY <1>4 DEF Elements
<1>6. QueueIds(Append(s, e)) = QueueIds(s) \cup {e.id}
  BY DEF QueueIds
<1>7. Different(s) /\ e \notin Elements(s) => Different(Append(s, e))
  BY DEF Different, Elements
<1>8. Once(s) /\ e.id \notin QueueIds(s) => Once(Append(s, e))
  BY DEF Once, QueueIds
<1> QED
  BY <1>5, <1>6, <1>7, <1>8

LEMMA TailFacts ==
  ASSUME NEW S, NEW s \in Seq(S), s # <<>>
  PROVE  /\ Tail(s) \in Seq(S) /\ Head(s) \in S
         /\ Elements(s) = {Head(s)} \cup Elements(Tail(s))
         /\ QueueIds(s) = {Head(s).id} \cup QueueIds(Tail(s))
         /\ Different(s) => Different(Tail(s)) /\ Head(s) \notin Elements(Tail(s))
         /\ Once(s) => Once(Tail(s)) /\ Head(s).id \notin QueueIds(Tail(s))
<1>1. /\ Tail(s) \in Seq(S) /\ DOMAIN s = 1..Len(s) /\ Len(s) \in Nat /\ Len(s) > 0
      /\ DOMAIN Tail(s) = 1..(Len(s) - 1) /\ Head(s) = s[1] /\ Head(s) \in S
      /\ \A i \in 1..(Len(s) - 1) : Tail(s)[i] = s[i + 1]
  OBVIOUS
<1>2. \A i \in 1..Len(s) : i = 1 \/ (i - 1 \in 1..(Len(s) - 1) /\ s[i] = Tail(s)[i - 1])
  OBVIOUS
<1>3. \A i \in 1..(Len(s) - 1) : i + 1 \in 1..Len(s) /\ i + 1 # 1
  OBVIOUS
<1>4. 1 \in 1..Len(s)
  OBVIOUS
<1>9. \A i, j \in 1..(Len(s) - 1) : i + 1 = j + 1 => i = j
  OBVIOUS
<1>5. Elements(s) = {Head(s)} \cup Elements(Tail(s))
  <2>1. ASSUME NEW i \in 1..Len(s) PROVE s[i] \in {Head(s)} \cup Elements(Tail(s))
    <3>1. CASE i = 1
      BY <3>1
    <3>2. CASE i - 1 \in 1..(Len(s) - 1) /\ s[i] = Tail(s)[i - 1]
      BY <1>1, <3>2 DEF Elements
    <3> QED
      BY <3>2
  <2>2. ASSUME NEW i \in 1..(Len(s) - 1) PROVE Tail(s)[i] \in Elements(s)
    <3>1. i + 1 \in 1..Len(s) /\ Tail(s)[i] = s[i + 1]
      OBVIOUS
    <3> QED
      BY DEF Elements
  <2>3. Head(s) \in Elements(s)
    BY DEF Elements
  <2> QED
    BY <1>1, <2>1, <2>2, <2>3 DEF Elements
<1>6. QueueIds(s) = {Head(s).id} \cup QueueIds(Tail(s))
  <2>1. ASSUME NEW i \in 1..Len(s) PROVE s[i].id \in {Head(s).id} \cup QueueIds(Tail(s))
    <3>1. CASE i = 1
      BY <3>1
    <3>2. CASE i - 1 \in 1..(Len(s) - 1) /\ s[i] = Tail(s)[i - 1]
      BY <1>1, <3>2 DEF QueueIds
    <3> QED
      BY <3>2
  <2>2. ASSUME NEW i \in 1..(Len(s) - 1) PROVE Tail(s)[i].id \in QueueIds(s)
    <3>1. i + 1 \in 1..Len(s) /\ Tail(s)[i] = s[i + 1]
      OBVIOUS
    <3> QED
      BY DEF QueueIds
  <2>3. Head(s).id \in QueueIds(s)
    BY DEF QueueIds
  <2> QED
    BY <1>1, <2>1, <2>2, <2>3 DEF QueueIds
<1>7. Different(s) => Different(Tail(s)) /\ Head(s) \notin Elements(Tail(s))
  BY DEF Different, Elements
<1>8. Once(s) => Once(Tail(s)) /\ Head(s).id \notin QueueIds(Tail(s))
  BY DEF Once, QueueIds
<1> QED
  BY <1>5, <1>6, <1>7, <1>8

LEMMA EmptyFacts ==
  /\ Elements(<<>>) = {} /\ QueueIds(<<>>) = {} /\ Different(<<>>) /\ Once(<<>>) /\ Len(<<>>) = 0
BY DEF Elements, QueueIds, Different, Once

LEMMA OneFacts ==
  ASSUME NEW e
  PROVE  QueueIds(<<e>>) = {e.id} /\ Len(<<e>>) = 1
BY DEF QueueIds

\* A request stands in a queue once or not at all.
LEMMA CountOfOne ==
  ASSUME NEW s, NEW i, Once(s)
  PROVE  InQueue(s, i) = IF i \in QueueIds(s) THEN 1 ELSE 0
<1> DEFINE places == {n \in DOMAIN s : s[n].id = i}
<1>1. CASE i \in QueueIds(s)
  <2>1. PICK m \in DOMAIN s : s[m].id = i
    BY <1>1 DEF QueueIds
  <2>2. places = {m}
    BY <2>1 DEF Once
  <2>3. Cardinality({m}) = 1
    BY FS_Singleton
  <2> QED
    BY <1>1, <2>2, <2>3 DEF InQueue
<1>2. CASE i \notin QueueIds(s)
  <2>1. places = {}
    BY <1>2 DEF QueueIds
  <2> QED
    BY <1>2, <2>1, FS_EmptySet DEF InQueue
<1> QED
  BY <1>1, <1>2

\* The calls that are marked keep their places, ids and features.
MarkedCalls(s, i) == [n \in DOMAIN s |-> [s[n] EXCEPT !.mIsCancelled = @ \/ s[n].id = i]]

LEMMA MarkFacts ==
  ASSUME NEW s \in Seq(Calls), NEW i
  PROVE  LET t == MarkedCalls(s, i) IN
         /\ t \in Seq(Calls) /\ DOMAIN t = DOMAIN s
         /\ \A n \in DOMAIN s : t[n].id = s[n].id /\
              (t[n].mIsCancelled <=> s[n].mIsCancelled \/ s[n].id = i)
         /\ QueueIds(t) = QueueIds(s)
         /\ Once(s) => Once(t)
<1> DEFINE t == MarkedCalls(s, i)
<1>1. DOMAIN s = 1..Len(s) /\ Len(s) \in Nat /\ \A n \in DOMAIN s : s[n] \in Calls
  OBVIOUS
<1>2. DOMAIN t = DOMAIN s
  BY DEF MarkedCalls
<1>3. ASSUME NEW n \in DOMAIN s
      PROVE  /\ t[n] \in Calls /\ t[n].id = s[n].id
             /\ t[n].mIsCancelled <=> s[n].mIsCancelled \/ s[n].id = i
  <2>1. s[n] \in Calls /\ t[n] = [s[n] EXCEPT !.mIsCancelled = @ \/ s[n].id = i]
    BY DEF MarkedCalls
  <2>2. \A b \in BOOLEAN : [s[n] EXCEPT !.mIsCancelled = b] \in Calls
    BY <2>1 DEF Calls
  <2>3. (s[n].mIsCancelled \/ s[n].id = i) \in BOOLEAN
    OBVIOUS
  <2>4. t[n] \in Calls
    BY <2>1, <2>2
  <2> QED
    BY <2>1 DEF Calls
<1> HIDE DEF t
<1>4. t \in Seq(Calls)
  <2>1. t \in [1..Len(s) -> Calls]
    BY <1>1, <1>3 DEF t, MarkedCalls
  <2> QED
    BY <2>1
<1>5. QueueIds(t) = QueueIds(s)
  BY <1>2, <1>3 DEF QueueIds
<1>6. Once(s) => Once(t)
  <2>1. ASSUME Once(s), NEW m \in DOMAIN t, NEW n \in DOMAIN t, t[m].id = t[n].id PROVE m = n
    <3>1. s[m].id = s[n].id /\ m \in DOMAIN s /\ n \in DOMAIN s
      BY <1>2, <1>3, <2>1
    <3> QED
      BY <2>1, <3>1 DEF Once
  <2> QED
    BY <2>1 DEF Once
<1> QED
  BY <1>2, <1>3, <1>4, <1>5, <1>6 DEF t

LEMMA QueueTypes ==
  ASSUME TypeOK
  PROVE  /\ mSyncFeatureRequests \in Seq(Calls) /\ syncFeatureRequests \in Seq(Calls)
         /\ mRootsResultObjects \in Seq(Queries) /\ mSamplingResultObjects \in Seq(Queries)
         /\ \A f \in Features : KindOf[f] \in Kinds
BY KindOfAssumption DEF TypeOK

\* What the reader is in the middle of.
LEMMA HandFacts ==
  ASSUME TypeOK, OnceInv, hand # <<>>
  PROVE  /\ hand[1].id \in Ids /\ QueueIds(hand) = {hand[1].id}
         /\ hand[1].step = "found" => hand[1].feature \in Features
<1>1. hand \in Seq([step : {"listed"}, id : Ids] \cup
        [step : {"found"}, id : Ids, feature : Features])
  BY DEF TypeOK
<1>2. DOMAIN hand = {1}
  <2>1. Len(hand) \in Nat /\ DOMAIN hand = 1..Len(hand) /\ Len(hand) # 0
    OBVIOUS
  <2>2. Len(hand) = 1
    BY <2>1 DEF OnceInv
  <2> QED
    BY <2>2
<1>3. hand[1] \in [step : {"listed"}, id : Ids] \cup
        [step : {"found"}, id : Ids, feature : Features]
  BY <1>1
<1> QED
  BY <1>2, <1>3 DEF QueueIds


\* Who changes a registered feature does not hold the mutex, by QuietResults.
LEMMA PlaceHolds ==
  ASSUME IInv, QuietResults, [Next]_vars
  PROVE  PlaceInv'
<1> USE DEF IInv
<1>1. ASSUME NEW f \in Features, Modify(f), place # "crashed" PROVE PlaceInv'
  BY <1>1 DEF Modify, Notified, May, QuietResults, PlaceInv, callVars
<1>2. ASSUME NEW f \in Features, Unregister(f), place # "crashed" PROVE PlaceInv'
  BY <1>2 DEF Unregister, Notified, May, QuietResults, PlaceInv, callVars
<1>3. ASSUME Update PROVE PlaceInv'
  BY <1>3 DEF Update, PlaceInv, callVars
<1>4. ASSUME NEW q \in Queries, Results(q) PROVE PlaceInv'
  BY <1>4 DEF Results, PlaceInv, callVars
<1>5. ASSUME ResultReturns PROVE PlaceInv'
  BY <1>5 DEF ResultReturns, PlaceInv, callVars
<1>6. ASSUME TakeCalls PROVE PlaceInv'
  BY <1>6 DEF TakeCalls, PlaceInv
<1>7. ASSUME CallFeature PROVE PlaceInv'
  BY <1>7 DEF CallFeature, PlaceInv, callVars
<1>8. ASSUME FeatureReturns PROVE PlaceInv'
  BY <1>8 DEF FeatureReturns, PlaceInv
<1>9. ASSUME SkipCancelled PROVE PlaceInv'
  BY <1>9 DEF SkipCancelled, PlaceInv
<1>10. ASSUME UpdateEnds PROVE PlaceInv'
  BY <1>10 DEF UpdateEnds, PlaceInv, callVars
<1>11. ASSUME UNCHANGED <<place, mClientListMutex, syncFeatureRequests>> PROVE PlaceInv'
  BY <1>11 DEF PlaceInv
<1>12. ASSUME UseFreed PROVE PlaceInv'
  BY <1>12 DEF UseFreed, PlaceInv
<1> QED
  BY <1>1, <1>2, <1>3, <1>4, <1>5, <1>6, <1>7, <1>8, <1>9, <1>10, <1>11, <1>12 DEF Next, Client,
     Reader,
     Application, Owner, Ignored, Simple, List, Call, Cancellation, Initialize, Initialized,
     Response, ListSent, CallQueued, Register, Query, Marked, vars, callVars

LEMMA TypesHold ==
  ASSUME IInv, [Next]_vars
  PROVE  TypeOK'
<1> USE DEF IInv
<1>1. ASSUME NEW i \in Ids, Ignored(i) PROVE TypeOK'
  BY <1>1 DEF Ignored, Fresh, TypeOK, clientVars, callVars, queryVars, viewVars, callHistory
<1>2. ASSUME NEW i \in Ids, Simple(i) PROVE TypeOK'
  BY <1>2 DEF Simple, Fresh, Answer, Resources, TypeOK, callVars, queryVars, viewVars, callHistory
<1>3. ASSUME NEW i \in Ids, NEW kind \in Kinds, List(i, kind) PROVE TypeOK'
  BY <1>3 DEF List, Fresh, TypeOK, clientVars, callVars, queryVars, callHistory
<1>4. ASSUME NEW i \in Ids, NEW f \in Features, Call(i, f) PROVE TypeOK'
  BY <1>4 DEF Call, Fresh, TypeOK, clientVars, callVars, queryVars, viewVars, callHistory
<1>5. ASSUME NEW i \in Ids, Cancellation(i) PROVE TypeOK'
  <2>1. {mSyncFeatureRequests, syncFeatureRequests}' \subseteq Seq(Calls)
    <3>1. mSyncFeatureRequests' \in Seq(Calls)
      <4>1. MarkedCalls(mSyncFeatureRequests, i) \in Seq(Calls)
        BY QueueTypes, MarkFacts
      <4> QED
        BY <1>5, <4>1 DEF Cancellation, Marked, MarkedCalls
    <3>2. syncFeatureRequests' \in Seq(Calls)
      BY <1>5, QueueTypes DEF Cancellation, Marked
    <3> QED
      BY <3>1, <3>2
  <2>2. cancelled' \in SUBSET Ids
    BY <1>5 DEF Cancellation, TypeOK
  <2>3. UNCHANGED <<mIsInitializing, mIsClientInitialized, mHas, mConnectedClients,
                    mSubscriptionMap, features, mRequestObject, mRootsResultObjects,
                    mSamplingResultObjects, hand, answers, read, ran, dangling, reported, view, told, place,
                    mClientListMutex>>
    BY <1>5 DEF Cancellation, clientVars, queryVars, viewVars
  <2> QED
    BY <2>1, <2>2, <2>3 DEF TypeOK
<1>6. ASSUME NEW has \in SUBSET {"roots", "sampling"}, Initialize(has) PROVE TypeOK'
  <2>1. {mIsInitializing, mIsClientInitialized}' \subseteq BOOLEAN
    BY <1>6 DEF Initialize, TypeOK
  <2>2. mHas' \in SUBSET {"roots", "sampling"}
    BY <1>6 DEF Initialize, TypeOK
  <2>3. mConnectedClients' \in 0..1
    BY <1>6 DEF Initialize, TypeOK, ClientInv
  <2>4. UNCHANGED <<mSubscriptionMap, features, mSyncFeatureRequests, syncFeatureRequests,
                    mRequestObject, mRootsResultObjects, mSamplingResultObjects, hand, answers,
                    read, cancelled, ran, dangling, reported, view, told, place, mClientListMutex>>
    BY <1>6 DEF Initialize, callVars, queryVars, callHistory, viewVars
  <2> QED
    BY <2>1, <2>2, <2>3, <2>4 DEF TypeOK
<1>7. ASSUME Initialized PROVE TypeOK'
  BY <1>7 DEF Initialized, TypeOK, callVars, queryVars, viewVars, callHistory
<1>8. ASSUME NEW q \in Queries, Response(q) PROVE TypeOK'
  <2>1. DOMAIN mRequestObject' \in SUBSET Queries /\
          (\A p \in DOMAIN mRequestObject' : mRequestObject'[p] \in {"roots", "sampling"})
    BY <1>8 DEF Response, Forgotten, TypeOK
  <2>2. {mRootsResultObjects, mSamplingResultObjects}' \subseteq Seq(Queries)
    <3>1. /\ Append(mRootsResultObjects, q) \in Seq(Queries)
          /\ Append(mSamplingResultObjects, q) \in Seq(Queries)
      BY QueueTypes
    <3> QED
      BY <1>8, <3>1, QueueTypes DEF Response
  <2>3. UNCHANGED <<mIsInitializing, mIsClientInitialized, mHas, mConnectedClients,
                    mSubscriptionMap, features, mSyncFeatureRequests, syncFeatureRequests, hand,
                    answers, read, cancelled, ran, dangling, reported, view, told, place, mClientListMutex>>
    BY <1>8 DEF Response, clientVars, callVars, callHistory, viewVars
  <2> QED
    BY <2>1, <2>2, <2>3 DEF TypeOK
<1>9. ASSUME ListSent PROVE TypeOK'
  BY <1>9 DEF ListSent, Answer, TypeOK, clientVars, callVars, queryVars, viewVars, callHistory
<1>10. ASSUME CallQueued PROVE TypeOK'
  <2>1. hand' \in Seq([step : {"listed"}, id : Ids] \cup
          [step : {"found"}, id : Ids, feature : Features])
    BY <1>10 DEF CallQueued
  <2>2. answers' \in [Ids -> Nat]
    BY <1>10 DEF CallQueued, Answer, TypeOK
  <2>3. {mSyncFeatureRequests, syncFeatureRequests}' \subseteq Seq(Calls)
    <3>1. [id |-> hand[1].id, feature |-> hand[1].feature, mIsCancelled |-> FALSE] \in Calls
      BY <1>10, HandFacts DEF CallQueued, Calls
    <3>2. \A c \in Calls : Append(mSyncFeatureRequests, c) \in Seq(Calls)
      BY QueueTypes
    <3> QED
      BY <1>10, <3>1, <3>2, QueueTypes DEF CallQueued
  <2>4. UNCHANGED <<mIsInitializing, mIsClientInitialized, mHas, mConnectedClients,
                    mSubscriptionMap, features, mRequestObject, mRootsResultObjects,
                    mSamplingResultObjects, read, cancelled, ran, dangling, reported, view, told, place,
                    mClientListMutex>>
    BY <1>10 DEF CallQueued, clientVars, queryVars, callHistory, viewVars
  <2> QED
    BY <2>1, <2>2, <2>3, <2>4 DEF TypeOK
<1>11. ASSUME NEW f \in Features, Register(f) PROVE TypeOK'
  <2>1. features' \in [Features -> 0..MaxVersion]
    BY <1>11, MaxVersionAssumption DEF Register, TypeOK
  <2>2. UNCHANGED <<mIsInitializing, mIsClientInitialized, mHas, mConnectedClients,
                    mSubscriptionMap, mSyncFeatureRequests, syncFeatureRequests, mRequestObject,
                    mRootsResultObjects, mSamplingResultObjects, hand, answers, read, cancelled,
                    ran, dangling, reported, view, told, place, mClientListMutex>>
    BY <1>11 DEF Register, clientVars, callVars, queryVars, callHistory, viewVars
  <2> QED
    BY <2>1, <2>2 DEF TypeOK
<1>12. ASSUME NEW f \in Features, Modify(f) PROVE TypeOK'
  <2>1. features' \in [Features -> 0..MaxVersion]
    BY <1>12, MaxVersionAssumption DEF Modify, TypeOK
  <2>2. place' \in Places
    BY <1>12 DEF Modify, Notified, TypeOK, Places
  <2>3. told' \in SUBSET Kinds
    <3>1. told' = told \/ told' = told \cup {KindOf[f]}
      BY <1>12 DEF Modify, Notified
    <3> QED
      BY ZenonT(60), <3>1, QueueTypes DEF TypeOK
  <2>4. UNCHANGED <<mIsInitializing, mIsClientInitialized, mHas, mConnectedClients,
                    mSubscriptionMap, mSyncFeatureRequests, syncFeatureRequests, mRequestObject,
                    mRootsResultObjects, mSamplingResultObjects, hand, answers, read, cancelled,
                    ran, dangling, reported, view, mClientListMutex>>
    BY <1>12 DEF Modify, clientVars, callVars, queryVars, callHistory
  <2> QED
    BY <2>1, <2>2, <2>3, <2>4 DEF TypeOK
<1>13. ASSUME NEW f \in Features, Unregister(f) PROVE TypeOK'
  <2>1. features' \in [Features -> 0..MaxVersion]
    BY <1>13, MaxVersionAssumption DEF Unregister, TypeOK
  <2>2. place' \in Places
    BY <1>13 DEF Unregister, Notified, TypeOK, Places
  <2>3. told' \in SUBSET Kinds
    <3>1. told' = told \/ told' = told \cup {KindOf[f]}
      BY <1>13 DEF Unregister, Notified
    <3> QED
      BY ZenonT(60), <3>1, QueueTypes DEF TypeOK
  <2>4. UNCHANGED <<mIsInitializing, mIsClientInitialized, mHas, mConnectedClients,
                    mSubscriptionMap, mSyncFeatureRequests, syncFeatureRequests, mRequestObject,
                    mRootsResultObjects, mSamplingResultObjects, hand, answers, read, cancelled,
                    ran, reported, view, mClientListMutex>>
    BY <1>13 DEF Unregister, clientVars, callVars, queryVars, callHistory
  <2>5. dangling' \in SUBSET Ids
    <3>1. \A s \in Seq(Calls) : CallsOf(s, f) \subseteq Ids
      <4>1. ASSUME NEW s \in Seq(Calls), NEW n \in DOMAIN s PROVE s[n].id \in Ids
        <5>1. s[n] \in Calls
          OBVIOUS
        <5> QED
          BY <5>1 DEF Calls
      <4> QED
        BY <4>1 DEF CallsOf
    <3> QED
      BY <1>13, <3>1, QueueTypes DEF Unregister, TypeOK
  <2> QED
    BY <2>1, <2>2, <2>3, <2>4, <2>5 DEF TypeOK
<1>14. ASSUME NEW q \in Queries, NEW what \in {"roots", "sampling"}, Query(q, what) PROVE TypeOK'
  <2>1. DOMAIN mRequestObject' \in SUBSET Queries /\
          (\A p \in DOMAIN mRequestObject' : mRequestObject'[p] \in {"roots", "sampling"})
    BY <1>14 DEF Query, Extended, TypeOK
  <2>2. reported' \in [Queries -> Nat]
    <3>1. reported' = reported \/ reported' = [reported EXCEPT ![q] = 1]
      BY <1>14 DEF Query
    <3>2. reported \in [Queries -> Nat]
      BY DEF TypeOK
    <3> QED
      BY <3>1, <3>2
  <2>3. UNCHANGED <<mIsInitializing, mIsClientInitialized, mHas, mConnectedClients,
                    mSubscriptionMap, features, mSyncFeatureRequests, syncFeatureRequests,
                    mRootsResultObjects, mSamplingResultObjects, hand, answers, read, cancelled,
                    ran, dangling, view, told, place, mClientListMutex>>
    BY <1>14 DEF Query, clientVars, callVars, callHistory, viewVars
  <2> QED
    BY <2>1, <2>2, <2>3 DEF TypeOK
<1>15. ASSUME Update PROVE TypeOK'
  BY <1>15 DEF Update, Places, TypeOK, clientVars, callVars, queryVars, viewVars, callHistory
<1>16. ASSUME NEW q \in Queries, Results(q) PROVE TypeOK'
  <2>1. {mRootsResultObjects, mSamplingResultObjects}' \subseteq Seq(Queries)
    <3>1. mRootsResultObjects # <<>> => Tail(mRootsResultObjects) \in Seq(Queries)
      BY QueueTypes
    <3>2. mSamplingResultObjects # <<>> => Tail(mSamplingResultObjects) \in Seq(Queries)
      BY QueueTypes
    <3> QED
      BY <1>16, <3>1, <3>2, QueueTypes DEF Results
  <2>2. reported' \in [Queries -> Nat]
    BY <1>16 DEF Results, TypeOK, clientVars, callVars, viewVars
  <2>3. place' \in Places
    BY <1>16 DEF Results, Places
  <2>4. UNCHANGED <<mIsInitializing, mIsClientInitialized, mHas, mConnectedClients,
                    mSubscriptionMap, features, mSyncFeatureRequests, syncFeatureRequests,
                    mRequestObject, hand, answers, read, cancelled, ran, dangling, view, told,
                    mClientListMutex>>
    BY <1>16 DEF Results, clientVars, callVars, callHistory, viewVars
  <2> QED
    BY <2>1, <2>2, <2>3, <2>4 DEF TypeOK
<1>17. ASSUME ResultReturns PROVE TypeOK'
  BY <1>17 DEF ResultReturns, Places, TypeOK, clientVars, callVars, queryVars, viewVars,
     callHistory
<1>18. ASSUME TakeCalls PROVE TypeOK'
  BY <1>18 DEF TakeCalls, Places, TypeOK, clientVars, queryVars, viewVars, callHistory
<1>19. ASSUME CallFeature PROVE TypeOK'
  <2>1. ran' \in SUBSET Ids
    <3>1. Head(syncFeatureRequests) \in Calls
      BY <1>19, QueueTypes DEF CallFeature
    <3> QED
      BY <1>19, <3>1 DEF CallFeature, TypeOK, Calls
  <2>2. place' \in Places
    BY <1>19 DEF CallFeature, Places
  <2>3. UNCHANGED <<mIsInitializing, mIsClientInitialized, mHas, mConnectedClients,
                    mSubscriptionMap, features, mSyncFeatureRequests, syncFeatureRequests,
                    mRequestObject, mRootsResultObjects, mSamplingResultObjects, hand, answers,
                    read, cancelled, dangling, reported, view, told, mClientListMutex>>
    BY <1>19 DEF CallFeature, clientVars, callVars, queryVars, viewVars
  <2> QED
    BY <2>1, <2>2, <2>3 DEF TypeOK
<1>20. ASSUME FeatureReturns PROVE TypeOK'
  <2>1. place' \in Places
    BY <1>20 DEF FeatureReturns, Places
  <2>2. answers' \in [Ids -> Nat]
    <3>1. Head(syncFeatureRequests).id \in Ids
      <4>1. syncFeatureRequests # <<>> /\ syncFeatureRequests \in Seq(Calls)
        BY <1>20, QueueTypes DEF FeatureReturns, PlaceInv
      <4>2. Head(syncFeatureRequests) \in Calls
        BY <4>1
      <4> QED
        BY <4>2 DEF Calls
    <3> QED
      BY <1>20, <3>1 DEF FeatureReturns, Answer, TypeOK
  <2>3. {mSyncFeatureRequests, syncFeatureRequests}' \subseteq Seq(Calls)
    BY <1>20 DEF FeatureReturns, TypeOK, PlaceInv
  <2>4. UNCHANGED <<mIsInitializing, mIsClientInitialized, mHas, mConnectedClients,
                    mSubscriptionMap, features, mRequestObject, mRootsResultObjects,
                    mSamplingResultObjects, hand, read, cancelled, ran, dangling, reported, view, told,
                    mClientListMutex>>
    BY <1>20 DEF FeatureReturns, clientVars, queryVars, callHistory, viewVars
  <2> QED
    BY <2>1, <2>2, <2>3, <2>4 DEF TypeOK
<1>21. ASSUME SkipCancelled PROVE TypeOK'
  <2>1. {mSyncFeatureRequests, syncFeatureRequests}' \subseteq Seq(Calls)
    BY <1>21 DEF SkipCancelled, TypeOK
  <2>2. UNCHANGED <<mIsInitializing, mIsClientInitialized, mHas, mConnectedClients,
                    mSubscriptionMap, features, mRequestObject, mRootsResultObjects,
                    mSamplingResultObjects, hand, answers, read, cancelled, ran, dangling, reported, view,
                    told, place, mClientListMutex>>
    BY <1>21 DEF SkipCancelled, clientVars, queryVars, callHistory, viewVars
  <2> QED
    BY <2>1, <2>2 DEF TypeOK
<1>22. ASSUME UpdateEnds PROVE TypeOK'
  BY <1>22 DEF UpdateEnds, Places, TypeOK, clientVars, callVars, queryVars, viewVars, callHistory
<1>24. ASSUME UseFreed PROVE TypeOK'
  BY <1>24 DEF UseFreed, Places, TypeOK, clientVars, callVars, queryVars, viewVars, callHistory
<1>23. ASSUME UNCHANGED vars PROVE TypeOK'
  BY <1>23 DEF vars, clientVars, callVars, queryVars, viewVars, callHistory, TypeOK
<1> QED
  BY <1>1, <1>2, <1>3, <1>4, <1>5, <1>6, <1>7, <1>8, <1>9, <1>10, <1>11, <1>12, <1>13, <1>14,
     <1>15, <1>16, <1>17, <1>18, <1>19, <1>20, <1>21, <1>22, <1>23, <1>24, KindOfAssumption DEF Next,
     Client, Reader, Application, Owner

\* What the reader holds is new, or what it held; what it lets go of goes to one place.
LEMMA OnceHolds ==
  ASSUME IInv, [Next]_vars
  PROVE  OnceInv'
<1> DEFINE Hd == QueueIds(hand)
           Q == QueueIds(mSyncFeatureRequests)
           S == QueueIds(syncFeatureRequests)
<1>a. TypeOK /\ OnceInv /\ PlaceInv
  BY DEF IInv
<1>b. /\ answers \in [Ids -> Nat] /\ read \in SUBSET Ids
      /\ mSyncFeatureRequests \in Seq(Calls) /\ syncFeatureRequests \in Seq(Calls)
  BY <1>a DEF TypeOK
<1>c. hand = <<>> => Hd = {}
  BY EmptyFacts
<1>d. /\ Hd \cap Q = {} /\ Hd \cap S = {} /\ Q \cap S = {} /\ Hd \cup Q \cup S \subseteq read
      /\ \A i \in Ids : answers[i] \in {0, 1} /\ (answers[i] = 1 => i \in read /\ i \notin Hd \cup
           Q \cup S)
      /\ Once(mSyncFeatureRequests) /\ Once(syncFeatureRequests) /\ Len(hand) <= 1
  BY <1>a DEF OnceInv
<1>e. ASSUME Hd' \cap Q' = {}, Hd' \cap S' = {}, Q' \cap S' = {}, Hd' \cup Q' \cup S' \subseteq
               read',
             \A i \in Ids : answers'[i] \in {0, 1} /\
               (answers'[i] = 1 => i \in read' /\ i \notin Hd' \cup Q' \cup S'),
             Once(mSyncFeatureRequests)', Once(syncFeatureRequests)', Len(hand') <= 1
      PROVE  OnceInv'
  BY <1>e DEF OnceInv
<1> HIDE DEF Hd, Q, S
<1>f. ASSUME UNCHANGED <<mSyncFeatureRequests, syncFeatureRequests>>
      PROVE  Q' = Q /\ S' = S /\ Once(mSyncFeatureRequests)' /\ Once(syncFeatureRequests)'
  BY <1>d, <1>f DEF Q, S
\* A request read now was not answered before, and stands nowhere.
<1>g. ASSUME NEW i \in Ids, Fresh(i) PROVE answers[i] = 0 /\ i \notin Hd \cup Q \cup S
  BY <1>d, <1>g DEF Fresh
<1>1. ASSUME NEW i \in Ids, Ignored(i) PROVE OnceInv'
  <2>1. UNCHANGED <<mSyncFeatureRequests, syncFeatureRequests>> /\ Hd' = Hd /\ Len(hand') <= 1
    BY <1>1, <1>d DEF Ignored, callVars, Hd
  <2>2. read' = read \cup {i} /\ answers' = answers
    BY <1>1 DEF Ignored, Fresh
  <2> QED
    BY <2>1, <2>2, <1>d, <1>e, <1>f
<1>2. ASSUME NEW i \in Ids, Simple(i) PROVE OnceInv'
  <2>1. UNCHANGED <<mSyncFeatureRequests, syncFeatureRequests>> /\ Hd' = Hd /\ Len(hand') <= 1
    BY <1>2, <1>d DEF Simple, callVars, Hd
  <2>2. read' = read \cup {i} /\ answers' = [answers EXCEPT ![i] = @ + 1]
    BY <1>2 DEF Simple, Fresh, Answer
  <2>3. answers[i] = 0 /\ i \notin Hd \cup Q \cup S
    BY <1>2, <1>g DEF Simple
  <2>4. \A j \in Ids : answers'[j] = IF j = i THEN 1 ELSE answers[j]
    BY <2>2, <2>3, <1>b
  <2> QED
    BY <2>1, <2>2, <2>3, <1>d, <1>e, <1>f
<1>3. ASSUME NEW i \in Ids, hand' \in {<<[step |-> "listed", id |-> i]>>} \cup
                    {<<[step |-> "found", id |-> i, feature |-> f]>> : f \in Features},
             Fresh(i), UNCHANGED <<mSyncFeatureRequests, syncFeatureRequests, answers>>
      PROVE  OnceInv'
  <2>1. Hd' = {i} /\ Len(hand') <= 1
    <3>1. PICK e : hand' = <<e>> /\ e.id = i
      BY <1>3
    <3> QED
      BY <3>1, OneFacts DEF Hd
  <2>2. read' = read \cup {i}
    BY <1>3 DEF Fresh
  <2>3. answers[i] = 0 /\ i \notin Hd \cup Q \cup S
    BY <1>3, <1>g
  <2> QED
    BY <2>1, <2>2, <2>3, <1>3, <1>d, <1>e, <1>f
<1>4. ASSUME NEW i \in Ids, Cancellation(i) PROVE OnceInv'
  <2>1. Q' = Q /\ Once(mSyncFeatureRequests)'
    <3>1. mSyncFeatureRequests' = MarkedCalls(mSyncFeatureRequests, i)
      BY <1>4 DEF Cancellation, Marked, MarkedCalls
    <3>2. LET t == MarkedCalls(mSyncFeatureRequests, i)
          IN  QueueIds(t) = QueueIds(mSyncFeatureRequests) /\ Once(t)
      BY <1>b, <1>d, MarkFacts
    <3> QED
      BY <3>1, <3>2 DEF Q
  <2>2. UNCHANGED <<hand, syncFeatureRequests, read, answers>>
    BY <1>4 DEF Cancellation, Marked
  <2>3. Hd' = Hd /\ S' = S /\ Once(syncFeatureRequests)'
    BY <2>2, <1>d DEF Hd, S
  <2> QED
    BY <2>1, <2>2, <2>3, <1>d, <1>e
\* The reader answers what it holds, or puts it into the queue.
<1>5. ASSUME hand # <<>>, Answer(hand[1].id), hand' = <<>>,
             UNCHANGED <<mSyncFeatureRequests, syncFeatureRequests, read>>
      PROVE  OnceInv'
  <2>1. hand[1].id \in Ids /\ Hd = {hand[1].id}
    BY <1>5, <1>a, HandFacts DEF Hd
  <2>2. Hd' = {} /\ Len(hand') <= 1
    BY <1>5, EmptyFacts DEF Hd
  <2>3. \A j \in Ids : answers'[j] = IF j = hand[1].id THEN 1 ELSE answers[j]
    BY <1>5, <2>1, <1>b, <1>d DEF Answer
  <2> QED
    BY <2>1, <2>2, <2>3, <1>5, <1>d, <1>e, <1>f
<1>6. ASSUME hand # <<>>, hand[1].step = "found", hand' = <<>>,
             mSyncFeatureRequests' = Append(mSyncFeatureRequests,
                [id |-> hand[1].id, feature |-> hand[1].feature, mIsCancelled |-> FALSE]),
             UNCHANGED <<syncFeatureRequests, read, answers>>
      PROVE  OnceInv'
  <2> DEFINE call == [id |-> hand[1].id, feature |-> hand[1].feature, mIsCancelled |-> FALSE]
  <2>1. hand[1].id \in Ids /\ Hd = {hand[1].id} /\ call \in Calls /\ call.id = hand[1].id
    BY <1>6, <1>a, HandFacts DEF Hd, Calls
  <2>2. Hd' = {} /\ Len(hand') <= 1
    BY <1>6, EmptyFacts DEF Hd
  <2> HIDE DEF call
  <2>3. Q' = Q \cup {call.id} /\ (call.id \notin Q => Once(mSyncFeatureRequests)')
    <3>1. /\ QueueIds(Append(mSyncFeatureRequests, call)) = Q \cup {call.id}
          /\ call.id \notin Q => Once(Append(mSyncFeatureRequests, call))
      BY <2>1, <1>b, <1>d, AppendFacts DEF Q
    <3>2. mSyncFeatureRequests' = Append(mSyncFeatureRequests, call)
      BY <1>6 DEF call
    <3> QED
      BY <3>1, <3>2 DEF Q
  <2>4. S' = S /\ Once(syncFeatureRequests)'
    BY <1>6, <1>d DEF S
  <2> QED
    BY <2>1, <2>2, <2>3, <2>4, <1>6, <1>d, <1>e
<1>7. ASSUME TakeCalls PROVE OnceInv'
  <2>1. syncFeatureRequests' = mSyncFeatureRequests /\ mSyncFeatureRequests' = <<>>
    BY <1>7 DEF TakeCalls
  <2>2. S' = Q /\ Q' = {} /\ Once(mSyncFeatureRequests)' /\ Once(syncFeatureRequests)'
    BY <2>1, <1>d, EmptyFacts DEF S, Q
  <2>3. UNCHANGED <<hand, read, answers>>
    BY <1>7 DEF TakeCalls
  <2>4. Hd' = Hd
    BY <2>3 DEF Hd
  <2> QED
    BY <2>2, <2>3, <2>4, <1>d, <1>e
\* What update() has run or skipped it lets go of.
<1>8. ASSUME syncFeatureRequests # <<>>, syncFeatureRequests' = Tail(syncFeatureRequests),
             UNCHANGED <<mSyncFeatureRequests, hand, read>>,
             Answer(Head(syncFeatureRequests).id) \/ UNCHANGED answers
      PROVE  OnceInv'
  <2> DEFINE i == Head(syncFeatureRequests).id
  <2>1. /\ Head(syncFeatureRequests) \in Calls
        /\ S = {i} \cup QueueIds(Tail(syncFeatureRequests))
        /\ i \notin QueueIds(Tail(syncFeatureRequests)) /\ Once(Tail(syncFeatureRequests))
    BY <1>8, <1>b, <1>d, TailFacts DEF S
  <2>2. i \in Ids
    BY <2>1 DEF Calls
  <2>3. S = {i} \cup S' /\ i \notin S' /\ Once(syncFeatureRequests)'
    BY <2>1, <1>8 DEF S
  <2> HIDE DEF i
  <2>4. answers[i] = 0 /\ i \in read /\ i \notin Hd \cup Q
    BY <2>2, <2>3, <1>d
  <2>5. answers' = answers \/ \A j \in Ids : answers'[j] = IF j = i THEN 1 ELSE answers[j]
    BY <1>8, <2>4, <1>b DEF Answer, i
  <2>6. Q' = Q /\ Hd' = Hd /\ read' = read /\ Once(mSyncFeatureRequests)' /\ Len(hand') <= 1
    BY <1>8, <1>d DEF Q, Hd
  <2> QED
    BY <2>3, <2>5, <2>6, <1>d, <1>e
<1>9. ASSUME UNCHANGED <<hand, mSyncFeatureRequests, syncFeatureRequests, read, answers>>
      PROVE OnceInv'
  BY <1>9, <1>a DEF OnceInv
<1>10. ASSUME FeatureReturns PROVE OnceInv'
  BY <1>8, <1>10, <1>a DEF FeatureReturns, PlaceInv
<1>11. ASSUME SkipCancelled PROVE OnceInv'
  BY <1>8, <1>11 DEF SkipCancelled
<1>12. ASSUME ListSent PROVE OnceInv'
  BY <1>5, <1>12 DEF ListSent, callVars
<1>13. ASSUME CallQueued PROVE OnceInv'
  <2>1. CASE Answer(hand[1].id) /\ UNCHANGED mSyncFeatureRequests
    BY <1>5, <1>13, <2>1 DEF CallQueued
  <2>2. CASE ~(Answer(hand[1].id) /\ UNCHANGED mSyncFeatureRequests)
    BY <1>6, <1>13, <2>2 DEF CallQueued
  <2> QED
    BY <2>1, <2>2
<1>14. ASSUME NEW i \in Ids, NEW kind, List(i, kind) PROVE OnceInv'
  BY <1>3, <1>14 DEF List, callVars
<1>15. ASSUME NEW i \in Ids, NEW f \in Features, Call(i, f) PROVE OnceInv'
  BY <1>3, <1>15 DEF Call, callVars
<1>16. CASE Initialized \/ (\E has \in SUBSET {"roots", "sampling"} : Initialize(has)) \/
              \E q \in Queries : Response(q)
  BY <1>16, <1>9 DEF Initialized, Initialize, Response, callVars
<1>17. CASE Application
  BY <1>17, <1>9 DEF Application, Register, Modify, Unregister, Query, callVars
<1>18. CASE \/ Update \/ ResultReturns \/ CallFeature \/ UpdateEnds \/ UseFreed
            \/ \E q \in Queries : Results(q)
  BY <1>18, <1>9 DEF UseFreed, Update, ResultReturns, CallFeature, UpdateEnds, Results, callVars
<1>19. CASE UNCHANGED vars
  BY <1>19, <1>9 DEF vars, callVars
<1> QED
  BY <1>1, <1>2, <1>4, <1>7, <1>10, <1>11, <1>12, <1>13, <1>14, <1>15, <1>16, <1>17, <1>18, <1>19
     DEF Next, Client, Reader, Owner


\* A cancellation marks what is queued; update() tells by the mark, and what it runs was not marked.
LEMMA CancelHolds ==
  ASSUME IInv, [Next]_vars, PlaceInv'
  PROVE  CancelInv'
<1> DEFINE Marks(s, c) == \A n \in DOMAIN s : s[n].mIsCancelled <=> s[n].id \in c
           Q == QueueIds(mSyncFeatureRequests)
           S == QueueIds(syncFeatureRequests)
           first == Head(syncFeatureRequests)
<1>a. TypeOK /\ OnceInv /\ PlaceInv /\ CancelInv
  BY DEF IInv
<1>b. /\ answers \in [Ids -> Nat] /\ cancelled \in SUBSET Ids /\ ran \in SUBSET Ids
      /\ mSyncFeatureRequests \in Seq(Calls) /\ syncFeatureRequests \in Seq(Calls)
  BY <1>a DEF TypeOK
<1>c. /\ cancelled \subseteq read /\ cancelled \cap QueueIds(hand) = {} /\ cancelled \cap ran = {}
      /\ Marks(mSyncFeatureRequests, cancelled) /\ Marks(syncFeatureRequests, cancelled)
      /\ \A i \in ran : answers[i] = 1 \/ (place \in {"feature", "crashed"} /\ i = first.id)
  BY <1>a DEF CancelInv
<1>d. /\ Q \cap S = {} /\ QueueIds(hand) \cap Q = {} /\ Q \subseteq read
      /\ \A i \in Ids : answers[i] \in {0, 1} /\ (answers[i] = 1 => i \in read /\ i \notin Q /\
           i \notin S)
  BY <1>a DEF OnceInv
<1>e. ASSUME cancelled' \subseteq read', cancelled' \cap QueueIds(hand') = {},
               cancelled' \cap ran' = {},
             Marks(mSyncFeatureRequests', cancelled'), Marks(syncFeatureRequests', cancelled'),
             \A i \in ran' : answers'[i] = 1 \/ (place' \in {"feature", "crashed"} /\ i = first'.id)
      PROVE  CancelInv'
  BY <1>e DEF CancelInv
<1>f. place = "feature" => first.id \in S /\ first.id \in Ids
  <2>1. CASE place = "feature"
    <3>1. syncFeatureRequests # <<>>
      BY <2>1, <1>a DEF PlaceInv
    <3>2. first \in Calls /\ S = {first.id} \cup QueueIds(Tail(syncFeatureRequests))
      BY <3>1, <1>b, TailFacts
    <3> QED
      BY <3>2 DEF Calls
  <2> QED
    BY <2>1
\* Removing or taking away calls keeps the marks of the rest.
<1>g. ASSUME NEW s \in Seq(Calls), NEW c, s # <<>>, Marks(s, c)
      PROVE  Marks(Tail(s), c) /\ (Head(s).mIsCancelled <=> Head(s).id \in c)
  <2>1. /\ DOMAIN s = 1..Len(s) /\ Len(s) \in Nat /\ Len(s) > 0 /\ Head(s) = s[1]
        /\ DOMAIN Tail(s) = 1..(Len(s) - 1) /\ \A n \in 1..(Len(s) - 1) : Tail(s)[n] = s[n + 1]
    BY <1>g
  <2>2. \A n \in 1..(Len(s) - 1) : n + 1 \in 1..Len(s)
    OBVIOUS
  <2>3. 1 \in DOMAIN s
    BY <2>1
  <2> QED
    BY <1>g
<1>h. Marks(<<>>, cancelled)
  OBVIOUS
<1>1. ASSUME NEW i \in Ids, Fresh(i), QueueIds(hand') \subseteq QueueIds(hand) \cup {i},
             UNCHANGED <<mSyncFeatureRequests, syncFeatureRequests, cancelled, ran, place>>,
             \A j \in Ids : answers[j] = 1 => answers'[j] = 1
      PROVE  CancelInv'
  <2>1. read' = read \cup {i} /\ i \notin cancelled
    BY <1>1, <1>c DEF Fresh
  <2> HIDE DEF Marks
  <2> QED
    BY <1>1, <1>b, <1>c, <1>e, <2>1
<1>2. ASSUME NEW i \in Ids, Cancellation(i), place # "crashed" PROVE CancelInv'
  <2>1. /\ mSyncFeatureRequests' = MarkedCalls(mSyncFeatureRequests, i)
        /\ cancelled' = cancelled \cup
              {j \in {i} : \E n \in DOMAIN mSyncFeatureRequests : mSyncFeatureRequests[n].id = i}
        /\ UNCHANGED <<syncFeatureRequests, hand, read, answers, ran, place>>
    BY <1>2 DEF Cancellation, Marked, MarkedCalls
  <2>2. cancelled' = IF i \in Q THEN cancelled \cup {i} ELSE cancelled
    BY <2>1 DEF QueueIds
  <2>3. DOMAIN mSyncFeatureRequests' = DOMAIN mSyncFeatureRequests
    BY <2>1, <1>b, MarkFacts
  <2>4. \A n \in DOMAIN mSyncFeatureRequests :
           /\ mSyncFeatureRequests'[n].id = mSyncFeatureRequests[n].id
           /\ mSyncFeatureRequests'[n].mIsCancelled
                <=> mSyncFeatureRequests[n].mIsCancelled \/ mSyncFeatureRequests[n].id = i
    BY <2>1, <1>b, MarkFacts
  <2>5. Marks(mSyncFeatureRequests', cancelled')
    <3>1. \A n \in DOMAIN mSyncFeatureRequests : mSyncFeatureRequests[n].id \in Q
      BY DEF QueueIds
    <3> QED
      BY <2>2, <2>3, <2>4, <3>1, <1>c
  <2>6. Marks(syncFeatureRequests', cancelled')
    <3>1. \A n \in DOMAIN syncFeatureRequests : syncFeatureRequests[n].id \in S
      BY DEF QueueIds
    <3>2. i \in Q => i \notin S
      BY <1>d
    <3> QED
      BY <2>1, <2>2, <3>1, <3>2, <1>c
  <2>7. i \in Q => i \notin ran /\ i \in read /\ i \notin QueueIds(hand)
    BY <1>2, <1>c, <1>d, <1>f
  <2> HIDE DEF Marks, Q, S
  <2> QED
    BY <2>1, <2>2, <2>5, <2>6, <2>7, <1>c, <1>e
<1>3. ASSUME hand' = <<>>, UNCHANGED <<syncFeatureRequests, cancelled, ran, read, place>>,
             \/ UNCHANGED mSyncFeatureRequests
             \/ /\ hand # <<>>
                /\ mSyncFeatureRequests' = Append(mSyncFeatureRequests,
                      [id |-> hand[1].id, feature |-> hand[1].feature, mIsCancelled |-> FALSE]),
             \A j \in Ids : answers[j] = 1 => answers'[j] = 1
      PROVE  CancelInv'
  <2>1. QueueIds(hand') = {}
    BY <1>3, EmptyFacts
  <2>2. Marks(mSyncFeatureRequests', cancelled)
    <3>1. CASE UNCHANGED mSyncFeatureRequests
      BY <3>1, <1>c
    <3>2. CASE ~UNCHANGED mSyncFeatureRequests
      <4> DEFINE call == [id |-> hand[1].id, feature |-> hand[1].feature, mIsCancelled |-> FALSE]
      <4>1. mSyncFeatureRequests' = Append(mSyncFeatureRequests, call)
        BY <3>2, <1>3
      <4>2. ~call.mIsCancelled /\ call.id \notin cancelled
        <5>1. call.id \in QueueIds(hand)
          BY <3>2, <1>3, <1>a, HandFacts
        <5> QED
          BY <5>1, <1>c
      <4> HIDE DEF call
      <4>3. /\ DOMAIN mSyncFeatureRequests = 1..Len(mSyncFeatureRequests) /\
                 Len(mSyncFeatureRequests) \in Nat
            /\ DOMAIN mSyncFeatureRequests' = 1..(Len(mSyncFeatureRequests) + 1)
            /\ \A n \in 1..Len(mSyncFeatureRequests) : mSyncFeatureRequests'[n] = mSyncFeatureRequests[n]
            /\ mSyncFeatureRequests'[Len(mSyncFeatureRequests) + 1] = call
        BY <4>1
      <4>4. \A n \in 1..(Len(mSyncFeatureRequests) + 1) :
                n \in 1..Len(mSyncFeatureRequests) \/ n = Len(mSyncFeatureRequests) + 1
        OBVIOUS
      <4> QED
        BY <4>2, <4>3, <1>c
    <3> QED
      BY <3>1, <3>2
  <2>3. UNCHANGED first
    BY <1>3
  <2> HIDE DEF Marks, first
  <2> QED
    BY <1>3, <2>1, <2>2, <2>3, <1>b, <1>c, <1>e
<1>4. ASSUME TakeCalls PROVE CancelInv'
  <2>1. /\ place = "results" /\ syncFeatureRequests' = mSyncFeatureRequests /\
             mSyncFeatureRequests' = <<>>
        /\ UNCHANGED <<hand, read, answers, cancelled, ran>>
    BY <1>4 DEF TakeCalls, callHistory
  <2> HIDE DEF Marks, first
  <2> QED
    BY <2>1, <1>c, <1>e, <1>h
<1>5. ASSUME CallFeature PROVE CancelInv'
  <2>1. /\ place = "calls" /\ place' = "feature" /\ syncFeatureRequests # <<>> /\
             ~first.mIsCancelled
        /\ ran' = ran \cup {first.id}
        /\ UNCHANGED <<mSyncFeatureRequests, syncFeatureRequests, hand, read, answers, cancelled>>
    BY <1>5 DEF CallFeature, callVars
  <2>2. first.id \notin cancelled
    BY <2>1, <1>c
  <2>3. UNCHANGED first
    BY <2>1
  <2> HIDE DEF Marks, first
  <2> QED
    BY <2>1, <2>2, <2>3, <1>c, <1>e
<1>6. ASSUME FeatureReturns PROVE CancelInv'
  <2>1. /\ place = "feature" /\ syncFeatureRequests # <<>> /\
             syncFeatureRequests' = Tail(syncFeatureRequests)
        /\ answers' = [answers EXCEPT ![first.id] = @ + 1]
        /\ UNCHANGED <<mSyncFeatureRequests, hand, read, cancelled, ran>>
    BY <1>6, <1>a DEF FeatureReturns, Answer, callHistory, PlaceInv
  <2>2. Marks(syncFeatureRequests', cancelled)
    BY <2>1, <1>b, <1>c
  <2>3. answers[first.id] = 0 /\ first.id \in Ids
    BY <2>1, <1>d, <1>f
  <2> HIDE DEF Marks, first
  <2>4. \A j \in Ids : answers'[j] = IF j = first.id THEN 1 ELSE answers[j]
    BY <2>1, <2>3, <1>b
  <2> QED
    BY <2>1, <2>2, <2>4, <1>b, <1>c, <1>e
<1>7. ASSUME SkipCancelled PROVE CancelInv'
  <2>1. /\ place = "calls" /\ syncFeatureRequests # <<>> /\
             syncFeatureRequests' = Tail(syncFeatureRequests)
        /\ UNCHANGED <<mSyncFeatureRequests, hand, read, answers, cancelled, ran>>
    BY <1>7 DEF SkipCancelled, callHistory
  <2>2. Marks(syncFeatureRequests', cancelled)
    BY <2>1, <1>c
  <2> HIDE DEF Marks, first
  <2> QED
    BY <2>1, <2>2, <1>c, <1>e
\* The rest leaves the calls alone, and the application's thread where it was or somewhere else than
\* in the callback of a call.
<1>8. ASSUME UNCHANGED <<mSyncFeatureRequests, syncFeatureRequests, hand, read, answers, cancelled,
               ran>>,
             place \in {"feature", "crashed"} => place' \in {"feature", "crashed"}
      PROVE  CancelInv'
  <2>1. UNCHANGED first
    BY <1>8
  <2> HIDE DEF Marks, first
  <2> QED
    BY <2>1, <1>8, <1>c, <1>e
<1>9. ASSUME NEW i \in Ids, Ignored(i) PROVE CancelInv'
  BY <1>1, <1>9 DEF Ignored, callVars, callHistory
<1>10. ASSUME NEW i \in Ids, Simple(i) PROVE CancelInv'
  <2>1. \A j \in Ids : answers[j] = 1 => answers'[j] = 1
    BY <1>10, <1>d DEF Simple, Answer, Fresh
  <2> QED
    BY <1>1, <1>10, <2>1 DEF Simple, callVars, callHistory
<1>11. ASSUME NEW i \in Ids, NEW kind, List(i, kind) PROVE CancelInv'
  BY <1>1, <1>11, OneFacts DEF List, callVars, callHistory
<1>12. ASSUME NEW i \in Ids, NEW f \in Features, Call(i, f) PROVE CancelInv'
  BY <1>1, <1>12, OneFacts DEF Call, callVars, callHistory
<1>13. ASSUME ListSent \/ CallQueued PROVE CancelInv'
  <2>1. \A j \in Ids : answers[j] = 1 => answers'[j] = 1
    <3>1. hand # <<>> /\ hand[1].id \in QueueIds(hand) /\ hand[1].id \in Ids
      BY <1>13, <1>a, HandFacts DEF ListSent, CallQueued
    <3>2. answers[hand[1].id] = 0
      BY <3>1, <1>a DEF OnceInv
    <3>3. answers' = answers \/ answers' = [answers EXCEPT ![hand[1].id] = @ + 1]
      BY <1>13 DEF ListSent, CallQueued, Answer
    <3> QED
      BY <3>2, <3>3, <1>b
  <2> QED
    BY <1>3, <1>13, <2>1 DEF ListSent, CallQueued, callVars, callHistory
<1>14. CASE Initialized \/ (\E has \in SUBSET {"roots", "sampling"} : Initialize(has)) \/
              \E q \in Queries : Response(q)
  BY <1>14, <1>8 DEF Initialized, Initialize, Response, callVars, callHistory
<1>15. CASE place # "crashed" /\ Application
  <2>1. UNCHANGED <<mSyncFeatureRequests, syncFeatureRequests, hand, read, answers, cancelled, ran>>
    BY <1>15 DEF Application, Register, Modify, Unregister, Query, callVars, callHistory
  <2>2. place' = place
    BY <1>15 DEF Application, Register, Modify, Unregister, Query, Notified, PlaceInv
  <2> QED
    BY <1>8, <2>1, <2>2
<1>16. CASE Update \/ ResultReturns \/ UpdateEnds \/ UseFreed \/ \E q \in Queries : Results(q)
  BY <1>16, <1>8 DEF UseFreed, Update, ResultReturns, UpdateEnds, Results, callVars, callHistory
<1>17. CASE UNCHANGED vars
  BY <1>17, <1>8 DEF vars, callVars, callHistory
<1> QED
  BY <1>2, <1>4, <1>5, <1>6, <1>7, <1>9, <1>10, <1>11, <1>12, <1>13, <1>14, <1>15, <1>16, <1>17
     DEF Next, Client, Reader, Owner


\* A list that is read is current; who changes a feature tells a client that may have listed it.
LEMMA ClientHolds ==
  ASSUME IInv, [Next]_vars, PlaceInv'
  PROVE  ClientInv'
<1>a. TypeOK /\ ClientInv
  BY DEF IInv
<1>b. /\ features \in [Features -> 0..MaxVersion] /\ view \in [Features -> 0..MaxVersion]
      /\ mConnectedClients \in 0..1 /\ told \in SUBSET Kinds
  BY <1>a DEF TypeOK
<1>c. place' # "stuck"
  BY DEF PlaceInv
<1>1. ASSUME NEW has \in SUBSET {"roots", "sampling"}, Initialize(has) PROVE ClientInv'
  BY <1>1, <1>a DEF Initialize, ClientInv, ViewFresh, viewVars
<1>2. ASSUME Initialized PROVE ClientInv'
  BY <1>2, <1>a DEF Initialized, ClientInv, ViewFresh, viewVars
<1>3. ASSUME NEW i \in Ids, NEW kind, List(i, kind) PROVE ClientInv'
  <2>1. mIsClientInitialized /\ UNCHANGED <<mIsInitializing, mIsClientInitialized,
          mConnectedClients, features>>
    BY <1>3 DEF List, Serves, clientVars
  <2>2. /\ \A f \in Features : view'[f] = IF KindOf[f] = kind THEN features[f] ELSE view[f]
        /\ told' = told \ {kind}
    BY <1>3 DEF List
  <2> QED
    BY <2>1, <2>2, <1>a DEF ClientInv, ViewFresh
<1>4. ASSUME NEW f \in Features, Register(f) PROVE ClientInv'
  <2>1. /\ features[f] = 0 /\ features' = [features EXCEPT ![f] = view[f] + 1]
        /\ UNCHANGED <<mIsInitializing, mIsClientInitialized, mConnectedClients, view, told>>
    BY <1>4 DEF Register, clientVars, viewVars
  <2> QED
    BY <2>1, <1>a DEF ClientInv, ViewFresh
<1>5. ASSUME NEW f \in Features, Modify(f) \/ Unregister(f) PROVE ClientInv'
  <2>1. /\ UNCHANGED <<mIsInitializing, mIsClientInitialized, mConnectedClients, view>>
        /\ features[f] # 0 /\ Notified(KindOf[f])
    BY <1>5 DEF Modify, Unregister, clientVars
  <2>2. \A g \in Features : g # f => features'[g] = features[g]
    BY <1>5, <1>b DEF Modify, Unregister
  <2>3. told \subseteq told' /\ (mConnectedClients > 0 /\ mIsClientInitialized =>
          KindOf[f] \in told')
    BY <2>1, <1>c DEF Notified
  <2> QED
    BY <2>1, <2>2, <2>3, <1>a DEF ClientInv, ViewFresh
<1>6. ASSUME UNCHANGED <<mIsInitializing, mIsClientInitialized, mConnectedClients, features, view,
               told>>
      PROVE  ClientInv'
  BY <1>6, <1>a DEF ClientInv, ViewFresh
<1>7. ASSUME NEW i \in Ids, Ignored(i) \/ Simple(i) \/ Cancellation(i) \/
               \E f \in Features : Call(i, f)
      PROVE  ClientInv'
  BY <1>6, <1>7 DEF Ignored, Simple, Cancellation, Call, clientVars, viewVars
<1>8. CASE Reader \/ (\E q \in Queries : Response(q)) \/
             (\E q \in Queries, what \in {"roots", "sampling"} : Query(q, what))
  BY <1>6, <1>8 DEF Reader, ListSent, CallQueued, Response, Query, clientVars, viewVars
<1>9. CASE Owner
  BY <1>6, <1>9 DEF Owner, Update, ResultReturns, TakeCalls, CallFeature, FeatureReturns,
     SkipCancelled, UpdateEnds, Results, clientVars, viewVars
<1>10. CASE UNCHANGED vars \/ UseFreed
  BY <1>6, <1>10 DEF UseFreed, vars, clientVars, viewVars
<1> QED
  BY <1>1, <1>2, <1>3, <1>4, <1>5, <1>7, <1>8, <1>9, <1>10 DEF Next, Client, Application

\* A request of the server goes from the map to one list of results to its callback.
LEMMA QueryHolds ==
  ASSUME IInv, [Next]_vars
  PROVE  QueryInv'
<1> DEFINE R == Elements(mRootsResultObjects)
           M == Elements(mSamplingResultObjects)
           D == DOMAIN mRequestObject
<1>a. TypeOK /\ QueryInv
  BY DEF IInv
<1>b. /\ mRootsResultObjects \in Seq(Queries) /\ mSamplingResultObjects \in Seq(Queries)
      /\ reported \in [Queries -> Nat] /\ D \in SUBSET Queries
  BY <1>a DEF TypeOK
<1>c. \A q \in Queries : Pending(q) <=> q \in D \/ q \in R \/ q \in M
  BY DEF Pending, Elements
<1>d. /\ Different(mRootsResultObjects) /\ Different(mSamplingResultObjects)
      /\ D \cap R = {} /\ D \cap M = {} /\ R \cap M = {}
      /\ \A q \in Queries : reported[q] \in {0, 1} /\
           (reported[q] = 1 => q \notin D /\ q \notin R /\ q \notin M)
  BY <1>a, <1>c DEF QueryInv
<1>e. ASSUME Different(mRootsResultObjects)', Different(mSamplingResultObjects)',
             D' \cap R' = {}, D' \cap M' = {}, R' \cap M' = {},
             \A q \in Queries : reported'[q] \in {0, 1} /\
               (reported'[q] = 1 => q \notin D' /\ q \notin R' /\ q \notin M')
      PROVE  QueryInv'
  <2>1. \A q \in Queries : Pending(q)' <=> q \in D' \/ q \in R' \/ q \in M'
    BY DEF Pending, Elements
  <2> QED
    BY <1>e, <2>1 DEF QueryInv
<1>1. ASSUME NEW q \in Queries, Response(q) PROVE QueryInv'
  <2>1. q \in D /\ D' = D \ {q} /\ reported' = reported
    BY <1>1 DEF Response, Forgotten
  <2>2. \/ /\ mRootsResultObjects' = Append(mRootsResultObjects, q)
           /\ mSamplingResultObjects' = mSamplingResultObjects
        \/ /\ mSamplingResultObjects' = Append(mSamplingResultObjects, q)
           /\ mRootsResultObjects' = mRootsResultObjects
    BY <1>1 DEF Response
  <2>3. /\ Elements(Append(mRootsResultObjects, q)) = R \cup {q}
        /\ q \notin R => Different(Append(mRootsResultObjects, q))
    BY <1>b, <1>d, AppendFacts
  <2>4. /\ Elements(Append(mSamplingResultObjects, q)) = M \cup {q}
        /\ q \notin M => Different(Append(mSamplingResultObjects, q))
    BY <1>b, <1>d, AppendFacts
  <2>5. CASE mRootsResultObjects' = Append(mRootsResultObjects, q) /\
               mSamplingResultObjects' = mSamplingResultObjects
    <3>1. R' = R \cup {q} /\ M' = M /\ Different(mRootsResultObjects)' /\
            Different(mSamplingResultObjects)'
      BY <2>1, <2>3, <2>5, <1>d
    <3> HIDE DEF D, R, M
    <3> QED
      BY <2>1, <3>1, <1>d, <1>e
  <2>6. CASE mSamplingResultObjects' = Append(mSamplingResultObjects, q) /\
               mRootsResultObjects' = mRootsResultObjects
    <3>1. M' = M \cup {q} /\ R' = R /\ Different(mRootsResultObjects)' /\
            Different(mSamplingResultObjects)'
      BY <2>1, <2>4, <2>6, <1>d
    <3> HIDE DEF D, R, M
    <3> QED
      BY <2>1, <3>1, <1>d, <1>e
  <2> QED
    BY <2>2, <2>5, <2>6
<1>2. ASSUME NEW q \in Queries, NEW what, Query(q, what) PROVE QueryInv'
  <2>1. q \notin D /\ q \notin R /\ q \notin M /\ reported[q] = 0
    BY <1>2, <1>c DEF Query
  <2>2. /\ R' = R /\ M' = M /\ Different(mRootsResultObjects)' /\ Different(mSamplingResultObjects)'
    BY <1>2, <1>d DEF Query
  <2>3. \/ D' = D \cup {q} /\ reported' = reported
        \/ D' = D /\ reported' = [reported EXCEPT ![q] = 1]
    BY <1>2 DEF Query, Extended
  <2> HIDE DEF D, R, M
  <2>4. \/ D' = D \cup {q} /\ reported' = reported
        \/ D' = D /\ \A p \in Queries : reported'[p] = IF p = q THEN 1 ELSE reported[p]
    BY <2>3, <1>b
  <2> QED
    BY <2>1, <2>2, <2>4, <1>d, <1>e
<1>3. ASSUME NEW q \in Queries, Results(q) PROVE QueryInv'
  <2>1. /\ D' = D /\ reported' = [reported EXCEPT ![q] = @ + 1]
        /\ \/ /\ mRootsResultObjects # <<>> /\ q = Head(mRootsResultObjects)
              /\ mRootsResultObjects' = Tail(mRootsResultObjects)
              /\ mSamplingResultObjects' = mSamplingResultObjects
           \/ /\ mSamplingResultObjects # <<>> /\ q = Head(mSamplingResultObjects)
              /\ mSamplingResultObjects' = Tail(mSamplingResultObjects)
              /\ mRootsResultObjects' = mRootsResultObjects
    BY <1>3 DEF Results
  <2>2. \/ q \in R /\ R' = R \ {q} /\ M' = M /\ Different(mRootsResultObjects)' /\
             Different(mSamplingResultObjects)'
        \/ q \in M /\ M' = M \ {q} /\ R' = R /\ Different(mRootsResultObjects)' /\
             Different(mSamplingResultObjects)'
    <3>1. CASE /\ mRootsResultObjects # <<>> /\ q = Head(mRootsResultObjects)
               /\ mRootsResultObjects' = Tail(mRootsResultObjects)
               /\ mSamplingResultObjects' = mSamplingResultObjects
      <4>1. LET s == mRootsResultObjects IN
            /\ Elements(s) = {Head(s)} \cup Elements(Tail(s))
            /\ Different(Tail(s)) /\ Head(s) \notin Elements(Tail(s))
        BY <3>1, <1>b, <1>d, TailFacts
      <4>2. R = {q} \cup R' /\ q \notin R' /\ M' = M
        BY <3>1, <4>1
      <4> HIDE DEF R, M
      <4> QED
        BY <3>1, <4>1, <4>2, <1>d
    <3>2. CASE /\ mSamplingResultObjects # <<>> /\ q = Head(mSamplingResultObjects)
               /\ mSamplingResultObjects' = Tail(mSamplingResultObjects)
               /\ mRootsResultObjects' = mRootsResultObjects
      <4>1. LET s == mSamplingResultObjects IN
            /\ Elements(s) = {Head(s)} \cup Elements(Tail(s))
            /\ Different(Tail(s)) /\ Head(s) \notin Elements(Tail(s))
        BY <3>2, <1>b, <1>d, TailFacts
      <4>2. M = {q} \cup M' /\ q \notin M' /\ R' = R
        BY <3>2, <4>1
      <4> HIDE DEF R, M
      <4> QED
        BY <3>2, <4>1, <4>2, <1>d
    <3> QED
      BY <2>1, <3>1, <3>2
  <2> HIDE DEF D, R, M
  <2>3. reported[q] = 0
    BY <2>2, <1>d
  <2>4. \A p \in Queries : reported'[p] = IF p = q THEN 1 ELSE reported[p]
    BY <2>1, <2>3, <1>b
  <2> QED
    BY <2>1, <2>2, <1>d, <1>e
<1>4. ASSUME UNCHANGED queryVars PROVE QueryInv'
  BY <1>4, <1>a DEF queryVars, QueryInv, Pending
<1>5. ASSUME NEW i \in Ids,
             \/ Ignored(i) \/ Simple(i) \/ Cancellation(i)
             \/ \E f \in Features : Call(i, f)
             \/ \E kind \in {KindOf[f] : f \in Features} : List(i, kind)
      PROVE  QueryInv'
  BY <1>4, <1>5 DEF Ignored, Simple, Cancellation, Call, List
<1>6. CASE Reader \/ Initialized \/ (\E has \in SUBSET {"roots", "sampling"} : Initialize(has))
  BY <1>4, <1>6 DEF Reader, ListSent, CallQueued, Initialized, Initialize
<1>7. CASE \E f \in Features : Register(f) \/ Modify(f) \/ Unregister(f)
  BY <1>4, <1>7 DEF Register, Modify, Unregister
<1>8. CASE \/ Update \/ ResultReturns \/ TakeCalls \/ CallFeature \/ FeatureReturns \/ SkipCancelled
           \/ UpdateEnds \/ UseFreed
  BY <1>4, <1>8 DEF UseFreed, Update, ResultReturns, TakeCalls, CallFeature, FeatureReturns,
     SkipCancelled,
     UpdateEnds
<1>9. CASE UNCHANGED vars
  BY <1>4, <1>9 DEF vars
<1> QED
  BY <1>1, <1>2, <1>3, <1>5, <1>6, <1>7, <1>8, <1>9 DEF Next, Client, Application, Owner


-----------------------------------------------------------------------------
LEMMA InitHolds == Init => IInv
<1> SUFFICES ASSUME Init PROVE IInv
  OBVIOUS
<1>1. TypeOK
  <2>1. /\ features \in [Features -> 0..MaxVersion] /\ view \in [Features -> 0..MaxVersion]
        /\ answers \in [Ids -> Nat] /\ reported \in [Queries -> Nat]
    BY MaxVersionAssumption DEF Init
  <2>2. \A T : <<>> \in Seq(T)
    OBVIOUS
  <2>3. /\ {mSyncFeatureRequests, syncFeatureRequests} \subseteq Seq(Calls)
        /\ {mRootsResultObjects, mSamplingResultObjects} \subseteq Seq(Queries)
        /\ hand \in Seq([step : {"listed"}, id : Ids] \cup
             [step : {"found"}, id : Ids, feature : Features])
    BY DEF Init
  <2>4. DOMAIN mRequestObject = {}
    BY DEF Init
  <2>5. {mIsInitializing, mIsClientInitialized} \subseteq BOOLEAN
    BY DEF Init
  <2>6. /\ mConnectedClients \in 0..1 /\ mHas = {} /\ mSubscriptionMap = {} /\ read = {} /\
             cancelled = {} /\ ran = {} /\ dangling = {} /\ told = {}
        /\ mClientListMutex = "free" /\ place = "main"
    BY DEF Init
  <2> QED
    BY <2>1, <2>3, <2>4, <2>5, <2>6 DEF TypeOK, Places
<1>2. PlaceInv
  BY DEF Init, PlaceInv
<1>3. OnceInv
  BY EmptyFacts DEF Init, OnceInv
<1>4. CancelInv
  BY DEF Init, CancelInv
<1>5. ClientInv
  BY DEF Init, ClientInv, ViewFresh
<1>6. QueryInv
  <2>1. /\ mRequestObject = <<>> /\ mRootsResultObjects = <<>> /\ mSamplingResultObjects = <<>>
        /\ \A q \in Queries : reported[q] = 0
    BY DEF Init
  <2>2. Different(<<>>) /\ Elements(<<>>) = {}
    BY EmptyFacts
  <2> QED
    BY <2>1, <2>2 DEF QueryInv
<1> QED
  BY <1>1, <1>2, <1>3, <1>4, <1>5, <1>6 DEF IInv

LEMMA StepHolds ==
  ASSUME IInv, QuietResults, [Next]_vars
  PROVE  IInv'
<1>1. PlaceInv'
  BY PlaceHolds
<1>2. TypeOK' /\ OnceInv' /\ QueryInv'
  BY TypesHold, OnceHolds, QueryHolds
<1>3. CancelInv' /\ ClientInv'
  BY <1>1, CancelHolds, ClientHolds
<1> QED
  BY <1>1, <1>2, <1>3 DEF IInv

LEMMA IInvAnswers == IInv => StdioAnswersKept
<1> SUFFICES ASSUME IInv PROVE StdioAnswersKept
  OBVIOUS
<1>1. TypeOK /\ PlaceInv /\ OnceInv /\ CancelInv /\ ClientInv /\ QueryInv
  BY DEF IInv
<1>2. AnsweredOnce
  <2> SUFFICES ASSUME NEW i \in Ids
               PROVE  answers[i] + InQueue(hand, i) + InQueue(mSyncFeatureRequests, i)
                        + InQueue(syncFeatureRequests, i) <= 1
    BY DEF AnsweredOnce
  <2>1. Once(hand)
    <3>1. hand \in Seq([step : {"listed"}, id : Ids] \cup
            [step : {"found"}, id : Ids, feature : Features])
      BY <1>1 DEF TypeOK
    <3>2. DOMAIN hand = 1..Len(hand) /\ Len(hand) \in Nat /\ Len(hand) <= 1
      BY <1>1 DEF OnceInv
    <3>3. \A m, n \in DOMAIN hand : m = n
      BY <3>2
    <3> QED
      BY <3>3 DEF Once
  <2>2. /\ InQueue(hand, i) = IF i \in QueueIds(hand) THEN 1 ELSE 0
        /\ InQueue(mSyncFeatureRequests, i) = IF i \in QueueIds(mSyncFeatureRequests) THEN 1 ELSE 0
        /\ InQueue(syncFeatureRequests, i) = IF i \in QueueIds(syncFeatureRequests) THEN 1 ELSE 0
    BY <1>1, <2>1, CountOfOne DEF OnceInv
  <2>3. /\ answers[i] \in {0, 1}
        /\ answers[i] = 1 => i \notin QueueIds(hand) \cup QueueIds(mSyncFeatureRequests) \cup
             QueueIds(syncFeatureRequests)
        /\ QueueIds(hand) \cap QueueIds(mSyncFeatureRequests) = {}
        /\ QueueIds(hand) \cap QueueIds(syncFeatureRequests) = {}
        /\ QueueIds(mSyncFeatureRequests) \cap QueueIds(syncFeatureRequests) = {}
    BY <1>1 DEF OnceInv
  <2> QED
    BY <2>2, <2>3
<1>3. CancellationTimely
  BY <1>1 DEF CancelInv, CancellationTimely
<1>4. ViewFresh
  BY <1>1 DEF ClientInv
<1>5. QueriesReportedOnce
  BY <1>1 DEF QueryInv, QueriesReportedOnce
<1>6. NotStuck
  BY <1>1 DEF PlaceInv, NotStuck
<1> QED
  BY <1>1, <1>2, <1>3, <1>4, <1>5, <1>6 DEF StdioAnswersKept

\* Over stdio, whatever the client sends and whenever update() is called, a request is answered at
\* most once and not while it is still held or queued, a cancelled call that update() has not taken
\* is never run, a stale list is announced, and the server's own requests are reported once: of an
\* application that changes no registered feature in the callbacks of its own requests' results.
THEOREM StdioAnswersStay ==
  ASSUME QuietResults
  PROVE  Spec => []StdioAnswersKept
<1>1. Init => IInv
  BY InitHolds
<1>2. IInv /\ [Next]_vars => IInv'
  BY StepHolds
<1>3. IInv => StdioAnswersKept
  BY IInvAnswers
<1> QED
  BY <1>1, <1>2, <1>3, PTL DEF Spec


-----------------------------------------------------------------------------
(* The sessions of the same server over HTTP, for any number of POSTs and  *)
(* sessions.                                                               *)


OnceIn(s, h) == \A m, n \in DOMAIN s : s[m] = h /\ s[n] = h => m = n
Pcs == {"new", "lock", "previous", "set", "read", "send", "cancel", "wait", "done"}
Queued == H!HttpCalls(hSyncFeatureRequests) \cup H!HttpCalls(hTakenRequests)

\* The message of a POST that is no batch is open from the moment its handler closes the one before
\* until its answer counts as given.
Answers(t, h) == sending[t] # H!Nothing /\ sending[t].step # "clear" /\ sending[t].of = h
Open(h) ==
    \/ pc[h] = "set" \/ (pc[h] = "read" /\ messages[h] = 0)
    \/ h \in Queued \/ \E t \in H!Threads : Answers(t, h)

\* A handler that reads or has read has its client object, and a response object belongs to a POST of its session.
SessionInv ==
    /\ \A h \in Handlers : pc[h] \notin {"new", "done"} \/ messages[h] > 0 =>
          /\ Sessions \cap {session[h]} \subseteq mStreambleClients
          /\ IF stateful THEN session[h] \in Sessions ELSE session[h] = h
    /\ \A c \in H!Clients : mResponse[c] \in Handlers =>
          session[mResponse[c]] = c /\ pc[mResponse[c]] # "new"

\* A message is read before it is sent for, cancelled or queued, and answered after it came.
Before(h) == pc[h] \in {"new", "lock", "previous", "set"}
PostInv ==
    /\ \A h \in Handlers : sending[h] # H!Nothing => sending[h].of = h /\ pc[h] = "send"
    /\ \A t \in H!Threads : sending[t] # H!Nothing =>
          sending[t].client = session[sending[t].of] /\ messages[sending[t].of] > 0
    /\ \A h \in Handlers : h \in Queued \/ pc[h] \in {"send", "cancel"} => messages[h] > 0
    /\ \A h \in Handlers : messages[h] > 0 => ~Before(h)
    /\ \A h \in Handlers : pc[h] = "new" => content[h] = {}
    /\ \A h \in Handlers : messages[h] > 1 => session[h] \in batched

\* The message of a POST that is no batch is in one place: with its handler, in one queue, or being
\* answered by one thread.
Called(h) ==
    /\ h \in Queued => pc[h] \in {"read", "wait"}
    /\ OnceIn(hSyncFeatureRequests, h) /\ OnceIn(hTakenRequests, h)
    /\ h \in H!HttpCalls(hSyncFeatureRequests) => h \notin H!HttpCalls(hTakenRequests)
    /\ sending[H!Main] # H!Nothing /\ sending[H!Main].of = h =>
          /\ h \notin Queued /\ pc[h] \in {"read", "wait", "done"}
          /\ sending[H!Main].step # "clear" => pc[h] \in {"read", "wait"}
CallInv == \A h \in Handlers : H!Sound(h) => Called(h)

\* One message of a client object is open at a time, and the object says so.
OpenInv ==
    /\ \A h \in Handlers : H!Sound(h) /\ Open(h) => ~mIsRequestProcessed[session[h]]
    /\ \A g, h \in Handlers : H!Sound(h) /\ Open(g) /\ Open(h) /\ session[g] = session[h] => g = h
    /\ \A h \in Handlers : H!Sound(h) /\ Open(h) /\ pc[h] # "set" =>
          mResponse[session[h]] \in {h, H!NoHandler}

HttpInv == H!TypeOK /\ SessionInv /\ PostInv /\ CallInv /\ OpenInv /\ H!AnswerMatches

-----------------------------------------------------------------------------

\* Either all POSTs of a client object are no batches or what they do does not count.
LEMMA SoundTogether ==
  ASSUME NEW g \in Handlers, NEW h \in Handlers, session[g] = session[h], H!Sound(g)
  PROVE  H!Sound(h)
BY DEF H!Sound

LEMMA AppendCalls ==
  ASSUME NEW S, NEW s \in Seq(S), NEW e \in S
  PROVE  /\ Append(s, e) \in Seq(S)
         /\ H!HttpCalls(Append(s, e)) = H!HttpCalls(s) \cup {e}
         /\ \A h : OnceIn(s, h) /\ (h = e => e \notin H!HttpCalls(s)) => OnceIn(Append(s, e), h)
<1> DEFINE a == Append(s, e)
<1>1. a \in Seq(S) /\ Len(s) \in Nat /\ DOMAIN s = 1..Len(s) /\ DOMAIN a = 1..(Len(s) + 1)
  OBVIOUS
<1>2. a[Len(s) + 1] = e /\ \A n \in 1..Len(s) : a[n] = s[n]
  OBVIOUS
<1>3. \A n \in DOMAIN a : n = Len(s) + 1 \/ n \in DOMAIN s
  OBVIOUS
<1> HIDE DEF a
<1>4. H!HttpCalls(a) = H!HttpCalls(s) \cup {e}
  BY <1>1, <1>2 DEF H!HttpCalls
<1>5. ASSUME NEW h, OnceIn(s, h), h = e => e \notin H!HttpCalls(s)
      PROVE  OnceIn(a, h)
  BY <1>1, <1>2, <1>3, <1>5 DEF H!HttpCalls, OnceIn
<1> QED
  BY <1>1, <1>4, <1>5 DEF a

LEMMA TailCalls ==
  ASSUME NEW S, NEW s \in Seq(S), s # <<>>
  PROVE  /\ Tail(s) \in Seq(S) /\ Head(s) \in S /\ Head(s) \in H!HttpCalls(s)
         /\ H!HttpCalls(Tail(s)) \subseteq H!HttpCalls(s)
         /\ \A h : OnceIn(s, h) => OnceIn(Tail(s), h) /\ (h = Head(s) => h \notin H!HttpCalls(Tail(s)))
<1> DEFINE t == Tail(s)
<1>1. t \in Seq(S) /\ Len(s) \in Nat \ {0} /\ DOMAIN s = 1..Len(s) /\ DOMAIN t = 1..(Len(s) - 1)
  OBVIOUS
<1>2. Head(s) = s[1] /\ \A n \in DOMAIN t : t[n] = s[n + 1]
  OBVIOUS
<1>3. \A n \in DOMAIN t : n \in Nat /\ n + 1 \in DOMAIN s /\ n + 1 # 1
  BY <1>1
<1>4. Head(s) \in S /\ 1 \in DOMAIN s
  BY <1>1, <1>2
<1> HIDE DEF t
<1>5. H!HttpCalls(t) \subseteq H!HttpCalls(s)
  BY <1>2, <1>3 DEF H!HttpCalls
<1>6. ASSUME NEW h, OnceIn(s, h)
      PROVE  OnceIn(t, h) /\ (h = Head(s) => h \notin H!HttpCalls(t))
  <2>1. OnceIn(t, h)
    <3> SUFFICES ASSUME NEW m \in DOMAIN t, NEW n \in DOMAIN t, t[m] = h, t[n] = h
                 PROVE  m = n
      BY DEF OnceIn
    <3>1. m + 1 = n + 1
      BY <1>2, <1>3, <1>6 DEF OnceIn
    <3> QED
      BY <1>3, <3>1
  <2>2. ASSUME h = Head(s), NEW n \in DOMAIN t, t[n] = h
        PROVE  FALSE
    BY <1>2, <1>3, <1>4, <1>6, <2>2 DEF OnceIn
  <2> QED
    BY <2>1, <2>2 DEF H!HttpCalls
<1>7. Head(s) \in H!HttpCalls(s)
  BY <1>2, <1>4 DEF H!HttpCalls
<1> QED
  BY <1>1, <1>4, <1>5, <1>6, <1>7 DEF t

LEMMA NoCalls == H!HttpCalls(<<>>) = {} /\ \A h : OnceIn(<<>>, h)
BY DEF H!HttpCalls, OnceIn

\* A call that is marked leaves the queue.
LEMMA MarkCalls ==
  ASSUME NEW S, NEW s \in Seq(S), NEW n \in DOMAIN s, NEW e \in S, NEW m, m = [s EXCEPT ![n] = e]
  PROVE  /\ m \in Seq(S)
         /\ H!HttpCalls(m) \subseteq H!HttpCalls(s) \cup {e}
<1>1. m \in Seq(S) /\ DOMAIN m = DOMAIN s
  OBVIOUS
<1>2. m[n] = e /\ \A k \in DOMAIN s : k # n => m[k] = s[k]
  OBVIOUS
<1>3. H!HttpCalls(m) \subseteq H!HttpCalls(s) \cup {e}
  BY <1>1, <1>2 DEF H!HttpCalls
<1> QED
  BY <1>1, <1>3

LEMMA HttpInitHolds ==
  ASSUME H!Init
  PROVE  HttpInv
<1>1. H!TypeOK
  BY DEF H!TypeOK, H!Clients, H!Init
<1>2. Queued = {}
  BY NoCalls DEF Queued, H!Init
<1>3. SessionInv /\ H!AnswerMatches
  BY HandlersAssumption DEF H!HandlersApart, SessionInv, H!AnswerMatches, H!NoHandler, H!Init
<1>4. PostInv
  BY <1>2 DEF PostInv, Before, H!Threads, H!Init
<1>5. CallInv
  BY <1>2, NoCalls DEF CallInv, Called, H!Threads, H!Init
<1>6. OpenInv
  BY <1>2 DEF OpenInv, Open, Answers, H!Init
<1> QED
  BY <1>1, <1>3, <1>4, <1>5, <1>6 DEF HttpInv

LEMMA RefusedHolds ==
  ASSUME HttpInv, NEW h \in Handlers, H!Refused(h)
  PROVE  HttpInv'
<1>1. H!TypeOK'
  BY DEF HttpInv, H!TypeOK, H!Refused, H!tableVars, H!clientVars, H!callVars, H!batchVars, H!Goto
<1>2. SessionInv'
  BY DEF HttpInv, H!TypeOK, SessionInv, H!Refused, H!tableVars, H!clientVars, H!callVars,
     H!batchVars, H!Goto
<1>3. PostInv'
  BY DEF HttpInv, H!TypeOK, PostInv, Before, Queued, H!Refused, H!tableVars, H!clientVars,
     H!callVars, H!batchVars, H!Goto
<1>4. CallInv'
  BY DEF HttpInv, H!TypeOK, PostInv, CallInv, Called, Queued, H!Sound, H!Refused, H!tableVars,
     H!clientVars, H!callVars, H!batchVars, H!Goto
<1>5. OpenInv'
  <2>1. /\ pc[h] = "new" /\ pc' = [pc EXCEPT ![h] = "done"]
        /\ UNCHANGED <<stateful, mResponse, mIsRequestProcessed, session, messages, batched,
                       hSyncFeatureRequests, hTakenRequests, sending>>
    BY DEF H!Refused, H!Goto, H!tableVars, H!clientVars, H!batchVars, H!callVars
  <2>2. Queued' = Queued /\ \A g \in Handlers : H!Sound(g)' = H!Sound(g)
    BY <2>1 DEF Queued, H!Sound
  <2>3. pc'[h] = "done" /\ \A g \in Handlers : g # h => pc'[g] = pc[g]
    BY <2>1 DEF HttpInv, H!TypeOK
  <2>4. \A g \in Handlers : Open(g)' => Open(g) /\ (pc'[g] # "set" => pc[g] # "set")
    BY <2>1, <2>2, <2>3 DEF Open, Answers
  <2> QED
    BY <2>1, <2>2, <2>4 DEF OpenInv, HttpInv
<1>6. H!AnswerMatches'
  BY DEF HttpInv, H!TypeOK, H!AnswerMatches, H!Sound, H!Refused, H!tableVars, H!clientVars,
     H!callVars, H!batchVars, H!Goto
<1> QED
  BY <1>1, <1>2, <1>3, <1>4, <1>5, <1>6 DEF HttpInv

\* A POST that arrives has done nothing yet.
LEMMA NewFacts ==
  ASSUME HttpInv, NEW h \in Handlers, pc[h] = "new"
  PROVE  /\ messages[h] = 0 /\ h \notin Queued /\ content[h] = {} /\ ~Open(h)
         /\ \A t \in H!Threads : sending[t] # H!Nothing => sending[t].of # h
<1>1. messages \in [Handlers -> Nat] /\ PostInv
  BY DEF HttpInv, H!TypeOK
<1>2. messages[h] = 0
  BY <1>1 DEF PostInv, Before
<1>3. h \notin Queued /\ content[h] = {}
  BY <1>1, <1>2 DEF PostInv
<1>4. \A t \in H!Threads : sending[t] # H!Nothing => sending[t].of # h
  BY <1>1, <1>2 DEF PostInv
<1> QED
  BY <1>2, <1>3, <1>4 DEF Open, Answers

LEMMA ArrivesHolds ==
  ASSUME HttpInv, NEW h \in Handlers, NEW c \in H!Clients, H!Arrives(h, c),
         NEW p \in {"read", "lock"}, H!Goto(h, p)
  PROVE  CallInv' /\ H!AnswerMatches' /\ \A g \in Handlers : g # h => Open(g)' = Open(g)
<1>1. /\ messages[h] = 0 /\ h \notin Queued /\ content[h] = {}
      /\ \A t \in H!Threads : sending[t] # H!Nothing => sending[t].of # h
  BY NewFacts DEF H!Arrives
<1>2. UNCHANGED <<messages, batched, hSyncFeatureRequests, hTakenRequests, sending, content, stateful>>
  BY DEF H!Arrives, H!batchVars, H!callVars
<1>3. Queued' = Queued
  BY <1>2 DEF Queued
<1>4. \A g \in Handlers : g # h => pc'[g] = pc[g] /\ session'[g] = session[g]
  BY DEF H!Arrives, H!Goto, HttpInv, H!TypeOK
<1>5. \A g \in Handlers : g # h => H!Sound(g)' = H!Sound(g) /\ Open(g)' = Open(g)
  BY <1>2, <1>3, <1>4 DEF H!Sound, Open, Answers
<1>6. CallInv'
  <2>1. Called(h)'
    BY <1>1, <1>2, <1>3 DEF Called, OnceIn, Queued, H!HttpCalls, H!Threads
  <2>2. ASSUME NEW g \in Handlers, g # h, H!Sound(g)'
        PROVE  Called(g)'
    BY <1>2, <1>3, <1>4, <1>5, <2>2 DEF Called, CallInv, HttpInv
  <2> QED
    BY <2>1, <2>2 DEF CallInv
<1>7. H!AnswerMatches'
  BY <1>1, <1>2, <1>5 DEF H!AnswerMatches, HttpInv
<1> QED
  BY <1>5, <1>6, <1>7

LEMMA PostNewHolds ==
  ASSUME HttpInv, NEW h \in Handlers, NEW c \in H!Clients, H!PostNew(h, c)
  PROVE  HttpInv'
<1>1. H!TypeOK'
  BY DEF HttpInv, H!TypeOK, H!PostNew, H!Arrives, H!tableVars, H!clientVars, H!callVars,
     H!batchVars, H!Goto
<1>2. SessionInv'
  BY DEF HttpInv, H!TypeOK, SessionInv, H!PostNew, H!Arrives, H!tableVars, H!clientVars,
     H!callVars, H!batchVars, H!Goto
<1>3. PostInv'
  BY DEF HttpInv, H!TypeOK, PostInv, Before, Queued, H!PostNew, H!Arrives, H!tableVars,
     H!clientVars, H!callVars, H!batchVars, H!Goto
<1>4. CallInv' /\ H!AnswerMatches' /\ \A g \in Handlers : g # h => Open(g)' = Open(g)
  BY ArrivesHolds DEF H!PostNew
<1>5. OpenInv'
  <2>1. /\ pc[h] = "new" /\ session' = [session EXCEPT ![h] = c] /\ pc' = [pc EXCEPT ![h] = "read"]
        /\ mIsRequestProcessed' = [mIsRequestProcessed EXCEPT ![c] = FALSE]
        /\ mResponse' = [mResponse EXCEPT ![c] = h]
        /\ UNCHANGED <<stateful, batched>>
        /\ IF stateful THEN c \in Sessions \ mStreambleClients ELSE c = h
    BY DEF H!PostNew, H!Arrives, H!Goto, H!batchVars
  <2>2. /\ pc \in [Handlers -> Pcs] /\ session \in [Handlers -> H!Clients]
        /\ mResponse \in [H!Clients -> Handlers \cup {H!NoHandler}]
        /\ mIsRequestProcessed \in [H!Clients -> BOOLEAN] /\ messages \in [Handlers -> Nat]
    BY DEF HttpInv, H!TypeOK, Pcs
  <2>3. ASSUME NEW g \in Handlers, g # h, Open(g)
        PROVE  session[g] # c
    <3>1. pc[g] \notin {"new", "done"} \/ messages[g] > 0
      <4>1. pc[g] # "new"
        BY <2>3, NewFacts
      <4>2. ASSUME pc[g] = "done" PROVE messages[g] > 0
        BY <2>3, <4>2 DEF Open, Answers, HttpInv, PostInv
      <4> QED
        BY <4>1, <4>2
    <3> QED
      BY <2>1, <2>3, <3>1 DEF HttpInv, SessionInv
  <2>4. \A g \in Handlers : g # h => session'[g] = session[g] /\ pc'[g] = pc[g] /\ H!Sound(g)' = H!Sound(g)
    BY <2>1, <2>2 DEF H!Sound
  <2>5. session'[h] = c /\ mResponse'[c] = h /\ ~mIsRequestProcessed'[c]
    BY <2>1, <2>2
  <2>6. \A d \in H!Clients : d # c =>
           mResponse'[d] = mResponse[d] /\ mIsRequestProcessed'[d] = mIsRequestProcessed[d]
    BY <2>1, <2>2
  <2> QED
    BY <1>4, <2>2, <2>3, <2>4, <2>5, <2>6 DEF OpenInv, HttpInv
<1> QED
  BY <1>1, <1>2, <1>3, <1>4, <1>5 DEF HttpInv

LEMMA PostKnownHolds ==
  ASSUME HttpInv, NEW h \in Handlers, NEW c \in H!Clients, H!PostKnown(h, c)
  PROVE  HttpInv'
<1>1. H!TypeOK'
  BY DEF HttpInv, H!TypeOK, H!PostKnown, H!Arrives, H!tableVars, H!clientVars, H!callVars,
     H!batchVars, H!Goto
<1>2. SessionInv'
  BY DEF HttpInv, H!TypeOK, SessionInv, H!PostKnown, H!Arrives, H!tableVars, H!clientVars,
     H!callVars, H!batchVars, H!Goto
<1>3. PostInv'
  BY DEF HttpInv, H!TypeOK, PostInv, Before, Queued, H!PostKnown, H!Arrives, H!tableVars,
     H!clientVars, H!callVars, H!batchVars, H!Goto
<1>4. CallInv' /\ H!AnswerMatches' /\ \A g \in Handlers : g # h => Open(g)' = Open(g)
  BY ArrivesHolds DEF H!PostKnown
<1>5. OpenInv'
  <2>1. /\ session' = [session EXCEPT ![h] = c] /\ pc' = [pc EXCEPT ![h] = "lock"]
        /\ pc[h] = "new" /\ UNCHANGED <<messages, batched, stateful, sending, mResponse,
             mIsRequestProcessed, hSyncFeatureRequests, hTakenRequests>>
    BY DEF H!PostKnown, H!Arrives, H!Goto, H!batchVars, H!callVars, H!clientVars
  <2>2. pc \in [Handlers -> Pcs] /\ session \in [Handlers -> H!Clients]
    BY DEF HttpInv, H!TypeOK, Pcs
  <2>3. ~Open(h)'
    BY <2>1, <2>2, NewFacts DEF Open, Answers, Queued
  <2>4. \A g \in Handlers : g # h => session'[g] = session[g] /\ pc'[g] = pc[g] /\ H!Sound(g)' = H!Sound(g)
    BY <2>1, <2>2 DEF H!Sound
  <2> QED
    BY <1>4, <2>1, <2>3, <2>4 DEF OpenInv, HttpInv
<1> QED
  BY <1>1, <1>2, <1>3, <1>4, <1>5 DEF HttpInv

LEMMA LockHolds ==
  ASSUME HttpInv, NEW h \in Handlers, H!Lock(h)
  PROVE  HttpInv'
<1>1. H!TypeOK'
  BY DEF HttpInv, H!TypeOK, H!Lock, H!tableVars, H!clientVars, H!callVars, H!batchVars, H!Goto
<1>2. SessionInv'
  BY DEF HttpInv, H!TypeOK, SessionInv, H!Lock, H!tableVars, H!clientVars, H!callVars,
     H!batchVars, H!Goto
<1>3. PostInv'
  BY DEF HttpInv, H!TypeOK, PostInv, Before, Queued, H!Lock, H!tableVars, H!clientVars,
     H!callVars, H!batchVars, H!Goto
<1>4. CallInv'
  BY DEF HttpInv, H!TypeOK, PostInv, CallInv, Called, Queued, H!Sound, H!Lock, H!tableVars,
     H!clientVars, H!callVars, H!batchVars, H!Goto
<1>5. OpenInv'
  BY DEF HttpInv, H!TypeOK, PostInv, CallInv, Called, OpenInv, Open, Answers, Queued, H!Sound,
     H!Lock, H!tableVars, H!clientVars, H!callVars, H!batchVars, H!Goto
<1>6. H!AnswerMatches'
  BY DEF HttpInv, H!TypeOK, H!AnswerMatches, H!Sound, H!Lock, H!tableVars, H!clientVars,
     H!callVars, H!batchVars, H!Goto
<1> QED
  BY <1>1, <1>2, <1>3, <1>4, <1>5, <1>6 DEF HttpInv

LEMMA PreviousHolds ==
  ASSUME HttpInv, NEW h \in Handlers, H!Previous(h)
  PROVE  HttpInv'
<1>1. H!TypeOK'
  BY DEF HttpInv, H!TypeOK, H!Previous, H!tableVars, H!clientVars, H!callVars, H!batchVars, H!Goto
<1>2. SessionInv'
  BY DEF HttpInv, H!TypeOK, SessionInv, H!Previous, H!tableVars, H!clientVars, H!callVars,
     H!batchVars, H!Goto
<1>3. PostInv'
  BY DEF HttpInv, H!TypeOK, PostInv, Before, Queued, H!Previous, H!tableVars, H!clientVars,
     H!callVars, H!batchVars, H!Goto
<1>4. CallInv'
  BY DEF HttpInv, H!TypeOK, PostInv, CallInv, Called, Queued, H!Sound, H!Previous, H!tableVars,
     H!clientVars, H!callVars, H!batchVars, H!Goto
<1>5. OpenInv'
  BY DEF HttpInv, H!TypeOK, PostInv, CallInv, Called, OpenInv, Open, Answers, Queued, H!Sound,
     H!Previous, H!tableVars, H!clientVars, H!callVars, H!batchVars, H!Goto
<1>6. H!AnswerMatches'
  BY DEF HttpInv, H!TypeOK, H!AnswerMatches, H!Sound, H!Previous, H!tableVars, H!clientVars,
     H!callVars, H!batchVars, H!Goto
<1> QED
  BY <1>1, <1>2, <1>3, <1>4, <1>5, <1>6 DEF HttpInv

LEMMA SetResponseHolds ==
  ASSUME HttpInv, NEW h \in Handlers, H!SetResponse(h)
  PROVE  HttpInv'
<1>1. H!TypeOK'
  BY DEF HttpInv, H!TypeOK, H!SetResponse, H!tableVars, H!clientVars, H!callVars, H!batchVars,
     H!Goto
<1>2. SessionInv'
  BY DEF HttpInv, H!TypeOK, SessionInv, H!SetResponse, H!tableVars, H!clientVars, H!callVars,
     H!batchVars, H!Goto
<1>3. PostInv'
  BY DEF HttpInv, H!TypeOK, PostInv, Before, Queued, H!SetResponse, H!tableVars, H!clientVars,
     H!callVars, H!batchVars, H!Goto
<1>4. CallInv'
  BY DEF HttpInv, H!TypeOK, PostInv, CallInv, Called, Queued, H!Sound, H!SetResponse, H!tableVars,
     H!clientVars, H!callVars, H!batchVars, H!Goto
<1>5. OpenInv'
  BY DEF HttpInv, H!TypeOK, PostInv, CallInv, Called, OpenInv, Open, Answers, Queued, H!Sound,
     H!SetResponse, H!tableVars, H!clientVars, H!callVars, H!batchVars, H!Goto
<1>6. H!AnswerMatches'
  BY DEF HttpInv, H!TypeOK, H!AnswerMatches, H!Sound, H!SetResponse, H!tableVars, H!clientVars,
     H!callVars, H!batchVars, H!Goto
<1> QED
  BY <1>1, <1>2, <1>3, <1>4, <1>5, <1>6 DEF HttpInv

LEMMA ReadNowHolds ==
  ASSUME HttpInv, NEW h \in Handlers, H!ReadNow(h)
  PROVE  HttpInv'
<1>a. /\ pc[h] = "read" /\ pc' = [pc EXCEPT ![h] = "send"]
      /\ messages' = [messages EXCEPT ![h] = @ + 1]
      /\ batched' = batched \cup {c \in {session[h]} : messages[h] > 0}
      /\ sending' = [sending EXCEPT ![h] = [step |-> "content", client |-> session[h], of |-> h]]
      /\ UNCHANGED <<stateful, session, hSyncFeatureRequests, hTakenRequests>>
  BY DEF H!ReadNow, H!Reads, H!Goto, H!Send, H!callVars, H!tableVars
<1>b. /\ pc \in [Handlers -> Pcs] /\ messages \in [Handlers -> Nat]
      /\ sending \in [H!Threads -> H!Sends \cup {H!Nothing}] /\ h \in H!Threads
      /\ session[h] \in H!Clients
  BY DEF HttpInv, H!TypeOK, H!Threads, Pcs
<1>1. H!TypeOK'
  <2>1. [step |-> "content", client |-> session[h], of |-> h] \in H!Sends
    BY <1>b DEF H!Sends
  <2>2. sending' \in [H!Threads -> H!Sends \cup {H!Nothing}]
    BY <1>a, <1>b, <2>1
  <2>3. messages' \in [Handlers -> Nat] /\ batched' \in SUBSET H!Clients
    BY <1>a, <1>b DEF HttpInv, H!TypeOK
  <2> QED
    BY <2>2, <2>3 DEF HttpInv, H!TypeOK, H!ReadNow, H!tableVars, H!clientVars, H!callVars, H!Goto
<1>2. SessionInv'
  BY DEF HttpInv, H!TypeOK, SessionInv, H!ReadNow, H!Reads, H!Send, H!Sends, H!tableVars,
     H!clientVars, H!callVars, H!batchVars, H!Goto
<1>3. PostInv'
  BY DEF HttpInv, H!TypeOK, PostInv, Before, Queued, H!ReadNow, H!Reads, H!Send, H!Sends,
     H!tableVars, H!clientVars, H!callVars, H!batchVars, H!Goto
<1>4. CallInv'
  <2>1. H!Main # h
    BY HandlersAssumption DEF H!HandlersApart, H!Main
  <2>2. sending'[H!Main] = sending[H!Main] /\ Queued' = Queued
    BY <1>a, <1>b, <2>1 DEF H!Threads, Queued
  <2>3. \A g \in Handlers : H!Sound(g)' => H!Sound(g)
    BY <1>a DEF H!Sound
  <2>4. ASSUME H!Sound(h)'
        PROVE  h \notin Queued /\ (sending[H!Main] # H!Nothing => sending[H!Main].of # h)
    <3>1. messages[h] = 0
      BY <1>a, <1>b, <2>4 DEF H!Sound
    <3> QED
      BY <3>1 DEF HttpInv, PostInv, H!Threads
  <2>5. \A g \in Handlers : g # h => pc'[g] = pc[g]
    BY <1>a, <1>b
  <2>6. ASSUME NEW g \in Handlers, H!Sound(g)'
        PROVE  Called(g)'
    BY <1>a, <2>2, <2>3, <2>4, <2>5, <2>6 DEF CallInv, Called, HttpInv
  <2> QED
    BY <2>6 DEF CallInv
<1>5. OpenInv'
  <2>1. Queued' = Queued /\ \A g \in Handlers : H!Sound(g)' => H!Sound(g)
    BY <1>a DEF Queued, H!Sound
  <2>2. \A u \in H!Threads : u # h => sending'[u] = sending[u]
    BY <1>a, <1>b
  <2>3. sending'[h].of = h
    BY <1>a, <1>b
  <2>4. \A g \in Handlers : g # h => pc'[g] = pc[g] /\ messages'[g] = messages[g]
    BY <1>a, <1>b
  <2>5. \A g \in Handlers : g # h /\ Open(g)' => Open(g)
    BY <2>1, <2>2, <2>3, <2>4 DEF Open, Answers
  <2>6. H!Sound(h)' => Open(h)
    BY <1>a, <1>b DEF H!Sound, Open
  <2>7. \A g \in Handlers : session[g] = session[h] /\ H!Sound(g)' => H!Sound(h)'
    BY <1>a DEF H!Sound
  <2>8. UNCHANGED <<mResponse, mIsRequestProcessed>>
    BY DEF H!ReadNow, H!clientVars
  <2> QED
    BY <1>a, <1>b, <2>1, <2>4, <2>5, <2>6, <2>7, <2>8 DEF OpenInv, HttpInv
<1>6. H!AnswerMatches'
  BY DEF HttpInv, H!TypeOK, H!AnswerMatches, H!Sound, H!ReadNow, H!Reads, H!Send, H!Sends,
     H!tableVars, H!clientVars, H!callVars, H!batchVars, H!Goto
<1> QED
  BY <1>1, <1>2, <1>3, <1>4, <1>5, <1>6 DEF HttpInv

LEMMA ReadQueuedHolds ==
  ASSUME HttpInv, NEW h \in Handlers, H!ReadQueued(h)
  PROVE  HttpInv'
<1>a. /\ pc[h] = "read" /\ messages' = [messages EXCEPT ![h] = @ + 1]
      /\ batched' = batched \cup {c \in {session[h]} : messages[h] > 0}
      /\ hSyncFeatureRequests' = Append(hSyncFeatureRequests, h)
      /\ UNCHANGED <<stateful, mStreambleClients, known, mResponse, mIsRequestProcessed,
                     mSynchronizer, pc, session, hTakenRequests, sending, content, stuck>>
  BY DEF H!ReadQueued, H!Reads, H!tableVars, H!clientVars
<1>b. /\ messages \in [Handlers -> Nat]
      /\ hSyncFeatureRequests \in Seq(Handlers \cup {H!Skipped})
  BY DEF HttpInv, H!TypeOK
<1>c. /\ hSyncFeatureRequests' \in Seq(Handlers \cup {H!Skipped})
      /\ Queued' = Queued \cup {h}
      /\ \A g : OnceIn(hSyncFeatureRequests, g) /\ (g = h => h \notin Queued) =>
            OnceIn(hSyncFeatureRequests', g)
      /\ H!HttpCalls(hSyncFeatureRequests') = H!HttpCalls(hSyncFeatureRequests) \cup {h}
  BY <1>a, <1>b, AppendCalls DEF Queued
<1>d. /\ messages'[h] = messages[h] + 1 /\ messages'[h] > 0
      /\ \A g \in Handlers : g # h => messages'[g] = messages[g]
  BY <1>a, <1>b
<1>e. \A g \in Handlers : H!Sound(g)' => H!Sound(g)
  BY <1>a DEF H!Sound
\* The message read is the first, or the client object has a batch from now on.
<1>f. ASSUME H!Sound(h)'
      PROVE  messages[h] = 0 /\ h \notin Queued /\ (sending[H!Main] # H!Nothing => sending[H!Main].of # h)
  <2>1. messages[h] = 0
    BY <1>a, <1>b, <1>f, SMTT(60) DEF H!Sound
  <2> QED
    BY <2>1 DEF HttpInv, PostInv, H!Threads
<1>1. H!TypeOK'
  <2>1. messages' \in [Handlers -> Nat] /\ batched' \in SUBSET H!Clients
    BY <1>a, <1>b DEF HttpInv, H!TypeOK
  <2> QED
    BY <1>a, <1>c, <2>1 DEF HttpInv, H!TypeOK
<1>2. SessionInv'
  BY <1>a, <1>d DEF HttpInv, SessionInv
<1>3. PostInv'
  <2>1. \A g \in Handlers : messages'[g] > 1 => session[g] \in batched'
    BY <1>a, <1>b, <1>d DEF HttpInv, PostInv
  <2>2. \A t \in H!Threads : sending[t] # H!Nothing => messages'[sending[t].of] > 0
    <3>1. \A t \in H!Threads : sending[t] # H!Nothing => sending[t].of \in Handlers
      BY DEF HttpInv, H!TypeOK, H!Sends
    <3> QED
      BY <1>d, <3>1 DEF HttpInv, PostInv
  <2>3. \A g \in Handlers : messages'[g] > 0 => ~Before(g)'
    BY <1>a, <1>d DEF HttpInv, PostInv, Before
  <2> QED
    BY <1>a, <1>c, <1>d, <2>1, <2>2, <2>3 DEF HttpInv, PostInv
<1>4. CallInv'
  <2>1. ASSUME NEW g \in Handlers, H!Sound(g)', g # h
        PROVE  Called(g)'
    BY <1>a, <1>c, <1>e, <2>1 DEF HttpInv, CallInv, Called
  <2>2. ASSUME H!Sound(h)'
        PROVE  Called(h)'
    <3>1. h \notin H!HttpCalls(hTakenRequests)
      BY <1>f, <2>2 DEF Queued
    <3> QED
      BY <1>a, <1>c, <1>e, <1>f, <2>2, <3>1 DEF HttpInv, CallInv, Called
  <2> QED
    BY <2>1, <2>2 DEF CallInv
<1>5. OpenInv'
  <2>1. \A g \in Handlers : g # h /\ Open(g)' => Open(g)
    BY <1>a, <1>c, <1>d DEF Open, Answers
  <2>2. H!Sound(h)' => Open(h)
    BY <1>a, <1>f DEF Open
  <2>3. \A g \in Handlers : session[g] = session[h] /\ H!Sound(g)' => H!Sound(h)'
    BY <1>a DEF H!Sound
  <2> QED
    BY <1>a, <1>e, <2>1, <2>2, <2>3 DEF HttpInv, OpenInv
<1>6. H!AnswerMatches'
  BY <1>a, <1>e DEF HttpInv, H!AnswerMatches
<1> QED
  BY <1>1, <1>2, <1>3, <1>4, <1>5, <1>6 DEF HttpInv

LEMMA ReadEmptyHolds ==
  ASSUME HttpInv, NEW h \in Handlers, H!ReadEmpty(h)
  PROVE  HttpInv'
<1>1. H!TypeOK'
  BY DEF HttpInv, H!TypeOK, H!ReadEmpty, H!Reads, H!tableVars, H!clientVars, H!callVars,
     H!batchVars, H!Goto
<1>2. SessionInv'
  BY DEF HttpInv, H!TypeOK, SessionInv, H!ReadEmpty, H!Reads, H!tableVars, H!clientVars,
     H!callVars, H!batchVars, H!Goto
<1>3. PostInv'
  BY SMTT(60) DEF HttpInv, H!TypeOK, PostInv, Before, Queued, H!ReadEmpty, H!Reads, H!tableVars,
     H!clientVars, H!callVars, H!batchVars, H!Goto
<1>4. CallInv'
  <2>1. /\ pc[h] = "read" /\ messages' = [messages EXCEPT ![h] = @ + 1]
        /\ batched' = batched \cup {c \in {session[h]} : messages[h] > 0}
        /\ UNCHANGED <<stateful, session, hSyncFeatureRequests, hTakenRequests, sending>>
    BY DEF H!ReadEmpty, H!Reads, H!tableVars, H!callVars
  <2>2. \A g \in Handlers : H!Sound(g)' => H!Sound(g)
    BY <2>1 DEF H!Sound
  <2>3. ASSUME H!Sound(h)'
        PROVE  h \notin Queued /\ (sending[H!Main] # H!Nothing => sending[H!Main].of # h)
    <3>1. messages[h] = 0
      BY <2>1, <2>3, SMTT(60) DEF H!Sound, HttpInv, H!TypeOK
    <3> QED
      BY <3>1 DEF HttpInv, PostInv, H!Threads
  <2>4. \A g \in Handlers : g # h => pc'[g] = pc[g]
    BY DEF H!ReadEmpty, H!Goto, HttpInv, H!TypeOK
  <2>5. Queued' = Queued
    BY <2>1 DEF Queued
  <2>6. ASSUME NEW g \in Handlers, H!Sound(g)'
        PROVE  Called(g)'
    BY <2>1, <2>2, <2>3, <2>4, <2>5, <2>6 DEF CallInv, Called, HttpInv
  <2> QED
    BY <2>6 DEF CallInv
<1>5. OpenInv'
  BY DEF HttpInv, H!TypeOK, PostInv, CallInv, Called, OpenInv, Open, Answers, Queued, H!Sound,
     H!ReadEmpty, H!Reads, H!tableVars, H!clientVars, H!callVars, H!batchVars, H!Goto
<1>6. H!AnswerMatches'
  BY DEF HttpInv, H!TypeOK, H!AnswerMatches, H!Sound, H!ReadEmpty, H!Reads, H!tableVars,
     H!clientVars, H!callVars, H!batchVars, H!Goto
<1> QED
  BY <1>1, <1>2, <1>3, <1>4, <1>5, <1>6 DEF HttpInv

LEMMA MarkHolds ==
  ASSUME HttpInv, NEW h \in Handlers, H!Cancel(h)
  PROVE  HttpInv'
<1>a. /\ pc[h] = "cancel" /\ pc' = [pc EXCEPT ![h] = "read"]
      /\ UNCHANGED <<stateful, mStreambleClients, known, mResponse, mIsRequestProcessed, mSynchronizer,
                     session, messages, batched, hTakenRequests, sending, content>>
      /\ \/ UNCHANGED <<hSyncFeatureRequests, stuck>>
         \/ \E n \in DOMAIN hSyncFeatureRequests :
               /\ hSyncFeatureRequests[n] # H!Skipped
               /\ hSyncFeatureRequests' = [hSyncFeatureRequests EXCEPT ![n] = H!Skipped]
               /\ stuck' = stuck \cup {session[hSyncFeatureRequests[n]]}
  BY DEF H!Cancel, H!Goto, H!tableVars, H!clientVars, H!batchVars
<1>b. /\ hSyncFeatureRequests \in Seq(Handlers \cup {H!Skipped}) /\ H!Skipped \notin Handlers
      /\ pc \in [Handlers -> Pcs]
  BY HandlersAssumption DEF HttpInv, H!TypeOK, H!HandlersApart, H!Skipped, Pcs
<1>c. /\ hSyncFeatureRequests' \in Seq(Handlers \cup {H!Skipped})
      /\ H!HttpCalls(hSyncFeatureRequests') \subseteq H!HttpCalls(hSyncFeatureRequests) \cup {H!Skipped}
      /\ \A g \in Handlers : OnceIn(hSyncFeatureRequests, g) => OnceIn(hSyncFeatureRequests', g)
      /\ stuck' \in SUBSET H!Clients
  <2>1. CASE UNCHANGED <<hSyncFeatureRequests, stuck>>
    BY <1>b, <2>1 DEF HttpInv, H!TypeOK
  <2>2. ASSUME NEW n \in DOMAIN hSyncFeatureRequests, hSyncFeatureRequests[n] # H!Skipped,
               hSyncFeatureRequests' = [hSyncFeatureRequests EXCEPT ![n] = H!Skipped],
               stuck' = stuck \cup {session[hSyncFeatureRequests[n]]}
        PROVE  /\ hSyncFeatureRequests' \in Seq(Handlers \cup {H!Skipped})
               /\ H!HttpCalls(hSyncFeatureRequests') \subseteq
                    H!HttpCalls(hSyncFeatureRequests) \cup {H!Skipped}
               /\ \A g \in Handlers : OnceIn(hSyncFeatureRequests, g) =>
                    OnceIn(hSyncFeatureRequests', g)
               /\ stuck' \in SUBSET H!Clients
    <3>1. hSyncFeatureRequests[n] \in Handlers
      BY <1>b, <2>2
    <3>2. stuck' \in SUBSET H!Clients
      BY <2>2, <3>1 DEF HttpInv, H!TypeOK
    <3> QED
      <4>1. H!Skipped \in Handlers \cup {H!Skipped} /\ \A g \in Handlers : g # H!Skipped
        BY <1>b
      <4>2. ASSUME NEW g \in Handlers, OnceIn(hSyncFeatureRequests, g)
            PROVE  OnceIn(hSyncFeatureRequests', g)
        <5>1. DOMAIN hSyncFeatureRequests' = DOMAIN hSyncFeatureRequests
          BY <2>2
        <5>2. \A m \in DOMAIN hSyncFeatureRequests :
                hSyncFeatureRequests'[m] = IF m = n THEN H!Skipped ELSE hSyncFeatureRequests[m]
          BY <2>2
        <5> QED
          BY <4>1, <4>2, <5>1, <5>2 DEF OnceIn
      <4>3. /\ hSyncFeatureRequests' \in Seq(Handlers \cup {H!Skipped})
            /\ H!HttpCalls(hSyncFeatureRequests') \subseteq
                 H!HttpCalls(hSyncFeatureRequests) \cup {H!Skipped}
        BY <1>b, <2>2, <4>1, MarkCalls
      <4> QED
        BY <3>2, <4>1, <4>2, <4>3
  <2> QED
    BY <1>a, <2>1, <2>2
<1>d. /\ \A g \in Handlers : g \in Queued' => g \in Queued
      /\ \A g \in Handlers : g \in H!HttpCalls(hSyncFeatureRequests') =>
            g \in H!HttpCalls(hSyncFeatureRequests)
  BY <1>a, <1>b, <1>c DEF Queued
<1>e. pc'[h] = "read" /\ messages[h] > 0 /\ \A g \in Handlers : g # h => pc'[g] = pc[g]
  BY <1>a, <1>b DEF HttpInv, PostInv
<1>f. \A g \in Handlers : H!Sound(g)' = H!Sound(g)
  BY <1>a DEF H!Sound
<1>1. H!TypeOK'
  <2>1. pc' \in [Handlers -> Pcs]
    BY <1>a, <1>b DEF Pcs
  <2> QED
    BY <1>a, <1>c, <2>1 DEF HttpInv, H!TypeOK, Pcs
<1>2. SessionInv'
  BY <1>a, <1>e DEF HttpInv, SessionInv
<1>3. PostInv'
  BY <1>a, <1>d, <1>e DEF HttpInv, PostInv, Before
<1>4. CallInv'
  <2>1. ASSUME NEW g \in Handlers, H!Sound(g)
        PROVE  Called(g)'
    BY <1>a, <1>c, <1>d, <1>e, <2>1 DEF HttpInv, CallInv, Called
  <2> QED
    BY <1>f, <2>1 DEF CallInv
<1>5. OpenInv'
  <2>1. \A g \in Handlers : Open(g)' => Open(g) /\ (g = h => pc[g] # "set")
    BY <1>a, <1>d, <1>e DEF Open, Answers
  <2>2. \A g \in Handlers : Open(g)' /\ pc'[g] # "set" => pc[g] # "set"
    BY <1>e, <2>1
  <2> QED
    BY <1>a, <1>f, <2>1, <2>2 DEF HttpInv, OpenInv
<1>6. H!AnswerMatches'
  BY <1>a, <1>f DEF HttpInv, H!AnswerMatches
<1> QED
  BY <1>1, <1>2, <1>3, <1>4, <1>5, <1>6 DEF HttpInv

LEMMA ReadDoneHolds ==
  ASSUME HttpInv, NEW h \in Handlers, H!ReadDone(h)
  PROVE  HttpInv'
<1>1. H!TypeOK'
  BY DEF HttpInv, H!TypeOK, H!ReadDone, H!tableVars, H!clientVars, H!callVars, H!batchVars, H!Goto
<1>2. SessionInv'
  BY DEF HttpInv, H!TypeOK, SessionInv, H!ReadDone, H!tableVars, H!clientVars, H!callVars,
     H!batchVars, H!Goto
<1>3. PostInv'
  BY DEF HttpInv, H!TypeOK, PostInv, Before, Queued, H!ReadDone, H!tableVars, H!clientVars,
     H!callVars, H!batchVars, H!Goto
<1>4. CallInv'
  BY DEF HttpInv, H!TypeOK, PostInv, CallInv, Called, Queued, H!Sound, H!ReadDone, H!tableVars,
     H!clientVars, H!callVars, H!batchVars, H!Goto
<1>5. OpenInv'
  BY DEF HttpInv, H!TypeOK, PostInv, CallInv, Called, OpenInv, Open, Answers, Queued, H!Sound,
     H!ReadDone, H!tableVars, H!clientVars, H!callVars, H!batchVars, H!Goto
<1>6. H!AnswerMatches'
  BY DEF HttpInv, H!TypeOK, H!AnswerMatches, H!Sound, H!ReadDone, H!tableVars, H!clientVars,
     H!callVars, H!batchVars, H!Goto
<1> QED
  BY <1>1, <1>2, <1>3, <1>4, <1>5, <1>6 DEF HttpInv

LEMMA SentHolds ==
  ASSUME HttpInv, NEW h \in Handlers, H!Sent(h)
  PROVE  HttpInv'
<1>1. H!TypeOK'
  BY DEF HttpInv, H!TypeOK, H!Sent, H!tableVars, H!clientVars, H!callVars, H!batchVars, H!Goto
<1>2. SessionInv'
  BY DEF HttpInv, H!TypeOK, SessionInv, H!Sent, H!tableVars, H!clientVars, H!callVars,
     H!batchVars, H!Goto
<1>3. PostInv'
  BY DEF HttpInv, H!TypeOK, PostInv, Before, Queued, H!Sent, H!tableVars, H!clientVars,
     H!callVars, H!batchVars, H!Goto
<1>4. CallInv'
  BY DEF HttpInv, H!TypeOK, PostInv, CallInv, Called, Queued, H!Sound, H!Sent, H!tableVars,
     H!clientVars, H!callVars, H!batchVars, H!Goto
<1>5. OpenInv'
  BY DEF HttpInv, H!TypeOK, PostInv, CallInv, Called, OpenInv, Open, Answers, Queued, H!Sound,
     H!Sent, H!tableVars, H!clientVars, H!callVars, H!batchVars, H!Goto
<1>6. H!AnswerMatches'
  BY DEF HttpInv, H!TypeOK, H!AnswerMatches, H!Sound, H!Sent, H!tableVars, H!clientVars,
     H!callVars, H!batchVars, H!Goto
<1> QED
  BY <1>1, <1>2, <1>3, <1>4, <1>5, <1>6 DEF HttpInv

LEMMA ReturnHolds ==
  ASSUME HttpInv, NEW h \in Handlers, H!Return(h)
  PROVE  HttpInv'
<1>1. H!TypeOK'
  <2>1. known' \in SUBSET mStreambleClients
    <3>1. Sessions \cap {session[h]} \subseteq mStreambleClients
      BY DEF HttpInv, SessionInv, H!Return
    <3> QED
      BY <3>1 DEF HttpInv, H!TypeOK, H!Return
  <2> QED
    BY <2>1 DEF HttpInv, H!TypeOK, H!Return, H!clientVars, H!callVars, H!batchVars, H!Goto
<1>2. SessionInv'
  BY DEF HttpInv, H!TypeOK, SessionInv, H!Return, H!tableVars, H!clientVars, H!callVars,
     H!batchVars, H!Goto
<1>3. PostInv'
  BY DEF HttpInv, H!TypeOK, PostInv, Before, Queued, H!Return, H!tableVars, H!clientVars,
     H!callVars, H!batchVars, H!Goto
<1>4. CallInv'
  <2>1. UNCHANGED <<stateful, batched, session, hSyncFeatureRequests, hTakenRequests, sending>>
    BY DEF H!Return, H!batchVars, H!callVars
  <2>2. \A g \in Handlers : g # h => pc'[g] = pc[g]
    BY DEF H!Return, H!Goto, HttpInv, H!TypeOK
  <2>3. H!Sound(h) => ~Open(h)
    BY DEF H!Return, HttpInv, OpenInv
  <2>4. Queued' = Queued /\ \A g \in Handlers : H!Sound(g)' = H!Sound(g)
    BY <2>1 DEF Queued, H!Sound
  <2>5. pc'[h] = "done"
    BY DEF H!Return, H!Goto, HttpInv, H!TypeOK
  <2>6. ASSUME NEW g \in Handlers, g # h, H!Sound(g)
        PROVE  Called(g)'
    BY <2>1, <2>2, <2>4, <2>6 DEF CallInv, Called, HttpInv
  <2>7. ASSUME H!Sound(h)
        PROVE  Called(h)'
    BY <2>1, <2>3, <2>4, <2>5, <2>7 DEF CallInv, Called, Open, Answers, H!Threads, HttpInv
  <2> QED
    BY <2>4, <2>6, <2>7 DEF CallInv
<1>5. OpenInv'
  BY DEF HttpInv, H!TypeOK, PostInv, CallInv, Called, OpenInv, Open, Answers, Queued, H!Sound,
     H!Return, H!tableVars, H!clientVars, H!callVars, H!batchVars, H!Goto
<1>6. H!AnswerMatches'
  BY DEF HttpInv, H!TypeOK, H!AnswerMatches, H!Sound, H!Return, H!tableVars, H!clientVars,
     H!callVars, H!batchVars, H!Goto
<1> QED
  BY <1>1, <1>2, <1>3, <1>4, <1>5, <1>6 DEF HttpInv

\* An answer of a POST that is no batch is put into its own response, whose handler waits for it.
LEMMA ContentPlace ==
  ASSUME HttpInv, NEW t \in H!Threads, sending[t] # H!Nothing, H!SetContent(t)
  PROVE  LET o == sending[t].of
             k == mResponse[sending[t].client]
         IN  /\ sending[t] \in H!Sends /\ o \in Handlers /\ sending[t].step = "content"
             /\ sending[t].client = session[o] /\ messages[o] > 0
             /\ k = H!NoHandler => sending' = [sending EXCEPT ![t] = H!Nothing] /\ content' = content
             /\ k # H!NoHandler =>
                   /\ k \in Handlers /\ session[k] = session[o]
                   /\ H!Sound(k) => k = o /\ pc[k] \in {"send", "read", "wait"}
                   /\ sending' = [sending EXCEPT ![t] = [@ EXCEPT !.step = "processed"]]
                   /\ content' = [content EXCEPT ![k] = @ \cup {o}]
<1> DEFINE o == sending[t].of
           k == mResponse[sending[t].client]
<1>1. sending[t] \in H!Sends /\ o \in Handlers /\ sending[t].step = "content" /\ sending[t].client \in H!Clients
  BY DEF HttpInv, H!TypeOK, H!Sends, H!SetContent
<1>2. sending[t].client = session[o] /\ messages[o] > 0 /\ Open(o)
  BY <1>1 DEF Open, Answers, HttpInv, PostInv
<1>3. k \in Handlers \cup {H!NoHandler} /\ (k \in Handlers => session[k] = session[o])
  BY <1>1, <1>2 DEF HttpInv, H!TypeOK, SessionInv
<1>4. ASSUME k # H!NoHandler, H!Sound(k)
      PROVE  k = o /\ pc[k] \in {"send", "read", "wait"}
  <2>1. H!Sound(o)
    BY <1>1, <1>3, <1>4, SoundTogether
  <2>2. pc[o] \in {"send", "read", "wait"}
    BY <1>1, <2>1 DEF HttpInv, PostInv, CallInv, Called, H!Threads
  <2>3. k = o
    BY <1>1, <1>2, <1>4, <2>1, <2>2 DEF HttpInv, OpenInv
  <2> QED
    BY <2>2, <2>3
<1> QED
  BY <1>1, <1>2, <1>3, <1>4 DEF H!SetContent, H!Client

LEMMA SetContentHolds ==
  ASSUME HttpInv, NEW t \in H!Threads, sending[t] # H!Nothing, H!SetContent(t)
  PROVE  HttpInv'
<1> DEFINE s == sending[t]
<1>1. s \in H!Sends /\ s.of \in Handlers /\ s.client \in H!Clients /\ s.step = "content"
  BY ContentPlace DEF H!Sends
<1>2. UNCHANGED <<H!tableVars, H!clientVars, pc, session, H!callVars, H!batchVars>> /\ stuck' = stuck
  BY DEF H!SetContent
<1>3. /\ content' \in [Handlers -> SUBSET Handlers]
      /\ \A h \in Handlers : H!Sound(h) => content'[h] \subseteq content[h] \cup {h}
  <2>1. CASE mResponse[s.client] = H!NoHandler
    BY <2>1 DEF H!SetContent, H!Client, H!TypeOK, HttpInv
  <2>2. CASE mResponse[s.client] # H!NoHandler
    <3> DEFINE k == mResponse[s.client]
    <3>1. content' = [content EXCEPT ![k] = @ \cup {s.of}] /\ k \in Handlers /\ (H!Sound(k) => k = s.of)
      BY <2>2, ContentPlace
    <3> HIDE DEF k
    <3> QED
      BY <1>1, <3>1 DEF H!TypeOK, HttpInv
  <2> QED
    BY <2>1, <2>2
<1>4. /\ sending' \in [H!Threads -> H!Sends \cup {H!Nothing}]
      /\ \A u \in H!Threads : u # t => sending'[u] = sending[u]
      /\ sending'[t] # H!Nothing =>
            sending'[t].step = "processed" /\ sending'[t].of = s.of /\ sending'[t].client = s.client
  <2>1. CASE mResponse[s.client] = H!NoHandler
    BY <2>1 DEF H!SetContent, H!Client, H!TypeOK, HttpInv
  <2>2. CASE mResponse[s.client] # H!NoHandler
    <3>1. sending' = [sending EXCEPT ![t] = [s EXCEPT !.step = "processed"]]
      BY <2>2, ContentPlace
    <3> QED
      BY <3>1 DEF H!TypeOK, H!Sends, HttpInv
  <2> QED
    BY <2>1, <2>2
<1>5. UNCHANGED <<stateful, batched, messages, session, pc, mResponse, mIsRequestProcessed, Queued>>
      /\ (\A h \in Handlers : H!Sound(h)' = H!Sound(h))
      /\ mStreambleClients' = mStreambleClients
  BY <1>2 DEF H!tableVars, H!clientVars, H!callVars, H!batchVars, Queued, H!Sound
<1>6. H!TypeOK'
  BY <1>2, <1>3, <1>4 DEF H!TypeOK, HttpInv, H!tableVars, H!clientVars, H!callVars, H!batchVars
<1>7. SessionInv'
  BY <1>5 DEF SessionInv, HttpInv
<1>8. PostInv'
  <2>1. \A u \in H!Threads : sending'[u] # H!Nothing =>
           sending[u] # H!Nothing /\ sending'[u].of = sending[u].of /\ sending'[u].client = sending[u].client
    BY <1>4
  <2>2. ASSUME NEW h \in Handlers, pc[h] = "new"
        PROVE  content'[h] = content[h]
    <3>1. CASE mResponse[s.client] = H!NoHandler
      BY <3>1, ContentPlace
    <3>2. CASE mResponse[s.client] # H!NoHandler
      <4> DEFINE k == mResponse[s.client]
      <4>1. k \in Handlers /\ content' = [content EXCEPT ![k] = @ \cup {s.of}]
        BY <3>2, ContentPlace
      <4>2. k # h
        BY <1>1, <2>2, <4>1 DEF HttpInv, SessionInv
      <4> HIDE DEF k
      <4> QED
        BY <4>1, <4>2 DEF HttpInv, H!TypeOK
    <3> QED
      BY <3>1, <3>2
  <2>3. \A h \in Handlers : h \in H!Threads
    BY DEF H!Threads
  <2> QED
    BY <1>5, <2>1, <2>2, <2>3 DEF PostInv, Before, HttpInv
<1>9. CallInv'
  <2>1. UNCHANGED <<hSyncFeatureRequests, hTakenRequests>>
    BY <1>2 DEF H!callVars
  <2> QED
    BY <1>1, <1>4, <1>5, <2>1 DEF CallInv, Called, HttpInv, H!Threads
<1>10. OpenInv'
  <2>1. \A h \in Handlers : Open(h)' => Open(h)
    BY <1>1, <1>4, <1>5 DEF Open, Answers
  <2> QED
    BY <1>5, <2>1 DEF OpenInv, HttpInv
<1>11. H!AnswerMatches'
  BY <1>3, <1>5 DEF H!AnswerMatches, HttpInv
<1> QED
  BY <1>6, <1>7, <1>8, <1>9, <1>10, <1>11 DEF HttpInv

LEMMA SetProcessedHolds ==
  ASSUME HttpInv, NEW t \in H!Threads, sending[t] # H!Nothing, H!SetProcessed(t)
  PROVE  HttpInv'
<1>a. /\ sending[t] \in H!Sends /\ sending[t].step = "processed" /\ sending[t].of \in Handlers
      /\ sending[t].client \in H!Clients /\ sending[t].client = session[sending[t].of]
      /\ messages[sending[t].of] > 0
  BY DEF HttpInv, H!TypeOK, H!Sends, H!SetProcessed, PostInv
<1>b. /\ sending' = [sending EXCEPT ![t] = [@ EXCEPT !.step = "clear"]]
      /\ mIsRequestProcessed' = [mIsRequestProcessed EXCEPT ![sending[t].client] = TRUE]
      /\ UNCHANGED <<stateful, mStreambleClients, known, mResponse, mSynchronizer, pc, session, messages,
                     batched, hSyncFeatureRequests, hTakenRequests, content, stuck>>
  BY DEF H!SetProcessed, H!Client, H!tableVars, H!batchVars, H!callVars
<1>c. /\ sending' \in [H!Threads -> H!Sends \cup {H!Nothing}]
      /\ sending'[t] = [sending[t] EXCEPT !.step = "clear"]
      /\ sending'[t].step = "clear" /\ sending'[t].of = sending[t].of
      /\ sending'[t].client = sending[t].client
      /\ \A u \in H!Threads : u # t => sending'[u] = sending[u]
  <2>1. [sending[t] EXCEPT !.step = "clear"] \in H!Sends
    BY <1>a DEF H!Sends
  <2> QED
    BY <1>a, <1>b, <2>1 DEF HttpInv, H!TypeOK, H!Sends
<1>d. Queued' = Queued /\ \A h \in Handlers : H!Sound(h)' = H!Sound(h)
  BY <1>b DEF Queued, H!Sound
<1>1. H!TypeOK'
  <2>1. mIsRequestProcessed' \in [H!Clients -> BOOLEAN]
    BY <1>a, <1>b DEF HttpInv, H!TypeOK
  <2> QED
    BY <1>b, <1>c, <2>1 DEF HttpInv, H!TypeOK
<1>2. SessionInv'
  BY <1>b DEF HttpInv, SessionInv
<1>3. PostInv'
  <2>1. \A h \in Handlers : h \in H!Threads
    BY DEF H!Threads
  <2> QED
    BY <1>b, <1>c, <1>d, <2>1 DEF HttpInv, PostInv, Before
<1>4. CallInv'
  BY <1>b, <1>c, <1>d DEF HttpInv, CallInv, Called, H!Threads
<1>5. OpenInv'
  <2>a. PICK o \in Handlers : o = sending[t].of
    BY <1>a
  <2>1. Open(o) /\ \A h \in Handlers : Open(h)' => Open(h)
    BY <1>a, <1>b, <1>c, <2>a, <1>d DEF Open, Answers
  \* The message that is answered now was in no other place.
  <2>2. ASSUME H!Sound(o)
        PROVE  ~Open(o)'
    <3>1. Called(o) /\ PostInv
      BY <1>a, <2>a, <2>2 DEF HttpInv, CallInv
    <3>2. ASSUME NEW u \in H!Threads, u # t PROVE ~Answers(u, o)
      BY <1>a, <2>a, <3>1, <3>2 DEF Called, PostInv, Answers, H!Threads
    <3>3. o \notin Queued /\ pc[o] \in {"send", "read", "wait"}
      BY <1>a, <2>a, <3>1 DEF Called, PostInv, H!Threads
    <3>4. \A u \in H!Threads : ~Answers(u, o)'
      BY <1>c, <2>a, <3>2 DEF Answers
    <3> QED
      BY <1>a, <2>a, <1>b, <1>d, <3>3, <3>4 DEF Open
  <2>3. ASSUME NEW h \in Handlers, H!Sound(h), Open(h)'
        PROVE  session[h] # sending[t].client
    <3>1. ASSUME session[h] = session[o] PROVE h = o
      BY <2>1, <2>3, <3>1 DEF HttpInv, OpenInv
    <3> QED
      BY <1>a, <2>a, <2>2, <2>3, <3>1
  <2>4. \A c \in H!Clients : c # sending[t].client => mIsRequestProcessed'[c] = mIsRequestProcessed[c]
    BY <1>b DEF HttpInv, H!TypeOK
  <2>5. \A h \in Handlers : session[h] \in H!Clients
    BY DEF HttpInv, H!TypeOK
  <2> QED
    BY <1>b, <1>d, <2>1, <2>3, <2>4, <2>5 DEF HttpInv, OpenInv
<1>6. H!AnswerMatches'
  BY <1>b, <1>d DEF HttpInv, H!AnswerMatches
<1> QED
  BY <1>1, <1>2, <1>3, <1>4, <1>5, <1>6 DEF HttpInv

LEMMA ClearResponseHolds ==
  ASSUME HttpInv, NEW t \in H!Threads, sending[t] # H!Nothing, H!ClearResponse(t)
  PROVE  HttpInv'
<1>1. H!TypeOK'
  BY DEF HttpInv, H!TypeOK, H!ClearResponse, H!Client, H!tableVars, H!clientVars, H!callVars,
     H!batchVars, H!Goto
<1>2. SessionInv'
  <2>1. mResponse' = [mResponse EXCEPT ![sending[t].client] = H!NoHandler] /\ H!NoHandler \notin Handlers
    BY HandlersAssumption DEF H!ClearResponse, H!Client, H!HandlersApart, H!NoHandler
  <2>2. \A c \in H!Clients : mResponse'[c] \in Handlers => mResponse'[c] = mResponse[c]
    BY <2>1 DEF HttpInv, H!TypeOK
  <2>3. UNCHANGED <<stateful, mStreambleClients, pc, session, messages>>
    BY DEF H!ClearResponse, H!tableVars, H!batchVars
  <2> QED
    BY <2>2, <2>3 DEF HttpInv, SessionInv
<1>3. PostInv'
  BY DEF HttpInv, H!TypeOK, PostInv, Before, Queued, H!ClearResponse, H!Client, H!tableVars,
     H!clientVars, H!callVars, H!batchVars, H!Goto
<1>4. CallInv'
  BY DEF HttpInv, H!TypeOK, PostInv, CallInv, Called, Queued, H!Sound, H!ClearResponse, H!Client,
     H!tableVars, H!clientVars, H!callVars, H!batchVars, H!Goto
<1>5. OpenInv'
  BY DEF HttpInv, H!TypeOK, PostInv, CallInv, Called, OpenInv, Open, Answers, Queued, H!Sound,
     H!ClearResponse, H!Client, H!tableVars, H!clientVars, H!callVars, H!batchVars, H!Goto
<1>6. H!AnswerMatches'
  BY DEF HttpInv, H!TypeOK, H!AnswerMatches, H!Sound, H!ClearResponse, H!Client, H!tableVars,
     H!clientVars, H!callVars, H!batchVars, H!Goto
<1> QED
  BY <1>1, <1>2, <1>3, <1>4, <1>5, <1>6 DEF HttpInv

LEMMA TakeCallsHolds ==
  ASSUME HttpInv, H!TakeCalls
  PROVE  HttpInv'
<1>1. H!TypeOK'
  BY DEF HttpInv, H!TypeOK, H!TakeCalls, H!tableVars, H!clientVars, H!callVars, H!batchVars, H!Goto
<1>2. SessionInv'
  BY DEF HttpInv, H!TypeOK, SessionInv, H!TakeCalls, H!tableVars, H!clientVars, H!callVars,
     H!batchVars, H!Goto
<1>3. PostInv'
  BY DEF HttpInv, H!TypeOK, PostInv, Before, Queued, H!TakeCalls, H!tableVars, H!clientVars,
     H!callVars, H!batchVars, H!Goto
<1>4. CallInv'
  BY DEF HttpInv, H!TypeOK, PostInv, CallInv, Called, Queued, H!Sound, H!TakeCalls, H!tableVars,
     H!clientVars, H!callVars, H!batchVars, H!Goto
<1>5. OpenInv'
  BY DEF HttpInv, H!TypeOK, PostInv, CallInv, Called, OpenInv, Open, Answers, Queued, H!Sound,
     H!TakeCalls, H!tableVars, H!clientVars, H!callVars, H!batchVars, H!Goto
<1>6. H!AnswerMatches'
  BY DEF HttpInv, H!TypeOK, H!AnswerMatches, H!Sound, H!TakeCalls, H!tableVars, H!clientVars,
     H!callVars, H!batchVars, H!Goto
<1> QED
  BY <1>1, <1>2, <1>3, <1>4, <1>5, <1>6 DEF HttpInv

LEMMA CallFeatureHolds ==
  ASSUME HttpInv, H!CallFeature
  PROVE  HttpInv'
<1>h. PICK h : h = Head(hTakenRequests)
  OBVIOUS
<1>a. /\ sending[H!Main] = H!Nothing /\ hTakenRequests # <<>> /\ hTakenRequests' = Tail(hTakenRequests)
      /\ sending' = IF h = H!Skipped THEN sending
                    ELSE [sending EXCEPT ![H!Main] = [step |-> "content", client |-> session[h], of |-> h]]
      /\ UNCHANGED <<stateful, mStreambleClients, known, mResponse, mIsRequestProcessed, mSynchronizer,
                     pc, session, messages, batched, hSyncFeatureRequests, content, stuck>>
  BY <1>h DEF H!CallFeature, H!Send, H!tableVars, H!clientVars, H!batchVars
<1>b. /\ hTakenRequests \in Seq(Handlers \cup {H!Skipped}) /\ H!Skipped \notin Handlers
      /\ sending \in [H!Threads -> H!Sends \cup {H!Nothing}] /\ H!Main \in H!Threads /\ H!Main \notin Handlers
      /\ session \in [Handlers -> H!Clients]
  BY HandlersAssumption DEF HttpInv, H!TypeOK, H!HandlersApart, H!Skipped, H!Main, H!Threads
<1>c. /\ hTakenRequests' \in Seq(Handlers \cup {H!Skipped}) /\ h \in Handlers \cup {H!Skipped}
      /\ H!HttpCalls(hTakenRequests') \subseteq H!HttpCalls(hTakenRequests)
      /\ \A g : OnceIn(hTakenRequests, g) =>
            OnceIn(hTakenRequests', g) /\ (g = h => g \notin H!HttpCalls(hTakenRequests'))
      /\ h \in H!HttpCalls(hTakenRequests) /\ h \in Queued /\ Queued' \subseteq Queued
  BY <1>a, <1>b, <1>h, TailCalls DEF Queued
<1>d. \A g \in Handlers : H!Sound(g)' = H!Sound(g)
  BY <1>a DEF H!Sound
<1>e. /\ sending' \in [H!Threads -> H!Sends \cup {H!Nothing}]
      /\ \A u \in H!Threads : u # H!Main => sending'[u] = sending[u]
      /\ h = H!Skipped => sending'[H!Main] = H!Nothing
      /\ h # H!Skipped => h \in Handlers /\ messages[h] > 0 /\
            sending'[H!Main] = [step |-> "content", client |-> session[h], of |-> h]
  <2>1. CASE h = H!Skipped
    BY <1>a, <1>b, <2>1
  <2>2. CASE h # H!Skipped
    <3>1. [step |-> "content", client |-> session[h], of |-> h] \in H!Sends /\ h \in Handlers
      BY <1>b, <1>c, <2>2 DEF H!Sends
    <3>2. messages[h] > 0
      BY <1>c, <3>1 DEF HttpInv, PostInv
    <3> QED
      BY <1>a, <1>b, <2>2, <3>1, <3>2
  <2> QED
    BY <2>1, <2>2
<1>f. \A u \in H!Threads : sending'[u] # H!Nothing =>
         \/ sending[u] # H!Nothing /\ sending'[u] = sending[u]
         \/ /\ u = H!Main /\ h \in Handlers /\ h # H!Skipped
            /\ sending'[u] = [step |-> "content", client |-> session[h], of |-> h]
  BY <1>e
<1>1. H!TypeOK'
  BY <1>a, <1>c, <1>e DEF HttpInv, H!TypeOK
<1>2. SessionInv'
  BY <1>a DEF HttpInv, SessionInv
<1>3. PostInv'
  <2>1. \A g \in Handlers : g \in H!Threads /\ sending'[g] = sending[g]
    BY <1>b, <1>e DEF H!Threads
  <2>2. \A t \in H!Threads : sending'[t] # H!Nothing =>
           sending'[t].client = session[sending'[t].of] /\ messages[sending'[t].of] > 0
    BY <1>e, <1>f DEF HttpInv, PostInv
  <2> QED
    BY <1>a, <1>c, <2>1, <2>2 DEF HttpInv, PostInv, Before
<1>4. CallInv'
  <2>1. ASSUME NEW g \in Handlers, H!Sound(g), g # h
        PROVE  Called(g)'
    BY <1>a, <1>b, <1>c, <1>e, <2>1 DEF HttpInv, CallInv, Called
  <2>2. ASSUME h \in Handlers, H!Sound(h)
        PROVE  Called(h)'
    <3>1. Called(h)
      BY <2>2 DEF HttpInv, CallInv
    <3>2. h \notin H!HttpCalls(hTakenRequests') /\ h \notin H!HttpCalls(hSyncFeatureRequests)
      BY <1>c, <3>1 DEF Called
    <3>3. h \notin Queued'
      BY <1>a, <3>2 DEF Queued
    <3>4. pc[h] \in {"read", "wait"}
      BY <1>c, <3>1 DEF Called
    <3> QED
      BY <1>a, <1>c, <3>1, <3>2, <3>3, <3>4 DEF Called
  <2> QED
    BY <1>d, <2>1, <2>2 DEF CallInv
<1>5. OpenInv'
  <2>1. ASSUME NEW g \in Handlers, Open(g)'
        PROVE  Open(g)
    <3>1. CASE \E u \in H!Threads : Answers(u, g)'
      BY <1>c, <1>f, <3>1 DEF Open, Answers
    <3>2. CASE ~\E u \in H!Threads : Answers(u, g)'
      BY <1>a, <1>c, <2>1, <3>2 DEF Open
    <3> QED
      BY <3>1, <3>2
  <2> QED
    BY <1>a, <1>d, <2>1 DEF HttpInv, OpenInv
<1>6. H!AnswerMatches'
  BY <1>a, <1>d DEF HttpInv, H!AnswerMatches
<1> QED
  BY <1>1, <1>2, <1>3, <1>4, <1>5, <1>6 DEF HttpInv

LEMMA NextHolds ==
  ASSUME HttpInv, [H!Next]_(H!vars)
  PROVE  HttpInv'
<1>1. ASSUME NEW h \in Handlers, H!Post(h)
      PROVE  HttpInv'
  BY <1>1, RefusedHolds, PostNewHolds, PostKnownHolds DEF H!Post
<1>2. ASSUME NEW t \in H!Threads, H!SendStep(t)
      PROVE  HttpInv'
  BY <1>2, SetContentHolds, SetProcessedHolds, ClearResponseHolds DEF H!SendStep
<1>3. ASSUME NEW h \in Handlers, H!Handle(h)
      PROVE  HttpInv'
  BY <1>2, <1>3, LockHolds, PreviousHolds, SetResponseHolds, ReadNowHolds, ReadQueuedHolds,
     ReadEmptyHolds, MarkHolds, ReadDoneHolds, SentHolds, ReturnHolds DEF H!Handle, H!Threads
<1>4. CASE H!Update
  BY <1>2, <1>4, TakeCallsHolds, CallFeatureHolds DEF H!Update, H!Threads
<1>5. CASE UNCHANGED H!vars
  <2>1. UNCHANGED <<stateful, mStreambleClients, known, mResponse, mIsRequestProcessed, mSynchronizer,
                    pc, session, messages, batched, hSyncFeatureRequests, hTakenRequests, sending,
                    content, stuck>>
    BY <1>5 DEF H!vars, H!tableVars, H!clientVars, H!callVars, H!batchVars
  <2>2. Queued' = Queued /\ \A h \in Handlers : H!Sound(h)' = H!Sound(h) /\ Open(h)' = Open(h)
    BY <2>1 DEF Queued, H!Sound, Open, Answers
  <2>3. H!TypeOK' /\ SessionInv' /\ PostInv'
    BY <2>1, <2>2 DEF HttpInv, H!TypeOK, SessionInv, PostInv, Before
  <2>4. CallInv' /\ OpenInv' /\ H!AnswerMatches'
    BY <2>1, <2>2 DEF HttpInv, CallInv, Called, OpenInv, H!AnswerMatches
  <2> QED
    BY <2>3, <2>4 DEF HttpInv
<1> QED
  BY <1>1, <1>3, <1>4, <1>5 DEF H!Next

LEMMA Invariance ==
  H!Spec => []HttpInv
<1>1. H!Init => HttpInv
  BY HttpInitHolds
<1>2. HttpInv /\ [H!Next]_(H!vars) => HttpInv'
  BY NextHolds
<1> QED
  BY <1>1, <1>2, PTL DEF H!Spec

-----------------------------------------------------------------------------

\* A response carries the answer to its own POST or nothing, a call has its client object until
\* it is answered, and within a session a cancellation comes too late, for any number of POSTs
\* and sessions, batches aside (send_mcp_payload, set_response_object, update).
THEOREM AnswersKept ==
  H!Spec => []HttpAnswersKept
<1>1. HttpInv => HttpAnswersKept
  <2> SUFFICES ASSUME HttpInv
               PROVE  HttpAnswersKept
    OBVIOUS
  <2>1. ASSUME NEW h \in Handlers, h \in Queued, H!Sound(h)
        PROVE  pc[h] # "done"
    BY <2>1 DEF HttpInv, CallInv, Called
  <2>2. ASSUME NEW h \in Queued, h # H!Skipped
        PROVE  h \in Handlers
    BY <2>2 DEF HttpInv, H!TypeOK, Queued, H!HttpCalls
  <2>3. H!OwnerAlive
    BY <2>1, <2>2 DEF H!OwnerAlive, Queued
  <2>4. H!CancelsTooLate
    <3> SUFFICES ASSUME NEW h \in Handlers, NEW g \in H!HttpCalls(hSyncFeatureRequests), H!Sound(h),
                        pc[h] = "read", messages[h] = 0, g # H!Skipped, session[g] = session[h]
                 PROVE  FALSE
      BY DEF H!CancelsTooLate
    <3>1. g \in Queued /\ g \in Handlers /\ Open(g) /\ Open(h)
      BY <2>2 DEF Queued, Open
    <3>2. g = h
      BY <3>1 DEF HttpInv, OpenInv
    <3> QED
      BY <3>1, <3>2 DEF HttpInv, PostInv
  <2> QED
    BY <2>3, <2>4 DEF HttpAnswersKept, H!HttpAnswersKept, HttpInv
<1> QED
  BY <1>1, Invariance, PTL

\* No answer is put into the response of a POST that has returned: the pointer is read and
\* written through without a lock, but the handler waits (send_mcp_payload), batches aside.
THEOREM ResponseLives ==
  H!Spec => LiveResponse
<1>1. HttpInv /\ [H!Next]_(H!vars) => [\A h \in Handlers : H!Sound(h) /\ content'[h] # content[h] =>
        pc[h] # "done"]_(H!vars)
  <2> SUFFICES ASSUME HttpInv, H!Next, NEW h \in Handlers, H!Sound(h), content'[h] # content[h]
               PROVE  pc[h] # "done"
    OBVIOUS
  <2>1. ASSUME NEW g \in Handlers, H!Post(g)
        PROVE  FALSE
    BY <2>1 DEF H!Post, H!Refused, H!PostNew, H!PostKnown, H!Arrives
  <2>2. ASSUME NEW t \in H!Threads, H!SendStep(t)
        PROVE  pc[h] # "done"
    <3>1. H!SetContent(t) /\ sending[t] # H!Nothing
      BY <2>2 DEF H!SendStep, H!SetProcessed, H!ClearResponse
    <3>2. mResponse[sending[t].client] # H!NoHandler
      BY <3>1 DEF H!SetContent, H!Client
    <3> DEFINE k == mResponse[sending[t].client]
    <3>3. /\ H!Sound(k) => pc[k] \in {"send", "read", "wait"}
          /\ content' = [content EXCEPT ![k] = @ \cup {sending[t].of}]
      BY <3>1, <3>2, ContentPlace
    <3> HIDE DEF k
    <3>4. h = k
      BY <3>3 DEF HttpInv, H!TypeOK
    <3> QED
      BY <3>3, <3>4
  <2>3. ASSUME NEW g \in Handlers, H!Handle(g)
        PROVE  pc[h] # "done"
    BY <2>2, <2>3 DEF H!Handle, H!Threads, H!Lock, H!Previous, H!SetResponse, H!ReadNow,
      H!ReadQueued,
       H!ReadEmpty, H!Cancel, H!ReadDone, H!Sent, H!Return
  <2>4. CASE H!Update
    BY <2>2, <2>4 DEF H!Update, H!Threads, H!TakeCalls, H!CallFeature
  <2> QED
    BY <2>1, <2>3, <2>4 DEF H!Next
<1> QED
  BY <1>1, Invariance, PTL DEF H!Spec, LiveResponse, H!LiveResponse
=============================================================================
