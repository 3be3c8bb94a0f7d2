----------------------------- MODULE SchedulingProofs -----------------------------
(* WorkKept, of the timers, the thread pool and the embedder processor: for    *)
(* each an inductive invariant, that the initial states satisfy it and every   *)
(* step keeps it.                                                              *)
EXTENDS Scheduling, Integers, TLAPS

\* The timers.  A node is a handler id, and the list is in the order of the ids given out.
Entries == [node : Nat, timer : Timers]
Records == [status : {"unregistered", "registered", "abandoned"}, mine : BOOLEAN,
            current : Nat, ticks : Nat, node : Nat]
Sorted(list) == \A i, k \in 1..Len(list) : i < k => list[i].node < list[k].node
Distinct(list) == \A i, k \in 1..Len(list) : list[i].timer = list[k].timer => i = k

TimerTypes ==
    /\ registered \in Seq(Entries) /\ timer \in [Timers -> Records]
    /\ delta \in Nat /\ counter \in Nat /\ it \in Nat
    /\ \A t \in Timers : timer[t].node <= counter
\* The list is in the order of the ids given out.
ListInv ==
    /\ Sorted(registered) /\ Distinct(registered)
    /\ \A i \in 1..Len(registered) :
          /\ timer[registered[i].timer].mine /\ timer[registered[i].timer].node = registered[i].node
          /\ registered[i].node > 0
    /\ \A t \in Timers :
          /\ timer[t].mine => /\ is_registered(t)
                              /\ \E i \in 1..Len(registered) : registered[i].timer = t
          /\ is_registered(t) /\ ~timer[t].mine => Timeout(t)
CallInv == place = "calling" => called \in Timers /\ (is_registered(called) => timer[called].mine)
\* No node from the iterator on, and none behind the timer that is called, has had more than the times
\* the walk went back.
GivenInv ==
    /\ given \in [1 .. MaxRegistrations -> Nat] /\ back \in Nat
    /\ \A n \in 1 .. MaxRegistrations :
          /\ given[n] <= 1 + back
          /\ it # Null /\ it <= n => given[n] <= back
          /\ place = "calling" /\ timer[called].node < n => given[n] <= back
TimerInv == TypeOK /\ TimerTypes /\ ListInv /\ CallInv /\ GivenInv

-----------------------------------------------------------------------------
\* Lists.

\* What SubSeq and \o return, element by element.
LEMMA Beginning ==
  ASSUME NEW S, NEW s \in Seq(S), NEW n \in Nat, n <= Len(s)
  PROVE  /\ SubSeq(s, 1, n) \in Seq(S) /\ Len(SubSeq(s, 1, n)) = n
         /\ \A i \in 1..n : SubSeq(s, 1, n)[i] = s[i]
OBVIOUS

\* The end of a sequence.
LEMMA Ending ==
  ASSUME NEW S, NEW s \in Seq(S), NEW n \in 0..Len(s)
  PROVE  /\ SubSeq(s, n + 1, Len(s)) \in Seq(S) /\ Len(SubSeq(s, n + 1, Len(s))) = Len(s) - n
         /\ \A i \in 1..(Len(s) - n) : SubSeq(s, n + 1, Len(s))[i] = s[n + i]
OBVIOUS

\* Two sequences, one behind the other.
LEMMA Joined ==
  ASSUME NEW S, NEW s \in Seq(S), NEW t \in Seq(S)
  PROVE  /\ s \o t \in Seq(S) /\ Len(s \o t) = Len(s) + Len(t)
         /\ \A i \in 1..Len(s) : (s \o t)[i] = s[i]
         /\ \A i \in 1..Len(t) : (s \o t)[Len(s) + i] = t[i]
OBVIOUS

\* A sequence with one more element.
LEMMA Appended ==
  ASSUME NEW S, NEW s \in Seq(S), NEW e \in S
  PROVE  /\ Append(s, e) \in Seq(S) /\ Len(Append(s, e)) = Len(s) + 1 /\ Len(s) \in Nat
         /\ \A i \in 1..Len(s) : Append(s, e)[i] = s[i]
         /\ Append(s, e)[Len(s) + 1] = e
OBVIOUS

\* What is left of a list without one of its elements.
LEMMA Removed ==
  ASSUME NEW S, NEW s \in Seq(S), NEW i \in 1..Len(s)
  PROVE  /\ RemoveAt(s, i) \in Seq(S) /\ Len(RemoveAt(s, i)) = Len(s) - 1 /\ Len(s) \in Nat
         /\ \A k \in 1..(Len(s) - 1) : RemoveAt(s, i)[k] = IF k < i THEN s[k] ELSE s[k + 1]
<1> DEFINE a == SubSeq(s, 1, i - 1)
           b == SubSeq(s, i + 1, Len(s))
<1>1. i - 1 \in Nat /\ i - 1 <= Len(s) /\ i \in 0..Len(s) /\ Len(s) \in Nat /\ i \in Nat
  OBVIOUS
<1>2. a \in Seq(S) /\ Len(a) = i - 1 /\ \A k \in 1..(i - 1) : a[k] = s[k]
  BY ONLY <1>1, s \in Seq(S), Beginning
<1>3. b \in Seq(S) /\ Len(b) = Len(s) - i /\ \A k \in 1..(Len(s) - i) : b[k] = s[i + k]
  BY ONLY <1>1, s \in Seq(S), Ending
<1> HIDE DEF a, b
<1>4. /\ a \o b \in Seq(S) /\ Len(a \o b) = Len(a) + Len(b)
      /\ \A k \in 1..Len(a) : (a \o b)[k] = a[k]
      /\ \A k \in 1..Len(b) : (a \o b)[Len(a) + k] = b[k]
  <2>1. a \in Seq(S) /\ b \in Seq(S)
    BY <1>2, <1>3
  <2> QED
    BY ONLY <2>1, Joined
<1>5. RemoveAt(s, i) = a \o b
  BY DEF RemoveAt, a, b
<1>6. Len(a \o b) = Len(s) - 1
  BY <1>1, <1>2, <1>3, <1>4
<1>7. ASSUME NEW k \in 1..(Len(s) - 1)
      PROVE  (a \o b)[k] = IF k < i THEN s[k] ELSE s[k + 1]
  <2>1. CASE k < i
    <3>1. k \in 1..(i - 1)
      BY <1>1, <2>1
    <3> QED
      BY <1>2, <1>4, <2>1, <3>1
  <2>2. CASE ~(k < i)
    <3>1. k - (i - 1) \in 1..(Len(s) - i) /\ k = (i - 1) + (k - (i - 1)) /\ i + (k - (i - 1)) = k + 1
      BY <1>1, <2>2
    <3>2. (a \o b)[(i - 1) + (k - (i - 1))] = b[k - (i - 1)]
      BY <1>2, <1>3, <1>4, <3>1
    <3>3. b[k - (i - 1)] = s[i + (k - (i - 1))]
      BY <1>3, <3>1
    <3> QED
      BY <2>2, <3>1, <3>2, <3>3
  <2> QED
    BY <2>1, <2>2
<1> QED
  BY <1>1, <1>4, <1>5, <1>6, <1>7

\* The position of a node in a list in order, and its neighbours.
LEMMA Positions ==
  ASSUME NEW list \in Seq(Entries), Sorted(list), NEW i \in 1..Len(list)
  PROVE  /\ At(list, list[i].node) = i /\ list[i].node \in Nodes(list)
         /\ After(list, list[i].node) = IF i = Len(list) THEN Null ELSE list[i + 1].node
         /\ Erased(list, list[i].node) =
              IF i = Len(list) /\ i # 1 THEN list[Len(list) - 1].node
              ELSE IF i = Len(list) THEN Null ELSE list[i + 1].node
<1>1. DOMAIN list = 1..Len(list) /\ Len(list) \in Nat /\ \A k \in 1..Len(list) : list[k].node \in Nat
  <2>1. \A k \in 1..Len(list) : list[k] \in Entries
    OBVIOUS
  <2>2. \A e \in Entries : e.node \in Nat
    BY DEF Entries
  <2> QED
    BY <2>1, <2>2
<1>2. \A k \in DOMAIN list : list[k].node = list[i].node => k = i
  BY <1>1 DEF Sorted
<1>3. At(list, list[i].node) = i
  BY <1>1, <1>2 DEF At
<1>4. list[i].node \in Nodes(list)
  BY <1>1 DEF Nodes
<1>5. After(list, list[i].node) = IF i = Len(list) THEN Null ELSE list[i + 1].node
  BY <1>3 DEF After
<1>6. Erased(list, list[i].node) =
        IF i = 1 \/ i < Len(list) THEN After(list, list[i].node) ELSE list[Len(list) - 1].node
  BY <1>3 DEF Erased
<1>7. (i = 1 \/ i < Len(list)) <=> ~(i = Len(list) /\ i # 1)
  <2>1. i \in Nat /\ Len(list) \in Nat /\ i <= Len(list)
    BY <1>1
  <2> QED
    BY ONLY <2>1
<1> QED
  BY <1>3, <1>4, <1>5, <1>6, <1>7

\* Without one element a list stays in order and names each timer once; the others stay.
LEMMA Shortened ==
  ASSUME NEW list \in Seq(Entries), Sorted(list), Distinct(list), NEW i \in 1..Len(list)
  PROVE  /\ Without(list, list[i].node) \in Seq(Entries)
         /\ Len(Without(list, list[i].node)) = Len(list) - 1 /\ Len(list) \in Nat
         /\ Sorted(Without(list, list[i].node)) /\ Distinct(Without(list, list[i].node))
         /\ \A k \in 1..Len(Without(list, list[i].node)) :
               \E m \in 1..Len(list) : m # i /\ Without(list, list[i].node)[k] = list[m]
         /\ \A m \in 1..Len(list) : m # i =>
               \E k \in 1..Len(Without(list, list[i].node)) : Without(list,
                 list[i].node)[k] = list[m]
<1> DEFINE short == Without(list, list[i].node)
<1>1. short = RemoveAt(list, i)
  BY Positions DEF Without
<1>2. /\ short \in Seq(Entries) /\ Len(short) = Len(list) - 1 /\ Len(list) \in Nat
      /\ \A k \in 1..(Len(list) - 1) : short[k] = IF k < i THEN list[k] ELSE list[k + 1]
  BY <1>1, Removed
<1> HIDE DEF short
<1>3. \A k \in 1..Len(short) : \E m \in 1..Len(list) :
          m # i /\ short[k] = list[m] /\ m = IF k < i THEN k ELSE k + 1
  BY <1>2
<1>4. \A m \in 1..Len(list) : m # i => \E k \in 1..Len(short) : short[k] = list[m]
  <2> SUFFICES ASSUME NEW m \in 1..Len(list), m # i
               PROVE  \E k \in 1..Len(short) : short[k] = list[m]
    OBVIOUS
  <2>1. CASE m < i
    BY <1>2, <2>1
  <2>2. CASE ~(m < i)
    <3>1. m - 1 \in 1..Len(short) /\ ~(m - 1 < i) /\ (m - 1) + 1 = m
      BY <1>2, <2>2
    <3> QED
      BY <1>2, <3>1
  <2> QED
    BY <2>1, <2>2
<1>5. Sorted(short)
  <2> SUFFICES ASSUME NEW k \in 1..Len(short), NEW n \in 1..Len(short), k < n
               PROVE  short[k].node < short[n].node
    BY DEF Sorted
  <2>1. PICK p \in 1..Len(list) : short[k] = list[p] /\ p = IF k < i THEN k ELSE k + 1
    BY <1>3
  <2>2. PICK q \in 1..Len(list) : short[n] = list[q] /\ q = IF n < i THEN n ELSE n + 1
    BY <1>3
  <2>3. p < q
    BY <1>2, <2>1, <2>2
  <2> QED
    BY <2>1, <2>2, <2>3 DEF Sorted
<1>6. Distinct(short)
  <2> SUFFICES ASSUME NEW k \in 1..Len(short), NEW n \in 1..Len(short),
    short[k].timer = short[n].timer
               PROVE  k = n
    BY DEF Distinct
  <2>1. PICK p \in 1..Len(list) : short[k] = list[p] /\ p = IF k < i THEN k ELSE k + 1
    BY <1>3
  <2>2. PICK q \in 1..Len(list) : short[n] = list[q] /\ q = IF n < i THEN n ELSE n + 1
    BY <1>3
  <2>3. p = q
    BY <2>1, <2>2 DEF Distinct
  <2> QED
    BY <1>2, <2>1, <2>2, <2>3
<1> QED
  BY <1>2, <1>3, <1>4, <1>5, <1>6 DEF short

\* What a registration writes into a timer.
LEMMA Entered ==
  ASSUME NEW r \in Records, NEW n \in Nat
  PROVE  LET e == [r EXCEPT !.status = "registered", !.mine = TRUE, !.node = n]
         IN  e \in Records /\ e.status = "registered" /\ e.mine /\ e.node = n
BY DEF Records

-----------------------------------------------------------------------------
\* The operations of the loop, called between two passes and by handlers.

\* A loop without timers satisfies the invariant.
LEMMA TimerInit == Init => TimerInv
<1> SUFFICES ASSUME Init PROVE TimerInv
  OBVIOUS
<1>1. {mTimerLimit, MaxDelta, MaxRegistrations, MaxEdits} \subseteq Nat
  BY BoundsAssumption
<1>2. registered = <<>> /\ Len(registered) = 0 /\ DOMAIN registered = {} /\ registered \in Seq(Entries)
  BY DEF Init
<1>3. /\ timer \in [Timers -> Records]
      /\ \A t \in Timers : timer[t].node = 0 /\ ~timer[t].mine /\ timer[t].status = "unregistered"
  BY DEF Init, Records, Null
<1>4. TypeOK
  BY <1>1, <1>2 DEF Init, TypeOK, Null
<1>5. TimerTypes
  BY <1>1, <1>2, <1>3 DEF Init, TimerTypes, Null
<1>6. ListInv
  BY <1>2, <1>3 DEF ListInv, Sorted, Distinct, is_registered
<1>7. GivenInv
  BY <1>1 DEF Init, GivenInv, Null
<1> QED
  BY <1>4, <1>5, <1>6, <1>7 DEF Init, TimerInv, CallInv

\* What an operation has to keep so that the walk stays right.
LEMMA Edited ==
  ASSUME TimerInv, Same, counter' \in 0 .. MaxRegistrations,
         timer' \in [Timers -> Records], registered' \in Seq(Entries), ListInv',
         \A t \in Timers : timer[t].node <= timer'[t].node /\ timer'[t].node <= counter',
         \A t \in Timers : timer'[t].status = "registered" => timer'[t].mine \/ timer'[t] = timer[t],
         \A i \in 1..Len(registered') : registered'[i].node <= counter',
         Len(registered') <= mTimerLimit + 1
  PROVE  TimerInv'
<1>1. /\ UNCHANGED <<place, it, called, delta, given, back>>
      /\ TypeOK /\ TimerTypes /\ CallInv /\ GivenInv
  BY DEF Same, TimerInv
<1>2. MaxRegistrations \in Nat
  BY BoundsAssumption
<1>3. \A i \in 1..Len(registered') : registered'[i] \in Entries
  OBVIOUS
<1>4. \A i \in DOMAIN registered' : /\ registered'[i].timer \in Timers
                                    /\ registered'[i].node \in 1 .. counter'
  <2> SUFFICES ASSUME NEW i \in 1..Len(registered')
               PROVE  registered'[i].timer \in Timers /\ registered'[i].node \in 1 .. counter'
    OBVIOUS
  <2>1. registered'[i].timer \in Timers /\ registered'[i].node \in Nat
    BY <1>3 DEF Entries
  <2>2. registered'[i].node > 0 /\ registered'[i].node <= counter' /\ counter' \in Nat
    BY <1>2 DEF ListInv
  <2> QED
    BY <2>1, <2>2
<1>5. TypeOK'
  BY <1>1, <1>4 DEF TypeOK
<1>6. TimerTypes'
  BY <1>1, <1>2 DEF TimerTypes
<1>7. CallInv'
  BY <1>1 DEF CallInv, is_registered
<1>8. GivenInv'
  <2>1. place = "calling" => called \in Timers /\ timer[called].node \in Nat /\ timer'[called].node \in Nat
    <3>1. \A r \in Records : r.node \in Nat
      BY DEF Records
    <3>2. place = "calling" => called \in Timers /\ timer[called] \in Records /\ timer'[called] \in Records
      BY <1>1 DEF CallInv, TimerTypes
    <3> QED
      BY <3>1, <3>2
  <2>2. place = "calling" => \A n \in 1..MaxRegistrations :
          timer'[called].node < n => timer[called].node < n
    BY <1>2, <2>1
  <2> QED
    BY <1>1, <2>2 DEF GivenInv
<1> QED
  BY <1>5, <1>6, <1>7, <1>8 DEF TimerInv

\* A timer that is registered comes last, with an id larger than all before (register_timer).
LEMMA RegisterHolds ==
  ASSUME TimerInv, NEW t \in Timers, register_timer(t)
  PROVE  TimerInv'
<1> DEFINE e == [node |-> counter + 1, timer |-> t]
           r == [timer[t] EXCEPT !.status = "registered", !.mine = TRUE, !.node = counter + 1]
<1>1. /\ Same /\ counter < MaxRegistrations /\ ~is_registered(t) /\ Len(registered) <= mTimerLimit
      /\ counter' = counter + 1 /\ timer' = [timer EXCEPT ![t] = r] /\ registered' = Append(registered, e)
  BY DEF register_timer
<1>2. /\ TypeOK /\ TimerTypes /\ ListInv /\ {mTimerLimit, MaxRegistrations} \subseteq Nat
      /\ counter \in Nat /\ timer \in [Timers -> Records] /\ registered \in Seq(Entries)
  BY BoundsAssumption DEF TimerInv, TimerTypes
<1>3. r \in Records /\ r.status = "registered" /\ r.mine /\ r.node = counter + 1
  <2>1. timer[t] \in Records /\ counter + 1 \in Nat
    BY <1>2
  <2> QED
    BY <2>1, Entered
<1>4. e \in Entries /\ e.node = counter + 1 /\ e.timer = t
  BY <1>2 DEF Entries
<1> HIDE DEF e, r
<1>5. timer' \in [Timers -> Records] /\ timer'[t] = r /\ \A s \in Timers \ {t} : timer'[s] = timer[s]
  BY <1>1, <1>2, <1>3
<1>6. /\ registered' \in Seq(Entries) /\ Len(registered') = Len(registered) + 1 /\ Len(registered) \in Nat
      /\ \A i \in 1..Len(registered) : registered'[i] = registered[i]
      /\ registered'[Len(registered) + 1] = e
  <2>1. registered \in Seq(Entries) /\ e \in Entries
    BY <1>2, <1>4
  <2>2. /\ Append(registered, e) \in Seq(Entries) /\ Len(Append(registered, e)) = Len(registered) + 1
        /\ Len(registered) \in Nat
        /\ \A i \in 1..Len(registered) : Append(registered, e)[i] = registered[i]
        /\ Append(registered, e)[Len(registered) + 1] = e
    BY ONLY <2>1, Appended
  <2> QED
    BY <1>1, <2>2
<1>7. \A i \in 1..Len(registered) :
        /\ registered[i].node \in Nat /\ registered[i].node <= counter /\ registered[i].timer \in Timers
        /\ registered[i].timer # t
  <2> SUFFICES ASSUME NEW i \in 1..Len(registered)
               PROVE  /\ registered[i].node \in Nat /\ registered[i].node <= counter
                      /\ registered[i].timer \in Timers /\ registered[i].timer # t
    OBVIOUS
  <2>1. registered[i].timer \in Timers /\ registered[i].node \in 1 .. counter
    BY <1>2 DEF TypeOK
  <2>2. timer[registered[i].timer].mine
    BY <1>2 DEF ListInv
  <2>3. is_registered(registered[i].timer)
    BY <1>2, <2>1, <2>2 DEF ListInv
  <2> QED
    BY <1>1, <1>2, <2>1, <2>3
<1>8. \A i \in 1..Len(registered') : i = Len(registered) + 1 \/ i \in 1..Len(registered)
  BY <1>6
<1>9. ListInv'
  <2>1. Sorted(registered')
    BY SMTT(30), <1>2, <1>4, <1>6, <1>7, <1>8 DEF ListInv, Sorted
  <2>2. Distinct(registered')
    BY <1>2, <1>4, <1>6, <1>7, <1>8 DEF ListInv, Distinct
  <2>3. ASSUME NEW i \in 1..Len(registered')
        PROVE  /\ timer'[registered'[i].timer].mine
               /\ timer'[registered'[i].timer].node = registered'[i].node /\ registered'[i].node > 0
    <3>1. CASE i = Len(registered) + 1
      BY <1>2, <1>3, <1>4, <1>5, <1>6, <3>1
    <3>2. CASE i \in 1..Len(registered)
      BY <1>2, <1>5, <1>6, <1>7, <3>2 DEF ListInv
    <3> QED
      BY <1>8, <3>1, <3>2
  <2>4. ASSUME NEW s \in Timers
        PROVE  /\ timer'[s].mine => /\ timer'[s].status = "registered"
                                    /\ \E i \in 1..Len(registered') : registered'[i].timer = s
               /\ timer'[s].status = "registered" /\ ~timer'[s].mine => Timeout(s)
    <3>1. CASE s = t
      <4>1. Len(registered) + 1 \in 1..Len(registered')
        BY <1>6
      <4> QED
        BY <1>3, <1>4, <1>5, <1>6, <3>1, <4>1
    <3>2. CASE s # t
      <4>1. timer'[s] = timer[s]
        BY <1>5, <3>2
      <4>2. timer[s].mine => \E i \in 1..Len(registered') : registered'[i].timer = s
        BY <1>2, <1>6 DEF ListInv
      <4> QED
        BY <1>2, <4>1, <4>2 DEF ListInv, is_registered
    <3> QED
      BY <3>1, <3>2
  <2> QED
    BY <2>1, <2>2, <2>3, <2>4 DEF ListInv, is_registered
<1>10. \A s \in Timers : timer[s].node <= timer'[s].node /\ timer'[s].node <= counter'
  <2> SUFFICES ASSUME NEW s \in Timers
               PROVE  timer[s].node <= timer'[s].node /\ timer'[s].node <= counter'
    OBVIOUS
  <2>1. timer[s] \in Records /\ timer[s].node <= counter
    BY <1>2 DEF TimerTypes
  <2>2. timer[s].node \in Nat
    BY <2>1 DEF Records
  <2>3. timer'[s].node = timer[s].node \/ timer'[s].node = counter + 1
    BY <1>3, <1>5
  <2> QED
    BY <1>1, <1>2, <2>1, <2>2, <2>3
<1>11. \A s \in Timers : timer'[s].status = "registered" => timer'[s].mine \/ timer'[s] = timer[s]
  BY <1>3, <1>5
<1>12. \A i \in 1..Len(registered') : registered'[i].node <= counter'
  BY <1>1, <1>2, <1>4, <1>6, <1>7, <1>8
<1>13. counter' \in 0 .. MaxRegistrations /\ Len(registered') <= mTimerLimit + 1
  BY <1>1, <1>2, <1>6
<1> QED
  BY ONLY TimerInv, <1>1, <1>5, <1>6, <1>9, <1>10, <1>11, <1>12, <1>13, Edited

\* A timer that leaves the list does so alone.
LEMMA LeaveHolds ==
  ASSUME TimerInv, NEW i \in 1..Len(registered),
         registered' = Without(registered, registered[i].node),
         timer' \in [Timers -> Records], ~timer'[registered[i].timer].mine,
         timer'[registered[i].timer].status = "registered" => Timeout(registered[i].timer),
         \A s \in Timers \ {registered[i].timer} : timer'[s] = timer[s]
  PROVE  /\ registered' \in Seq(Entries) /\ ListInv' /\ Len(registered') <= mTimerLimit + 1
         /\ \A k \in 1..Len(registered') : registered'[k].node <= counter
<1> DEFINE t == registered[i].timer
           list == registered'
<1>1. /\ TypeOK /\ TimerTypes /\ ListInv /\ mTimerLimit \in Nat /\ registered \in Seq(Entries)
      /\ Sorted(registered) /\ Distinct(registered)
  BY BoundsAssumption DEF TimerInv, TimerTypes, ListInv
<1>2. /\ list \in Seq(Entries) /\ Len(list) = Len(registered) - 1 /\ Len(registered) \in Nat
      /\ Sorted(list) /\ Distinct(list)
      /\ \A k \in 1..Len(list) : \E m \in 1..Len(registered) : m # i /\ list[k] = registered[m]
      /\ \A m \in 1..Len(registered) : m # i => \E k \in 1..Len(list) : list[k] = registered[m]
  BY <1>1, Shortened
<1> HIDE DEF list
<1>3. \A m \in 1..Len(registered) : /\ registered[m].timer \in Timers /\ registered[m].node \in 1 .. counter
                                    /\ m # i => registered[m].timer # t
  <2> SUFFICES ASSUME NEW m \in 1..Len(registered)
               PROVE  /\ registered[m].timer \in Timers /\ registered[m].node \in 1 .. counter
                      /\ m # i => registered[m].timer # t
    OBVIOUS
  <2>1. registered[m].timer \in Timers /\ registered[m].node \in 1 .. counter
    BY <1>1 DEF TypeOK
  <2> QED
    BY <1>1, <2>1 DEF Distinct
<1>4. ASSUME NEW k \in 1..Len(list)
      PROVE  /\ timer'[list[k].timer].mine /\ timer'[list[k].timer].node = list[k].node
             /\ list[k].node > 0 /\ list[k].node <= counter
  <2>1. PICK m \in 1..Len(registered) : m # i /\ list[k] = registered[m]
    BY <1>2
  <2>2. timer'[registered[m].timer] = timer[registered[m].timer]
    BY <1>3, <2>1
  <2>3. /\ timer[registered[m].timer].mine /\ timer[registered[m].timer].node = registered[m].node
        /\ registered[m].node > 0 /\ registered[m].node <= counter
    BY <1>1, <1>3 DEF ListInv, TimerTypes
  <2> QED
    BY <2>1, <2>2, <2>3
<1>5. ASSUME NEW s \in Timers
      PROVE  /\ timer'[s].mine => /\ timer'[s].status = "registered"
                                  /\ \E k \in 1..Len(list) : list[k].timer = s
             /\ timer'[s].status = "registered" /\ ~timer'[s].mine => Timeout(s)
  <2>1. CASE s = t
    BY <2>1
  <2>2. CASE s # t
    <3>1. timer'[s] = timer[s]
      BY <2>2
    <3>2. timer[s].mine => \E m \in 1..Len(registered) : registered[m].timer = s
      BY <1>1 DEF ListInv
    <3>3. timer[s].mine => \E k \in 1..Len(list) : list[k].timer = s
      <4> SUFFICES ASSUME timer[s].mine PROVE \E k \in 1..Len(list) : list[k].timer = s
        OBVIOUS
      <4>1. PICK m \in 1..Len(registered) : registered[m].timer = s
        BY <3>2
      <4>2. m # i
        BY <2>2, <4>1
      <4>3. PICK k \in 1..Len(list) : list[k] = registered[m]
        BY <1>2, <4>2
      <4> QED
        BY <4>1, <4>3
    <3> QED
      BY <1>1, <3>1, <3>3 DEF ListInv, is_registered
  <2> QED
    BY <2>1, <2>2
<1>6. ListInv'
  BY <1>2, <1>4, <1>5 DEF ListInv, is_registered, list
<1> QED
  BY <1>1, <1>2, <1>4, <1>6 DEF list, TypeOK

\* A timer that is unregistered is taken out by the node it remembers (unregister_timer).
LEMMA UnregisterHolds ==
  ASSUME TimerInv, NEW t \in Timers, unregister_timer(t)
  PROVE  TimerInv'
<1>1. /\ Same /\ counter' = counter /\ timer[t].mine
      /\ timer' = [timer EXCEPT ![t].status = "unregistered", ![t].mine = FALSE]
      /\ registered' = Without(registered, timer[t].node)
  BY DEF unregister_timer
<1>2. /\ TypeOK /\ TimerTypes /\ ListInv /\ timer \in [Timers -> Records]
  BY DEF TimerInv, TimerTypes
<1>3. PICK i \in 1..Len(registered) : registered[i].timer = t
  BY <1>1, <1>2 DEF ListInv
<1>4. timer[t].node = registered[i].node
  BY <1>2, <1>3 DEF ListInv
<1>5. /\ timer' \in [Timers -> Records] /\ timer'[t].status = "unregistered" /\ ~timer'[t].mine
      /\ timer'[t].node = timer[t].node /\ \A s \in Timers \ {t} : timer'[s] = timer[s]
  <2>1. PICK f, g : f = timer /\ g = timer'
    OBVIOUS
  <2>2. f \in [Timers -> Records] /\ g = [f EXCEPT ![t].status = "unregistered", ![t].mine = FALSE]
    BY <1>1, <1>2, <2>1
  <2>3. /\ g \in [Timers -> Records] /\ g[t].status = "unregistered" /\ ~g[t].mine
        /\ g[t].node = f[t].node /\ \A s \in Timers \ {t} : g[s] = f[s]
    BY ONLY <2>2, t \in Timers DEF Records
  <2> QED
    BY <2>1, <2>3
<1>6. /\ registered' \in Seq(Entries) /\ ListInv' /\ Len(registered') <= mTimerLimit + 1
      /\ \A k \in 1..Len(registered') : registered'[k].node <= counter
  BY <1>1, <1>3, <1>4, <1>5, LeaveHolds
<1>7. \A s \in Timers : timer[s].node <= timer'[s].node /\ timer'[s].node <= counter'
  <2> SUFFICES ASSUME NEW s \in Timers
               PROVE  timer[s].node <= timer'[s].node /\ timer'[s].node <= counter'
    OBVIOUS
  <2>1. timer[s] \in Records /\ timer[s].node <= counter /\ timer'[s].node = timer[s].node
    BY <1>2, <1>5 DEF TimerTypes
  <2>2. timer[s].node \in Nat
    BY <2>1 DEF Records
  <2> QED
    BY <1>1, <2>1, <2>2
<1>8. counter' \in 0 .. MaxRegistrations /\ \A k \in 1..Len(registered') : registered'[k].node <= counter'
  BY <1>1, <1>2, <1>6 DEF TypeOK
<1>9. \A s \in Timers : timer'[s].status = "registered" => timer'[s].mine \/ timer'[s] = timer[s]
  BY <1>5
<1> QED
  BY ONLY TimerInv, <1>1, <1>5, <1>6, <1>7, <1>8, <1>9, Edited

\* clear_timers() reaches every timer that believes it is in the list.
LEMMA ClearHolds ==
  ASSUME TimerInv, clear_timers
  PROVE  TimerInv'
<1> DEFINE r(t) == [timer[t] EXCEPT !.status = "abandoned", !.mine = FALSE]
<1>1. /\ Same /\ counter' = counter /\ registered' = <<>>
      /\ timer' = [t \in Timers |-> IF timer[t].node \in Nodes(registered) THEN r(t) ELSE timer[t]]
  BY DEF clear_timers
<1>2. /\ TypeOK /\ TimerTypes /\ ListInv /\ timer \in [Timers -> Records] /\ mTimerLimit \in Nat
      /\ counter \in Nat
  BY BoundsAssumption DEF TimerInv, TimerTypes
<1>3. \A t \in Timers : /\ r(t) \in Records /\ r(t).status = "abandoned" /\ ~r(t).mine
                        /\ r(t).node = timer[t].node
  <2>1. \A e \in Records : LET q == [e EXCEPT !.status = "abandoned", !.mine = FALSE]
                           IN  q \in Records /\ q.status = "abandoned" /\ ~q.mine /\ q.node = e.node
    BY DEF Records
  <2> QED
    BY <1>2, <2>1
<1> HIDE DEF r
<1>4. \A t \in Timers : timer'[t] = r(t) \/ (timer'[t] = timer[t] /\ timer[t].node \notin Nodes(registered))
  BY <1>1
<1>5. timer' \in [Timers -> Records]
  BY <1>1, <1>2, <1>3
<1>6. \A t \in Timers : timer[t].mine => timer[t].node \in Nodes(registered)
  <2> SUFFICES ASSUME NEW t \in Timers, timer[t].mine PROVE timer[t].node \in Nodes(registered)
    OBVIOUS
  <2>1. PICK i \in 1..Len(registered) : registered[i].timer = t
    BY <1>2 DEF ListInv
  <2>2. timer[t].node = registered[i].node /\ DOMAIN registered = 1..Len(registered)
    BY <1>2, <2>1 DEF ListInv, TimerTypes
  <2> QED
    BY <2>2 DEF Nodes
<1>7. \A t \in Timers : ~timer'[t].mine /\ (timer'[t].status = "registered" => timer'[t] = timer[t])
  BY <1>3, <1>4, <1>6
<1>8. registered' \in Seq(Entries) /\ Len(registered') = 0
  BY <1>1
<1>9. ListInv'
  BY <1>2, <1>7, <1>8 DEF ListInv, Sorted, Distinct, is_registered
<1>10. \A t \in Timers : timer[t].node <= timer'[t].node /\ timer'[t].node <= counter'
  <2> SUFFICES ASSUME NEW t \in Timers
               PROVE  timer[t].node <= timer'[t].node /\ timer'[t].node <= counter'
    OBVIOUS
  <2>1. timer[t] \in Records /\ timer[t].node <= counter /\ timer'[t].node = timer[t].node
    BY <1>2, <1>3, <1>4 DEF TimerTypes
  <2>2. timer[t].node \in Nat
    BY <2>1 DEF Records
  <2> QED
    BY <1>1, <2>1, <2>2
<1>11. /\ counter' \in 0 .. MaxRegistrations /\ Len(registered') <= mTimerLimit + 1
       /\ \A k \in 1..Len(registered') : registered'[k].node <= counter'
  BY <1>1, <1>2, <1>8 DEF TypeOK
<1> QED
  BY ONLY TimerInv, <1>1, <1>5, <1>7, <1>8, <1>9, <1>10, <1>11, Edited

\* A time or a counter set back changes nothing else.
LEMMA SetBackHolds ==
  ASSUME TimerInv, NEW t \in Timers, reset_time(t) \/ reset_tick_counter(t)
  PROVE  TimerInv'
<1>1. /\ Same /\ counter' = counter /\ registered' = registered /\ place = "idle"
      /\ timer' = [timer EXCEPT ![t].current = 0] \/ timer' = [timer EXCEPT ![t].ticks = 0]
  BY DEF reset_time, reset_tick_counter
<1>2. /\ TypeOK /\ TimerTypes /\ ListInv /\ CallInv /\ GivenInv /\ timer \in [Timers -> Records]
  BY DEF TimerInv, TimerTypes
<1>3. /\ timer' \in [Timers -> Records]
      /\ \A s \in Timers : /\ timer'[s].mine = timer[s].mine /\ timer'[s].status = timer[s].status
                           /\ timer'[s].node = timer[s].node
  <2>1. PICK f, g : f = timer /\ g = timer'
    OBVIOUS
  <2>2. f \in [Timers -> Records] /\ 0 \in Nat
    BY <1>2, <2>1
  <2>3. g = [f EXCEPT ![t].current = 0] \/ g = [f EXCEPT ![t].ticks = 0]
    BY <1>1, <2>1
  <2>4. /\ g \in [Timers -> Records]
        /\ \A s \in Timers : g[s].mine = f[s].mine /\ g[s].status = f[s].status /\ g[s].node = f[s].node
    <3>1. CASE g = [f EXCEPT ![t].current = 0]
      BY ONLY <2>2, <3>1, t \in Timers DEF Records
    <3>2. CASE g = [f EXCEPT ![t].ticks = 0]
      BY ONLY <2>2, <3>2, t \in Timers DEF Records
    <3> QED
      BY <2>3, <3>1, <3>2
  <2> QED
    BY <2>1, <2>4
<1>4. UNCHANGED <<place, it, called, delta, given, back, counter, registered>>
  BY <1>1 DEF Same
<1>5. TypeOK'
  BY <1>2, <1>4 DEF TypeOK
<1>6. TimerTypes'
  BY <1>2, <1>3, <1>4 DEF TimerTypes
<1>7. ListInv'
  <2>1. \A i \in 1..Len(registered) : registered[i].timer \in Timers
    BY <1>2 DEF TypeOK, TimerTypes
  <2> QED
    BY <1>2, <1>3, <1>4, <2>1 DEF ListInv, is_registered
<1>8. CallInv' /\ GivenInv'
  BY <1>1, <1>2, <1>4 DEF CallInv, GivenInv
<1> QED
  BY <1>5, <1>6, <1>7, <1>8 DEF TimerInv

-----------------------------------------------------------------------------
\* The walk.

\* A pass starts at the first node, with no time given out.
LEMMA StartHolds ==
  ASSUME TimerInv, StartPass
  PROVE  TimerInv'
<1>1. /\ delta' \in 0 .. MaxDelta /\ it' = First(registered) /\ back' = 0
      /\ place' = (IF registered = <<>> THEN "idle" ELSE "walking")
      /\ given' = [n \in 1 .. MaxRegistrations |-> 0]
      /\ UNCHANGED <<timer, registered, called, edits, counter>>
  BY DEF StartPass
<1>2. TypeOK /\ TimerTypes /\ ListInv /\ {MaxDelta, MaxRegistrations} \subseteq Nat
  BY BoundsAssumption DEF TimerInv
<1>3. it' \in 0 .. MaxRegistrations
  <2>1. CASE registered = <<>>
    BY <1>1, <1>2, <2>1 DEF First, Null
  <2>2. CASE registered # <<>>
    <3>1. 1 \in DOMAIN registered
      BY <1>2, <2>2 DEF TimerTypes
    <3> QED
      BY <1>1, <1>2, <2>2, <3>1 DEF First, TypeOK
  <2> QED
    BY <2>1, <2>2
<1>4. TypeOK'
  BY <1>1, <1>2, <1>3 DEF TypeOK
<1>5. TimerTypes' /\ ListInv'
  BY <1>1, <1>2, <1>3 DEF TimerTypes, ListInv, is_registered
<1>6. CallInv' /\ GivenInv'
  BY <1>1, <1>2 DEF CallInv, GivenInv
<1> QED
  BY <1>4, <1>5, <1>6 DEF TimerInv

\* A timer that is looked at is in the list, and the iterator goes to the node behind it.
LEMMA VisitHolds ==
  ASSUME TimerInv, Visit
  PROVE  TimerInv'
<1>1. /\ TypeOK /\ TimerTypes /\ ListInv /\ CallInv /\ GivenInv /\ MaxRegistrations \in Nat
      /\ place = "walking" /\ it # Null /\ UNCHANGED <<registered, delta, counter, back>>
      /\ registered \in Seq(Entries) /\ timer \in [Timers -> Records] /\ Sorted(registered)
  BY BoundsAssumption DEF TimerInv, TimerTypes, ListInv, Visit
<1>2. CASE it \notin Nodes(registered)
  <2>1. UNCHANGED <<timer, it, place, called, given>>
    BY <1>2 DEF Visit
  <2> QED
    BY <1>1, <2>1 DEF TimerInv, TypeOK, TimerTypes, ListInv, CallInv, GivenInv, is_registered
<1>3. CASE it \in Nodes(registered)
  <2>1. PICK i \in 1..Len(registered) : it = registered[i].node
    BY <1>1, <1>3 DEF Nodes
  <2> DEFINE t == registered[i].timer
             now == timer[t].current + delta
  <2>2. /\ At(registered, it) = i
        /\ After(registered, it) = IF i = Len(registered) THEN Null ELSE registered[i + 1].node
    BY <1>1, <2>1, Positions
  <2>3. /\ timer' = [timer EXCEPT ![t].current = now]
        /\ given' = [given EXCEPT ![it] = @ + 1]
        /\ it' = After(registered, it)
        /\ (place' = "calling" /\ called' = t) \/ (place' = place /\ called' = called)
    BY <1>3, <2>2 DEF Visit, Looked
  <2>4. t \in Timers /\ timer[t].mine /\ timer[t].node = it /\ is_registered(t)
    <3>1. i \in DOMAIN registered
      BY <1>1
    <3> QED
      BY <1>1, <2>1, <3>1 DEF ListInv, TypeOK
  <2>5. now \in Nat
    <3>1. timer[t] \in Records /\ delta \in Nat
      BY <1>1, <2>4 DEF TimerTypes
    <3> QED
      BY <3>1 DEF Records
  <2> HIDE DEF now, t
  <2>6. /\ timer' \in [Timers -> Records]
        /\ \A s \in Timers : /\ timer'[s].mine = timer[s].mine /\ timer'[s].status = timer[s].status
                             /\ timer'[s].node = timer[s].node
    <3>1. PICK f, g, c, u : f = timer /\ g = timer' /\ c = now /\ u = t
      OBVIOUS
    <3>2. f \in [Timers -> Records] /\ c \in Nat /\ u \in Timers /\ g = [f EXCEPT ![u].current = c]
      BY <1>1, <2>3, <2>4, <2>5, <3>1
    <3>3. /\ g \in [Timers -> Records]
          /\ \A s \in Timers : g[s].mine = f[s].mine /\ g[s].status = f[s].status /\ g[s].node = f[s].node
      BY ONLY <3>2 DEF Records
    <3> QED
      BY <3>1, <3>3
  <2>7. it \in 1 .. MaxRegistrations /\ it \in Nat /\ it > 0
    BY <1>1 DEF TypeOK, Null
  <2>8. it' = Null \/ (it' \in 1 .. MaxRegistrations /\ it' > it)
    <3>1. CASE i = Len(registered)
      BY <2>2, <2>3, <3>1
    <3>2. CASE i # Len(registered)
      <4>1. i \in 1..Len(registered) /\ i + 1 \in 1..Len(registered) /\ i < i + 1
            /\ i + 1 \in DOMAIN registered
        BY <1>1, <3>2
      <4>2. registered[i].node < registered[i + 1].node
        BY <1>1, <4>1 DEF Sorted
      <4>3. registered[i + 1].node \in 1 .. counter /\ counter \in 0 .. MaxRegistrations
        BY <1>1, <4>1 DEF TypeOK
      <4> QED
        BY <1>1, <2>1, <2>2, <2>3, <3>2, <4>2, <4>3
    <3> QED
      BY <3>1, <3>2
  <2>9. TypeOK'
    BY <1>1, <2>3, <2>4, <2>8 DEF TypeOK, Null
  <2>10. TimerTypes' /\ ListInv'
    <3>1. TimerTypes'
      BY <1>1, <2>6, <2>8 DEF TimerTypes, Null
    <3>2. \A k \in 1..Len(registered) : registered[k].timer \in Timers
      BY <1>1 DEF TypeOK
    <3>3. ListInv'
      BY SMTT(30), <1>1, <2>6, <3>2 DEF ListInv, is_registered
    <3> QED
      BY <3>1, <3>3
  <2>11. CallInv'
    BY <1>1, <2>3, <2>4, <2>6 DEF CallInv, is_registered
  <2>12. GivenInv'
    <3>1. given[it] \in Nat /\ given[it] <= back /\ back \in Nat
      BY <1>1, <2>7 DEF GivenInv, Null
    <3>2. /\ given' \in [1 .. MaxRegistrations -> Nat] /\ given'[it] = given[it] + 1
          /\ \A n \in 1 .. MaxRegistrations : n # it => given'[n] = given[n]
      BY <1>1, <2>3, <2>7, <3>1 DEF GivenInv
    <3> SUFFICES ASSUME NEW n \in 1 .. MaxRegistrations
                 PROVE  /\ given'[n] <= 1 + back
                        /\ it' # Null /\ it' <= n => given'[n] <= back
                        /\ place' = "calling" /\ timer'[called'].node < n => given'[n] <= back
      BY <1>1, <3>2 DEF GivenInv
    <3>3. CASE n = it
      <4>1. ~(it' # Null /\ it' <= n)
        BY <2>7, <2>8, <3>3 DEF Null
      <4>2. ~(place' = "calling" /\ timer'[called'].node < n)
        BY <1>1, <2>3, <2>4, <2>6, <2>7, <3>3
      <4>3. given'[n] <= 1 + back
        BY <3>1, <3>2, <3>3
      <4> QED
        BY <4>1, <4>2, <4>3
    <3>4. CASE n # it
      <4>1. given'[n] = given[n] /\ given[n] <= 1 + back /\ (it <= n => given[n] <= back)
        BY <1>1, <3>2, <3>4 DEF GivenInv
      <4>2. it' # Null /\ it' <= n => it <= n
        BY <2>7, <2>8
      <4>3. place' = "calling" /\ timer'[called'].node < n => it <= n
        BY <1>1, <2>3, <2>4, <2>6, <2>7
      <4> QED
        BY <4>1, <4>2, <4>3
    <3> QED
      BY <3>3, <3>4
  <2> QED
    BY <2>9, <2>10, <2>11, <2>12 DEF TimerInv
<1> QED
  BY <1>2, <1>3

\* A timer that leaves the loop after its call leaves the iterator at the node behind it or, when it was
\* the last of several, at the one before.
LEMMA GoneHolds ==
  ASSUME TimerInv, place = "calling", place' = "walking", called' = None,
         UNCHANGED <<delta, edits, counter, given>>,
         is_registered(called),
         NEW s \in {"registered", "unregistered"}, s = "registered" => Timeout(called),
         NEW c \in Nat, NEW k \in Nat,
         timer' = [timer EXCEPT ![called] =
                      [timer[called] EXCEPT !.mine = FALSE, !.status = s, !.current = c,
                        !.ticks = k]],
         registered' = Without(registered, timer[called].node),
         it' = Erased(registered, timer[called].node),
         back' = IF it' # Null /\ it' # After(registered,
           timer[called].node) THEN back + 1 ELSE back
  PROVE  TimerInv'
<1> DEFINE e == [timer[called] EXCEPT !.mine = FALSE, !.status = s, !.current = c, !.ticks = k]
<1>1. /\ TypeOK /\ TimerTypes /\ ListInv /\ CallInv /\ GivenInv /\ MaxRegistrations \in Nat
      /\ timer \in [Timers -> Records] /\ registered \in Seq(Entries) /\ back \in Nat
      /\ Sorted(registered) /\ called \in Timers /\ timer[called].mine
  BY BoundsAssumption DEF TimerInv, TimerTypes, ListInv, CallInv, GivenInv
<1>2. PICK i \in 1..Len(registered) : registered[i].timer = called
  BY <1>1 DEF ListInv
<1>3. timer[called].node = registered[i].node
  BY <1>1, <1>2 DEF ListInv
<1>4. e \in Records /\ e.status = s /\ ~e.mine /\ e.node = timer[called].node
  <2>1. PICK r : r = timer[called]
    OBVIOUS
  <2>2. r \in Records
    BY <1>1, <2>1
  <2> DEFINE q == [r EXCEPT !.mine = FALSE, !.status = s, !.current = c, !.ticks = k]
  <2>3. q \in Records /\ q.status = s /\ ~q.mine /\ q.node = r.node
    BY ONLY <2>2, s \in {"registered", "unregistered"}, c \in Nat, k \in Nat DEF Records
  <2>4. q = e
    BY <2>1
  <2> QED
    BY <2>1, <2>3, <2>4
<1>5. timer' = [timer EXCEPT ![called] = e]
  OBVIOUS
<1> HIDE DEF e
<1>6. /\ timer' \in [Timers -> Records] /\ timer'[called] = e
      /\ \A u \in Timers \ {called} : timer'[u] = timer[u]
  BY <1>1, <1>4, <1>5
<1>7. \A u \in Timers : timer'[u].node = timer[u].node
  BY <1>4, <1>6
<1>8. /\ registered' \in Seq(Entries) /\ ListInv' /\ Len(registered') <= mTimerLimit + 1
      /\ \A n \in 1..Len(registered') : registered'[n].node <= counter
  <2>1. /\ registered' = Without(registered, registered[i].node)
        /\ timer' \in [Timers -> Records] /\ ~timer'[registered[i].timer].mine
        /\ timer'[registered[i].timer].status = "registered" => Timeout(registered[i].timer)
        /\ \A u \in Timers \ {registered[i].timer} : timer'[u] = timer[u]
    BY <1>2, <1>3, <1>4, <1>6
  <2> QED
    BY ONLY TimerInv, i \in 1..Len(registered), <2>1, LeaveHolds
<1>9. /\ After(registered, registered[i].node) =
            IF i = Len(registered) THEN Null ELSE registered[i + 1].node
      /\ it' = IF i = Len(registered) /\ i # 1 THEN registered[Len(registered) - 1].node
               ELSE IF i = Len(registered) THEN Null ELSE registered[i + 1].node
  <2>1. registered \in Seq(Entries) /\ Sorted(registered)
    BY <1>1
  <2>2. /\ After(registered, registered[i].node) =
              IF i = Len(registered) THEN Null ELSE registered[i + 1].node
        /\ Erased(registered, registered[i].node) =
              IF i = Len(registered) /\ i # 1 THEN registered[Len(registered) - 1].node
              ELSE IF i = Len(registered) THEN Null ELSE registered[i + 1].node
    BY ONLY <2>1, i \in 1..Len(registered), Positions
  <2> QED
    BY <1>3, <2>2
<1>10. \A n \in 1..Len(registered) : /\ registered[n].node \in 1 .. MaxRegistrations
                                     /\ registered[n].node <= counter
  BY <1>1 DEF TypeOK
<1>11. Len(registered) \in Nat
  BY <1>1
<1>12. \/ it' = Null /\ back' = back
       \/ it' \in 1 .. MaxRegistrations /\ back' = back + 1
       \/ it' \in 1 .. MaxRegistrations /\ back' = back /\ timer[called].node < it'
  <2>1. CASE i = Len(registered) /\ i # 1
    <3>1. Len(registered) - 1 \in 1..Len(registered)
      BY <1>11, <2>1
    <3> QED
      BY <1>3, <1>9, <1>10, <2>1, <3>1 DEF Null
  <2>2. CASE i = Len(registered) /\ i = 1
    BY <1>9, <2>2
  <2>3. CASE i # Len(registered)
    <3>1. i + 1 \in 1..Len(registered) /\ i < i + 1
      BY <1>11, <2>3
    <3>2. registered[i].node < registered[i + 1].node
      BY <1>1, <3>1 DEF Sorted
    <3>3. it' = registered[i + 1].node /\ it' = After(registered, timer[called].node)
      BY <1>3, <1>9, <2>3
    <3> QED
      BY <1>3, <1>10, <3>1, <3>2, <3>3
  <2> QED
    BY <2>1, <2>2, <2>3
<1>13. it' \in 0 .. MaxRegistrations /\ back' \in Nat
  BY <1>1, <1>12 DEF Null
<1>14. TypeOK'
  <2>1. counter \in 0 .. MaxRegistrations /\ \A n \in 1..Len(registered') : registered'[n] \in Entries
    BY <1>1, <1>8 DEF TypeOK
  <2>2. \A n \in DOMAIN registered' : registered'[n].timer \in Timers /\ registered'[n].node \in 1 .. counter
    <3> SUFFICES ASSUME NEW n \in 1..Len(registered')
                 PROVE  registered'[n].timer \in Timers /\ registered'[n].node \in 1 .. counter
      BY <1>8
    <3>1. registered'[n].timer \in Timers /\ registered'[n].node \in Nat
      BY <2>1 DEF Entries
    <3>2. registered'[n].node > 0 /\ registered'[n].node <= counter
      BY <1>8 DEF ListInv
    <3> QED
      BY <1>1, <2>1, <3>1, <3>2
  <2> QED
    BY <1>8, <1>13, <2>1, <2>2 DEF TypeOK
<1>15. TimerTypes'
  BY <1>1, <1>6, <1>7, <1>8, <1>13 DEF TimerTypes
<1>16. GivenInv'
  <2> SUFFICES ASSUME NEW n \in 1 .. MaxRegistrations
               PROVE  given[n] <= 1 + back' /\ (it' # Null /\ it' <= n => given[n] <= back')
    BY <1>1, <1>13 DEF GivenInv
  <2>1. /\ given[n] \in Nat /\ given[n] <= 1 + back
        /\ timer[called].node < n => given[n] <= back
    BY <1>1 DEF GivenInv
  <2>2. registered[i].node \in Nat /\ timer[called].node \in Nat
    BY <1>3, <1>10
  <2> QED
    BY <1>1, <1>12, <2>1, <2>2
<1> QED
  BY <1>8, <1>14, <1>15, <1>16 DEF TimerInv, CallInv

\* What run_timers() does with a timer whose handler has returned.
LEMMA ReturnedHolds ==
  ASSUME TimerInv, Returned
  PROVE  TimerInv'
<1>1. /\ TypeOK /\ TimerTypes /\ ListInv /\ CallInv /\ GivenInv
      /\ timer \in [Timers -> Records] /\ called \in Timers
      /\ place = "calling" /\ place' = "walking" /\ called' = None
      /\ UNCHANGED <<delta, edits, counter, given>>
  BY DEF Returned, TimerInv, TimerTypes, CallInv
<1>2. timer[called].current \in Nat /\ timer[called].ticks \in Nat /\ timer[called].ticks + 1 \in Nat
  <2>1. timer[called] \in Records
    BY <1>1
  <2> QED
    BY <2>1 DEF Records
<1>b. \A s : (\/ s = "registered" /\ is_registered(called) /\ Timeout(called)
             \/ /\ s = "unregistered" /\ is_registered(called) /\ ~Timeout(called)
                /\ mTickLimit(called) # 0 /\ timer[called].ticks + 1 >= mTickLimit(called)) =>
        /\ timer' = [timer EXCEPT ![called] =
                        [timer[called] EXCEPT !.mine = FALSE, !.status = s,
                           !.current = IF Timeout(called) THEN timer[called].current ELSE 0,
                           !.ticks = IF Timeout(called) THEN timer[called].ticks ELSE timer[called].ticks + 1]]
        /\ registered' = Without(registered, timer[called].node)
        /\ it' = Erased(registered, timer[called].node)
        /\ back' = IF it' # Null /\ it' # After(registered,
             timer[called].node) THEN back + 1 ELSE back
  BY DEF Returned
\* A timer that stays keeps its place in the list.
<1>3. ASSUME UNCHANGED <<registered, it, back>>, timer' \in [Timers -> Records],
             \A u \in Timers : /\ timer'[u].mine = timer[u].mine /\ timer'[u].status = timer[u].status
                               /\ timer'[u].node = timer[u].node
      PROVE  TimerInv'
  <2>1. TypeOK'
    BY <1>1, <1>3 DEF TypeOK
  <2>2. TimerTypes'
    BY <1>1, <1>3 DEF TimerTypes
  <2>3. \A n \in 1..Len(registered) : registered[n].timer \in Timers
    BY <1>1 DEF TypeOK, TimerTypes
  <2>4. ListInv'
    BY <1>1, <1>3, <2>3 DEF ListInv, is_registered
  <2>5. CallInv' /\ GivenInv'
    BY <1>1, <1>3 DEF CallInv, GivenInv
  <2> QED
    BY <2>1, <2>2, <2>4, <2>5 DEF TimerInv
<1>4. CASE ~is_registered(called)
  <2>1. UNCHANGED <<timer, registered, it, back>>
    BY <1>4 DEF Returned
  <2> QED
    BY <1>1, <1>3, <2>1
<1>5. CASE is_registered(called) /\ Timeout(called)
  <2> DEFINE c == timer[called].current
             k == timer[called].ticks
  <2>1. /\ timer' = [timer EXCEPT ![called] = [timer[called] EXCEPT !.mine = FALSE,
             !.status = "registered",
                                                                    !.current = c, !.ticks = k]]
        /\ registered' = Without(registered, timer[called].node)
        /\ it' = Erased(registered, timer[called].node)
        /\ back' = IF it' # Null /\ it' # After(registered,
             timer[called].node) THEN back + 1 ELSE back
    BY <1>b, <1>5
  <2>2. c \in Nat /\ k \in Nat
    BY <1>2
  <2> HIDE DEF c, k
  <2>3. "registered" \in {"registered", "unregistered"}
    OBVIOUS
  <2> QED
    BY ONLY TimerInv, <1>1, <1>5, <2>1, <2>2, <2>3, GoneHolds
<1>6. CASE /\ is_registered(called) /\ ~Timeout(called)
           /\ mTickLimit(called) # 0 /\ timer[called].ticks + 1 >= mTickLimit(called)
  <2> DEFINE k == timer[called].ticks + 1
  <2>1. /\ timer' = [timer EXCEPT ![called] = [timer[called] EXCEPT !.mine = FALSE,
                                               !.status = "unregistered", !.current = 0,
                                                 !.ticks = k]]
        /\ registered' = Without(registered, timer[called].node)
        /\ it' = Erased(registered, timer[called].node)
        /\ back' = IF it' # Null /\ it' # After(registered,
             timer[called].node) THEN back + 1 ELSE back
    BY <1>b, <1>6
  <2>2. 0 \in Nat /\ k \in Nat
    BY <1>2
  <2> HIDE DEF k
  <2>3. "unregistered" \in {"registered", "unregistered"} /\ "unregistered" # "registered"
    OBVIOUS
  <2> QED
    BY ONLY TimerInv, <1>1, <1>6, <2>1, <2>2, <2>3, GoneHolds
<1>7. CASE /\ is_registered(called) /\ ~Timeout(called)
           /\ ~(mTickLimit(called) # 0 /\ timer[called].ticks + 1 >= mTickLimit(called))
  <2>1. /\ UNCHANGED <<registered, it, back>>
        /\ timer' = [timer EXCEPT ![called].current = 0,
                                  ![called].ticks = IF mTickLimit(called) = 0 THEN 0 ELSE @ + 1]
    BY <1>7 DEF Returned
  <2>2. /\ timer' \in [Timers -> Records]
        /\ \A u \in Timers : /\ timer'[u].mine = timer[u].mine /\ timer'[u].status = timer[u].status
                              /\ timer'[u].node = timer[u].node
    <3>1. PICK f, g, u, k : /\ f = timer /\ g = timer' /\ u = called
                            /\ k = IF mTickLimit(called) = 0 THEN 0 ELSE timer[called].ticks + 1
      OBVIOUS
    <3>2. /\ f \in [Timers -> Records] /\ u \in Timers /\ k \in Nat
          /\ g = [f EXCEPT ![u].current = 0, ![u].ticks = k]
      BY <1>1, <1>2, <2>1, <3>1
    <3>3. /\ g \in [Timers -> Records]
          /\ \A n \in Timers : g[n].mine = f[n].mine /\ g[n].status = f[n].status /\ g[n].node = f[n].node
      BY ONLY <3>2 DEF Records
    <3> QED
      BY <3>1, <3>3
  <2> QED
    BY <1>3, <2>1, <2>2
<1> QED
  BY <1>4, <1>5, <1>6, <1>7

\* Every step of the loop and of its callers keeps the invariant.
LEMMA TimerNext == TimerInv /\ [Next]_vars => TimerInv'
<1> SUFFICES ASSUME TimerInv, [Next]_vars PROVE TimerInv'
  OBVIOUS
<1>1. CASE Edit
  BY <1>1, RegisterHolds, UnregisterHolds, ClearHolds DEF Edit
<1>2. CASE \E t \in Timers : reset_time(t) \/ reset_tick_counter(t)
  BY <1>2, SetBackHolds
<1>3. CASE StartPass
  BY <1>3, StartHolds
<1>4. CASE EndPass
  BY <1>4 DEF EndPass, TimerInv, TypeOK, TimerTypes, ListInv, is_registered, CallInv, GivenInv
<1>5. CASE Visit
  BY <1>5, VisitHolds
<1>6. CASE Returned
  BY <1>6, ReturnedHolds
<1>7. CASE UNCHANGED vars
  BY <1>7 DEF vars, TimerInv, TypeOK, TimerTypes, ListInv, is_registered, CallInv, GivenInv
<1> QED
  BY <1>1, <1>2, <1>3, <1>4, <1>5, <1>6, <1>7 DEF Next

\* What the invariant says of the list, in the words of the property.
LEMMA ListHolds == TimerInv => ListMatches
<1> SUFFICES ASSUME TimerInv PROVE ListMatches
  OBVIOUS
<1>1. ListInv /\ registered \in Seq(Entries) /\ DOMAIN registered = 1..Len(registered)
  BY DEF TimerInv, TimerTypes
<1>2. ASSUME NEW t \in Timers, timer[t].mine
      PROVE  [node |-> timer[t].node, timer |-> t] \in ToSet(registered)
  <2>1. PICK i \in 1..Len(registered) : registered[i].timer = t
    BY <1>1, <1>2 DEF ListInv
  <2>2. registered[i].node = timer[t].node /\ registered[i] \in Entries
    BY <1>1, <2>1 DEF ListInv
  <2>3. registered[i] = [node |-> timer[t].node, timer |-> t]
    BY <2>1, <2>2 DEF Entries
  <2> QED
    BY <1>1, <2>3 DEF ToSet
<1> QED
  BY <1>1, <1>2 DEF ListMatches, ListInv, Distinct

\* The list holds the timers that believe they are registered, each once, and a pass gives its time to
\* each once, but for the node the walk goes back to (timer_loop).
THEOREM TimersKept == Spec => [](TypeOK /\ ListMatches /\ DeltaOnce)
<1>1. TimerInv => TypeOK /\ ListMatches /\ DeltaOnce
  BY ListHolds DEF TimerInv, GivenInv, DeltaOnce
<1> QED
  BY <1>1, TimerInit, TimerNext, PTL DEF Spec

---------------------------------------------------------------------------------
\* The thread pool.

\* A slot that runs holds its job, a held job is held by one slot and has run if its slot is about
\* to be emptied, and a slot on the stack is at rest.
Kept(i) ==
    /\ routine[i] \in {"run", "empty"} => tHandler[i] # P!Null
    /\ routine[i] = "free" => tHandler[i] = P!Null
    /\ tHandler[i] # P!Null =>
          /\ tHandler[i] \in accepted /\ ran[tHandler[i]] = (IF routine[i] = "empty" THEN 1 ELSE 0)
          /\ \A k \in P!Slots : tHandler[k] = tHandler[i] => k = i
    /\ \A n \in DOMAIN mFreeThreadIndex :
          mFreeThreadIndex[n] = i => routine[i] \notin {"run", "empty", "free"}
\* A job not accepted has not run.
JobInv ==
    /\ accepted \subseteq Jobs /\ ran \in [Jobs -> Nat]
    /\ \A j \in Jobs \ accepted : ran[j] = 0
StackInv == mFreeThreadIndex \in Seq(P!Slots)
PoolInv == P!TypeOK /\ P!SlotsOwned /\ JobInv /\ StackInv /\ \A i \in P!Slots : Kept(i)

\* The top of a stack and what is left below it.
LEMMA Popped ==
  ASSUME NEW S, NEW q \in Seq(S), q # <<>>
  PROVE  /\ Len(q) \in Nat \ {0} /\ P!Last(q) = q[Len(q)] /\ P!Last(q) \in S
         /\ P!Front(q) \in Seq(S) /\ Len(P!Front(q)) = Len(q) - 1
         /\ \A n \in 1..(Len(q) - 1) : P!Front(q)[n] = q[n]
<1>1. Len(q) \in Nat \ {0} /\ P!Last(q) = q[Len(q)] /\ q[Len(q)] \in S
  BY DEF P!Last
<1>2. Len(q) - 1 \in Nat /\ Len(q) - 1 <= Len(q)
  BY <1>1
<1>3. /\ SubSeq(q, 1, Len(q) - 1) \in Seq(S) /\ Len(SubSeq(q, 1, Len(q) - 1)) = Len(q) - 1
      /\ \A i \in 1..(Len(q) - 1) : SubSeq(q, 1, Len(q) - 1)[i] = q[i]
  BY ONLY <1>2, q \in Seq(S), Beginning
<1> QED
  BY <1>1, <1>3 DEF P!Front

\* A new pool, its stack holding every slot once, satisfies the invariant.
LEMMA PoolInit == P!Init => PoolInv
<1> SUFFICES ASSUME P!Init PROVE PoolInv
  OBVIOUS
<1>1. mThreadCount \in Nat /\ P!Null \notin Jobs
  BY PoolAssumption DEF P!ConstantsFit
<1> DEFINE q == [n \in 1 .. mThreadCount |-> mThreadCount - n]
<1>2. \A n \in 1..mThreadCount : mThreadCount - n \in P!Slots
  BY <1>1 DEF P!Slots
<1>3. q \in Seq(P!Slots) /\ Len(q) = mThreadCount /\ DOMAIN q = 1..mThreadCount
      /\ \A n \in 1..mThreadCount : q[n] = mThreadCount - n
  BY <1>1, <1>2
<1>4. mFreeThreadIndex = q
  BY DEF P!Init
<1> HIDE DEF q
<1>5. P!ToSet(mFreeThreadIndex) \subseteq P!Slots
  BY <1>2, <1>3, <1>4 DEF P!ToSet
<1>6. P!IsInjective(mFreeThreadIndex)
  BY <1>1, <1>3, <1>4 DEF P!IsInjective
<1> QED
  BY <1>1, <1>3, <1>4, <1>5, <1>6 DEF P!Init, PoolInv, P!TypeOK, P!SlotsOwned, JobInv, StackInv,
    Kept, P!Nobody

\* Every step of the caller and of the threads keeps the invariant of the pool.
LEMMA PoolNext == PoolInv /\ [P!Next]_(P!vars) => PoolInv'
<1> SUFFICES ASSUME PoolInv, [P!Next]_(P!vars) PROVE PoolInv'
  OBVIOUS
<1>a. P!Null \notin Jobs
  BY PoolAssumption DEF P!ConstantsFit
<1>b. /\ mFreeThreadIndex \in Seq(P!Slots) /\ DOMAIN mFreeThreadIndex = 1..Len(mFreeThreadIndex)
      /\ Len(mFreeThreadIndex) \in Nat
      /\ \A m, n \in 1..Len(mFreeThreadIndex) : mFreeThreadIndex[m] = mFreeThreadIndex[n] => m = n
      /\ \A n \in 1..Len(mFreeThreadIndex) : /\ mFreeThreadIndex[n] \in P!Slots
                                            /\ tHandler[mFreeThreadIndex[n]] = P!Null
  BY DEF PoolInv, P!SlotsOwned, StackInv, P!IsInjective, P!ToSet
\* Whatever leaves the stack as it is need only keep what is said of jobs and slots.
<1>c. ASSUME NEW j \in Jobs, P!Store(j) PROVE PoolInv'
  <2> DEFINE q == mFreeThreadIndex
             r == mFreeThreadIndex'
  <2>1. /\ q # <<>> /\ slot' = P!Last(q) /\ r = P!Front(q) /\ j \notin accepted
        /\ tHandler' = [tHandler EXCEPT ![slot'] = j] /\ accepted' = accepted \cup {j}
        /\ owner' = "caller" /\ UNCHANGED <<routine, ran>>
    BY <1>c DEF P!Store
  <2>2. /\ Len(q) \in Nat \ {0} /\ slot' = q[Len(q)] /\ slot' \in P!Slots
        /\ r \in Seq(P!Slots) /\ Len(r) = Len(q) - 1 /\ DOMAIN r = 1..Len(r)
        /\ \A n \in 1..Len(r) : n \in 1..Len(q) /\ r[n] = q[n]
    <3>1. q \in Seq(P!Slots) /\ q # <<>>
      BY <1>b, <2>1
    <3> HIDE DEF q
    <3>2. /\ Len(q) \in Nat \ {0} /\ P!Last(q) = q[Len(q)] /\ P!Last(q) \in P!Slots
          /\ P!Front(q) \in Seq(P!Slots) /\ Len(P!Front(q)) = Len(q) - 1
          /\ \A n \in 1..(Len(q) - 1) : P!Front(q)[n] = q[n]
      BY ONLY <3>1, Popped
    <3> QED
      BY <2>1, <3>2
  <2> HIDE DEF q, r
  <2>3. /\ tHandler' \in [P!Slots -> Jobs \cup {P!Null}] /\ tHandler'[slot'] = j
        /\ \A i \in P!Slots \ {slot'} : tHandler'[i] = tHandler[i]
    BY <2>1, <2>2 DEF PoolInv, P!TypeOK
  <2>4. tHandler[slot'] = P!Null /\ routine[slot'] \notin {"run", "empty", "free"} /\ ran[j] = 0
    BY <1>b, <2>1, <2>2 DEF PoolInv, Kept, JobInv, q
  <2>5. \A n \in 1..Len(r) : r[n] # slot'
    BY <1>b, <2>2 DEF q
  <2>6. P!ToSet(r) \subseteq P!Slots
    BY <2>2 DEF P!ToSet
  <2>7. P!TypeOK' /\ JobInv' /\ StackInv'
    BY <2>1, <2>2, <2>3, <2>6 DEF PoolInv, P!TypeOK, JobInv, StackInv, r
  <2>8. P!SlotsOwned'
    <3>1. P!IsInjective(r)
      BY <1>b, <2>2 DEF P!IsInjective, q
    <3>2. \A i \in P!ToSet(r) : tHandler'[i] = P!Null
      <4>1. ASSUME NEW n \in 1..Len(r) PROVE tHandler'[r[n]] = P!Null
        <5>1. q[n] = r[n] /\ n \in 1..Len(q) /\ r[n] # slot'
          BY <2>2, <2>5
        <5>2. q[n] \in P!Slots /\ tHandler[q[n]] = P!Null
          BY <1>b, <5>1 DEF q
        <5> QED
          BY <2>3, <5>1, <5>2
      <4> QED
        BY <2>2, <4>1 DEF P!ToSet
    <3> QED
      BY <2>1, <3>1, <3>2 DEF PoolInv, P!SlotsOwned, r
  <2>9. ASSUME NEW i \in P!Slots PROVE Kept(i)'
    <3>1. CASE i = slot'
      <4>1. \A k \in P!Slots : tHandler'[k] = j => k = i
        BY <1>a, <2>1, <2>3, <3>1 DEF PoolInv, Kept
      <4> QED
        BY <1>a, <2>1, <2>2, <2>3, <2>4, <2>5, <3>1, <4>1 DEF Kept, r
    <3>2. CASE i # slot'
      <4>1. Kept(i) /\ tHandler'[i] = tHandler[i] /\ (tHandler[i] # P!Null => tHandler[i] \in accepted)
        BY <2>3, <3>2 DEF PoolInv, Kept
      <4>2. tHandler[i] # P!Null => \A k \in P!Slots : tHandler'[k] = tHandler[i] => k = i
        BY <2>1, <2>3, <4>1 DEF Kept
      <4>3. \A n \in 1..Len(r) : r[n] = i => routine[i] \notin {"run", "empty", "free"}
        BY <1>b, <2>2, <4>1 DEF Kept, q
      <4> QED
        BY <2>1, <2>2, <4>1, <4>2, <4>3 DEF Kept, r
    <3> QED
      BY <3>1, <3>2
  <2> QED
    BY <2>7, <2>8, <2>9 DEF PoolInv
<1>d. ASSUME NEW i \in P!Slots, P!UpdateIndex(i) PROVE PoolInv'
  <2> DEFINE q == mFreeThreadIndex
             r == mFreeThreadIndex'
  <2>1. /\ routine[i] = "free" /\ r = Append(q, i) /\ routine' = [routine EXCEPT ![i] = "halt"]
        /\ UNCHANGED <<owner, slot, tHandler, ran, accepted>>
    BY <1>d DEF P!UpdateIndex, P!Goes, P!Rest
  <2>2. /\ r \in Seq(P!Slots) /\ Len(r) = Len(q) + 1 /\ DOMAIN r = 1..Len(r) /\ Len(q) \in Nat
        /\ \A n \in 1..Len(q) : r[n] = q[n]
        /\ r[Len(q) + 1] = i
    BY <1>b, <2>1, Appended
  <2> HIDE DEF q, r
  <2>3. /\ routine'[i] = "halt" /\ \A k \in P!Slots \ {i} : routine'[k] = routine[k]
        /\ routine' \in [P!Slots -> {"look", "run", "empty", "free", "halt", "halted", "over"}]
    BY <2>1 DEF PoolInv, P!TypeOK
  <2>4. tHandler[i] = P!Null /\ \A n \in 1..Len(q) : q[n] # i
    BY <1>b, <2>1 DEF PoolInv, Kept, q
  <2>5. \A n \in 1..Len(r) : n = Len(q) + 1 \/ n \in 1..Len(q)
    BY <2>2
  <2>6. P!ToSet(r) \subseteq P!Slots
    BY <2>2 DEF P!ToSet
  <2>7. P!TypeOK' /\ JobInv' /\ StackInv'
    BY <2>1, <2>2, <2>3, <2>6 DEF PoolInv, P!TypeOK, JobInv, StackInv, r
  <2>8. P!SlotsOwned'
    <3>1. P!IsInjective(r)
      BY <1>b, <2>2, <2>4, <2>5 DEF P!IsInjective, q
    <3>2. \A k \in P!ToSet(r) : tHandler[k] = P!Null
      BY <1>b, <2>2, <2>4, <2>5 DEF P!ToSet, q
    <3> QED
      BY <2>1, <3>1, <3>2 DEF PoolInv, P!SlotsOwned, r
  <2>9. ASSUME NEW k \in P!Slots PROVE Kept(k)'
    <3>1. CASE k = i
      BY <2>1, <2>3, <2>4, <3>1 DEF Kept
    <3>2. CASE k # i
      <4>1. Kept(k) /\ routine'[k] = routine[k]
        BY <2>3, <3>2 DEF PoolInv
      <4>2. \A n \in 1..Len(r) : r[n] = k => routine[k] \notin {"run", "empty", "free"}
        BY <1>b, <2>2, <2>5, <3>2, <4>1 DEF Kept, q
      <4> QED
        BY <2>1, <2>2, <4>1, <4>2 DEF Kept, r
    <3> QED
      BY <3>1, <3>2
  <2> QED
    BY <2>7, <2>8, <2>9 DEF PoolInv
\* Of the other steps none touches the stack.
<1>1. CASE P!SetThreadIndex \/ P!Resume \/ P!Close
  <2>1. /\ UNCHANGED <<mFreeThreadIndex, tHandler, slot, accepted, ran>> /\ owner' \in {owner, P!Nobody}
        /\ routine' \in [P!Slots -> {"look", "run", "empty", "free", "halt", "halted", "over"}]
        /\ \A i \in P!Slots : routine'[i] = routine[i] \/ (routine[i] = "halted" /\ routine'[i] = "look")
    <3>1. routine \in [P!Slots -> {"look", "run", "empty", "free", "halt", "halted", "over"}]
      BY DEF PoolInv, P!TypeOK
    <3>2. CASE P!SetThreadIndex
      <4>1. UNCHANGED <<mFreeThreadIndex, tHandler, slot, accepted, ran, owner, routine>>
        BY <3>2 DEF P!SetThreadIndex
      <4> QED
        BY <3>1, <4>1
    <3>3. CASE P!Resume
      <4>1. /\ UNCHANGED <<mFreeThreadIndex, tHandler, slot, accepted, ran>> /\ owner' = P!Nobody
            /\ routine' = [routine EXCEPT ![slot] = P!Resumed(@)]
        BY <3>3 DEF P!Resume
      <4> QED
        BY <3>1, <4>1 DEF P!Resumed
    <3>4. CASE P!Close
      <4>1. /\ UNCHANGED <<mFreeThreadIndex, tHandler, slot, accepted, ran, owner>>
            /\ routine' = [i \in P!Slots |-> P!Resumed(routine[i])]
        BY <3>4 DEF P!Close
      <4>2. \A i \in P!Slots : routine'[i] = P!Resumed(routine[i]) /\ routine[i] \in
              {"look", "run", "empty", "free", "halt", "halted", "over"}
        BY <3>1, <4>1
      <4>3. \A i \in P!Slots : routine'[i] = routine[i] \/ (routine[i] = "halted" /\ routine'[i] = "look")
        BY <4>2 DEF P!Resumed
      <4> QED
        BY <4>1, <4>2, <4>3
    <3> QED
      BY <1>1, <3>2, <3>3, <3>4
  <2> QED
    BY <2>1 DEF PoolInv, P!TypeOK, P!SlotsOwned, JobInv, StackInv, Kept, P!Nobody
<1>2. CASE \E j \in Jobs : P!Drop(j)
  BY <1>2 DEF P!Drop, PoolInv, P!TypeOK, P!SlotsOwned, JobInv, StackInv, Kept
<1>3. CASE \E j \in Jobs : P!Store(j)
  BY <1>3, <1>c
<1>4. CASE \E i \in P!Slots : P!UpdateIndex(i)
  BY <1>4, <1>d
<1>5. ASSUME NEW i \in P!Slots, P!Look(i) \/ P!Halt(i) PROVE PoolInv'
  <2>1. /\ UNCHANGED <<mFreeThreadIndex, owner, slot, tHandler, ran, accepted>>
        /\ routine' \in [P!Slots -> {"look", "run", "empty", "free", "halt", "halted", "over"}]
        /\ \A k \in P!Slots \ {i} : routine'[k] = routine[k]
        /\ routine[i] \in {"look", "halt"}
        /\ routine'[i] \in {"over", "look", "halt", "halted"} \/ (routine'[i] = "run" /\ tHandler[i] # P!Null)
    <3>1. routine \in [P!Slots -> {"look", "run", "empty", "free", "halt", "halted", "over"}]
      BY DEF PoolInv, P!TypeOK
    <3>2. CASE P!Look(i)
      <4> DEFINE to == IF ~mIsRunning THEN "over" ELSE IF tHandler[i] # P!Null THEN "run" ELSE "halt"
      <4>1. /\ UNCHANGED <<mFreeThreadIndex, owner, slot, tHandler, ran, accepted>>
            /\ routine[i] = "look" /\ routine' = [routine EXCEPT ![i] = to]
        BY <3>2 DEF P!Look, P!Goes, P!Rest
      <4>2. to \in {"over", "halt"} \/ (to = "run" /\ tHandler[i] # P!Null)
        OBVIOUS
      <4> HIDE DEF to
      <4> QED
        BY <3>1, <4>1, <4>2
    <3>3. CASE P!Halt(i)
      <4> DEFINE to == IF windows THEN "halted" ELSE "look"
      <4>1. /\ UNCHANGED <<mFreeThreadIndex, owner, slot, tHandler, ran, accepted>>
            /\ routine[i] = "halt" /\ routine' = [routine EXCEPT ![i] = to]
        BY <3>3 DEF P!Halt, P!Goes, P!Rest
      <4>2. to \in {"halted", "look"}
        OBVIOUS
      <4> HIDE DEF to
      <4> QED
        BY <3>1, <4>1, <4>2
    <3> QED
      BY <1>5, <3>2, <3>3
  <2>2. P!TypeOK' /\ P!SlotsOwned' /\ JobInv' /\ StackInv'
    BY <2>1 DEF PoolInv, P!TypeOK, P!SlotsOwned, JobInv, StackInv
  <2>3. ASSUME NEW k \in P!Slots PROVE Kept(k)'
    <3>1. Kept(k) /\ (k # i => routine'[k] = routine[k])
      BY <2>1 DEF PoolInv
    <3>2. \A n \in 1..Len(mFreeThreadIndex) : mFreeThreadIndex[n] = k => tHandler[k] = P!Null
      BY <1>b
    <3> QED
      BY <1>b, <2>1, <3>1, <3>2 DEF Kept
  <2> QED
    BY <2>2, <2>3 DEF PoolInv
<1>6. ASSUME NEW i \in P!Slots, P!Run(i) PROVE PoolInv'
  <2>1. /\ UNCHANGED <<mFreeThreadIndex, owner, slot, tHandler, accepted>> /\ routine[i] = "run"
        /\ routine' = [routine EXCEPT ![i] = "empty"]
        /\ ran' = [ran EXCEPT ![tHandler[i]] = @ + 1]
    BY <1>6 DEF P!Run, P!Goes, P!Rest
  <2>2. /\ routine' \in [P!Slots -> {"look", "run", "empty", "free", "halt", "halted", "over"}]
        /\ \A k \in P!Slots \ {i} : routine'[k] = routine[k]
        /\ routine'[i] = "empty"
    BY <2>1 DEF PoolInv, P!TypeOK
  <2>3. tHandler[i] \in Jobs /\ tHandler[i] # P!Null /\ ran[tHandler[i]] = 0 /\ tHandler[i] \in accepted
    BY <2>1 DEF PoolInv, Kept, P!TypeOK
  <2>4. /\ ran' \in [Jobs -> Nat] /\ ran'[tHandler[i]] = 1
        /\ \A j \in Jobs \ {tHandler[i]} : ran'[j] = ran[j]
    BY <2>1, <2>3 DEF PoolInv, JobInv
  <2>5. P!TypeOK' /\ P!SlotsOwned' /\ JobInv' /\ StackInv'
    BY <2>1, <2>2, <2>3, <2>4 DEF PoolInv, P!TypeOK, P!SlotsOwned, JobInv, StackInv
  <2>6. ASSUME NEW k \in P!Slots PROVE Kept(k)'
    <3>1. CASE k = i
      BY <1>b, <2>1, <2>2, <2>3, <2>4, <3>1 DEF PoolInv, Kept
    <3>2. CASE k # i
      <4>1. Kept(k) /\ Kept(i) /\ routine'[k] = routine[k] /\ tHandler[k] \in Jobs \cup {P!Null}
        BY <2>2, <3>2 DEF PoolInv, P!TypeOK
      <4>2. tHandler[k] # P!Null => ran'[tHandler[k]] = ran[tHandler[k]]
        BY <2>3, <2>4, <3>2, <4>1 DEF Kept
      <4> QED
        BY <2>1, <4>1, <4>2 DEF Kept
    <3> QED
      BY <3>1, <3>2
  <2> QED
    BY <2>5, <2>6 DEF PoolInv
<1>7. ASSUME NEW i \in P!Slots, P!Empty(i) PROVE PoolInv'
  <2>1. /\ UNCHANGED <<mFreeThreadIndex, owner, slot, ran, accepted>> /\ routine[i] = "empty"
        /\ routine' = [routine EXCEPT ![i] = "free"]
        /\ tHandler' = [tHandler EXCEPT ![i] = P!Null]
    BY <1>7 DEF P!Empty, P!Goes, P!Rest
  <2>2. /\ routine' \in [P!Slots -> {"look", "run", "empty", "free", "halt", "halted", "over"}]
        /\ \A k \in P!Slots \ {i} : routine'[k] = routine[k] /\ tHandler'[k] = tHandler[k]
        /\ routine'[i] = "free" /\ tHandler'[i] = P!Null
        /\ tHandler' \in [P!Slots -> Jobs \cup {P!Null}]
    BY <2>1 DEF PoolInv, P!TypeOK
  <2>3. \A n \in 1..Len(mFreeThreadIndex) : mFreeThreadIndex[n] # i
    BY <1>b, <2>1 DEF PoolInv, Kept
  <2>4. P!TypeOK' /\ JobInv' /\ StackInv'
    BY <2>1, <2>2 DEF PoolInv, P!TypeOK, JobInv, StackInv
  <2>5. P!SlotsOwned'
    BY <2>1, <2>2 DEF PoolInv, P!SlotsOwned, P!TypeOK
  <2>6. ASSUME NEW k \in P!Slots PROVE Kept(k)'
    <3>1. CASE k = i
      BY <1>b, <2>1, <2>2, <2>3, <3>1 DEF Kept
    <3>2. CASE k # i
      BY <1>a, <2>1, <2>2, <3>2 DEF PoolInv, Kept
    <3> QED
      BY <3>1, <3>2
  <2> QED
    BY <2>4, <2>5, <2>6 DEF PoolInv
<1>8. CASE UNCHANGED P!vars
  BY <1>8 DEF P!vars, PoolInv, P!TypeOK, P!SlotsOwned, JobInv, StackInv, Kept
<1> QED
  BY <1>1, <1>2, <1>3, <1>4, <1>5, <1>6, <1>7, <1>8 DEF P!Next, P!Caller, P!Thread

\* A slot on the stack is there once and is empty, and no job is run twice (tpool).
THEOREM PoolKept == P!Spec => [](P!TypeOK /\ P!SlotsOwned)
<1>1. PoolInv => P!TypeOK /\ P!SlotsOwned
  BY DEF PoolInv
<1> QED
  BY <1>1, PoolInit, PoolNext, PTL DEF P!Spec

---------------------------------------------------------------------------------
\* The embedder processor.

AtEmbed == worker \in {"embedding", "embed finished", "embed drops"}
AtDestroy == worker \in {"destroying", "destroy finished", "destroy drops"}
\* From the end of the context to on_destroy()
Gone == mSignalState["destroy"] \/ worker \in {"destroy finished", "destroy drops"}

DataTypes ==
    /\ input \in [number : Nat, size : Nat] /\ mSequenceEmbeddingCursor \in Nat /\ embeddings \in Nat
    /\ written \in [of : Nat, index : Nat, current : Nat, size : Nat]
    /\ failed \in BOOLEAN /\ unread \in BOOLEAN

\* A worker does what was asked for, and what it is in the middle of is still asked for; update() is
\* in the middle of one thing only.
SignalInv ==
    /\ AtEmbed => mSignal["embed"] \/ eOwner = "abandon"
    /\ AtDestroy => mSignal["destroy"]
    /\ worker = "destroy drops" => mSignalState["destroy"]
    /\ eOwner = "destroyed" => mSignalState["destroy"] /\ ~mSignal["destroy"]
    /\ eOwner = "initialized" => ~mSignalState["destroy"] /\ ~mSignal["destroy"]
    /\ worker \in {"registered", "destroying", "embed finished", "embed drops"} => mIsRegistered
\* A context was made, or that it was not is remembered, until the processor is destroyed.
ContextInv ==
    /\ mIsRegistered => mModelContext
    /\ eOwner = "initialized" \/ worker \in {"init finished", "init drops"} =>
          mModelContext \/ mIsInitializeFailed
    /\ mSignalState["init"] /\ ~mSignalState["destroy"] /\ ~AtDestroy =>
          mModelContext \/ mIsInitializeFailed
\* A processor whose context is gone does not embed.
GoneInv ==
    /\ Gone => ~mIsRegistered /\ mFinishState = "FINISHED"
    /\ worker \in {"destroy finished", "destroy drops"} => ~mModelContext
    /\ worker \in {"running?", "running", "embedding"} /\ ~mIsRegistered => ~mModelContext
\* What next() may hand out was computed from the input executed last, and there is some left.
WriteInv ==
    /\ mSignal["embed"] \/ worker = "embedding" => mSequenceEmbeddingCursor = 0 /\ ~unread
    /\ mFinishState = "CONTINUE" /\ ~unread => mSequenceEmbeddingCursor < input.size
    /\ worker \in {"embed finished", "embed drops"} => failed \/ embeddings = input.number
    /\ ~mSignal["embed"] /\ eOwner # "abandon" /\ ~failed /\ mFinishState = "CONTINUE" =>
          embeddings = input.number
    /\ written.current <= input.number
    /\ written.index > 0 /\ written.current = input.number /\ ~failed /\ ~unread =>
          written.of = input.number /\ written.index <= written.size
EmbedderInv == B!TypeOK /\ DataTypes /\ SignalInv /\ ContextInv /\ GoneInv /\ WriteInv

\* A new processor satisfies the invariant.
LEMMA EmbedderInit == B!Init => EmbedderInv
<1> SUFFICES ASSUME B!Init PROVE EmbedderInv
  OBVIOUS
<1>1. MaxInputs \in Nat
  BY EmbedderAssumption DEF B!ConstantsFit
<1>2. B!TypeOK
  <2>1. mSignal \in [B!Signals -> BOOLEAN] /\ mSignalState \in [B!Signals -> BOOLEAN]
    BY DEF B!Init
  <2>2. input.number = 0 /\ 0 \in 0 .. MaxInputs
    BY <1>1 DEF B!Init
  <2> QED
    BY <2>1, <2>2 DEF B!Init, B!TypeOK
<1>3. DataTypes
  BY DEF B!Init, DataTypes, B!Nothing
<1> QED
  BY <1>2, <1>3 DEF B!Init, EmbedderInv, SignalInv, ContextInv, GoneInv, WriteInv, AtEmbed,
    AtDestroy, Gone,
     B!Nothing, B!Signals

\* Every step of the owner and of the worker keeps the invariant of the embedder.
LEMMA EmbedderNext == EmbedderInv /\ [B!Next]_(B!vars) => EmbedderInv'
<1> SUFFICES ASSUME EmbedderInv, [B!Next]_(B!vars) PROVE EmbedderInv'
  OBVIOUS
<1> USE DEF EmbedderInv, B!TypeOK, DataTypes, SignalInv, ContextInv, GoneInv, WriteInv, AtEmbed,
  AtDestroy,
        Gone, B!threadVars, B!flagVars, B!dataVars, B!historyVars
<1>a. Sizes \subseteq Nat \ {0} /\ MaxInputs \in Nat
  BY EmbedderAssumption DEF B!ConstantsFit
<1>b. /\ "init" \in B!Signals /\ "destroy" \in B!Signals /\ "embed" \in B!Signals
      /\ \A s \in B!Signals : s \in {"init", "destroy", "embed"}
  BY DEF B!Signals
<1>1. CASE B!Start
  <2>1. B!TypeOK' /\ DataTypes'
    BY <1>1 DEF B!Start
  <2>2. SignalInv' /\ ContextInv' /\ GoneInv'
    BY <1>1 DEF B!Start
  <2>3. WriteInv'
    BY <1>1 DEF B!Start
  <2> QED
    BY <2>1, <2>2, <2>3
<1>2. CASE B!Joined
  BY <1>2 DEF B!Joined
<1>3. CASE B!initialize
  BY <1>b, <1>3 DEF B!initialize, B!Raised
<1>4. CASE B!destroy
  BY <1>4 DEF B!destroy
<1>d. CASE B!DestroyGoesOn
  <2>1. B!TypeOK' /\ DataTypes'
    BY <1>d DEF B!DestroyGoesOn
  <2>2. SignalInv' /\ ContextInv' /\ GoneInv'
    BY <1>d DEF B!DestroyGoesOn
  <2>3. WriteInv'
    BY <1>d DEF B!DestroyGoesOn
  <2> QED
    BY <2>1, <2>2, <2>3
<1>5. CASE B!RaiseDestroy
  BY <1>b, <1>5 DEF B!RaiseDestroy, B!Raised
<1>6. CASE B!set_inference_client
  <2>1. B!TypeOK' /\ DataTypes'
    BY <1>6 DEF B!set_inference_client
  <2>2. SignalInv' /\ ContextInv' /\ GoneInv'
    BY <1>6 DEF B!set_inference_client
  <2>3. WriteInv'
    BY <1>6 DEF B!set_inference_client
  <2> QED
    BY <2>1, <2>2, <2>3
<1>7. CASE B!halt
  BY <1>7 DEF B!halt
<1>8. CASE B!resume
  BY <1>8 DEF B!resume
<1>c. ASSUME NEW n \in Sizes, B!Execute(n), eOwner \in {"idle", "abandon"},
             (eOwner = "idle" /\ ~mSignal["embed"]) \/ worker = "none"
      PROVE  EmbedderInv'
  <2>1. /\ input.number < MaxInputs /\ input' = [number |-> input.number + 1, size |-> n]
        /\ mSequenceEmbeddingCursor' = 0 /\ mSignal' = [mSignal EXCEPT !["embed"] = TRUE]
        /\ eOwner' = "start" /\ unread' = FALSE /\ failed' = FALSE
        /\ UNCHANGED <<mSignalState, worker, mIsRegistered, eIsRunning, mIsInitializeFailed,
                       mAssignedClient, mModelContext, mFinishState, embeddings, written>>
    BY <1>c DEF B!Execute, B!Raised
  <2>a. /\ input.number \in Nat /\ written.current \in Nat /\ written.current <= input.number
    OBVIOUS
  <2>2. /\ n \in Nat /\ n > 0 /\ input'.number \in 0 .. MaxInputs
        /\ input' \in [number : Nat, size : Nat] /\ input'.number = input.number + 1
        /\ input'.size = n
    <3>1. n \in Nat /\ n > 0 /\ MaxInputs \in Nat
      BY ONLY <1>a, n \in Sizes
    <3>2. input.number + 1 \in 0 .. MaxInputs /\ input.number + 1 \in Nat
      BY ONLY <2>1, <2>a, <3>1
    <3> QED
      BY ONLY <2>1, <3>1, <3>2
  <2>3. /\ mSignal' \in [B!Signals -> BOOLEAN] /\ mSignal'["embed"]
        /\ mSignal'["destroy"] = mSignal["destroy"] /\ mSignal'["init"] = mSignal["init"]
    BY <1>b, <2>1
  <2>4. worker \notin {"embedding", "embed finished", "embed drops"}
    BY <1>c
  <2>5. B!TypeOK' /\ DataTypes'
    BY <2>1, <2>2, <2>3
  <2>6. SignalInv' /\ ContextInv' /\ GoneInv'
    BY <1>c, <2>1, <2>3
  <2>7. WriteInv'
    <3>1. ~(written'.current = input'.number) /\ written'.current <= input'.number
      BY ONLY <2>1, <2>2, <2>a
    <3>2. mSequenceEmbeddingCursor' < input'.size
      BY ONLY <2>1, <2>2
    <3> QED
      BY ONLY <2>1, <2>3, <2>4, <3>1, <3>2 DEF WriteInv
  <2> QED
    BY <2>5, <2>6, <2>7
<1>9. ASSUME NEW n \in Sizes, B!execute_input(n) PROVE EmbedderInv'
  BY <1>9, <1>c DEF B!execute_input, B!is_available
<1>10. CASE B!Abandon
  BY <1>b, <1>10 DEF B!Abandon, B!Lowered
<1>11. ASSUME NEW n \in Sizes, B!ExecuteAbandoned(n) PROVE EmbedderInv'
  <2>1. eOwner = "abandon" /\ worker = "none" /\ B!Execute(n)
    BY <1>11 DEF B!ExecuteAbandoned
  <2> QED
    BY <1>c, <2>1
<1>12. CASE B!next
  <2>1. /\ eOwner = "idle" /\ mIsRegistered /\ ~mSignal["embed"] /\ mFinishState = "CONTINUE"
        /\ mSequenceEmbeddingCursor' = mSequenceEmbeddingCursor + 1
        /\ UNCHANGED <<mSignal, mSignalState, worker, eOwner, mIsRegistered, eIsRunning,
                       mIsInitializeFailed, mAssignedClient, mModelContext, input, embeddings,
                         failed>>
    BY <1>12 DEF B!next, B!Ready
  <2>2. CASE mAssignedClient
    <3>1. /\ mFinishState' = IF mSequenceEmbeddingCursor' = input.size THEN "FINISHED" ELSE mFinishState
          /\ written' = [of |-> embeddings, index |-> mSequenceEmbeddingCursor',
                         current |-> input.number, size |-> input.size]
          /\ unread' = unread
      BY <1>12, <2>2 DEF B!next, B!Finishes
    <3>2. /\ written' \in [of : Nat, index : Nat, current : Nat, size : Nat]
          /\ written'.of = embeddings /\ written'.index = mSequenceEmbeddingCursor + 1
          /\ written'.current = input.number /\ written'.size = input.size
      <4>1. /\ embeddings \in Nat /\ mSequenceEmbeddingCursor + 1 \in Nat /\ input.number \in Nat
            /\ input.size \in Nat
        BY ONLY DataTypes DEF DataTypes
      <4> QED
        BY ONLY <2>1, <3>1, <4>1
    <3>3. B!TypeOK' /\ DataTypes'
      BY <2>1, <3>1, <3>2
    <3>4. SignalInv' /\ ContextInv' /\ GoneInv'
      BY <2>1, <3>1
    <3>5. WriteInv'
      <4>1. /\ mSequenceEmbeddingCursor \in Nat /\ input.size \in Nat /\ input.number \in Nat
            /\ ~unread => mSequenceEmbeddingCursor < input.size
            /\ ~failed => embeddings = input.number
            /\ worker # "embedding" /\ worker # "embed finished" /\ worker # "embed drops"
        BY <2>1
      <4>a. mSequenceEmbeddingCursor \in Nat /\ input.size \in Nat /\ input.number \in Nat
        BY ONLY <4>1
      <4>b. ~unread => mSequenceEmbeddingCursor < input.size
        BY ONLY <4>1
      <4>2. ~unread => /\ mSequenceEmbeddingCursor + 1 <= input.size
                       /\ mSequenceEmbeddingCursor + 1 # input.size =>
                             mSequenceEmbeddingCursor + 1 < input.size
        BY ONLY <4>a, <4>b
      <4>3. input.number <= input.number
        BY ONLY <4>a
      <4>4. /\ mSequenceEmbeddingCursor' = mSequenceEmbeddingCursor + 1 /\ input' = input /\ unread' = unread
            /\ mFinishState' = "CONTINUE" => mSequenceEmbeddingCursor + 1 # input.size
        BY ONLY <2>1, <3>1
      <4>5. /\ mSignal'["embed"] \/ worker' = "embedding" => mSequenceEmbeddingCursor' = 0 /\ ~unread'
            /\ mFinishState' = "CONTINUE" /\ ~unread' => mSequenceEmbeddingCursor' < input'.size
        BY ONLY <2>1, <4>1, <4>2, <4>4
      <4> QED
        BY ONLY <2>1, <3>2, <4>1, <4>2, <4>3, <4>4, <4>5 DEF WriteInv
    <3> QED
      BY <3>3, <3>4, <3>5
  <2>3. CASE ~mAssignedClient
    <3>1. unread' = TRUE /\ UNCHANGED <<mFinishState, written>>
      BY <1>12, <2>3 DEF B!next
    <3>2. B!TypeOK' /\ DataTypes'
      <4>1. mSequenceEmbeddingCursor + 1 \in Nat
        BY ONLY DataTypes DEF DataTypes
      <4> QED
        BY <2>1, <3>1, <4>1
    <3>3. SignalInv' /\ ContextInv' /\ GoneInv'
      BY <2>1, <3>1
    <3>4. worker # "embedding"
      BY <2>1
    <3>5. WriteInv'
      BY <2>1, <3>1, <3>4
    <3> QED
      BY <3>2, <3>3, <3>5
  <2> QED
    BY <2>2, <2>3
<1>13. CASE B!SeeDestroyed
  BY <1>13 DEF B!SeeDestroyed, B!Updating
<1>14. CASE B!OnDestroy
  BY <1>b, <1>14 DEF B!OnDestroy, B!Lowered
<1>15. CASE B!SeeInitialized
  BY <1>b, <1>15 DEF B!SeeInitialized, B!Updating, B!Lowered
<1>16. CASE B!OnInitialize
  BY <1>16 DEF B!OnInitialize
<1>17. CASE B!OnBatchProcessed
  BY <1>b, <1>17 DEF B!OnBatchProcessed, B!Updating, B!Lowered
<1>18. CASE B!Begin \/ B!LookDestroy \/ B!LookRunning \/ B!LookEmbed \/ B!LookInitialize \/ B!Exit
  <2>1. CASE B!Begin
    <3>1. B!TypeOK' /\ DataTypes'
      BY <2>1 DEF B!Begin, B!Goes, B!Quiet, B!Same
    <3>2. SignalInv' /\ ContextInv' /\ GoneInv'
      BY <2>1 DEF B!Begin, B!Goes, B!Quiet, B!Same
    <3>3. WriteInv'
      BY <2>1 DEF B!Begin, B!Goes, B!Quiet, B!Same
    <3> QED
      BY <3>1, <3>2, <3>3
  <2>2. CASE B!LookDestroy
    BY <2>2 DEF B!LookDestroy, B!Goes, B!Quiet, B!Same
  <2>3. CASE B!LookRunning
    <3>1. B!TypeOK' /\ DataTypes'
      BY <2>3 DEF B!LookRunning, B!Goes, B!Quiet, B!Same
    <3>2. SignalInv' /\ ContextInv' /\ GoneInv'
      BY <2>3 DEF B!LookRunning, B!Goes, B!Quiet, B!Same
    <3>3. WriteInv'
      BY <2>3 DEF B!LookRunning, B!Goes, B!Quiet, B!Same
    <3> QED
      BY <3>1, <3>2, <3>3
  <2>4. CASE B!LookEmbed
    BY <2>4 DEF B!LookEmbed, B!Goes, B!Quiet, B!Same
  <2>5. CASE B!LookInitialize
    <3>1. B!TypeOK' /\ DataTypes'
      BY <2>5 DEF B!LookInitialize, B!Goes, B!Quiet, B!Same
    <3>2. SignalInv' /\ ContextInv' /\ GoneInv'
      BY <2>5 DEF B!LookInitialize, B!Goes, B!Quiet, B!Same
    <3>3. WriteInv'
      BY <2>5 DEF B!LookInitialize, B!Goes, B!Quiet, B!Same
    <3> QED
      BY <3>1, <3>2, <3>3
  <2>6. CASE B!Exit
    <3>1. B!TypeOK' /\ DataTypes'
      BY <2>6 DEF B!Exit, B!Goes
    <3>2. SignalInv' /\ ContextInv' /\ GoneInv'
      BY <2>6 DEF B!Exit, B!Goes
    <3>3. WriteInv'
      BY <2>6 DEF B!Exit, B!Goes
    <3> QED
      BY <3>1, <3>2, <3>3
  <2> QED
    BY <1>18, <2>1, <2>2, <2>3, <2>4, <2>5, <2>6
<1>19. CASE B!_destroy_context
  BY <1>19 DEF B!_destroy_context, B!Goes
<1>20. CASE B!_calculate_embeddings
  <2>1. B!TypeOK' /\ DataTypes'
    BY <1>20 DEF B!_calculate_embeddings, B!Goes, B!Quiet
  <2>2. SignalInv' /\ ContextInv' /\ GoneInv'
    BY <1>20 DEF B!_calculate_embeddings, B!Goes, B!Quiet
  <2>3. WriteInv'
    <3>1. /\ worker = "embedding" /\ worker' = "embed finished"
          /\ mFinishState' = IF input.size > 0 THEN "CONTINUE" ELSE mFinishState
          /\ failed' \/ (embeddings' = input.number /\ failed' = failed)
          /\ UNCHANGED <<mSignal, eOwner, mSequenceEmbeddingCursor, input, written, unread>>
      BY <1>20 DEF B!_calculate_embeddings, B!Goes, B!Quiet
    <3>2. /\ mSequenceEmbeddingCursor = 0 /\ ~unread /\ input.size \in Nat
          /\ mSignal["embed"] \/ eOwner = "abandon"
          /\ mFinishState = "CONTINUE" => mSequenceEmbeddingCursor < input.size
          /\ failed \in BOOLEAN /\ failed' \in BOOLEAN
      BY <2>1, <3>1
    <3>3. mFinishState' = "CONTINUE" => mSequenceEmbeddingCursor < input.size
      BY ONLY <3>1, <3>2
    <3>4. /\ written.current <= input.number
          /\ written.index > 0 /\ written.current = input.number /\ ~failed /\ ~unread =>
                written.of = input.number /\ written.index <= written.size
      OBVIOUS
    <3> QED
      BY ONLY <3>1, <3>2, <3>3, <3>4 DEF WriteInv
  <2> QED
    BY <2>1, <2>2, <2>3
<1>e. CASE B!EmbedNothing
  <2>1. B!TypeOK' /\ DataTypes'
    BY <1>e DEF B!EmbedNothing, B!Goes
  <2>2. SignalInv' /\ ContextInv' /\ GoneInv'
    BY <1>e DEF B!EmbedNothing, B!Goes
  <2>3. WriteInv'
    BY <1>e DEF B!EmbedNothing, B!Goes
  <2> QED
    BY <2>1, <2>2, <2>3
<1>21. CASE B!_initialize_context
  <2>1. B!TypeOK' /\ DataTypes'
    BY <1>21 DEF B!_initialize_context, B!Goes, B!Quiet
  <2>2. SignalInv' /\ ContextInv' /\ GoneInv'
    BY <1>21 DEF B!_initialize_context, B!Goes, B!Quiet
  <2>3. WriteInv'
    BY <1>21 DEF B!_initialize_context, B!Goes, B!Quiet
  <2> QED
    BY <2>1, <2>2, <2>3
<1>22. ASSUME NEW s \in B!Signals, B!Finished(s) PROVE EmbedderInv'
  <2>1. CASE s = "init"
    <3>1. B!TypeOK' /\ DataTypes'
      BY <1>b, <1>22, <2>1 DEF B!Finished, B!AtFinished, B!AtDrops, B!Goes, B!Quiet, B!Same
    <3>2. SignalInv' /\ ContextInv' /\ GoneInv'
      BY <1>b, <1>22, <2>1 DEF B!Finished, B!AtFinished, B!AtDrops, B!Goes, B!Quiet, B!Same
    <3>3. WriteInv'
      BY <1>b, <1>22, <2>1 DEF B!Finished, B!AtFinished, B!AtDrops, B!Goes, B!Quiet, B!Same
    <3> QED
      BY <3>1, <3>2, <3>3
  <2>2. CASE s = "destroy"
    BY <1>b, <1>22, <2>2 DEF B!Finished, B!AtFinished, B!AtDrops, B!Goes, B!Quiet, B!Same
  <2>3. CASE s = "embed"
    BY <1>b, <1>22, <2>3 DEF B!Finished, B!AtFinished, B!AtDrops, B!Goes, B!Quiet, B!Same
  <2> QED
    BY <1>b, <2>1, <2>2, <2>3
<1>23. ASSUME NEW s \in B!Signals, B!Dropped(s) PROVE EmbedderInv'
  <2>1. CASE s = "init"
    <3>1. B!TypeOK' /\ DataTypes'
      BY <1>b, <1>23, <2>1 DEF B!Dropped, B!AtDrops, B!Goes, B!Quiet, B!Same, B!Lowered
    <3>2. SignalInv' /\ ContextInv' /\ GoneInv'
      BY <1>b, <1>23, <2>1 DEF B!Dropped, B!AtDrops, B!Goes, B!Quiet, B!Same, B!Lowered
    <3>3. WriteInv'
      BY <1>b, <1>23, <2>1 DEF B!Dropped, B!AtDrops, B!Goes, B!Quiet, B!Same, B!Lowered
    <3> QED
      BY <3>1, <3>2, <3>3
  <2>2. CASE s = "destroy"
    BY <1>b, <1>23, <2>2 DEF B!Dropped, B!AtDrops, B!Goes, B!Quiet, B!Same, B!Lowered
  <2>3. CASE s = "embed"
    <3>1. B!TypeOK' /\ DataTypes'
      BY <1>b, <1>23, <2>3 DEF B!Dropped, B!AtDrops, B!Goes, B!Quiet, B!Same, B!Lowered
    <3>2. SignalInv' /\ ContextInv' /\ GoneInv'
      BY <1>b, <1>23, <2>3 DEF B!Dropped, B!AtDrops, B!Goes, B!Quiet, B!Same, B!Lowered
    <3>3. WriteInv'
      BY <1>b, <1>23, <2>3 DEF B!Dropped, B!AtDrops, B!Goes, B!Quiet, B!Same, B!Lowered
    <3> QED
      BY <3>1, <3>2, <3>3
  <2> QED
    BY <1>b, <2>1, <2>2, <2>3
<1>24. CASE UNCHANGED B!vars
  <2>1. UNCHANGED <<mSignal, mSignalState, worker, eOwner, mIsRegistered, eIsRunning,
                    mIsInitializeFailed, mAssignedClient, mModelContext, mFinishState,
                    mSequenceEmbeddingCursor, input, embeddings, failed, written, unread>>
    BY <1>24 DEF B!vars
  <2>2. B!TypeOK' /\ DataTypes'
    BY <2>1
  <2>3. SignalInv' /\ ContextInv' /\ GoneInv'
    BY <2>1
  <2>4. WriteInv'
    BY <2>1
  <2> QED
    BY <2>2, <2>3, <2>4
<1> QED
  BY <1>1, <1>2, <1>3, <1>4, <1>5, <1>6, <1>7, <1>8, <1>9, <1>10, <1>11, <1>12, <1>13, <1>14, <1>15,
     <1>16, <1>17, <1>18, <1>19, <1>20, <1>21, <1>22, <1>23, <1>24, <1>d, <1>e DEF B!Next, B!update_t,
       B!update, B!Goes_on

\* An embedding is written for the input it was computed from, by a processor that has a context.
THEOREM EmbedderKept == B!Spec => [](B!TypeOK /\ B!WrittenIsCurrent /\ B!RegisteredHasContext)
<1>1. EmbedderInv => B!TypeOK /\ B!WrittenIsCurrent /\ B!RegisteredHasContext
  BY DEF EmbedderInv, WriteInv, ContextInv, B!WrittenIsCurrent, B!RegisteredHasContext
<1> QED
  BY <1>1, EmbedderInit, EmbedderNext, PTL DEF B!Spec

---------------------------------------------------------------------------------
\* Whatever timers, jobs and inputs there are, and with slots of any number, the timers in the list are
\* those that believe so, no slot holds two jobs or runs one twice, and an embedding is written for the
\* input it was computed from.
THEOREM WorkIsKept == Spec /\ P!Spec /\ B!Spec => []WorkKept
<1>1. Spec => [](TypeOK /\ ListMatches /\ DeltaOnce)
  BY TimersKept
<1>2. P!Spec => [](P!TypeOK /\ P!SlotsOwned)
  BY PoolKept
<1>3. B!Spec => [](B!TypeOK /\ B!WrittenIsCurrent /\ B!RegisteredHasContext)
  BY EmbedderKept
<1>4. ASSUME TypeOK, ListMatches, DeltaOnce, P!TypeOK, P!SlotsOwned,
             B!TypeOK, B!WrittenIsCurrent, B!RegisteredHasContext
      PROVE  WorkKept
  BY <1>4 DEF WorkKept
<1> QED
  BY <1>1, <1>2, <1>3, <1>4, PTL
==================================================================================
