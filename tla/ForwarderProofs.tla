-------------------------- MODULE ForwarderProofs ---------------------------
(***************************************************************************)
(* The SRTT cache behind the failover breaker, for every pool, every number *)
(* of calls and every setting of the constants that SrttConstants allows:   *)
(* it stays within its capacity, and a breaker that has tripped lets go     *)
(* after one decay period.  The inductive invariant SrttOK bounds the       *)
(* stored times by the failure penalty and dates them in the past; that     *)
(* bound is why one halving brings any of them under the skip threshold.    *)
(*                                                                          *)
(* Then the calls: failover is complete, and a transport is not re-armed by *)
(* its sibling.  The inductive invariant ForwardInv says that the upstreams *)
(* a call has still to ask, those that failed it and those it skips are     *)
(* together its pool; sorting by SRTT must then lose nobody (SortedOK).     *)
(***************************************************************************)
EXTENDS Forwarder, FiniteSetTheorems, FunctionTheorems, TLAPS

SrttEntry(n) == [srtt_ms : 0..FAILURE_PENALTY_MS, updated_at : 0..n]

EntriesOK(s, n) == \A k \in DOMAIN s : s[k] \in SrttEntry(n)

SizeOK(s, m) == IsFiniteSet(DOMAIN s) /\ Cardinality(DOMAIN s) <= m

SrttOK == now \in Nat /\ EntriesOK(srtt, now) /\ SizeOK(srtt, MAX_ENTRIES)

-----------------------------------------------------------------------------
(* One halving takes any recorded time below the skip threshold. *)
LEMMA HalfBound ==
  ASSUME NEW ms \in 0..FAILURE_PENALTY_MS
  PROVE  Half(ms) \in 0..FAILURE_PENALTY_MS /\ Half(ms) < PRIMARY_SKIP_SRTT_MS
<1>1. ms + INITIAL_SRTT_MS \in Nat /\ ms + INITIAL_SRTT_MS < 2 * PRIMARY_SKIP_SRTT_MS
  BY SrttConstants
<1> DEFINE x == ms + INITIAL_SRTT_MS
<1>2. x \in Nat /\ x < 2 * PRIMARY_SKIP_SRTT_MS
  BY <1>1
<1> HIDE DEF x
<1>3. x \div 2 \in Nat /\ x \div 2 < PRIMARY_SKIP_SRTT_MS
  BY <1>2, SrttConstants
<1> QED BY <1>3, SrttConstants DEF Half, x

(* So do up to eight of them. *)
LEMMA HalvedBound ==
  ASSUME NEW ms \in 0..FAILURE_PENALTY_MS, NEW n \in 1..8
  PROVE  Halved(ms, n) \in 0..FAILURE_PENALTY_MS /\ Halved(ms, n) < PRIMARY_SKIP_SRTT_MS
<1> DEFINE Low(x) == x \in 0..FAILURE_PENALTY_MS /\ x < PRIMARY_SKIP_SRTT_MS
           h1 == Half(ms)  h2 == Half(h1)  h3 == Half(h2)  h4 == Half(h3)
           h5 == Half(h4)  h6 == Half(h5)  h7 == Half(h6)  h8 == Half(h7)
<1>0. Halved(ms, n) = <<h1, h2, h3, h4, h5, h6, h7, h8>>[n]
  BY DEF Halved
<1> HIDE DEF h1, h2, h3, h4, h5, h6, h7, h8
<1>1. Low(h1) BY HalfBound DEF h1
<1>2. Low(h2) BY <1>1, HalfBound DEF h2
<1>3. Low(h3) BY <1>2, HalfBound DEF h3
<1>4. Low(h4) BY <1>3, HalfBound DEF h4
<1>5. Low(h5) BY <1>4, HalfBound DEF h5
<1>6. Low(h6) BY <1>5, HalfBound DEF h6
<1>7. Low(h7) BY <1>6, HalfBound DEF h7
<1>8. Low(h8) BY <1>7, HalfBound DEF h8
<1>9. Halved(ms, n) \in {h1, h2, h3, h4, h5, h6, h7, h8}
  BY <1>0
<1> QED BY <1>1, <1>2, <1>3, <1>4, <1>5, <1>6, <1>7, <1>8, <1>9

(* A decayed time stays in range, and is low after one period. *)
LEMMA DecayBound ==
  ASSUME NEW ms \in 0..FAILURE_PENALTY_MS, NEW age \in Nat
  PROVE  /\ decay_for_age(ms, age) \in 0..FAILURE_PENALTY_MS
         /\ age > DECAY_AFTER_SECS => decay_for_age(ms, age) < PRIMARY_SKIP_SRTT_MS
<1>1. CASE age > DECAY_AFTER_SECS
  <2>1. age \div DECAY_AFTER_SECS \in Nat /\ age \div DECAY_AFTER_SECS >= 1
    BY <1>1, SrttConstants, Z3
  <2>2. Periods(age) \in 1..8
    BY <2>1 DEF Periods
  <2> QED BY <1>1, <2>2, HalvedBound DEF decay_for_age
<1>2. CASE ~(age > DECAY_AFTER_SECS)
  BY <1>2 DEF decay_for_age
<1> QED BY <1>1, <1>2

(* The current SRTT of a key is in range. *)
LEMMA GetBound ==
  ASSUME NEW n \in Nat, NEW s, EntriesOK(s, n), NEW k
  PROVE  get(s, k, n) \in 0..FAILURE_PENALTY_MS
<1>1. CASE k \in DOMAIN s
  <2>1. s[k].srtt_ms \in 0..FAILURE_PENALTY_MS /\ s[k].updated_at \in 0..n
    BY <1>1 DEF EntriesOK, SrttEntry
  <2>2. n - s[k].updated_at \in Nat
    BY <2>1
  <2> QED BY <1>1, <2>1, <2>2, DecayBound DEF get
<1>2. CASE k \notin DOMAIN s
  BY <1>2, SrttConstants DEF get
<1> QED BY <1>1, <1>2

-----------------------------------------------------------------------------
(* maybe_evict leaves room for one more entry and changes none it keeps. *)
LEMMA EvictMakesRoom ==
  ASSUME NEW n \in Nat, NEW s, EntriesOK(s, n), SizeOK(s, MAX_ENTRIES),
         NEW e \in maybe_evict(s)
  PROVE  EntriesOK(e, n) /\ SizeOK(e, MAX_ENTRIES - 1)
<1>0. Cardinality(DOMAIN s) \in Nat
  BY FS_CardinalityType DEF SizeOK
<1>1. CASE Cardinality(DOMAIN s) < MAX_ENTRIES
  <2>1. e = s
    BY <1>1 DEF maybe_evict
  <2> QED BY <1>0, <1>1, <2>1, SrttConstants DEF SizeOK
<1>2. CASE ~(Cardinality(DOMAIN s) < MAX_ENTRIES)
  <2>1. PICK old \in SUBSET DOMAIN s :
               Cardinality(old) = EVICT_BATCH /\ e = [k \in DOMAIN s \ old |-> s[k]]
    BY <1>2 DEF maybe_evict
  <2>2. IsFiniteSet(old) /\ IsFiniteSet(DOMAIN s \ old)
    BY <2>1, FS_Subset DEF SizeOK
  <2>3. Cardinality(DOMAIN s \ old) = Cardinality(DOMAIN s) - Cardinality(DOMAIN s \cap old)
    BY <2>2, FS_Difference DEF SizeOK
  <2>4. DOMAIN s \cap old = old
    BY <2>1
  <2>5. DOMAIN e = DOMAIN s \ old /\ \A k \in DOMAIN e : e[k] = s[k]
    BY <2>1
  <2>6. Cardinality(DOMAIN e) = Cardinality(DOMAIN s) - EVICT_BATCH
    BY <2>1, <2>3, <2>4, <2>5
  <2>7. EVICT_BATCH \in Nat /\ EVICT_BATCH >= 1 /\ MAX_ENTRIES \in Nat
    BY SrttConstants
  <2>8. Cardinality(DOMAIN s) <= MAX_ENTRIES
    BY DEF SizeOK
  <2>9. Cardinality(DOMAIN e) <= MAX_ENTRIES - 1
    BY <1>0, <2>6, <2>7, <2>8
  <2> QED BY <2>2, <2>5, <2>9 DEF SizeOK, EntriesOK
<1> QED BY <1>1, <1>2

(* Storing one entry keeps a map with room within capacity. *)
LEMMA SetOK ==
  ASSUME NEW n \in Nat, NEW s, EntriesOK(s, n), SizeOK(s, MAX_ENTRIES - 1),
         NEW k, NEW ms \in 0..FAILURE_PENALTY_MS
  PROVE  EntriesOK(Set(s, k, ms, n), n) /\ SizeOK(Set(s, k, ms, n), MAX_ENTRIES)
<1> DEFINE d == Set(s, k, ms, n)
<1>1. DOMAIN d = DOMAIN s \cup {k}
  BY DEF Set
<1>2. EntriesOK(d, n)
  BY DEF Set, EntriesOK, SrttEntry
<1>3. /\ IsFiniteSet(DOMAIN s \cup {k})
      /\ Cardinality(DOMAIN s \cup {k}) <= Cardinality(DOMAIN s) + 1
      /\ Cardinality(DOMAIN s) \in Nat /\ Cardinality(DOMAIN s \cup {k}) \in Nat
  <2>1. IsFiniteSet(DOMAIN s) /\ Cardinality(DOMAIN s) \in Nat
    BY FS_CardinalityType DEF SizeOK
  <2>2. CASE k \in DOMAIN s
    <3>1. DOMAIN s \cup {k} = DOMAIN s
      BY <2>2
    <3> QED BY <2>1, <3>1
  <2>3. CASE k \notin DOMAIN s
    <3>1. /\ IsFiniteSet(DOMAIN s \cup {k})
          /\ Cardinality(DOMAIN s \cup {k}) = Cardinality(DOMAIN s) + 1
      BY <2>1, <2>3, FS_AddElement
    <3> QED BY <2>1, <3>1
  <2> QED BY <2>2, <2>3
<1>4. SizeOK(d, MAX_ENTRIES)
  BY <1>1, <1>3, SrttConstants DEF SizeOK
<1> QED BY <1>2, <1>4

(* The two operations that write the SRTT cache. *)
LEMMA RecordOK ==
  ASSUME NEW n \in Nat, NEW s, EntriesOK(s, n), SizeOK(s, MAX_ENTRIES), NEW k,
         NEW rtt \in 0..FAILURE_PENALTY_MS,
         NEW r \in record_rtt(s, k, rtt, n) \cup record_failure(s, k, n)
  PROVE  EntriesOK(r, n) /\ SizeOK(r, MAX_ENTRIES)
<1>1. CASE r = s
  BY <1>1
<1>2. CASE \E e \in maybe_evict(s), ms \in 0..FAILURE_PENALTY_MS : r = Set(e, k, ms, n)
  <2>1. PICK e \in maybe_evict(s), ms \in 0..FAILURE_PENALTY_MS : r = Set(e, k, ms, n)
    BY <1>2
  <2>2. EntriesOK(e, n) /\ SizeOK(e, MAX_ENTRIES - 1)
    BY EvictMakesRoom
  <2> QED BY <2>1, <2>2, SetOK
<1>3. CASE SrttEnabled /\ r \in record_failure(s, k, n)
  <2>1. FAILURE_PENALTY_MS \in 0..FAILURE_PENALTY_MS
    BY SrttConstants
  <2>2. \E e \in maybe_evict(s) : r = Set(e, k, FAILURE_PENALTY_MS, n)
    BY <1>3 DEF record_failure
  <2> QED BY <1>2, <2>1, <2>2
<1>4. CASE SrttEnabled /\ r \in record_rtt(s, k, rtt, n)
  <2> DEFINE Mean(e) == IF k \in DOMAIN e THEN (get(e, k, n) * 7 + rtt) \div 8 ELSE rtt
  <2>1. PICK e \in maybe_evict(s) : r = Set(e, k, Mean(e), n)
    BY <1>4 DEF record_rtt
  <2>2. get(e, k, n) \in 0..FAILURE_PENALTY_MS
    BY EvictMakesRoom, GetBound
  <2>3. Mean(e) \in 0..FAILURE_PENALTY_MS
    BY <2>2, SrttConstants
  <2> QED BY <1>2, <2>1, <2>3
<1>5. r = s \/ (SrttEnabled /\ r \in record_failure(s, k, n)) \/ (SrttEnabled /\ r \in record_rtt(s, k, rtt, n))
  BY DEF record_rtt, record_failure
<1> QED BY <1>1, <1>3, <1>4, <1>5

-----------------------------------------------------------------------------
LEMMA SrttOKInit == Init => SrttOK
<1> SUFFICES ASSUME Init PROVE SrttOK
  OBVIOUS
<1>1. now = 0 /\ DOMAIN srtt = {}
  BY DEF Init, NoSrtt
<1> QED BY <1>1, FS_EmptySet, SrttConstants DEF SrttOK, EntriesOK, SizeOK

(* Only answers and failures write the SRTT cache, and the clock only ages
   its entries. *)
LEMMA SrttOKStep == SrttOK /\ [Next]_vars => SrttOK'
<1> SUFFICES ASSUME SrttOK, [Next]_vars PROVE SrttOK'
  OBVIOUS
<1>1. ASSUME now' = now, srtt' = srtt PROVE SrttOK'
  BY <1>1 DEF SrttOK, EntriesOK, SizeOK, SrttEntry
<1>2. ASSUME NEW t \in Tasks, NEW leg \in 1..2, NEW rtt \in Rtts, Answer(t, leg, rtt)
      PROVE  SrttOK'
  <2>1. CASE srtt' = srtt
    BY <1>1, <1>2, <2>1 DEF Answer
  <2>2. CASE \E k : srtt' \in record_rtt(srtt, k, rtt, now)
    <3>1. EntriesOK(srtt', now) /\ SizeOK(srtt', MAX_ENTRIES)
      BY <2>2, RecordOK, ForwarderConstants DEF SrttOK
    <3> QED BY <1>2, <3>1 DEF SrttOK, Answer, EntriesOK, SizeOK, SrttEntry
  <2> QED BY <1>2, <2>1, <2>2 DEF Answer
<1>3. ASSUME NEW t \in Tasks, NEW leg \in 1..2, Fail(t, leg) PROVE SrttOK'
  <2>1. CASE srtt' = srtt
    BY <1>1, <1>3, <2>1 DEF Fail
  <2>2. CASE \E k : srtt' \in record_failure(srtt, k, now)
    <3>0. 0 \in 0..FAILURE_PENALTY_MS
      BY SrttConstants
    <3>1. EntriesOK(srtt', now) /\ SizeOK(srtt', MAX_ENTRIES)
      BY <2>2, <3>0, RecordOK DEF SrttOK
    <3> QED BY <1>3, <3>1 DEF SrttOK, Fail, EntriesOK, SizeOK, SrttEntry
  <2> QED BY <1>3, <2>1, <2>2 DEF Fail
<1>4. CASE Tick
  <2>1. srtt' = srtt /\ now' = now + 1
    BY <1>4 DEF Tick
  <2> QED BY <2>1 DEF SrttOK, EntriesOK, SizeOK, SrttEntry
<1>5. CASE \E t \in Tasks : Start(t) \/ HedgeDelay(t) \/ Cancel(t) \/ Return(t)
  BY <1>1, <1>5 DEF Start, HedgeDelay, Cancel, Return
<1>6. CASE \E a \in Addrs : UpdatePrimary(a)
  BY <1>1, <1>6 DEF UpdatePrimary
<1>7. CASE UNCHANGED vars
  BY <1>1, <1>7 DEF vars
<1> QED BY <1>2, <1>3, <1>4, <1>5, <1>6, <1>7 DEF Next

LEMMA SrttOKHolds == Spec => []SrttOK
  BY SrttOKInit, SrttOKStep, PTL DEF Spec

(* The SRTT cache never outgrows its capacity. *)
THEOREM SrttBoundedThm == Spec => []SrttBounded
<1>1. SrttOK => SrttBounded
  BY DEF SrttOK, SizeOK, SrttBounded
<1> QED BY <1>1, SrttOKHolds, PTL

(* A tripped upstream is eligible again once a decay period has passed since
   its last recorded outcome. *)
THEOREM BreakerUntripsThm == Spec => []BreakerUntrips
<1>1. SrttOK => BreakerUntrips
  <2> SUFFICES ASSUME SrttOK, NEW k \in DOMAIN srtt,
                      get(srtt, k, now) >= PRIMARY_SKIP_SRTT_MS
               PROVE  now - srtt[k].updated_at <= DECAY_AFTER_SECS
    BY DEF BreakerUntrips
  <2> DEFINE age == now - srtt[k].updated_at
  <2>1. srtt[k].srtt_ms \in 0..FAILURE_PENALTY_MS /\ srtt[k].updated_at \in 0..now /\ now \in Nat
    BY DEF SrttOK, EntriesOK, SrttEntry
  <2>2. age \in Nat
    BY <2>1
  <2>3. decay_for_age(srtt[k].srtt_ms, age) >= PRIMARY_SKIP_SRTT_MS
    BY DEF get
  <2> HIDE DEF age
  <2>4. /\ decay_for_age(srtt[k].srtt_ms, age) \in 0..FAILURE_PENALTY_MS
        /\ age > DECAY_AFTER_SECS => decay_for_age(srtt[k].srtt_ms, age) < PRIMARY_SKIP_SRTT_MS
    BY <2>1, <2>2, DecayBound
  <2>5. ~(age > DECAY_AFTER_SECS)
    BY <2>3, <2>4, SrttConstants
  <2> QED BY <2>2, <2>5, SrttConstants DEF age
<1> QED BY <1>1, SrttOKHolds, PTL

-----------------------------------------------------------------------------
(* Sorting loses no position and invents none: as different positions have
   different numbers of others before them, the numbers 0 .. n-1 are all
   taken. *)
LEMMA SortedOK ==
  ASSUME NEW S \in SUBSET Nat, IsFiniteSet(S), NEW rank \in [S -> Nat]
  PROVE  /\ sort_by_key(rank) \in Seq(S)
         /\ Len(sort_by_key(rank)) = Cardinality(S)
         /\ \A i \in S : \E k \in 1..Cardinality(S) : sort_by_key(rank)[k] = i
<1> DEFINE Before(i) == {j \in S : rank[j] < rank[i] \/ (rank[j] = rank[i] /\ j < i)}
           n == Cardinality(S)
           pos == [i \in S |-> Cardinality(Before(i)) + 1]
<1>0. n \in Nat
  BY FS_CardinalityType
<1>1. sort_by_key(rank) = [k \in 1..n |-> CHOOSE i \in S : Cardinality(Before(i)) = k - 1]
  BY DEF sort_by_key
<1>2. \A i \in S : IsFiniteSet(Before(i)) /\ Cardinality(Before(i)) \in 0..(n - 1)
  <2> TAKE i \in S
  <2>1. Before(i) \in SUBSET (S \ {i})
    OBVIOUS
  <2>2. IsFiniteSet(S \ {i}) /\ Cardinality(S \ {i}) = n - 1
    BY FS_RemoveElement
  <2> HIDE DEF Before, n
  <2>3. IsFiniteSet(Before(i)) /\ Cardinality(Before(i)) <= n - 1
    BY <2>1, <2>2, FS_Subset
  <2> QED BY <1>0, <2>3, FS_CardinalityType
<1>3. ASSUME NEW i \in S, NEW j \in S, i \in Before(j)
      PROVE  Cardinality(Before(i)) < Cardinality(Before(j))
  <2>1. rank[i] \in Nat /\ rank[j] \in Nat /\ i \in Nat /\ j \in Nat
    OBVIOUS
  <2>2. Before(i) \in SUBSET (Before(j) \ {i})
    <3> SUFFICES ASSUME NEW k \in Before(i) PROVE k \in Before(j) /\ k # i
      OBVIOUS
    <3>1. k \in S /\ rank[k] \in Nat /\ k \in Nat
      OBVIOUS
    <3> QED BY <1>3, <2>1, <3>1
  <2> HIDE DEF Before, n
  <2>3. /\ IsFiniteSet(Before(j) \ {i})
        /\ Cardinality(Before(j) \ {i}) = Cardinality(Before(j)) - 1
    BY <1>2, <1>3, FS_RemoveElement
  <2>4. Cardinality(Before(i)) <= Cardinality(Before(j)) - 1
    BY <2>2, <2>3, FS_Subset
  <2> QED BY <1>0, <1>2, <2>4
<1>4. ASSUME NEW i \in S, NEW j \in S, i # j
      PROVE  Cardinality(Before(i)) # Cardinality(Before(j))
  <2>1. rank[i] \in Nat /\ rank[j] \in Nat /\ i \in Nat /\ j \in Nat
    OBVIOUS
  <2>2. i \in Before(j) \/ j \in Before(i)
    BY <1>4, <2>1
  <2> HIDE DEF Before, n
  <2> QED BY <1>0, <1>2, <1>3, <2>2
<1> HIDE DEF Before
<1>5. pos \in [S -> 1..n]
  <2> HIDE DEF n
  <2> QED BY <1>0, <1>2
<1>6. \A i, j \in S : pos[i] = pos[j] => i = j
  <2> HIDE DEF n
  <2> QED BY <1>0, <1>2, <1>4
<1> HIDE DEF pos
<1>7. pos \in Injection(S, 1..n)
  BY <1>5, <1>6, Fun_IsInj
<1>8. IsFiniteSet(1..n) /\ Cardinality(1..n) = n
  BY <1>0, FS_Interval
<1>9. pos \in Surjection(S, 1..n)
  BY <1>7, <1>8, FS_Injection
<1>10. \A k \in 1..n : \E i \in S : pos[i] = k
  BY <1>9, Fun_SurjectionProperties
<1>11. \A k \in 1..n : \E i \in S : Cardinality(Before(i)) = k - 1
  <2> TAKE k \in 1..n
  <2>1. PICK i \in S : pos[i] = k
    BY <1>10
  <2>2. Cardinality(Before(i)) + 1 = k
    BY <2>1 DEF pos
  <2>3. Cardinality(Before(i)) \in Int
    BY <1>2
  <2>4. Cardinality(Before(i)) = k - 1
    BY <2>2, <2>3
  <2> QED BY <2>4
<1> DEFINE order == sort_by_key(rank)
<1>12. \A k \in 1..n : order[k] \in S /\ Cardinality(Before(order[k])) = k - 1
  <2> TAKE k \in 1..n
  <2>1. order[k] = CHOOSE i \in S : Cardinality(Before(i)) = k - 1
    BY <1>1
  <2> QED BY <1>11, <2>1
<1>13. order \in [1..n -> S]
  BY <1>1, <1>12
<1> HIDE DEF order, n
<1>14. order \in Seq(S) /\ Len(order) = n
  BY <1>0, <1>13
<1>15. \A i \in S : \E k \in 1..n : order[k] = i
  <2> TAKE i \in S
  <2>1. pos[i] \in 1..n /\ pos[i] = Cardinality(Before(i)) + 1
    BY <1>5 DEF pos
  <2>2. order[pos[i]] \in S /\ Cardinality(Before(order[pos[i]])) = Cardinality(Before(i))
    BY <1>0, <1>2, <1>12, <2>1
  <2>3. order[pos[i]] = i
    BY <1>4, <2>2
  <2> QED BY <2>1, <2>3
<1> QED BY <1>14, <1>15 DEF order, n

(* Members of a list picked by position. *)
LEMMA PickedOK ==
  ASSUME NEW T, NEW s \in Seq(T), NEW S \in SUBSET DOMAIN s, NEW rank \in [S -> Nat]
  PROVE  LET order == sort_by_key(rank)
             picked == [k \in DOMAIN order |-> s[order[k]]]
         IN picked \in Seq(T) /\ ToSet(picked) = {s[i] : i \in S}
<1> DEFINE order == sort_by_key(rank)
           n == Cardinality(S)
           picked == [k \in DOMAIN order |-> s[order[k]]]
<1>1. DOMAIN s = 1..Len(s) /\ Len(s) \in Nat /\ s \in [DOMAIN s -> T]
  OBVIOUS
<1>2. IsFiniteSet(DOMAIN s)
  <2> DEFINE m == Len(s)
  <2>0. m \in Nat
    BY <1>1
  <2> HIDE DEF m
  <2>1. IsFiniteSet(1..m)
    BY <2>0, FS_Interval
  <2> QED BY <1>1, <2>1 DEF m
<1>3. IsFiniteSet(S) /\ S \in SUBSET Nat /\ n \in Nat
  BY <1>1, <1>2, FS_Subset, FS_CardinalityType
<1>4. order \in Seq(S) /\ Len(order) = n /\ \A i \in S : \E k \in 1..n : order[k] = i
  BY <1>3, SortedOK
<1> HIDE DEF order, n
<1>5. DOMAIN order = 1..n /\ \A k \in 1..n : order[k] \in S
  BY <1>3, <1>4
<1>6. picked \in [1..n -> T]
  BY <1>1, <1>5
<1>7. picked \in Seq(T)
  BY <1>3, <1>6
<1>8. ToSet(picked) = {s[i] : i \in S}
  <2>1. DOMAIN picked = 1..n /\ \A k \in 1..n : picked[k] = s[order[k]]
    BY <1>5
  <2> HIDE DEF picked
  <2>2. ToSet(picked) = {picked[k] : k \in 1..n}
    BY <2>1 DEF ToSet
  <2>3. ASSUME NEW x \in ToSet(picked) PROVE x \in {s[i] : i \in S}
    BY <1>5, <2>1, <2>2
  <2>4. ASSUME NEW i \in S PROVE s[i] \in ToSet(picked)
    <3>1. PICK k \in 1..n : order[k] = i
      BY <1>4
    <3>2. picked[k] = s[i]
      BY <2>1, <3>1
    <3> QED BY <2>2, <3>2
  <2> QED BY <2>3, <2>4
<1> QED BY <1>7, <1>8 DEF order, picked

(* What two lists hold together. *)
LEMMA JoinedOK ==
  ASSUME NEW T, NEW s \in Seq(T), NEW r \in Seq(T)
  PROVE  s \o r \in Seq(T) /\ ToSet(s \o r) = ToSet(s) \cup ToSet(r)
<1>1. s \o r \in Seq(T) /\ Len(s \o r) = Len(s) + Len(r)
  OBVIOUS
<1>2. Len(s) \in Nat /\ Len(r) \in Nat
  OBVIOUS
<1>3. /\ DOMAIN s = 1..Len(s) /\ DOMAIN r = 1..Len(r)
      /\ DOMAIN (s \o r) = 1..(Len(s) + Len(r))
  BY <1>1
<1>4. \A i \in 1..Len(s) : (s \o r)[i] = s[i]
  OBVIOUS
<1>5. \A i \in 1..Len(r) : (s \o r)[Len(s) + i] = r[i]
  OBVIOUS
<1>6. ASSUME NEW x \in ToSet(s) \cup ToSet(r) PROVE x \in ToSet(s \o r)
  <2>1. CASE x \in ToSet(s)
    BY <1>2, <1>3, <1>4, <2>1 DEF ToSet
  <2>2. CASE x \in ToSet(r)
    <3>1. PICK i \in 1..Len(r) : x = r[i]
      BY <1>3, <2>2 DEF ToSet
    <3>2. Len(s) + i \in DOMAIN (s \o r)
      BY <1>2, <1>3
    <3>3. x = (s \o r)[Len(s) + i]
      BY <1>5, <3>1
    <3> QED BY <3>2, <3>3 DEF ToSet
  <2> QED BY <1>6, <2>1, <2>2
<1>7. ASSUME NEW x \in ToSet(s \o r) PROVE x \in ToSet(s) \cup ToSet(r)
  <2>1. PICK i \in 1..(Len(s) + Len(r)) : x = (s \o r)[i]
    BY <1>3 DEF ToSet
  <2>2. CASE i <= Len(s)
    BY <1>2, <1>3, <1>4, <2>1, <2>2 DEF ToSet
  <2>3. CASE ~(i <= Len(s))
    <3>1. i - Len(s) \in 1..Len(r) /\ Len(s) + (i - Len(s)) = i
      BY <1>2, <2>1, <2>3
    <3>2. x = r[i - Len(s)]
      BY <1>5, <2>1, <3>1
    <3> QED BY <1>3, <3>1, <3>2 DEF ToSet
  <2> QED BY <2>2, <2>3
<1> QED BY <1>1, <1>6, <1>7

(* An upstream's rank is a number. *)
LEMMA RankType ==
  ASSUME NEW u, NEW n \in Nat, NEW s, EntriesOK(s, n)
  PROVE  RankOf(u, s, n) \in Nat
<1>1. get(s, CHOOSE k \in tracked_key(u) : TRUE, n) \in 0..FAILURE_PENALTY_MS
  BY GetBound
<1> QED BY <1>1, SrttConstants DEF RankOf

Pools == [primary : Seq(Upstream), fallback : Seq(Upstream)]

(* The list of a call: every fallback and, when there are none, every primary;
   nobody else than the pool's upstreams; and not empty if there is a primary
   at all. *)
LEMMA AllUpstreamsOK ==
  ASSUME NEW p \in Pools, NEW n \in Nat, NEW s, EntriesOK(s, n)
  PROVE  LET all == all_upstreams(p, s, n)
         IN /\ all \in Seq(Upstream)
            /\ ToSet(p.fallback) \subseteq ToSet(all)
            /\ ToSet(all) \subseteq ToSet(p.primary) \cup ToSet(p.fallback)
            /\ p.fallback = <<>> => ToSet(p.primary) \subseteq ToSet(all)
            /\ p.primary # <<>> => all # <<>>
<1> DEFINE usable == {i \in DOMAIN p.primary : \/ p.fallback = <<>>
                                               \/ ~Tripped(p.primary[i], s, n)}
           rank == [i \in usable |-> RankOf(p.primary[i], s, n)]
           order == sort_by_key(rank)
           picked == [k \in DOMAIN order |-> p.primary[order[k]]]
           all == all_upstreams(p, s, n)
<1>1. p.primary \in Seq(Upstream) /\ p.fallback \in Seq(Upstream)
  BY DEF Pools
<1>2. all = picked \o p.fallback
  BY DEF all_upstreams
<1>3. usable \in SUBSET DOMAIN p.primary
  OBVIOUS
<1>4. rank \in [usable -> Nat]
  BY RankType
<1>5. p.fallback = <<>> => usable = DOMAIN p.primary
  OBVIOUS
<1> HIDE DEF usable, rank
<1>6. picked \in Seq(Upstream) /\ ToSet(picked) = {p.primary[i] : i \in usable}
  BY <1>1, <1>3, <1>4, PickedOK
<1> HIDE DEF picked, all
<1>7. all \in Seq(Upstream) /\ ToSet(all) = ToSet(picked) \cup ToSet(p.fallback)
  BY <1>1, <1>2, <1>6, JoinedOK
<1>8. ToSet(picked) \subseteq ToSet(p.primary)
  BY <1>3, <1>6 DEF ToSet
<1>9. p.fallback = <<>> => ToSet(p.primary) \subseteq ToSet(all)
  BY <1>5, <1>6, <1>7 DEF ToSet
<1>10. ASSUME p.primary # <<>> PROVE all # <<>>
  <2>1. \A q \in Seq(Upstream) : q # <<>> => ToSet(q) # {}
    <3> SUFFICES ASSUME NEW q \in Seq(Upstream), q # <<>> PROVE q[1] \in ToSet(q)
      OBVIOUS
    <3>1. 1 \in DOMAIN q
      OBVIOUS
    <3> QED BY <3>1 DEF ToSet
  <2>2. ToSet(<<>>) = {}
    BY DEF ToSet
  <2>3. ToSet(p.primary) # {} /\ (p.fallback # <<>> => ToSet(p.fallback) # {})
    BY <1>1, <1>10, <2>1
  <2>4. ToSet(all) # {}
    BY <1>7, <1>9, <2>3
  <2> QED BY <2>2, <2>4
<1> QED BY <1>7, <1>8, <1>9, <1>10 DEF all

(* Pairing adds upstreams and keeps the primaries. *)
LEMMA PairedOK ==
  ASSUME NEW primary \in Seq(Upstream), NEW fallback \in Seq(Upstream)
  PROVE  /\ Paired(primary, fallback) \in Pools
         /\ Paired(primary, fallback).primary = primary
<1> DEFINE unpaired == {i \in DOMAIN primary : /\ primary[i].kind = "Udp"
                                               /\ Tcp(primary[i].at) \notin ToSet(fallback)
                                               /\ \A j \in 1..(i - 1) : primary[j] # primary[i]}
           rank == [i \in unpaired |-> 0]
           order == sort_by_key(rank)
           siblings == [i \in DOMAIN primary |-> Tcp(primary[i].at)]
           picked == [k \in DOMAIN order |-> siblings[order[k]]]
           added == [k \in DOMAIN order |-> Tcp(primary[order[k]].at)]
<1>1. Paired(primary, fallback) = [primary |-> primary, fallback |-> fallback \o added]
  BY DEF Paired
<1>2. unpaired \in SUBSET DOMAIN primary /\ rank \in [unpaired -> Nat]
  OBVIOUS
<1> HIDE DEF unpaired, rank
<1>3. siblings \in Seq(Upstream)
  <2>1. ASSUME NEW i \in DOMAIN primary PROVE Tcp(primary[i].at) \in Upstream
    <3>1. primary[i] \in Upstream
      OBVIOUS
    <3>2. primary[i].at \in Addrs
      BY <3>1 DEF Upstream
    <3> QED BY <3>2 DEF Tcp, Upstream, Transports
  <2>2. DOMAIN primary = 1..Len(primary) /\ Len(primary) \in Nat
    OBVIOUS
  <2> QED BY <2>1, <2>2
<1>4. unpaired \in SUBSET DOMAIN siblings
  BY <1>2
<1>5. picked \in Seq(Upstream)
  <2> HIDE DEF siblings
  <2> QED BY <1>2, <1>3, <1>4, PickedOK
<1>6. \A k \in DOMAIN order : order[k] \in DOMAIN primary
  <2>1. DOMAIN primary = 1..Len(primary) /\ Len(primary) \in Nat
    OBVIOUS
  <2>2. IsFiniteSet(DOMAIN primary)
    <3>1. IsFiniteSet(1..Len(primary))
      BY <2>1, FS_Interval
    <3> QED BY <2>1, <3>1
  <2>3. IsFiniteSet(unpaired) /\ unpaired \in SUBSET Nat
    BY <1>2, <2>1, <2>2, FS_Subset
  <2>4. order \in Seq(unpaired)
    BY <1>2, <2>3, SortedOK
  <2> HIDE DEF order
  <2> QED BY <1>2, <2>4
<1> HIDE DEF order
<1>7. added = picked
  BY <1>6
<1>8. fallback \o added \in Seq(Upstream)
  BY <1>5, <1>7, JoinedOK
<1> QED BY <1>1, <1>8 DEF Pools

-----------------------------------------------------------------------------
(* The state of a call that has somebody to ask: at least one request is
   open; and of an upstream that failed it: none is. *)
OpenLegs == {<<"open">>, <<"open", "open">>, <<"failed", "open">>, <<"open", "failed">>}

Refusal == [up : Upstream, legs : {<<"failed">>, <<"failed", "failed">>}]

Call == [at : {"idle", "asking", "ok", "failed"}, todo : Seq(Upstream),
         asked : Seq(Refusal), legs : {<<>>} \cup OpenLegs, skips : SUBSET Upstream]

(* The upstreams of a call's list: those it has still to ask and those that
   have failed it. *)
Listed(c) == ToSet(c.todo) \cup {c.asked[i].up : i \in DOMAIN c.asked}

ListOK(c, p, auto) ==
  c.at \in {"asking", "failed"} =>
    /\ p.primary # <<>> => c.todo # <<>> \/ c.asked # <<>>
    /\ ~auto => /\ ToSet(p.primary) \cup ToSet(p.fallback) = Listed(c) \cup c.skips
                /\ c.skips # {} => /\ ToSet(p.fallback) # {}
                                   /\ ToSet(p.fallback) \subseteq Listed(c)

CallOK(c, p, auto) ==
  /\ c \in Call
  /\ c.at = "asking" => c.todo # <<>> /\ c.legs \in OpenLegs
  /\ c.at = "failed" => c.todo = <<>>
  /\ ListOK(c, p, auto)

(* The inductive invariant of the calls: over what the breaker maintains
   (SrttOK), a call's list always covers the pool, but for the primaries it
   skipped because there was a fallback. *)
PoolOK ==
  /\ config \in Configs /\ pool \in Pools
  /\ config.auto => pool.primary # <<>>

KeysOK == DOMAIN srtt \subseteq SrttKeys /\ now \in 0..MaxTime

CallsOK == call \in [Tasks -> Call] /\ \A t \in Tasks : CallOK(call[t], pool, config.auto)

ForwardInv == SrttOK /\ PoolOK /\ KeysOK /\ CallsOK

(* Asking the next upstream leaves the list as it was. *)
LEMMA FirstAndRest ==
  ASSUME NEW T, NEW s \in Seq(T), s # <<>>
  PROVE  s[1] \in T /\ Tail(s) \in Seq(T) /\ ToSet(s) = {s[1]} \cup ToSet(Tail(s))
<1>1. /\ Tail(s) \in Seq(T) /\ Len(Tail(s)) = Len(s) - 1 /\ Len(s) \in Nat /\ Len(s) >= 1
      /\ \A i \in 1..(Len(s) - 1) : Tail(s)[i] = s[i + 1]
  OBVIOUS
<1>2. DOMAIN s = 1..Len(s) /\ DOMAIN Tail(s) = 1..(Len(s) - 1)
  BY <1>1
<1>3. ASSUME NEW i \in 1..Len(s) PROVE s[i] \in {s[1]} \cup ToSet(Tail(s))
  <2>1. CASE i = 1
    BY <2>1
  <2>2. CASE i # 1
    <3>1. i - 1 \in 1..(Len(s) - 1) /\ (i - 1) + 1 = i
      BY <1>1, <2>2
    <3>2. Tail(s)[i - 1] = s[i]
      BY <1>1, <3>1
    <3> QED BY <1>2, <3>1, <3>2 DEF ToSet
  <2> QED BY <2>1, <2>2
<1>4. ASSUME NEW i \in 1..(Len(s) - 1) PROVE Tail(s)[i] \in ToSet(s)
  <2>1. i + 1 \in 1..Len(s) /\ Tail(s)[i] = s[i + 1]
    BY <1>1
  <2> QED BY <1>2, <2>1 DEF ToSet
<1>5. s[1] \in T /\ s[1] \in ToSet(s)
  <2>1. 1 \in 1..Len(s)
    BY <1>1
  <2> QED BY <1>2, <2>1 DEF ToSet
<1>6. ToSet(Tail(s)) \subseteq ToSet(s)
  BY <1>2, <1>4 DEF ToSet
<1>7. ToSet(s) \subseteq {s[1]} \cup ToSet(Tail(s))
  BY <1>2, <1>3 DEF ToSet
<1> QED BY <1>1, <1>5, <1>6, <1>7

LEMMA OneMore ==
  ASSUME NEW a \in Seq(Refusal), NEW x \in Refusal
  PROVE  /\ Append(a, x) \in Seq(Refusal) /\ Append(a, x) # a /\ Append(a, x) # <<>>
         /\ {Append(a, x)[i].up : i \in DOMAIN Append(a, x)}
              = {a[i].up : i \in DOMAIN a} \cup {x.up}
<1> DEFINE b == Append(a, x)
<1>1. /\ b \in Seq(Refusal) /\ Len(b) = Len(a) + 1 /\ Len(a) \in Nat
      /\ \A i \in 1..Len(a) : b[i] = a[i]
      /\ b[Len(a) + 1] = x
  OBVIOUS
<1> HIDE DEF b
<1>2. DOMAIN a = 1..Len(a) /\ DOMAIN b = 1..(Len(a) + 1)
  BY <1>1
<1>3. b # a /\ b # <<>>
  BY <1>1
<1>4. ASSUME NEW i \in DOMAIN b PROVE b[i].up \in {a[j].up : j \in DOMAIN a} \cup {x.up}
  <2>1. CASE i = Len(a) + 1
    BY <1>1, <2>1
  <2>2. CASE i # Len(a) + 1
    <3>1. i \in 1..Len(a)
      BY <1>1, <1>2, <2>2
    <3> QED BY <1>1, <1>2, <3>1
  <2> QED BY <2>1, <2>2
<1>5. ASSUME NEW i \in DOMAIN a PROVE i \in DOMAIN b /\ b[i] = a[i]
  BY <1>1, <1>2
<1>6. Len(a) + 1 \in DOMAIN b
  BY <1>1, <1>2
<1>7. {b[i].up : i \in DOMAIN b} = {a[i].up : i \in DOMAIN a} \cup {x.up}
  BY <1>1, <1>4, <1>5, <1>6
<1> QED BY <1>1, <1>3, <1>7 DEF b

LEMMA NoCallOK == ASSUME NEW p, NEW auto PROVE
  /\ CallOK(NoCall, p, auto)
  /\ CallOK([NoCall EXCEPT !.at = "ok"], p, auto)
<1>0. /\ <<>> \in Seq(Upstream) /\ <<>> \in Seq(Refusal)
      /\ <<>> \in {<<>>} \cup OpenLegs /\ {} \in SUBSET Upstream
  OBVIOUS
<1>1. NoCall \in Call /\ [NoCall EXCEPT !.at = "ok"] \in Call
  BY <1>0 DEF NoCall, Call
<1> QED BY <1>1 DEF NoCall, CallOK, ListOK

(* A step in which one call changes. *)
LEMMA OneCall ==
  ASSUME CallsOK, NEW t \in Tasks, NEW c, CallOK(c, pool, config.auto),
         call' = [call EXCEPT ![t] = c], pool' = pool, config' = config
  PROVE  CallsOK'
<1>1. c \in Call
  BY DEF CallOK
<1>2. call' \in [Tasks -> Call]
  BY <1>1 DEF CallsOK
<1>3. \A u \in Tasks : CallOK(call'[u], pool, config.auto)
  BY DEF CallsOK
<1> QED BY <1>2, <1>3 DEF CallsOK

(* The keys a call records outcomes under. *)
LEMMA KeyOK ==
  ASSUME NEW u \in Upstream, NEW k \in tracked_key(u)
  PROVE  k = <<u.at, u.kind>> /\ k \in SrttKeys
<1>1. u.kind \in {"Udp", "Tcp", "Dot"} /\ u.at \in Addrs /\ k = <<u.at, u.kind>>
  BY DEF tracked_key, Upstream, Transports
<1> QED BY <1>1 DEF SrttKeys

(* Recording an outcome writes one key; others are kept or evicted. *)
LEMMA RecordTouchesOne ==
  ASSUME NEW s, NEW k, NEW rtt, NEW n,
         NEW r \in record_rtt(s, k, rtt, n) \cup record_failure(s, k, n),
         NEW j \in DOMAIN r, j # k
  PROVE  j \in DOMAIN s /\ r[j] = s[j]
<1>1. CASE r = s
  BY <1>1
<1>2. CASE \E e \in maybe_evict(s) : \E ms : r = Set(e, k, ms, n)
  <2>1. PICK e \in maybe_evict(s) : \E ms : r = Set(e, k, ms, n)
    BY <1>2
  <2>2. j \in DOMAIN e /\ r[j] = e[j]
    BY <2>1 DEF Set
  <2>3. \A i \in DOMAIN e : i \in DOMAIN s /\ e[i] = s[i]
    BY DEF maybe_evict
  <2> QED BY <2>2, <2>3
<1>3. r = s \/ \E e \in maybe_evict(s) : \E ms : r = Set(e, k, ms, n)
  BY DEF record_rtt, record_failure
<1> QED BY <1>1, <1>2, <1>3

LEMMA RecordKeys ==
  ASSUME NEW s, NEW k, NEW rtt, NEW n,
         NEW r \in record_rtt(s, k, rtt, n) \cup record_failure(s, k, n),
         DOMAIN s \subseteq SrttKeys, k \in SrttKeys
  PROVE  DOMAIN r \subseteq SrttKeys
  BY RecordTouchesOne

-----------------------------------------------------------------------------
LEMMA ForwardInit == Init => ForwardInv
<1> SUFFICES ASSUME Init PROVE ForwardInv
  OBVIOUS
<1>1. config \in Configs /\ config.primary \in Seq(Upstream) /\ config.fallback \in Seq(Upstream)
  BY ForwarderConstants DEF Init
<1>2. pool \in Pools /\ pool.primary = config.primary
  BY <1>1, PairedOK DEF Init
<1>3. PoolOK
  BY <1>1, <1>2, ForwarderConstants DEF PoolOK
<1>4. KeysOK
  BY ForwarderConstants DEF Init, NoSrtt, KeysOK
<1>5. NoCall \in Call /\ CallOK(NoCall, pool, config.auto)
  BY NoCallOK DEF CallOK
<1>6. CallsOK
  BY <1>5 DEF Init, CallsOK
<1> QED BY <1>3, <1>4, <1>6, SrttOKInit DEF ForwardInv

(* What the pool and the keys need of a step. *)
LEMMA PoolStep ==
  ASSUME PoolOK, [Next]_vars
  PROVE  PoolOK'
<1>1. ASSUME NEW a \in Addrs, UpdatePrimary(a) PROVE PoolOK'
  <2>1. Udp(a) \in Upstream
    BY DEF Udp, Upstream, Transports
  <2>2. <<Udp(a)>> \in Seq(Upstream) /\ <<Udp(a)>> # <<>>
    BY <2>1
  <2>3. pool' = pool \/ pool' = [pool EXCEPT !.primary = <<Udp(a)>>]
    BY <1>1 DEF UpdatePrimary, maybe_update_primary
  <2>4. CASE pool' = [pool EXCEPT !.primary = <<Udp(a)>>]
    <3>1. pool' \in Pools /\ pool'.primary # <<>>
      BY <2>2, <2>4 DEF PoolOK, Pools
    <3> QED BY <1>1, <3>1 DEF PoolOK, UpdatePrimary
  <2> QED BY <1>1, <2>3, <2>4 DEF PoolOK, UpdatePrimary
<1>2. CASE UNCHANGED <<config, pool>>
  BY <1>2 DEF PoolOK
<1> QED BY <1>1, <1>2 DEF Next, Start, HedgeDelay, Cancel, Return, Answer, Fail, Tick, vars

(* The upstream an asking call works on. *)
LEMMA Asking ==
  ASSUME CallsOK, NEW t \in Tasks, call[t].at = "asking"
  PROVE  /\ Current(t) \in Upstream
         /\ call[t] \in Call /\ call[t].todo # <<>> /\ call[t].legs \in OpenLegs
<1>1. call[t] \in Call /\ call[t].todo # <<>> /\ call[t].legs \in OpenLegs
  BY DEF CallsOK, CallOK
<1>2. call[t].todo \in Seq(Upstream)
  BY <1>1 DEF Call
<1> QED BY <1>1, <1>2, FirstAndRest DEF Current

LEMMA KeysStep ==
  ASSUME KeysOK, CallsOK, [Next]_vars
  PROVE  KeysOK'
<1>1. CASE UNCHANGED <<srtt, now>>
  BY <1>1 DEF KeysOK
<1>2. CASE Tick
  BY <1>2, ForwarderConstants DEF KeysOK, Tick
<1>3. ASSUME NEW t \in Tasks, call[t].at = "asking", now' = now,
             NEW k \in tracked_key(Current(t)), NEW rtt,
             srtt' \in record_rtt(srtt, k, rtt, now) \cup record_failure(srtt, k, now)
      PROVE  KeysOK'
  <2>1. k \in SrttKeys
    BY <1>3, Asking, KeyOK
  <2>2. DOMAIN srtt' \subseteq SrttKeys
    BY <1>3, <2>1, RecordKeys DEF KeysOK
  <2> QED BY <1>3, <2>2 DEF KeysOK, SrttKeys
<1>4. ASSUME NEW t \in Tasks, NEW leg \in 1..2, NEW rtt \in Rtts, Answer(t, leg, rtt)
      PROVE  KeysOK'
  <2>1. CASE srtt' = srtt
    BY <1>1, <1>4, <2>1 DEF Answer
  <2>2. CASE \E k \in tracked_key(Current(t)) : srtt' \in record_rtt(srtt, k, rtt, now)
    BY <1>3, <1>4, <2>2 DEF Answer
  <2> QED BY <1>4, <2>1, <2>2 DEF Answer
<1>5. ASSUME NEW t \in Tasks, NEW leg \in 1..2, Fail(t, leg)
      PROVE  KeysOK'
  <2>1. CASE srtt' = srtt
    BY <1>1, <1>5, <2>1 DEF Fail
  <2>2. CASE \E k \in tracked_key(Current(t)) : srtt' \in record_failure(srtt, k, now)
    BY <1>3, <1>5, <2>2 DEF Fail
  <2> QED BY <1>5, <2>1, <2>2 DEF Fail
<1>6. CASE \E t \in Tasks : Start(t) \/ HedgeDelay(t) \/ Cancel(t) \/ Return(t)
  BY <1>1, <1>6 DEF Start, HedgeDelay, Cancel, Return
<1>7. CASE \E a \in Addrs : UpdatePrimary(a)
  BY <1>1, <1>7 DEF UpdatePrimary
<1>8. CASE UNCHANGED vars
  BY <1>1, <1>8 DEF vars
<1> QED BY <1>2, <1>4, <1>5, <1>6, <1>7, <1>8 DEF Next

-----------------------------------------------------------------------------
(* A call that starts has listed everybody, or skips primaries for the sake
   of fallbacks it has listed. *)
LEMMA StartCall ==
  ASSUME ForwardInv, NEW t \in Tasks, Start(t)
  PROVE  CallsOK'
<1> DEFINE todo == all_upstreams(pool, srtt, now)
           skips == ToSet(pool.primary) \ ToSet(todo)
           c == [at    |-> IF todo = <<>> THEN "failed" ELSE "asking",
                 todo  |-> todo,
                 asked |-> <<>>,
                 legs  |-> <<"open">>,
                 skips |-> skips]
<1>1. pool \in Pools /\ now \in Nat /\ EntriesOK(srtt, now) /\ CallsOK
  BY DEF ForwardInv, PoolOK, SrttOK
<1>2. /\ todo \in Seq(Upstream)
      /\ ToSet(pool.fallback) \subseteq ToSet(todo)
      /\ ToSet(todo) \subseteq ToSet(pool.primary) \cup ToSet(pool.fallback)
      /\ pool.fallback = <<>> => ToSet(pool.primary) \subseteq ToSet(todo)
      /\ pool.primary # <<>> => todo # <<>>
  BY <1>1, AllUpstreamsOK
<1>3. call' = [call EXCEPT ![t] = c] /\ pool' = pool /\ config' = config
  BY DEF Start
<1> HIDE DEF todo
<1>4. skips \in SUBSET Upstream
  <2>1. pool.primary \in Seq(Upstream)
    BY <1>1 DEF Pools
  <2> QED BY <2>1 DEF ToSet
<1>5. skips # {} => ToSet(pool.fallback) # {}
  <2>1. pool.fallback \in Seq(Upstream)
    BY <1>1 DEF Pools
  <2>2. pool.fallback # <<>> => pool.fallback[1] \in ToSet(pool.fallback)
    BY <2>1, FirstAndRest
  <2> QED BY <1>2, <2>2
<1>6. ToSet(pool.primary) \cup ToSet(pool.fallback) = ToSet(todo) \cup skips
  BY <1>2
<1> HIDE DEF skips
<1>7. c \in Call
  <2>1. <<>> \in Seq(Refusal) /\ <<"open">> \in {<<>>} \cup OpenLegs
    BY DEF OpenLegs
  <2> QED BY <1>2, <1>4, <2>1 DEF Call
<1>8. Listed(c) = ToSet(todo)
  BY DEF Listed
<1>9. ListOK(c, pool, config.auto)
  BY <1>2, <1>5, <1>6, <1>8 DEF ListOK
<1>10. CallOK(c, pool, config.auto)
  BY <1>7, <1>9 DEF CallOK, OpenLegs
<1> HIDE DEF c
<1> QED BY <1>1, <1>3, <1>10, OneCall

(* A call that only has its requests changed. *)
LEMMA LegsChange ==
  ASSUME CallsOK, NEW t \in Tasks, call[t].at = "asking", NEW legs \in OpenLegs,
         call' = [call EXCEPT ![t].legs = legs], pool' = pool, config' = config
  PROVE  CallsOK'
<1> DEFINE c == [call[t] EXCEPT !.legs = legs]
<1>1. CallOK(call[t], pool, config.auto) /\ call[t] \in Call /\ call \in [Tasks -> Call]
  BY DEF CallsOK, CallOK
<1>2. call' = [call EXCEPT ![t] = c]
  BY <1>1
<1>3. c \in Call /\ c.at = "asking" /\ c.todo = call[t].todo /\ c.asked = call[t].asked
      /\ c.skips = call[t].skips /\ c.legs = legs
  BY <1>1 DEF Call
<1> HIDE DEF c
<1>4. Listed(c) = Listed(call[t])
  BY <1>3 DEF Listed
<1>5. CallOK(c, pool, config.auto)
  BY <1>1, <1>3, <1>4 DEF CallOK, ListOK
<1> QED BY <1>2, <1>5, OneCall

(* A call whose current upstream has failed it. *)
LEMMA Refused ==
  ASSUME CallsOK, NEW t \in Tasks, call[t].at = "asking",
         NEW legs \in {<<"failed">>, <<"failed", "failed">>},
         call' = [call EXCEPT
                    ![t].asked = Append(@, [up |-> Current(t), legs |-> legs]),
                    ![t].todo = Tail(@), ![t].legs = <<"open">>,
                    ![t].at = IF Len(call[t].todo) = 1 THEN "failed" ELSE "asking"],
         pool' = pool, config' = config
  PROVE  CallsOK' /\ call'[t] # call[t]
<1> DEFINE o == call[t]
           x == [up |-> Current(t), legs |-> legs]
           asked == Append(o.asked, x)
           todo == Tail(o.todo)
           at == IF Len(o.todo) = 1 THEN "failed" ELSE "asking"
           c == [o EXCEPT !.asked = asked, !.todo = todo, !.legs = <<"open">>, !.at = at]
<1>1. CallOK(o, pool, config.auto) /\ o \in Call /\ call \in [Tasks -> Call]
  BY DEF CallsOK, CallOK
<1>2. Current(t) \in Upstream /\ o.todo # <<>> /\ Current(t) = o.todo[1]
  BY Asking DEF Current
<1>3. x \in Refusal /\ x.up = Current(t)
  BY <1>2 DEF Refusal
<1>4. /\ o.todo \in Seq(Upstream) /\ o.asked \in Seq(Refusal) /\ o.skips \in SUBSET Upstream
  BY <1>1 DEF Call
<1>5. call' = [call EXCEPT ![t] = c]
  BY <1>1 DEF Call
<1> HIDE DEF x
<1>6. /\ asked \in Seq(Refusal) /\ asked # o.asked /\ asked # <<>>
      /\ {asked[i].up : i \in DOMAIN asked}
           = {o.asked[i].up : i \in DOMAIN o.asked} \cup {Current(t)}
  BY <1>3, <1>4, OneMore
<1>7. todo \in Seq(Upstream) /\ ToSet(o.todo) = {Current(t)} \cup ToSet(todo)
  BY <1>2, <1>4, FirstAndRest
<1>8. at \in {"asking", "failed"} /\ (at = "asking" => todo # <<>>) /\ (at = "failed" => todo = <<>>)
  <2> DEFINE q == o.todo
  <2>1. q \in Seq(Upstream) /\ q # <<>>
    BY <1>2, <1>4
  <2> HIDE DEF q
  <2>2. Tail(q) \in Seq(Upstream) /\ Len(Tail(q)) = Len(q) - 1 /\ Len(q) \in Nat
    BY <2>1
  <2> DEFINE r == Tail(q)
  <2> HIDE DEF r
  <2>4. r \in Seq(Upstream) => (r = <<>> <=> Len(r) = 0)
    OBVIOUS
  <2>3. Len(q) = 1 <=> Tail(q) = <<>>
    BY <2>2, <2>4 DEF r
  <2> QED BY <2>3 DEF q
<1> HIDE DEF asked, todo, at
<1>9. c \in Call
  <2>1. <<"open">> \in {<<>>} \cup OpenLegs
    BY DEF OpenLegs
  <2> QED BY <1>1, <1>4, <1>6, <1>7, <1>8, <2>1 DEF Call
<1>10. /\ c.skips = o.skips /\ c.at = at /\ c.todo = todo /\ c.asked = asked
       /\ c.legs = <<"open">>
  BY <1>1 DEF Call
<1>11. call'[t] = c
  BY <1>1, <1>5
<1> HIDE DEF c, o
<1>12. Listed(c) = Listed(o)
  <2>1. Listed(c) = ToSet(todo) \cup {asked[i].up : i \in DOMAIN asked}
    BY <1>10 DEF Listed
  <2>2. Listed(o) = ToSet(o.todo) \cup {o.asked[i].up : i \in DOMAIN o.asked}
    BY DEF Listed
  <2> DEFINE A == {asked[i].up : i \in DOMAIN asked}
             B == {o.asked[i].up : i \in DOMAIN o.asked}
  <2>3. A = B \cup {Current(t)}
    BY <1>6
  <2>4. Listed(c) = ToSet(todo) \cup A /\ Listed(o) = ToSet(o.todo) \cup B
    BY <2>1, <2>2
  <2> HIDE DEF A, B
  <2> QED BY <1>7, <2>3, <2>4
<1>13. ListOK(o, pool, config.auto)
  BY <1>1 DEF CallOK
<1>14. ListOK(c, pool, config.auto)
  BY <1>6, <1>10, <1>13, <1>12 DEF ListOK, o
<1>15. CallOK(c, pool, config.auto)
  BY <1>8, <1>9, <1>10, <1>14 DEF CallOK, OpenLegs
<1>16. c # o
  BY <1>6, <1>10
<1> QED BY <1>5, <1>11, <1>15, <1>16, OneCall DEF o

(* What Fail does to the requests of the upstream. *)
LEMMA LegFails ==
  ASSUME NEW old \in OpenLegs, NEW leg \in DOMAIN old, old[leg] = "open"
  PROVE  LET legs == [old EXCEPT ![leg] = "failed"]
         IN IF \E i \in DOMAIN legs : legs[i] = "open" THEN legs \in OpenLegs
            ELSE legs \in {<<"failed">>, <<"failed", "failed">>}
<1> DEFINE legs == [old EXCEPT ![leg] = "failed"]
<1>1. CASE old = <<"open">>
  <2>1. legs = <<"failed">>
    BY <1>1
  <2> QED BY <2>1
<1>2. CASE old = <<"open", "open">>
  <2>1. legs = <<"failed", "open">> \/ legs = <<"open", "failed">>
    BY <1>2
  <2> QED BY <2>1 DEF OpenLegs
<1>3. CASE old = <<"failed", "open">> \/ old = <<"open", "failed">>
  <2>1. legs = <<"failed", "failed">>
    BY <1>3
  <2> QED BY <2>1
<1> QED BY <1>1, <1>2, <1>3 DEF OpenLegs

LEMMA CallsStep ==
  ASSUME ForwardInv, [Next]_vars
  PROVE  CallsOK'
<1>0. CallsOK
  BY DEF ForwardInv
<1>1. ASSUME NEW t \in Tasks, HedgeDelay(t) PROVE CallsOK'
  <2>1. <<"open", "open">> \in OpenLegs
    BY DEF OpenLegs
  <2> QED BY <1>0, <1>1, <2>1, LegsChange DEF HedgeDelay
<1>2. ASSUME NEW t \in Tasks, Cancel(t) \/ Return(t) PROVE CallsOK'
  BY <1>0, <1>2, NoCallOK, OneCall DEF Cancel, Return
<1>3. ASSUME NEW t \in Tasks, NEW leg \in 1..2, NEW rtt \in Rtts, Answer(t, leg, rtt)
      PROVE  CallsOK'
  BY <1>0, <1>3, NoCallOK, OneCall DEF Answer
<1>4. ASSUME NEW t \in Tasks, NEW leg \in 1..2, Fail(t, leg) PROVE CallsOK'
  <2> DEFINE legs == [call[t].legs EXCEPT ![leg] = "failed"]
  <2>1. call[t].at = "asking" /\ call[t].legs \in OpenLegs /\ pool' = pool /\ config' = config
    BY <1>0, <1>4, Asking DEF Fail
  <2>2. IF \E i \in DOMAIN legs : legs[i] = "open" THEN legs \in OpenLegs
        ELSE legs \in {<<"failed">>, <<"failed", "failed">>}
    BY <1>4, <2>1, LegFails DEF Fail
  <2>3. IF \E i \in DOMAIN legs : legs[i] = "open"
        THEN call' = [call EXCEPT ![t].legs = legs]
        ELSE call' = [call EXCEPT
                        ![t].asked = Append(@, [up |-> Current(t), legs |-> legs]),
                        ![t].todo = Tail(@), ![t].legs = <<"open">>,
                        ![t].at = IF Len(call[t].todo) = 1 THEN "failed" ELSE "asking"]
    BY <1>4 DEF Fail
  <2> HIDE DEF legs
  <2>4. CASE \E i \in DOMAIN legs : legs[i] = "open"
    BY <1>0, <2>1, <2>2, <2>3, <2>4, LegsChange
  <2>5. CASE ~\E i \in DOMAIN legs : legs[i] = "open"
    BY <1>0, <2>1, <2>2, <2>3, <2>5, Refused
  <2> QED BY <2>4, <2>5
<1>5. ASSUME NEW a \in Addrs, UpdatePrimary(a) PROVE CallsOK'
  <2>1. config' = config /\ config.auto /\ call' = call
    BY <1>5 DEF UpdatePrimary
  <2>2. pool.primary # <<>>
    BY <2>1 DEF ForwardInv, PoolOK
  <2>3. ASSUME NEW t \in Tasks PROVE CallOK(call[t], pool', config.auto)
    BY <1>0, <2>1, <2>2 DEF CallsOK, CallOK, ListOK
  <2> QED BY <1>0, <2>1, <2>3 DEF CallsOK
<1>6. CASE UNCHANGED <<call, pool, config>>
  BY <1>0, <1>6 DEF CallsOK
<1> QED BY <1>1, <1>2, <1>3, <1>4, <1>5, <1>6, StartCall DEF Next, Tick, vars

LEMMA ForwardInvHolds == Spec => []ForwardInv
<1>1. ForwardInv /\ [Next]_vars => ForwardInv'
  BY SrttOKStep, PoolStep, KeysStep, CallsStep DEF ForwardInv
<1> QED BY <1>1, ForwardInit, PTL DEF Spec

-----------------------------------------------------------------------------
(* Failover is complete: a call of forward_with_failover_raw fails only after
   every upstream of its pool has failed it, on every request it was sent, but
   for tripped primaries that fallbacks stood in for; and it never fails
   without asking anybody when the pool has a primary. *)
THEOREM CallsEndWellThm == Spec => []CallsEndWell
<1>1. ForwardInv => CallsEndWell
  <2> SUFFICES ASSUME ForwardInv PROVE CallsEndWell
    OBVIOUS
  <2>1. ASSUME NEW t \in Tasks
        PROVE  /\ call[t] \in Call /\ CallOK(call[t], pool, config.auto)
    BY DEF ForwardInv, CallsOK
  <2>2. ASSUME NEW t \in Tasks
        PROVE  /\ call[t].at \in {"idle", "asking", "ok", "failed"}
               /\ call[t].todo \in Seq(Upstream) /\ call[t].skips \subseteq Upstream
               /\ Len(call[t].legs) <= 2
    <3>1. call[t].legs \in {<<>>} \cup OpenLegs
      BY <2>1 DEF Call
    <3>2. Len(call[t].legs) <= 2
      <4>1. /\ Len(<<>>) = 0 /\ Len(<<"open">>) = 1 /\ Len(<<"open", "open">>) = 2
            /\ Len(<<"failed", "open">>) = 2 /\ Len(<<"open", "failed">>) = 2
        OBVIOUS
      <4>2. Len(call[t].legs) \in {0, 1, 2}
        BY <3>1, <4>1, Zenon DEF OpenLegs
      <4>3. \A n \in {0, 1, 2} : n <= 2
        OBVIOUS
      <4> QED BY <4>2, <4>3, Zenon
    <3> QED BY <2>1, <3>2 DEF Call
  <2>3. ASSUME NEW k \in DOMAIN srtt
        PROVE  srtt[k] \in [srtt_ms : 0..FAILURE_PENALTY_MS, updated_at : 0..now]
    BY DEF ForwardInv, SrttOK, EntriesOK, SrttEntry
  <2>4. TypeOK
    BY <2>2, <2>3 DEF ForwardInv, PoolOK, KeysOK, Pools, TypeOK
  <2>5. NeverFailsUnasked
    BY <2>1 DEF CallOK, ListOK, NeverFailsUnasked
  <2>6. ASSUME NEW t \in Tasks, call[t].at = "failed"
        PROVE  LET asked == {call[t].asked[i].up : i \in DOMAIN call[t].asked}
               IN /\ \A i \in DOMAIN call[t].asked : ToSet(call[t].asked[i].legs) = {"failed"}
                  /\ ~config.auto =>
                       /\ ToSet(pool.primary) \cup ToSet(pool.fallback) = asked \cup call[t].skips
                       /\ call[t].skips # {} => /\ ToSet(pool.fallback) # {}
                                                /\ ToSet(pool.fallback) \subseteq asked
    <3> DEFINE asked == {call[t].asked[i].up : i \in DOMAIN call[t].asked}
    <3>1. ASSUME NEW i \in DOMAIN call[t].asked
          PROVE  ToSet(call[t].asked[i].legs) = {"failed"}
      <4>1. call[t].asked \in Seq(Refusal)
        BY <2>1 DEF Call
      <4>2. call[t].asked[i] \in Refusal
        BY <4>1
      <4>3. call[t].asked[i].legs \in {<<"failed">>, <<"failed", "failed">>}
        BY <4>2 DEF Refusal
      <4> QED BY <4>3 DEF ToSet
    <3>2. call[t].todo = <<>> /\ ListOK(call[t], pool, config.auto)
      BY <2>1, <2>6 DEF CallOK
    <3>3. Listed(call[t]) = asked
      BY <3>2 DEF Listed, ToSet
    <3> QED BY <2>6, <3>1, <3>2, <3>3 DEF ListOK
  <2>7. FailsOnlyAfterAll
    BY <2>6 DEF FailsOnlyAfterAll
  <2> QED BY <2>4, <2>5, <2>7 DEF CallsEndWell
<1> QED BY <1>1, ForwardInvHolds, PTL

(* Recording an outcome of one upstream leaves every other one tripped that
   was, unless its entry is evicted. *)
LEMMA OthersStayTripped ==
  ASSUME NEW u \in Upstream, NEW v \in Upstream, u # v, NEW k \in tracked_key(v),
         NEW s, NEW rtt, NEW n,
         NEW r \in record_rtt(s, k, rtt, n) \cup record_failure(s, k, n),
         Tripped(u, s, n), tracked_key(u) \subseteq DOMAIN r
  PROVE  Tripped(u, r, n)
<1>1. CASE tracked_key(u) = {}
  BY <1>1 DEF Tripped, RankOf
<1>2. CASE tracked_key(u) # {}
  <2> DEFINE j == <<u.at, u.kind>>
  <2>1. tracked_key(u) = {j}
    BY <1>2 DEF tracked_key
  <2>2. (CHOOSE x \in tracked_key(u) : TRUE) = j
    BY <2>1
  <2>3. k = <<v.at, v.kind>>
    BY KeyOK
  <2>4. u.at # v.at \/ u.kind # v.kind
    BY DEF Upstream
  <2>5. j # k
    BY <2>3, <2>4
  <2>6. j \in DOMAIN r /\ j \in DOMAIN s /\ r[j] = s[j]
    BY <2>1, <2>5, RecordTouchesOne
  <2>7. get(r, j, n) = get(s, j, n)
    BY <2>6 DEF get
  <2> QED BY <1>2, <2>2, <2>7 DEF Tripped, RankOf
<1> QED BY <1>1, <1>2

(* The outcomes of one transport of a server do not make another transport of
   it eligible again: that takes the clock, an outcome of its own, or the
   eviction of its entry. *)
THEOREM SiblingDoesNotRearmThm == Spec => SiblingDoesNotRearm
<1> DEFINE Rearmed ==
      \A u \in ToSet(pool.primary) :
        Tripped(u, srtt, now) /\ ~Tripped(u, srtt', now) =>
          \/ \E t \in Tasks : call[t].at = "asking" /\ call'[t] # call[t] /\ Current(t) = u
          \/ ~(tracked_key(u) \subseteq DOMAIN srtt')
<1>1. ASSUME ForwardInv, [Next]_vars PROVE Rearmed
  <2> SUFFICES ASSUME NEW u \in ToSet(pool.primary), Tripped(u, srtt, now),
                      ~Tripped(u, srtt', now), tracked_key(u) \subseteq DOMAIN srtt'
               PROVE  \E t \in Tasks : call[t].at = "asking" /\ call'[t] # call[t] /\ Current(t) = u
    OBVIOUS
  <2>1. u \in Upstream /\ CallsOK
    <3>1. pool.primary \in Seq(Upstream)
      BY <1>1 DEF ForwardInv, PoolOK, Pools
    <3> QED BY <1>1, <3>1 DEF ForwardInv, ToSet
  <2>2. srtt' # srtt
    OBVIOUS
  <2>3. ASSUME NEW t \in Tasks, call[t].at = "asking", call'[t] # call[t],
               NEW k \in tracked_key(Current(t)), NEW rtt,
               srtt' \in record_rtt(srtt, k, rtt, now) \cup record_failure(srtt, k, now)
        PROVE  \E i \in Tasks : call[i].at = "asking" /\ call'[i] # call[i] /\ Current(i) = u
    <3>1. Current(t) \in Upstream
      BY <2>1, <2>3, Asking
    <3>2. Current(t) = u
      BY <2>1, <2>3, <3>1, OthersStayTripped
    <3> QED BY <2>3, <3>2
  <2>4. ASSUME NEW t \in Tasks, NEW leg \in 1..2, NEW rtt \in Rtts, Answer(t, leg, rtt)
        PROVE  \E i \in Tasks : call[i].at = "asking" /\ call'[i] # call[i] /\ Current(i) = u
    <3>1. call[t].at = "asking" /\ call' = [call EXCEPT ![t] = [NoCall EXCEPT !.at = "ok"]]
      BY <2>4 DEF Answer
    <3>2. call'[t].at = "ok"
      BY <2>1, <3>1 DEF CallsOK, NoCall
    <3>3. PICK k \in tracked_key(Current(t)) : srtt' \in record_rtt(srtt, k, rtt, now)
      BY <2>2, <2>4 DEF Answer
    <3> QED BY <2>3, <3>1, <3>2, <3>3
  <2>5. ASSUME NEW t \in Tasks, NEW leg \in 1..2, Fail(t, leg)
        PROVE  \E i \in Tasks : call[i].at = "asking" /\ call'[i] # call[i] /\ Current(i) = u
    <3> DEFINE legs == [call[t].legs EXCEPT ![leg] = "failed"]
    <3>1. /\ call[t].at = "asking" /\ call[t].legs \in OpenLegs
          /\ leg \in DOMAIN call[t].legs /\ call[t].legs[leg] = "open"
          /\ pool' = pool /\ config' = config
      BY <2>1, <2>5, Asking DEF Fail
    <3>2. /\ ~\E i \in DOMAIN legs : legs[i] = "open"
          /\ call' = [call EXCEPT
                        ![t].asked = Append(@, [up |-> Current(t), legs |-> legs]),
                        ![t].todo = Tail(@), ![t].legs = <<"open">>,
                        ![t].at = IF Len(call[t].todo) = 1 THEN "failed" ELSE "asking"]
      BY <2>2, <2>5 DEF Fail
    <3>3. legs \in {<<"failed">>, <<"failed", "failed">>}
      BY <3>1, <3>2, LegFails
    <3> HIDE DEF legs
    <3>4. call'[t] # call[t]
      BY <2>1, <3>1, <3>2, <3>3, Refused
    <3>5. PICK k \in tracked_key(Current(t)) : srtt' \in record_failure(srtt, k, now)
      BY <2>2, <2>5 DEF Fail
    <3> QED BY <2>3, <3>1, <3>4, <3>5
  <2> QED BY <1>1, <2>2, <2>4, <2>5
      DEF Next, Start, HedgeDelay, Cancel, Return, UpdatePrimary, Tick, vars
<1>2. ForwardInv /\ [Next]_vars => [Rearmed]_vars
  BY <1>1
<1>3. Spec => [][Rearmed]_vars
  BY <1>2, ForwardInvHolds, PTL DEF Spec
<1> QED BY <1>3, PTL DEF SiblingDoesNotRearm, Rearmed
=============================================================================
