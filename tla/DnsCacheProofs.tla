--------------------------- MODULE DnsCacheProofs ---------------------------
(***************************************************************************)
(* Proofs about the DNS cache: for any set of names and types, any TTL      *)
(* bounds and any capacity, the counter kept beside the map counts it, the  *)
(* capacity is respected and no empty type map is left behind; an insertion *)
(* is served and costs what it should, entries age in one direction, and    *)
(* the warm test covers what a lookup would have refreshed.                 *)
(***************************************************************************)
EXTENDS DnsCache, FiniteSetTheorems, TLAPS

(* The shape of the two-level map: names and types only, no name without an
   entry. *)
MapOK(e) ==
  /\ DOMAIN e \subseteq Domains
  /\ \A d \in DOMAIN e : DOMAIN e[d] \subseteq Qtypes /\ DOMAIN e[d] # {}

(* A cache value whose counter agrees with its map. *)
CacheOK(c) ==
  /\ MapOK(c.entries)
  /\ c.entry_count = Cardinality(Keys(c.entries))

Capacity == IF MaxEntries = 0 THEN 1 ELSE MaxEntries

(* The keys of any map are finitely many, so they can be counted. *)
LEMMA KeysFinite ==
  ASSUME NEW e
  PROVE  IsFiniteSet(Keys(e)) /\ Cardinality(Keys(e)) \in Nat
<1>1. IsFiniteSet(Key)
  BY CacheKeys, FS_Product DEF Key
<1>2. Keys(e) \in SUBSET Key
  BY DEF Keys
<1>3. IsFiniteSet(Keys(e))
  BY <1>1, <1>2, FS_Subset
<1> QED BY <1>3, FS_CardinalityType

(* Restricting a map to some of its keys leaves exactly those keys, and no
   empty type map (the retain of evict_expired, the remove of the others). *)
LEMMA KeepKeys ==
  ASSUME NEW e, MapOK(e), NEW S \in SUBSET Keys(e)
  PROVE  Keys(Keep(e, S)) = S /\ MapOK(Keep(e, S))
<1> DEFINE f == Keep(e, S)
<1>1. /\ DOMAIN f = {d \in DOMAIN e : \E t \in DOMAIN e[d] : <<d, t>> \in S}
      /\ \A d \in DOMAIN f : DOMAIN f[d] = {t \in DOMAIN e[d] : <<d, t>> \in S}
  BY DEF Keep
<1>2. MapOK(f)
  BY <1>1 DEF MapOK
<1>3. ASSUME NEW k \in Key PROVE k \in Keys(f) <=> k \in S
  <2>1. k = <<k[1], k[2]>>
    BY DEF Key
  <2> HIDE DEF f
  <2>2. k \in Keys(f) <=> k[1] \in DOMAIN f /\ k[2] \in DOMAIN f[k[1]]
    BY DEF Keys
  <2>3. k \in S => k[1] \in DOMAIN e /\ k[2] \in DOMAIN e[k[1]]
    BY DEF Keys
  <2>4. k[1] \in DOMAIN f /\ k[2] \in DOMAIN f[k[1]] => k \in S
    <3> SUFFICES ASSUME k[1] \in DOMAIN f, k[2] \in DOMAIN f[k[1]]
                 PROVE  k \in S
      OBVIOUS
    <3>1. <<k[1], k[2]>> \in S
      BY <1>1
    <3> QED BY <2>1, <3>1, Zenon
  <2>5. k \in S => k[1] \in DOMAIN f /\ k[2] \in DOMAIN f[k[1]]
    BY <1>1, <2>1, <2>3
  <2> QED BY <2>2, <2>4, <2>5
<1>4. Keys(f) \subseteq Key /\ S \subseteq Key
  BY DEF Keys
<1> QED BY <1>2, <1>3, <1>4

(* evict_expired subtracts exactly what it removes. *)
LEMMA EvictExpiredOK ==
  ASSUME NEW c, NEW n, CacheOK(c)
  PROVE  /\ CacheOK(evict_expired(c, n))
         /\ evict_expired(c, n).entry_count \in Nat
         /\ evict_expired(c, n).entry_count <= c.entry_count
<1> DEFINE e == c.entries
           X == ExpiredKeys(e, n)
           x == evict_expired(c, n)
<1>1. X \in SUBSET Keys(e)
  BY DEF ExpiredKeys
<1>2. IsFiniteSet(Keys(e)) /\ Cardinality(Keys(e)) \in Nat
  BY KeysFinite
<1>3. IsFiniteSet(X) /\ Cardinality(X) \in Nat
  BY <1>1, <1>2, FS_Subset, FS_CardinalityType
<1>4. Keys(e) \cap X = X
  BY <1>1
<1>5. Cardinality(Keys(e) \ X) = Cardinality(Keys(e)) - Cardinality(X)
  <2>1. Cardinality(Keys(e) \ X) = Cardinality(Keys(e)) - Cardinality(Keys(e) \cap X)
    BY <1>2, FS_Difference
  <2> QED BY <2>1, <1>4
<1>6. x.entries = Keep(e, Keys(e) \ X) /\ x.entry_count = c.entry_count - Cardinality(X)
  BY DEF evict_expired
<1>7. MapOK(x.entries) /\ Keys(x.entries) = Keys(e) \ X
  BY <1>6, KeepKeys DEF CacheOK
<1>8. Cardinality(Keys(e) \ X) \in Nat
  BY <1>7, KeysFinite
<1> HIDE DEF X, x, e
<1>9. x.entry_count = Cardinality(Keys(x.entries))
  BY <1>5, <1>6, <1>7 DEF CacheOK, e
<1>10. CacheOK(x) /\ x.entry_count \in Nat
  BY <1>7, <1>8, <1>9 DEF CacheOK
<1>11. x.entry_count <= c.entry_count
  BY <1>2, <1>3, <1>6 DEF CacheOK, e
<1> QED BY <1>10, <1>11 DEF x

(* evict_stalest removes one entry of a nonempty cache and counts it out. *)
LEMMA EvictStalestOK ==
  ASSUME NEW c, NEW n, CacheOK(c), NEW m \in evict_stalest(c, n)
  PROVE  /\ CacheOK(m)
         /\ m.entry_count \in Nat
         /\ c.entry_count # 0 => m.entry_count = c.entry_count - 1
         /\ c.entry_count = 0 => m = c
<1> DEFINE e == c.entries
<1>1. IsFiniteSet(Keys(e)) /\ Cardinality(Keys(e)) \in Nat
  BY KeysFinite
<1>2. c.entry_count = 0 <=> Keys(e) = {}
  BY <1>1, FS_EmptySet DEF CacheOK
<1>3. CASE Keys(e) = {}
  BY <1>1, <1>2, <1>3 DEF evict_stalest, CacheOK
<1>4. CASE Keys(e) # {}
  <2>1. PICK k \in Stalest(e, n) :
          m = [entries |-> Keep(e, Keys(e) \ {k}), entry_count |-> c.entry_count - 1]
    BY <1>4 DEF evict_stalest
  <2>2. k \in Keys(e)
    BY DEF Stalest
  <2>3. m.entries = Keep(e, Keys(e) \ {k}) /\ m.entry_count = c.entry_count - 1
    BY <2>1
  <2>4. MapOK(m.entries) /\ Keys(m.entries) = Keys(e) \ {k}
    BY <2>3, KeepKeys DEF CacheOK
  <2>5. Cardinality(Keys(m.entries)) = Cardinality(Keys(e)) - 1
    BY <1>1, <2>2, <2>4, FS_RemoveElement
  <2>6. Cardinality(Keys(m.entries)) \in Nat
    BY KeysFinite
  <2> QED BY <1>2, <1>4, <2>3, <2>4, <2>5, <2>6 DEF CacheOK
<1> QED BY <1>3, <1>4

(* After the two evictions there is room for one more entry. *)
LEMMA MakeRoomOK ==
  ASSUME NEW c, NEW n, CacheOK(c), c.entry_count <= Capacity, NEW m \in MakeRoom(c, n)
  PROVE  CacheOK(m) /\ m.entry_count \in Nat /\ m.entry_count < Capacity
<1> DEFINE x == evict_expired(c, n)
<1>0. c.entry_count \in Nat /\ MaxEntries \in Nat
  BY KeysFinite, CacheConstants DEF CacheOK
<1>1. CacheOK(x) /\ x.entry_count \in Nat /\ x.entry_count <= c.entry_count
  BY EvictExpiredOK
<1>2. CASE c.entry_count < MaxEntries
  <2>1. m = c
    BY <1>2 DEF MakeRoom
  <2> QED BY <1>0, <1>2, <2>1 DEF Capacity
<1>3. CASE ~(c.entry_count < MaxEntries) /\ x.entry_count < MaxEntries
  <2>1. m = x
    BY <1>3 DEF MakeRoom
  <2> QED BY <1>0, <1>1, <1>3, <2>1 DEF Capacity
<1>4. CASE ~(c.entry_count < MaxEntries) /\ ~(x.entry_count < MaxEntries)
  <2>1. m \in evict_stalest(x, n)
    BY <1>4 DEF MakeRoom
  <2> HIDE DEF x
  <2>2. /\ CacheOK(m)
        /\ m.entry_count \in Nat
        /\ x.entry_count # 0 => m.entry_count = x.entry_count - 1
        /\ x.entry_count = 0 => m = x
    BY <1>1, <2>1, EvictStalestOK
  <2> QED BY <1>0, <1>1, <2>2 DEF Capacity
<1> QED BY <1>2, <1>3, <1>4

(* Storing an entry adds its key, and counts it exactly when it is new. *)
LEMMA PutOK ==
  ASSUME NEW c, CacheOK(c), NEW k \in Key, NEW en
  PROVE  /\ CacheOK(Put(c, k, en))
         /\ Keys(Put(c, k, en).entries) = Keys(c.entries) \cup {k}
         /\ Put(c, k, en).entry_count <= c.entry_count + 1
         /\ Entry(Put(c, k, en).entries, k) = en
<1> DEFINE e == c.entries
           types == IF k[1] \in DOMAIN e THEN DOMAIN e[k[1]] ELSE {}
           p == Put(c, k, en)
           f == p.entries
<1>1. k[1] \in Domains /\ k[2] \in Qtypes /\ k = <<k[1], k[2]>>
  BY DEF Key
<1>2. /\ f = [d \in DOMAIN e \cup {k[1]} |->
                IF d # k[1] THEN e[d]
                ELSE [t \in types \cup {k[2]} |-> IF t = k[2] THEN en ELSE e[d][t]]]
      /\ p.entry_count = IF k[2] \in types THEN c.entry_count ELSE c.entry_count + 1
  BY DEF Put
<1> HIDE DEF p
<1>3. /\ DOMAIN f = DOMAIN e \cup {k[1]}
      /\ \A d \in DOMAIN e : d # k[1] => DOMAIN f[d] = DOMAIN e[d]
      /\ DOMAIN f[k[1]] = types \cup {k[2]}
      /\ f[k[1]][k[2]] = en
  BY <1>2
<1> HIDE DEF f
<1>4. MapOK(f)
  BY <1>1, <1>3 DEF CacheOK, MapOK
<1>5. k \in Keys(e) <=> k[2] \in types
  BY DEF Keys
<1>6. Keys(f) = Keys(e) \cup {k}
  <2>1. ASSUME NEW j \in Key PROVE j \in Keys(f) <=> j \in Keys(e) \cup {k}
    <3>1. j = <<j[1], j[2]>>
      BY DEF Key
    <3>2. j \in Keys(f) <=> j[1] \in DOMAIN f /\ j[2] \in DOMAIN f[j[1]]
      BY DEF Keys
    <3>3. j \in Keys(e) <=> j[1] \in DOMAIN e /\ j[2] \in DOMAIN e[j[1]]
      BY DEF Keys
    <3>4. CASE j[1] # k[1]
      BY <1>3, <3>2, <3>3, <3>4
    <3>5. CASE j[1] = k[1]
      BY <1>1, <1>3, <3>1, <3>2, <3>3, <3>5
    <3> QED BY <3>4, <3>5
  <2>2. Keys(f) \subseteq Key /\ Keys(e) \cup {k} \subseteq Key
    BY DEF Keys
  <2> QED BY <2>1, <2>2
<1>7. IsFiniteSet(Keys(e)) /\ Cardinality(Keys(e)) \in Nat
  BY KeysFinite
<1>8. Cardinality(Keys(f)) = IF k \in Keys(e) THEN Cardinality(Keys(e))
                             ELSE Cardinality(Keys(e)) + 1
  BY <1>6, <1>7, FS_AddElement
<1>9. p.entry_count = Cardinality(Keys(f)) /\ p.entry_count <= c.entry_count + 1
  BY <1>2, <1>5, <1>7, <1>8 DEF CacheOK
<1>10. CacheOK(p)
  BY <1>4, <1>9 DEF CacheOK, f
<1> QED BY <1>3, <1>6, <1>9, <1>10 DEF Entry, f, p

(* remove takes a name's entries out of the count with its type map. *)
LEMMA RemoveOK ==
  ASSUME NEW c, CacheOK(c), NEW d
  PROVE  CacheOK(remove(c, d)) /\ remove(c, d).entry_count <= c.entry_count
<1> DEFINE e == c.entries
           T == DOMAIN e[d]
           S == {k \in Keys(e) : k[1] # d}
           p == remove(c, d)
<1>1. IsFiniteSet(Keys(e)) /\ Cardinality(Keys(e)) \in Nat
  BY KeysFinite
<1>2. CASE d \notin DOMAIN e
  BY <1>1, <1>2 DEF remove, CacheOK
<1>3. CASE d \in DOMAIN e
  <2>1. p.entries = Keep(e, S) /\ p.entry_count = c.entry_count - Cardinality(T)
    BY <1>3 DEF remove
  <2>2. T \in SUBSET Qtypes /\ d \in Domains
    BY <1>3 DEF CacheOK, MapOK
  <2>3. IsFiniteSet(T) /\ Cardinality(T) \in Nat
    BY <2>2, CacheKeys, FS_Subset, FS_CardinalityType
  <2>4. IsFiniteSet({d} \X T) /\ Cardinality({d} \X T) = Cardinality(T)
    <3>1. IsFiniteSet({d}) /\ Cardinality({d}) = 1
      BY FS_Singleton
    <3>2. IsFiniteSet({d} \X T) /\ Cardinality({d} \X T) = 1 * Cardinality(T)
      BY <2>3, <3>1, FS_Product
    <3> QED BY <2>3, <3>2
  <2>5. S = Keys(e) \ ({d} \X T) /\ Keys(e) \cap ({d} \X T) = {d} \X T
    BY <1>3, <2>2 DEF Keys, Key
  <2>6. Cardinality(S) = Cardinality(Keys(e)) - Cardinality(T)
    <3>1. Cardinality(Keys(e) \ ({d} \X T))
            = Cardinality(Keys(e)) - Cardinality(Keys(e) \cap ({d} \X T))
      BY <1>1, FS_Difference
    <3> QED BY <2>4, <2>5, <3>1
  <2>7. MapOK(p.entries) /\ Keys(p.entries) = S
    <3>1. S \in SUBSET Keys(e)
      OBVIOUS
    <3> QED BY <2>1, <3>1, KeepKeys DEF CacheOK
  <2> HIDE DEF p, S, T
  <2> QED BY <1>1, <2>1, <2>3, <2>6, <2>7 DEF CacheOK, p
<1> QED BY <1>2, <1>3

-----------------------------------------------------------------------------
(* The inductive invariant: the counter and the map agree, the capacity
   holds, and the entry of an insertion just made is the one stored. *)
CacheInv ==
  /\ CacheOK(cache)
  /\ cache.entry_count <= Capacity
  /\ now \in Nat
  /\ last.op = "insert" => \A en \in last.result :
       /\ last.key \in Keys(entries)
       /\ Entry(entries, last.key) = en
       /\ en.inserted_at = now
       /\ en.ttl \in Nat

LEMMA EmptyCacheOK == CacheOK(EmptyCache) /\ EmptyCache.entry_count = 0
<1>1. EmptyCache.entry_count = 0 /\ DOMAIN EmptyCache.entries = {}
  BY DEF EmptyCache
<1>2. Keys(EmptyCache.entries) = {}
  BY <1>1 DEF Keys
<1> QED BY <1>1, <1>2, FS_EmptySet DEF CacheOK, MapOK

LEMMA CapacityType == Capacity \in Nat /\ Capacity >= 1
BY CacheConstants DEF Capacity

LEMMA InitCacheInv == Init => CacheInv
BY EmptyCacheOK, CapacityType DEF Init, CacheInv, NoCall

LEMMA NextCacheInv == CacheInv /\ [Next]_vars => CacheInv'
<1> SUFFICES ASSUME CacheInv, [Next]_vars PROVE CacheInv'
  OBVIOUS
<1>1. ASSUME NEW k \in Key, NEW wire \in Wire, NEW wellformed \in BOOLEAN,
             NEW status \in Statuses, InsertWire(k, wire, wellformed, status)
      PROVE  CacheInv'
  <2>1. CASE wellformed
    <3> DEFINE en == NewEntry(wire, status, now)
    <3>1. PICK m \in MakeRoom(cache, now) : cache' = Put(m, k, en)
      BY <1>1, <2>1 DEF InsertWire, insert_wire
    <3>2. CacheOK(m) /\ m.entry_count \in Nat /\ m.entry_count < Capacity
      BY MakeRoomOK DEF CacheInv
    <3>3. /\ CacheOK(cache')
          /\ Keys(cache'.entries) = Keys(m.entries) \cup {k}
          /\ cache'.entry_count <= m.entry_count + 1
          /\ Entry(cache'.entries, k) = en
      BY <3>1, <3>2, PutOK
    <3>4. cache'.entry_count <= Capacity /\ now' \in Nat
      <4>1. cache'.entry_count \in Nat
        BY <3>3, KeysFinite DEF CacheOK
      <4>2. cache'.entry_count <= Capacity
        BY <3>2, <3>3, <4>1, CapacityType
      <4>3. now' \in Nat
        BY <1>1 DEF CacheInv, InsertWire
      <4> QED BY <4>2, <4>3
    <3>5. en.inserted_at = now' /\ en.ttl \in Nat
      BY <1>1, CacheConstants, DnsCacheConstants DEF NewEntry, Clamp, InsertWire, Wire
    <3>6. last' = [op |-> "insert", key |-> k, result |-> {en}]
      BY <1>1, <2>1 DEF InsertWire
    <3> HIDE DEF en
    <3> QED BY <3>3, <3>4, <3>5, <3>6 DEF CacheInv, entries
  <2>2. CASE ~wellformed
    BY <1>1, <2>2 DEF InsertWire, CacheInv, NoCall, entries
  <2> QED BY <2>1, <2>2
<1>2. ASSUME NEW k \in Key, LookupWire(k) PROVE CacheInv'
  BY <1>2 DEF LookupWire, CacheInv, entries
<1>3. ASSUME NEW d \in Domains, Remove(d) PROVE CacheInv'
  <2>1. CacheOK(cache') /\ cache'.entry_count <= cache.entry_count
    BY <1>3, RemoveOK DEF Remove, CacheInv
  <2>2. cache'.entry_count \in Nat /\ cache.entry_count \in Nat
    BY <2>1, KeysFinite DEF CacheInv, CacheOK
  <2> QED BY <1>3, <2>1, <2>2, CapacityType DEF Remove, CacheInv, NoCall, entries
<1>4. CASE Clear
  BY <1>4, EmptyCacheOK, CapacityType DEF Clear, CacheInv, NoCall, entries
<1>5. CASE Tick
  BY <1>5 DEF Tick, CacheInv, NoCall, entries
<1>6. CASE UNCHANGED vars
  BY <1>6 DEF vars, CacheInv, entries
<1> QED BY <1>1, <1>2, <1>3, <1>4, <1>5, <1>6 DEF Next

LEMMA CacheInvHolds == Spec => []CacheInv
BY InitCacheInv, NextCacheInv, PTL DEF Spec

(* entry_count equals the number of entries in every reachable state, for
   every set of names and types, capacity and TTL bounds: the four places
   that adjust it never drift apart, and it never wraps. *)
THEOREM CountExactThm == Spec => []CountExact
<1>1. CacheInv => CountExact
  BY DEF CacheInv, CacheOK, CountExact, entries
<1> QED BY <1>1, CacheInvHolds, PTL

(* The cache never outgrows its configured capacity (one entry when that is
   zero). *)
THEOREM CountBoundedThm == Spec => []CountBounded
<1>1. CacheInv => CountBounded
  BY DEF CacheInv, CountBounded, Capacity
<1> QED BY <1>1, CacheInvHolds, PTL

(* No eviction or removal leaves a name with an empty type map behind. *)
THEOREM NoEmptyTypeMapThm == Spec => []NoEmptyTypeMap
<1>1. CacheInv => NoEmptyTypeMap
  BY DEF CacheInv, CacheOK, MapOK, NoEmptyTypeMap, entries
<1> QED BY <1>1, CacheInvHolds, PTL

(* Whatever the capacity, an insertion is visible to the next lookup. *)
THEOREM InsertedIsServedThm == Spec => []InsertedIsServed
<1>1. CacheInv => InsertedIsServed
  <2> SUFFICES ASSUME CacheInv, last.op = "insert", NEW en \in last.result,
                      en.ttl + StaleWindow > 0
               PROVE  \E r \in Lookup(entries, last.key, now) :
                        r.data = en.data /\ r.status = en.status
    BY DEF InsertedIsServed
  <2>1. /\ last.key \in Keys(entries)
        /\ Entry(entries, last.key) = en
        /\ now - en.inserted_at = 0
        /\ en.ttl \in Nat
    BY DEF CacheInv
  <2>2. /\ TtlTicks(en) \in Nat /\ StaleWindow * TicksPerSec \in Nat
        /\ TtlTicks(en) + StaleWindow * TicksPerSec > 0
    BY <2>1, CacheConstants DEF TtlTicks
  <2> QED BY <2>1, <2>2 DEF Lookup, Found
<1> QED BY <1>1, CacheInvHolds, PTL

-----------------------------------------------------------------------------
(* Entries are never changed in place: what an operation leaves of the map is
   what was there, and the entry it stores. *)
EntriesOK(e, n) ==
  \A k \in Keys(e) : Entry(e, k) \in CacheEntry /\ Entry(e, k).inserted_at <= n

LEMMA KeepEntries ==
  ASSUME NEW e, MapOK(e), NEW S \in SUBSET Keys(e), NEW n, EntriesOK(e, n)
  PROVE  EntriesOK(Keep(e, S), n)
<1> DEFINE f == Keep(e, S)
<1> SUFFICES ASSUME NEW k \in Keys(f)
             PROVE  Entry(f, k) \in CacheEntry /\ Entry(f, k).inserted_at <= n
  BY DEF EntriesOK
<1>1. k \in S /\ k \in Keys(e)
  BY KeepKeys
<1>2. k[1] \in DOMAIN f /\ k[2] \in DOMAIN f[k[1]]
  BY DEF Keys
<1>3. Entry(f, k) = Entry(e, k)
  BY <1>2 DEF Keep, Entry
<1> QED BY <1>1, <1>3 DEF EntriesOK

LEMMA MakeRoomEntries ==
  ASSUME NEW c, CacheOK(c), NEW t, NEW n, EntriesOK(c.entries, n), NEW m \in MakeRoom(c, t)
  PROVE  EntriesOK(m.entries, n)
<1> DEFINE x == evict_expired(c, t)
<1>1. CacheOK(x) /\ EntriesOK(x.entries, n)
  <2>1. x.entries = Keep(c.entries, Keys(c.entries) \ ExpiredKeys(c.entries, t))
    BY DEF evict_expired
  <2>2. MapOK(c.entries)
    BY DEF CacheOK
  <2> QED BY <2>1, <2>2, EvictExpiredOK, KeepEntries
<1> HIDE DEF x
<1>2. m = c \/ m = x \/ m \in evict_stalest(x, t)
  BY DEF MakeRoom, x
<1>3. ASSUME m \in evict_stalest(x, t) PROVE EntriesOK(m.entries, n)
  <2>1. m = x \/ \E k \in Keys(x.entries) : m.entries = Keep(x.entries, Keys(x.entries) \ {k})
    BY <1>3 DEF evict_stalest, Stalest
  <2>2. MapOK(x.entries)
    BY <1>1 DEF CacheOK
  <2> QED BY <1>1, <2>1, <2>2, KeepEntries
<1> QED BY <1>1, <1>2, <1>3

LEMMA PutEntries ==
  ASSUME NEW c, CacheOK(c), NEW k \in Key, NEW n, EntriesOK(c.entries, n),
         NEW en \in CacheEntry, en.inserted_at <= n
  PROVE  EntriesOK(Put(c, k, en).entries, n)
<1> DEFINE f == Put(c, k, en).entries
<1> SUFFICES ASSUME NEW j \in Keys(f)
             PROVE  Entry(f, j) \in CacheEntry /\ Entry(f, j).inserted_at <= n
  BY DEF EntriesOK
<1>1. Keys(f) = Keys(c.entries) \cup {k} /\ Entry(f, k) = en
  BY PutOK
<1>2. ASSUME j # k PROVE Entry(f, j) = Entry(c.entries, j)
  <2>1. j[1] \in DOMAIN c.entries /\ j[2] \in DOMAIN c.entries[j[1]]
    BY <1>1, <1>2 DEF Keys
  <2>2. j[1] # k[1] \/ j[2] # k[2]
    BY <1>1, <1>2 DEF Keys, Key
  <2> QED BY <2>1, <2>2 DEF Put, Entry
<1> QED BY <1>1, <1>2 DEF EntriesOK

LEMMA RemoveEntries ==
  ASSUME NEW c, CacheOK(c), NEW d, NEW n, EntriesOK(c.entries, n)
  PROVE  EntriesOK(remove(c, d).entries, n)
<1>1. MapOK(c.entries)
  BY DEF CacheOK
<1>2. {k \in Keys(c.entries) : k[1] # d} \in SUBSET Keys(c.entries)
  OBVIOUS
<1>3. remove(c, d) = c \/ remove(c, d).entries = Keep(c.entries, {k \in Keys(c.entries) : k[1] # d})
  BY DEF remove
<1> QED BY <1>1, <1>2, <1>3, KeepEntries

TypeInv == CacheInv /\ now \in 0..MaxTime /\ EntriesOK(entries, now)

LEMMA NewEntryType ==
  ASSUME NEW wire \in Wire, NEW status \in Statuses, NEW n \in 0..MaxTime
  PROVE  NewEntry(wire, status, n) \in CacheEntry /\ NewEntry(wire, status, n).inserted_at <= n
<1>1. wire.ttl \in Nat \cup {NoTtl} /\ wire.data \in Data
  BY DnsCacheConstants DEF Wire
<1>2. Clamp(wire.ttl) \in MinTtl..MaxTtl
  <2>1. MinTtl \in Int /\ MaxTtl \in Int /\ MinTtl <= MaxTtl
    BY CacheConstants
  <2>2. CASE wire.ttl = NoTtl
    BY <2>1, <2>2 DEF Clamp
  <2>3. CASE wire.ttl \in Nat
    BY <2>1, <2>3 DEF Clamp
  <2> QED BY <1>1, <2>2, <2>3
<1>3. n \in Int
  BY DnsCacheConstants
<1> QED BY <1>1, <1>2, <1>3 DEF NewEntry, CacheEntry

LEMMA TypeInvHolds == Spec => []TypeInv
<1>1. Init => TypeInv
  <2> SUFFICES ASSUME Init PROVE TypeInv
    OBVIOUS
  <2>1. DOMAIN entries = {}
    BY DEF Init, EmptyCache, entries
  <2>2. EntriesOK(entries, now)
    BY <2>1 DEF EntriesOK, Keys
  <2> QED BY <2>2, InitCacheInv, DnsCacheConstants DEF Init, TypeInv
<1>2. TypeInv /\ [Next]_vars => TypeInv'
  <2> SUFFICES ASSUME TypeInv, [Next]_vars PROVE TypeInv'
    OBVIOUS
  <2>0. CacheInv' /\ CacheOK(cache)
    BY NextCacheInv DEF TypeInv, CacheInv
  <2>1. ASSUME NEW k \in Key, NEW wire \in Wire, NEW wellformed \in BOOLEAN,
               NEW status \in Statuses, InsertWire(k, wire, wellformed, status)
        PROVE  now' \in 0..MaxTime /\ EntriesOK(entries', now')
    <3>1. CASE wellformed
      <4>1. PICK m \in MakeRoom(cache, now) : cache' = Put(m, k, NewEntry(wire, status, now))
        BY <2>1, <3>1 DEF InsertWire, insert_wire
      <4>2. CacheOK(m) /\ EntriesOK(m.entries, now)
        BY <2>0, MakeRoomOK, MakeRoomEntries DEF TypeInv, CacheInv, entries
      <4>3. EntriesOK(cache'.entries, now)
        BY <4>1, <4>2, NewEntryType, PutEntries DEF TypeInv
      <4> QED BY <2>1, <4>3 DEF InsertWire, TypeInv, entries
    <3>2. CASE ~wellformed
      BY <2>1, <3>2 DEF InsertWire, TypeInv, entries
    <3> QED BY <3>1, <3>2
  <2>2. ASSUME NEW k \in Key, LookupWire(k)
        PROVE  now' \in 0..MaxTime /\ EntriesOK(entries', now')
    BY <2>2 DEF LookupWire, TypeInv, entries
  <2>3. ASSUME NEW d \in Domains, Remove(d)
        PROVE  now' \in 0..MaxTime /\ EntriesOK(entries', now')
    BY <2>0, <2>3, RemoveEntries DEF Remove, TypeInv, entries
  <2>4. ASSUME Clear PROVE now' \in 0..MaxTime /\ EntriesOK(entries', now')
    <3>1. DOMAIN entries' = {} /\ now' = now
      BY <2>4 DEF Clear, EmptyCache, entries
    <3> QED BY <3>1 DEF EntriesOK, Keys, TypeInv
  <2>5. ASSUME Tick PROVE now' \in 0..MaxTime /\ EntriesOK(entries', now')
    <3>1. now' = now + 1 /\ now' \in 0..MaxTime /\ entries' = entries
      BY <2>5, DnsCacheConstants DEF Tick, TypeInv, entries
    <3>2. \A k \in Keys(entries) : Entry(entries, k).inserted_at \in Nat
      BY DEF TypeInv, EntriesOK, CacheEntry
    <3> QED BY <3>1, <3>2 DEF TypeInv, EntriesOK
  <2>6. CASE UNCHANGED vars
    BY <2>6 DEF vars, TypeInv, entries, CacheInv
  <2> QED BY <2>0, <2>1, <2>2, <2>3, <2>4, <2>5, <2>6 DEF Next, TypeInv
<1> QED BY <1>1, <1>2, PTL DEF Spec

(* Map, counter, capacity and the types of all entries agree in every
   reachable state, for every instance. *)
THEOREM CacheConsistentThm == Spec => []CacheConsistent
<1>1. TypeInv => TypeOK
  <2> SUFFICES ASSUME TypeInv PROVE TypeOK
    OBVIOUS
  <2>1. cache.entry_count \in Nat
    BY KeysFinite DEF TypeInv, CacheInv, CacheOK
  <2> QED BY <2>1 DEF TypeInv, TypeOK, CacheInv, CacheOK, MapOK, EntriesOK, entries
<1> QED BY <1>1, TypeInvHolds, CountExactThm, CountBoundedThm, NoEmptyTypeMapThm, PTL
        DEF CacheConsistent

-----------------------------------------------------------------------------
(* Whole seconds of a number of ticks. *)
LEMMA CancelTicks ==
  ASSUME NEW x \in Int, NEW y \in Int, NEW n \in Nat \ {0}, x * n < (y + 1) * n
  PROVE  x <= y
<1> SUFFICES ASSUME x >= y + 1 PROVE FALSE
  OBVIOUS
<1> QED BY Z3

LEMMA WholeSeconds ==
  ASSUME NEW a \in Nat, NEW n \in Nat \ {0}
  PROVE  a \div n \in Nat /\ (a \div n) * n <= a /\ a < ((a \div n) + 1) * n
OBVIOUS

LEMMA FewerSeconds ==
  ASSUME NEW a \in Nat, NEW b \in Nat, NEW n \in Nat \ {0}, a <= b
  PROVE  a \div n <= b \div n
<1>1. /\ a \div n \in Nat /\ (a \div n) * n <= a
      /\ b \div n \in Nat /\ b < ((b \div n) + 1) * n
  BY WholeSeconds
<1> DEFINE x == a \div n
           y == b \div n
<1> HIDE DEF x, y
<1>2. x \in Int /\ y \in Int /\ x * n \in Int /\ (y + 1) * n \in Int
  BY <1>1 DEF x, y
<1>3. x * n < (y + 1) * n
  BY <1>1, <1>2 DEF x, y
<1> QED BY <1>2, <1>3, CancelTicks DEF x, y

(* The arithmetic of needs_warm: nine tenths of an entry's life leave less
   than a quarter of its seconds, from four seconds on. *)
LEMMA NearExpiryIsLate ==
  ASSUME NEW ttl \in Nat, NEW age \in Nat, NEW n \in Nat \ {0},
         age < ttl * n, age * 10 >= (ttl * n) * 9, ttl >= 4
  PROVE  (ttl * n - age) \div n < ttl \div 4
<1> DEFINE a == ttl * n - age
           s == a \div n
<1>1. a \in Nat /\ a * 10 <= ttl * n
  <2> DEFINE l == ttl * n
  <2>1. l \in Nat
    OBVIOUS
  <2> HIDE DEF l
  <2> QED BY <2>1 DEF l
<1> HIDE DEF a
<1>2. s \in Nat /\ s * n <= a
  BY <1>1, WholeSeconds
<1> HIDE DEF s
<1>3. (s * 10) * n = (s * n) * 10 /\ s * n \in Nat /\ (ttl + 1) * n = ttl * n + n /\ ttl * n \in Nat
  BY <1>2
<1>4. (s * 10) * n < (ttl + 1) * n
  BY <1>1, <1>2, <1>3
<1>5. s * 10 <= ttl
  BY <1>2, <1>4, CancelTicks
<1>6. s < ttl \div 4
  BY <1>2, <1>5
<1> QED BY <1>6 DEF s, a

(* Where an entry is in its life at time n. *)
LEMMA AgeOf ==
  ASSUME NEW en \in CacheEntry, NEW n \in 0..MaxTime, en.inserted_at <= n
  PROVE  /\ n - en.inserted_at \in Nat /\ en.ttl \in Nat /\ TtlTicks(en) \in Nat
         /\ StaleWindow * TicksPerSec \in Nat /\ TicksPerSec \in Nat \ {0}
<1>1. en.ttl \in Nat /\ en.inserted_at \in Nat /\ n \in Nat
  BY CacheConstants, DnsCacheConstants DEF CacheEntry
<1> QED BY <1>1, CacheConstants DEF TtlTicks

(* For any TTLs and any clock: what lookup_wire would have refreshed or does
   not find, needs_warm asks to refresh (src/src/cache.rs), unless the entry
   lives for less than four seconds. *)
THEOREM WarmCoversRefreshThm == Spec => []WarmCoversRefresh
<1>1. ASSUME TypeInv, NEW d \in Domains, NEW t \in Qtypes
      PROVE  LET found == Lookup(entries, <<d, t>>, now)
             IN \/ \E r \in found : r.freshness = "Fresh"
                \/ \E r \in found : r.freshness = "NearExpiry" /\ Entry(entries, <<d, t>>).ttl < 4
                \/ NeedsWarm(entries, d, Qtypes, now)
  <2> DEFINE k == <<d, t>>
             en == Entry(entries, k)
             age == now - en.inserted_at
  <2>1. CASE ~(k \in Keys(entries) /\ Live(en, now))
    <3>1. TtlRemaining(entries, k, now) = {}
      BY <2>1 DEF TtlRemaining
    <3> QED BY <3>1 DEF NeedsWarm
  <2>2. CASE k \in Keys(entries) /\ Live(en, now)
    <3>1. en \in CacheEntry /\ en.inserted_at <= now /\ now \in 0..MaxTime
      BY <1>1, <2>2 DEF TypeInv, EntriesOK
    <3> HIDE DEF k, en
    <3>2. /\ age \in Nat /\ en.ttl \in Nat /\ TtlTicks(en) \in Nat
          /\ StaleWindow * TicksPerSec \in Nat /\ TicksPerSec \in Nat \ {0}
      BY <3>1, AgeOf
    <3>3. age < TtlTicks(en)
      BY <2>2 DEF Live
    <3>4. Lookup(entries, k, now) = Found(en, now)
      <4>1. age < TtlTicks(en) + StaleWindow * TicksPerSec
        BY <3>2, <3>3
      <4> QED BY <2>2, <4>1 DEF Lookup, en
    <3>5. /\ FreshnessOf(en, now) = "Fresh" \/ (FreshnessOf(en, now) = "NearExpiry" /\ age * 10 >= TtlTicks(en) * 9)
      BY <2>2 DEF FreshnessOf
    <3>6. \E r \in Found(en, now) : r.freshness = FreshnessOf(en, now)
      BY DEF Found
    <3>7. ASSUME age * 10 >= TtlTicks(en) * 9, en.ttl >= 4 PROVE NeedsWarm(entries, d, Qtypes, now)
      <4>1. Secs(en, now) < en.ttl \div 4
        BY <3>2, <3>3, <3>7, NearExpiryIsLate DEF Secs, TtlTicks
      <4>2. TtlRemaining(entries, k, now) = {<<Secs(en, now), en.ttl>>}
        BY <2>2 DEF TtlRemaining, en
      <4> QED BY <4>1, <4>2 DEF NeedsWarm, k
    <3>8. en.ttl < 4 \/ en.ttl >= 4
      BY <3>2
    <3> QED BY <3>4, <3>5, <3>6, <3>7, <3>8 DEF k, en
  <2> QED BY <2>1, <2>2
<1>2. TypeInv => WarmCoversRefresh
  BY <1>1 DEF WarmCoversRefresh
<1> QED BY <1>2, TypeInvHolds, PTL

LEMMA PatchedShrinks ==
  ASSUME NEW en \in CacheEntry, NEW n \in 0..MaxTime, NEW m \in 0..MaxTime,
         en.inserted_at <= n, n <= m
  PROVE  PatchedTtl(en, m) <= PatchedTtl(en, n)
<1> DEFINE i == en.inserted_at
           l == TtlTicks(en)
<1>1. n - i \in Nat /\ l \in Nat /\ TicksPerSec \in Nat \ {0} /\ m - i \in Nat /\ n - i <= m - i
  <2>1. i \in Nat /\ n \in Nat /\ m \in Nat
    BY DnsCacheConstants DEF CacheEntry
  <2> QED BY <2>1, AgeOf
<1>2. PatchedTtl(en, n) \in Nat /\ PatchedTtl(en, n) >= 1
  <2>1. Live(en, n) => l - (n - i) \in Nat
    BY <1>1 DEF Live
  <2>2. Live(en, n) => Secs(en, n) \in Nat
    BY <1>1, <2>1, WholeSeconds DEF Secs
  <2> QED BY <2>2 DEF PatchedTtl
<1>3. CASE Live(en, m) /\ Secs(en, m) >= 1
  <2>1. Live(en, n) /\ l - (m - i) \in Nat /\ l - (n - i) \in Nat /\ l - (m - i) <= l - (n - i)
    BY <1>1, <1>3 DEF Live
  <2> HIDE DEF l
  <2>2. Secs(en, m) <= Secs(en, n) /\ Secs(en, m) \in Nat /\ Secs(en, n) \in Nat
    BY <1>1, <2>1, FewerSeconds, WholeSeconds DEF Secs, l
  <2> QED BY <1>3, <2>1, <2>2 DEF PatchedTtl
<1>4. CASE ~(Live(en, m) /\ Secs(en, m) >= 1)
  BY <1>2, <1>4 DEF PatchedTtl
<1> QED BY <1>3, <1>4

Rank(f) == CASE f = "Fresh" -> 0 [] f = "NearExpiry" -> 1 [] f = "Stale" -> 2

LEMMA RankGrows ==
  ASSUME NEW en \in CacheEntry, NEW n \in 0..MaxTime, NEW m \in 0..MaxTime,
         en.inserted_at <= n, n <= m
  PROVE  Rank(FreshnessOf(en, n)) <= Rank(FreshnessOf(en, m)) /\ Rank(FreshnessOf(en, n)) <= 2
<1> DEFINE a == n - en.inserted_at
           b == m - en.inserted_at
           l == TtlTicks(en)
<1>1. a \in Nat /\ b \in Nat /\ a <= b /\ l \in Nat
  <2>1. en.inserted_at \in Nat /\ n \in Nat /\ m \in Nat
    BY DnsCacheConstants DEF CacheEntry
  <2> QED BY <2>1, AgeOf
<1>2. /\ FreshnessOf(en, n) = IF a >= l THEN "Stale" ELSE IF a * 10 >= l * 9 THEN "NearExpiry" ELSE "Fresh"
      /\ FreshnessOf(en, m) = IF b >= l THEN "Stale" ELSE IF b * 10 >= l * 9 THEN "NearExpiry" ELSE "Fresh"
  BY <1>1 DEF FreshnessOf, Live
<1> HIDE DEF a, b, l
<1> QED BY <1>1, <1>2 DEF Rank

(* Time never makes a cached entry fresher, and never lengthens the TTL that
   clients see, whatever the TTLs and the resolution of the clock
   (src/src/cache.rs, lookup_wire). *)
THEOREM AgesMonotonicallyThm == Spec => AgesMonotonically
<1> DEFINE Ages == \A k \in Keys(entries) \cap Keys(entries') :
                     Entry(entries, k) = Entry(entries', k) =>
                       LET before == Lookup(entries, k, now)
                           after  == Lookup(entries', k, now')
                       IN /\ FreshnessRank(before) <= FreshnessRank(after)
                          /\ \A x \in before, y \in after : y.ttl <= x.ttl
<1>1. ASSUME TypeInv, TypeInv', [Next]_vars PROVE Ages
  <2>0. now <= now' /\ now \in 0..MaxTime /\ now' \in 0..MaxTime
    <3>1. now \in Nat
      BY <1>1 DEF TypeInv, CacheInv
    <3> QED BY <1>1, <3>1 DEF TypeInv, Next, vars, InsertWire, LookupWire, Remove, Clear, Tick
  <2> SUFFICES ASSUME NEW k \in Keys(entries) \cap Keys(entries'),
                      Entry(entries, k) = Entry(entries', k)
               PROVE  /\ FreshnessRank(Lookup(entries, k, now)) <= FreshnessRank(Lookup(entries', k, now'))
                      /\ \A x \in Lookup(entries, k, now), y \in Lookup(entries', k, now') : y.ttl <= x.ttl
    OBVIOUS
  <2> DEFINE en == Entry(entries, k)
             limit == TtlTicks(en) + StaleWindow * TicksPerSec
  <2>1. en \in CacheEntry /\ en.inserted_at <= now
    BY <1>1 DEF TypeInv, EntriesOK
  <2>2. /\ Lookup(entries, k, now) = IF now - en.inserted_at < limit THEN Found(en, now) ELSE {}
        /\ Lookup(entries', k, now') = IF now' - en.inserted_at < limit THEN Found(en, now') ELSE {}
    BY DEF Lookup
  <2> HIDE DEF en
  <2>3. en.inserted_at \in Nat /\ now \in Nat /\ now' \in Nat /\ limit \in Nat
    <3>1. TtlTicks(en) \in Nat /\ StaleWindow * TicksPerSec \in Nat
      BY <2>0, <2>1, AgeOf
    <3> QED BY <2>0, <2>1, <3>1, DnsCacheConstants DEF CacheEntry
  <2>4. now' - en.inserted_at < limit => now - en.inserted_at < limit
    BY <2>0, <2>3
  <2>5. /\ Rank(FreshnessOf(en, now)) <= Rank(FreshnessOf(en, now')) /\ Rank(FreshnessOf(en, now)) <= 2
        /\ PatchedTtl(en, now') <= PatchedTtl(en, now)
    BY <2>0, <2>1, RankGrows, PatchedShrinks
  <2>6. ASSUME NEW n PROVE FreshnessRank(Found(en, n)) = Rank(FreshnessOf(en, n))
    <3> DEFINE x == [ttl |-> PatchedTtl(en, n), freshness |-> FreshnessOf(en, n),
                     status |-> en.status, data |-> en.data]
    <3>1. Found(en, n) = {x} /\ x.freshness = FreshnessOf(en, n)
      BY DEF Found
    <3> HIDE DEF x
    <3>2. (CHOOSE r \in {x} : TRUE) = x
      OBVIOUS
    <3> QED BY <3>1, <3>2 DEF FreshnessRank, Rank
  <2>7. FreshnessRank({}) = 3
    BY DEF FreshnessRank
  <2>8. \A n : \A x \in Found(en, n) : x.ttl = PatchedTtl(en, n)
    BY DEF Found
  <2> HIDE DEF limit
  <2>9. Rank(FreshnessOf(en, now)) \in Nat
    BY DEF Rank, FreshnessOf
  <2> QED BY <2>2, <2>4, <2>5, <2>6, <2>7, <2>8, <2>9
<1> HIDE DEF Ages
<1>2. Spec => [][Ages]_vars
  BY <1>1, TypeInvHolds, PTL DEF Spec
<1> QED BY <1>2 DEF AgesMonotonically, Ages

-----------------------------------------------------------------------------
LEMMA KeptEntry ==
  ASSUME NEW e, MapOK(e), NEW S \in SUBSET Keys(e), NEW k \in S
  PROVE  Entry(Keep(e, S), k) = Entry(e, k)
<1> DEFINE f == Keep(e, S)
<1>1. k \in Keys(f)
  BY KeepKeys
<1>2. k[1] \in DOMAIN f /\ k[2] \in DOMAIN f[k[1]]
  BY <1>1 DEF Keys
<1> QED BY <1>2 DEF Keep, Entry

(* What making room for an entry costs: nothing but what has expired, or, in a
   cache full of live entries, one that is closest to expiry. *)
Costs(e, f, n) ==
  LET lost == Keys(e) \ Keys(f)
  IN \/ lost \subseteq ExpiredKeys(e, n)
     \/ /\ ExpiredKeys(e, n) = {}
        /\ \E j \in Stalest(e, n) : lost = {j}

LEMMA RoomCosts ==
  ASSUME NEW c, NEW n, CacheOK(c), c.entry_count <= Capacity, NEW m \in MakeRoom(c, n)
  PROVE  /\ Costs(c.entries, m.entries, n)
         /\ Keys(m.entries) \subseteq Keys(c.entries)
         /\ Keys(c.entries) # Keys(m.entries) => c.entry_count >= MaxEntries
<1> DEFINE e == c.entries
           X == ExpiredKeys(e, n)
           x == evict_expired(c, n)
<1>0. /\ c.entry_count \in Nat /\ MaxEntries \in Nat /\ c.entry_count = Cardinality(Keys(e))
      /\ MapOK(e) /\ X \in SUBSET Keys(e)
  BY KeysFinite, CacheConstants DEF CacheOK, ExpiredKeys
<1>1. CacheOK(x) /\ x.entry_count \in Nat
  BY EvictExpiredOK
<1>2. x.entries = Keep(e, Keys(e) \ X) /\ x.entry_count = c.entry_count - Cardinality(X)
  BY DEF evict_expired
<1>3. Keys(x.entries) = Keys(e) \ X
  BY <1>0, <1>2, KeepKeys
<1>4. IsFiniteSet(X) /\ Cardinality(X) \in Nat
  BY <1>0, KeysFinite, FS_Subset, FS_CardinalityType
<1> HIDE DEF X, x, e
<1>5. CASE c.entry_count < MaxEntries
  <2>1. m = c
    BY <1>5 DEF MakeRoom
  <2> QED BY <2>1 DEF Costs
<1>6. CASE ~(c.entry_count < MaxEntries) /\ x.entry_count < MaxEntries
  <2>1. m = x
    BY <1>6 DEF MakeRoom, x
  <2> QED BY <1>0, <1>3, <1>6, <2>1 DEF Costs, X, e
<1>7. CASE ~(c.entry_count < MaxEntries) /\ ~(x.entry_count < MaxEntries)
  <2>1. m \in evict_stalest(x, n)
    BY <1>7 DEF MakeRoom, x
  <2>2. CASE Keys(x.entries) = {}
    <3>1. m = x
      BY <2>1, <2>2 DEF evict_stalest
    <3> QED BY <1>0, <1>3, <1>7, <3>1 DEF Costs, X, e
  <2>3. CASE Keys(x.entries) # {}
    <3>1. PICK j \in Stalest(x.entries, n) : m.entries = Keep(x.entries, Keys(x.entries) \ {j})
      BY <2>1, <2>3 DEF evict_stalest
    <3>2. j \in Keys(x.entries) /\ Keys(m.entries) = Keys(x.entries) \ {j}
      BY <1>1, <3>1, KeepKeys DEF Stalest, CacheOK
    <3>3. X = {}
      <4>1. x.entry_count >= 1
        <5>1. IsFiniteSet(Keys(x.entries)) /\ x.entry_count = Cardinality(Keys(x.entries))
          BY <1>1, KeysFinite DEF CacheOK
        <5>2. Cardinality(Keys(x.entries)) # 0
          BY <2>3, <5>1, FS_EmptySet
        <5> QED BY <1>1, <5>1, <5>2
      <4>2. Cardinality(X) = 0
        BY <1>0, <1>1, <1>2, <1>4, <1>7, <4>1 DEF Capacity
      <4> QED BY <1>4, <4>2, FS_EmptySet
    <3>4. Keys(x.entries) = Keys(e)
      BY <1>3, <3>3
    <3>5. \A i \in Keys(e) : Entry(x.entries, i) = Entry(e, i)
      BY <1>0, <1>2, <3>3, KeptEntry
    <3>6. j \in Stalest(e, n)
      BY <3>1, <3>4, <3>5 DEF Stalest
    <3>7. Keys(e) \ Keys(m.entries) = {j} /\ Keys(m.entries) \subseteq Keys(e)
      BY <3>2, <3>4
    <3>8. Costs(e, m.entries, n)
      BY <3>3, <3>6, <3>7 DEF Costs, X
    <3> QED BY <1>0, <1>7, <3>7, <3>8 DEF e
  <2> QED BY <2>2, <2>3
<1> QED BY <1>5, <1>6, <1>7

(* For any capacity: an insertion takes a live entry of another key only from
   a full cache that holds nothing expired, only one, and one that is closest
   to expiry (src/src/cache.rs, insert_wire, evict_expired, evict_stalest). *)
THEOREM EvictionOrderThm == Spec => EvictionOrder
<1> DEFINE Lost == (Keys(entries) \ Keys(entries')) \ {last'.key}
           LostLive == {j \in Lost : Live(Entry(entries, j), now)}
           Pays == /\ cache.entry_count >= MaxEntries
                   /\ ExpiredKeys(entries, now) = {}
                   /\ \E j \in LostLive :
                        /\ Lost = {j}
                        /\ \A i \in Keys(entries) :
                             Remaining(Entry(entries, j), now) <= Remaining(Entry(entries, i), now)
           Order ==
             last'.op = "insert" =>
               LET lost == (Keys(entries) \ Keys(entries')) \ {last'.key}
                   live == {j \in lost : Live(Entry(entries, j), now)}
               IN live # {} =>
                    /\ cache.entry_count >= MaxEntries
                    /\ ExpiredKeys(entries, now) = {}
                    /\ \E j \in live :
                         /\ lost = {j}
                         /\ \A i \in Keys(entries) :
                              Remaining(Entry(entries, j), now) <= Remaining(Entry(entries, i), now)
<1>1. ASSUME CacheInv, [Next]_vars, last'.op = "insert", LostLive # {} PROVE Pays
  <2>1. \E k \in Key, wire \in Wire, status \in Statuses : InsertWire(k, wire, TRUE, status)
    <3>1. CASE UNCHANGED vars
      <4>1. entries' = entries
        BY <3>1 DEF vars, entries
      <4>2. Lost = {}
        BY <4>1
      <4> QED BY <1>1, <4>2
    <3>2. ASSUME NEW k \in Key, NEW wire \in Wire, NEW status \in Statuses, NEW w \in BOOLEAN,
                 InsertWire(k, wire, w, status)
          PROVE  w = TRUE
      BY <1>1, <3>2 DEF InsertWire, NoCall
    <3>3. ~(\E k \in Key : LookupWire(k)) /\ ~(\E d \in Domains : Remove(d)) /\ ~Clear /\ ~Tick
      BY <1>1 DEF LookupWire, Remove, Clear, Tick, NoCall
    <3> QED BY <1>1, <3>1, <3>2, <3>3 DEF Next
  <2>2. PICK k \in Key, wire \in Wire, status \in Statuses : InsertWire(k, wire, TRUE, status)
    BY <2>1
  <2> DEFINE en == NewEntry(wire, status, now)
  <2>3. PICK m \in MakeRoom(cache, now) : cache' = Put(m, k, en)
    BY <2>2 DEF InsertWire, insert_wire
  <2>4. last'.key = k
    BY <2>2 DEF InsertWire
  <2>5. CacheOK(m)
    BY <1>1, MakeRoomOK DEF CacheInv
  <2>6. Keys(entries') = Keys(m.entries) \cup {k}
    BY <2>3, <2>5, PutOK DEF entries
  <2>7. /\ Costs(entries, m.entries, now) /\ Keys(m.entries) \subseteq Keys(entries)
        /\ Keys(entries) # Keys(m.entries) => cache.entry_count >= MaxEntries
    BY <1>1, RoomCosts DEF CacheInv, entries
  <2>8. Lost = (Keys(entries) \ Keys(m.entries)) \ {k}
    BY <2>4, <2>6
  <2>9. PICK j \in Lost : Live(Entry(entries, j), now)
    BY <1>1
  <2> HIDE DEF Lost
  <2>10. j \in Keys(entries) /\ j \notin Keys(m.entries) /\ j \notin ExpiredKeys(entries, now)
    BY <2>8, <2>9 DEF ExpiredKeys
  <2>11. /\ ExpiredKeys(entries, now) = {}
         /\ j \in Stalest(entries, now) /\ Keys(entries) \ Keys(m.entries) = {j}
    BY <2>7, <2>10 DEF Costs
  <2>12. Lost = {j}
    BY <2>8, <2>9, <2>11
  <2>13. \A i \in Keys(entries) :
           Remaining(Entry(entries, j), now) <= Remaining(Entry(entries, i), now)
    BY <2>11 DEF Stalest
  <2>14. cache.entry_count >= MaxEntries
    BY <2>7, <2>10
  <2> QED BY <2>9, <2>11, <2>12, <2>13, <2>14
<1>2. CacheInv /\ [Next]_vars => Order
  BY <1>1
<1> HIDE DEF Order
<1>3. Spec => [][Order]_vars
  BY <1>2, CacheInvHolds, PTL DEF Spec
<1> QED BY <1>3, PTL DEF EvictionOrder, Order
=============================================================================
