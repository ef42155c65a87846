------------------------------ MODULE CacheOps ------------------------------
(***************************************************************************)
(* The operations of numa's DNS cache (src/src/cache.rs) as operators on a  *)
(* cache value, so that the cache's own specification (DnsCache) and the    *)
(* resolver that shares the cache between tasks (Resolver) use one          *)
(* definition of each.                                                      *)
(*                                                                          *)
(* A cache value is the record [entries, entry_count]: entries is the       *)
(* two-level map of the code (name -> query type -> entry) and entry_count  *)
(* the counter the code maintains beside it.  Time is counted in ticks,     *)
(* TicksPerSec to the second, because the code compares Durations but       *)
(* reports whole seconds.  A wire message is abstracted to the TTLs its     *)
(* answer section carries (their minimum, or NoTtl when it has none) and to *)
(* the data it stands for.                                                  *)
(***************************************************************************)
EXTENDS Integers, FiniteSets

CONSTANTS
  Domains,      \* names a cache entry can be filed under
  Qtypes,       \* query types
  NoTtl,        \* the TTL of a message without answer records
  MinTtl,       \* cache.min_ttl, seconds
  MaxTtl,       \* cache.max_ttl, seconds
  MaxEntries,   \* cache.max_entries
  StaleWindow,  \* STALE_WINDOW, seconds
  TicksPerSec   \* resolution of the model's clock

(* MinTtl <= MaxTtl is what u32::clamp demands (it panics otherwise). *)
ASSUME CacheConstants ==
  /\ MinTtl \in Nat /\ MaxTtl \in Nat /\ MinTtl <= MaxTtl
  /\ MaxEntries \in Nat
  /\ StaleWindow \in Nat
  /\ TicksPerSec \in Nat \ {0}
  /\ NoTtl \notin Nat

ASSUME CacheKeys == IsFiniteSet(Domains) /\ IsFiniteSet(Qtypes)

DnssecStatus == {"Secure", "Insecure", "Bogus", "Indeterminate"}

Key == Domains \X Qtypes

EmptyCache == [entries |-> [d \in {} |-> [t \in {} |-> {}]], entry_count |-> 0]

(* The (name, type) pairs a two-level map holds. *)
Keys(e) == {k \in Key : k[1] \in DOMAIN e /\ k[2] \in DOMAIN e[k[1]]}

Entry(e, k) == e[k[1]][k[2]]

TtlTicks(en) == en.ttl * TicksPerSec

(* entry.inserted_at.elapsed() < entry.ttl *)
Live(en, now) == now - en.inserted_at < TtlTicks(en)

needs_refresh(f) == f \in {"NearExpiry", "Stale"}

-----------------------------------------------------------------------------
(* The definitions whose names start with Bug are faulty variants of the one
   that follows; substituting them shows that the properties can fail. *)

(* The whole seconds a live entry has left. *)
Secs(en, now) == (TtlTicks(en) - (now - en.inserted_at)) \div TicksPerSec

BugTtlMayBeZero(en, now) == IF Live(en, now) THEN Secs(en, now) ELSE 1

(* The TTL patched into the copy handed out: secs.max(1), or 1 when stale. *)
PatchedTtl(en, now) ==
  IF Live(en, now) /\ Secs(en, now) >= 1 THEN Secs(en, now) ELSE 1

FreshnessOf(en, now) ==
  IF ~Live(en, now) THEN "Stale"
  ELSE IF (now - en.inserted_at) * 10 >= TtlTicks(en) * 9 THEN "NearExpiry" ELSE "Fresh"

Found(en, now) ==
  {[ttl |-> PatchedTtl(en, now), freshness |-> FreshnessOf(en, now),
    status |-> en.status, data |-> en.data]}

BugStaleForEver(e, k, now) == IF k \in Keys(e) THEN Found(Entry(e, k), now) ELSE {}

(* What lookup_wire returns for key k: a set with one reply, or the empty
   set for None. *)
Lookup(e, k, now) ==
  IF /\ k \in Keys(e)
     /\ now - Entry(e, k).inserted_at < TtlTicks(Entry(e, k)) + StaleWindow * TicksPerSec
  THEN Found(Entry(e, k), now) ELSE {}

(* ttl_remaining: <<remaining, total>> in seconds, or {} once expired. *)
TtlRemaining(e, k, now) ==
  IF k \in Keys(e) /\ Live(Entry(e, k), now)
  THEN {<<Secs(Entry(e, k), now), Entry(e, k).ttl>>}
  ELSE {}

BugWarmTooLate(e, d, ts, now) ==
  \E t \in ts : LET r == TtlRemaining(e, <<d, t>>, now)
                IN r = {} \/ \E x \in r : x[1] < x[2] \div 8

(* needs_warm over the types in ts (A and AAAA in the code). *)
NeedsWarm(e, d, ts, now) ==
  \E t \in ts : LET r == TtlRemaining(e, <<d, t>>, now)
                IN r = {} \/ \E x \in r : x[1] < x[2] \div 4

-----------------------------------------------------------------------------

(* Restrict a two-level map to the keys in S, dropping names left empty. *)
Keep(e, S) ==
  [d \in {d \in DOMAIN e : \E t \in DOMAIN e[d] : <<d, t>> \in S} |->
     [t \in {t \in DOMAIN e[d] : <<d, t>> \in S} |-> e[d][t]]]

ExpiredKeys(e, now) == {k \in Keys(e) : ~Live(Entry(e, k), now)}

evict_expired(c, now) ==
  [entries     |-> Keep(c.entries, Keys(c.entries) \ ExpiredKeys(c.entries, now)),
   entry_count |-> c.entry_count - Cardinality(ExpiredKeys(c.entries, now))]

(* entry.ttl.saturating_sub(age) *)
Remaining(en, now) ==
  IF Live(en, now) THEN TtlTicks(en) - (now - en.inserted_at) ELSE 0

BugFreshest(e, now) ==
  {k \in Keys(e) : \A j \in Keys(e) :
      Remaining(Entry(e, j), now) <= Remaining(Entry(e, k), now)}

(* The keys evict_stalest may pick: HashMap order decides between equals. *)
Stalest(e, now) ==
  {k \in Keys(e) : \A j \in Keys(e) :
      Remaining(Entry(e, k), now) <= Remaining(Entry(e, j), now)}

(* The caches evict_stalest can leave (the cache itself when it is empty). *)
evict_stalest(c, now) ==
  IF Keys(c.entries) = {} THEN {c}
  ELSE {[entries     |-> Keep(c.entries, Keys(c.entries) \ {k}),
         entry_count |-> c.entry_count - 1] : k \in Stalest(c.entries, now)}

(* The caches insert_wire can leave just before it stores the new entry. *)
MakeRoom(c, now) ==
  LET x == evict_expired(c, now)
  IN IF c.entry_count < MaxEntries THEN {c}
     ELSE IF x.entry_count < MaxEntries THEN {x}
     ELSE evict_stalest(x, now)

(* unwrap_or(min_ttl).clamp(min_ttl, max_ttl) *)
Clamp(ttl) ==
  IF ttl = NoTtl \/ ttl < MinTtl THEN MinTtl
  ELSE IF ttl > MaxTtl THEN MaxTtl ELSE ttl

NewEntry(wire, status, now) ==
  [data |-> wire.data, inserted_at |-> now, ttl |-> Clamp(wire.ttl), status |-> status]

BugCountsOverwrites(c, k, en) ==
  [entries |-> [d \in DOMAIN c.entries \cup {k[1]} |->
                  [t \in (IF d \in DOMAIN c.entries THEN DOMAIN c.entries[d] ELSE {})
                           \cup (IF d = k[1] THEN {k[2]} ELSE {}) |->
                     IF <<d, t>> = k THEN en ELSE c.entries[d][t]]],
   entry_count |-> c.entry_count + 1]

(* Store entry en under key k, counting it if the key is new. *)
Put(c, k, en) ==
  LET types == IF k[1] \in DOMAIN c.entries THEN DOMAIN c.entries[k[1]] ELSE {}
  IN [entries |->
        [d \in DOMAIN c.entries \cup {k[1]} |->
           IF d # k[1] THEN c.entries[d]
           ELSE [t \in types \cup {k[2]} |->
                   IF t = k[2] THEN en ELSE c.entries[d][t]]],
      entry_count |-> IF k[2] \in types THEN c.entry_count ELSE c.entry_count + 1]

BugEvictsAfterStoring(c, k, wire, status, now) ==
  MakeRoom(Put(c, k, NewEntry(wire, status, now)), now)

(* The caches insert_wire can leave after storing a well-formed message. *)
insert_wire(c, k, wire, status, now) ==
  {Put(m, k, NewEntry(wire, status, now)) : m \in MakeRoom(c, now)}

(* remove(domain): every type of the name goes. *)
remove(c, d) ==
  IF d \in DOMAIN c.entries
  THEN [entries     |-> Keep(c.entries, {k \in Keys(c.entries) : k[1] # d}),
        entry_count |-> c.entry_count - Cardinality(DOMAIN c.entries[d])]
  ELSE c
=============================================================================
