------------------------------ MODULE DnsCache ------------------------------
(***************************************************************************)
(* numa's DNS cache (src/src/cache.rs) as a state machine: any sequence of  *)
(* the calls the rest of the program makes on it, with time passing between *)
(* them.  Every call runs under the write (or read) lock of                 *)
(* ServerCtx.cache, so each is one action.                                  *)
(***************************************************************************)
EXTENDS CacheOps

CONSTANTS
  Data,     \* what the stored messages stand for
  Ttls,     \* answer TTLs a message can carry (NoTtl included, if wanted)
  Statuses, \* DNSSEC statuses callers store an entry with
  MaxTime   \* bound on the clock

ASSUME DnsCacheConstants ==
  /\ MaxTime \in Nat
  /\ Ttls \subseteq Nat \cup {NoTtl}
  /\ Statuses \subseteq DnssecStatus

VARIABLES
  cache,   \* the DnsCache value: [entries, entry_count]
  now,     \* the clock, in ticks
  last     \* the last call, with the entry it stored or what it returned

vars == <<cache, now, last>>

Wire == [ttl : Ttls, data : Data]

NoCall == [op |-> "none", key |-> <<>>, result |-> {}]

CacheEntry == [data : Data, inserted_at : 0..MaxTime, ttl : MinTtl..MaxTtl,
               status : Statuses]

Init ==
  /\ cache = EmptyCache
  /\ now = 0
  /\ last = NoCall

(* insert_wire, and insert / insert_with_status, which serialize first.  A
   message that scan_ttl_offsets rejects (or that does not serialize) is not
   wellformed and leaves the cache alone. *)
InsertWire(k, wire, wellformed, status) ==
  /\ IF wellformed
     THEN /\ cache' \in insert_wire(cache, k, wire, status, now)
          /\ last' = [op |-> "insert", key |-> k, result |-> {NewEntry(wire, status, now)}]
     ELSE /\ last' = NoCall
          /\ UNCHANGED cache
  /\ UNCHANGED now

(* lookup_wire and the wrappers lookup, lookup_with_status. *)
LookupWire(k) ==
  /\ last' = [op |-> "lookup", key |-> k, result |-> Lookup(cache.entries, k, now)]
  /\ UNCHANGED <<cache, now>>

Remove(d) ==
  /\ cache' = remove(cache, d)
  /\ last' = NoCall
  /\ UNCHANGED now

Clear ==
  /\ cache' = EmptyCache
  /\ last' = NoCall
  /\ UNCHANGED now

Tick ==
  /\ now < MaxTime
  /\ now' = now + 1
  /\ last' = NoCall
  /\ UNCHANGED cache

Next ==
  \/ \E k \in Key, wire \in Wire, wellformed \in BOOLEAN, status \in Statuses :
       InsertWire(k, wire, wellformed, status)
  \/ \E k \in Key : LookupWire(k)
  \/ \E d \in Domains : Remove(d)
  \/ Clear
  \/ Tick

Spec == Init /\ [][Next]_vars

-----------------------------------------------------------------------------
entries == cache.entries

(* Types: the map holds names and types asked for, and every entry was stored
   in the past with a clamped TTL and a status that a caller gave. *)
TypeOK ==
  /\ now \in 0..MaxTime
  /\ cache.entry_count \in Nat
  /\ DOMAIN entries \subseteq Domains
  /\ \A d \in DOMAIN entries : DOMAIN entries[d] \subseteq Qtypes
  /\ \A k \in Keys(entries) :
       Entry(entries, k) \in CacheEntry /\ Entry(entries, k).inserted_at <= now

(* entry_count, which insert_wire, remove, evict_expired and evict_stalest
   each adjust on their own, always equals the number of entries held; in
   particular the unsigned counter never wraps below zero. *)
CountExact == cache.entry_count = Cardinality(Keys(entries))

(* No name is left behind with an empty type map: the evictions and remove
   drop the outer slot with its last entry, so names cannot accumulate. *)
NoEmptyTypeMap == \A d \in DOMAIN entries : DOMAIN entries[d] # {}

(* The cache never holds more than max_entries entries, except that a cache
   configured for none still holds the entry inserted last. *)
CountBounded == cache.entry_count <= (IF MaxEntries = 0 THEN 1 ELSE MaxEntries)

(* The nested maps and the counter beside them, which five operations adjust
   each on their own, never drift apart, the cache stays within its capacity,
   and every entry is one that was stored, its TTL within the configured
   bounds (src/src/cache.rs). *)
CacheConsistent == TypeOK /\ CountExact /\ NoEmptyTypeMap /\ CountBounded

(* What an insertion may cost: a live entry of another key is lost only when
   the cache was full and held nothing expired, only one is lost, and none
   that survives was closer to expiry. *)
EvictionOrder ==
  [][last'.op = "insert" =>
       LET lost == (Keys(entries) \ Keys(entries')) \ {last'.key}
           live == {j \in lost : Live(Entry(entries, j), now)}
       IN live # {} =>
            /\ cache.entry_count >= MaxEntries
            /\ ExpiredKeys(entries, now) = {}
            /\ \E j \in live :
                 /\ lost = {j}
                 /\ \A i \in Keys(entries) :
                      Remaining(Entry(entries, j), now) <= Remaining(Entry(entries, i), now)]_vars

(* An insertion never evicts the entry it makes: right after it, a lookup of
   that key is answered with the entry just stored, even in a full cache
   (unless its TTL and the stale window are both zero). *)
InsertedIsServed ==
  last.op = "insert" => \A en \in last.result :
    en.ttl + StaleWindow > 0 =>
      \E r \in Lookup(entries, last.key, now) : r.data = en.data /\ r.status = en.status

FreshnessRank(S) ==
  IF S = {} THEN 3
  ELSE LET r == CHOOSE r \in S : TRUE
       IN CASE r.freshness = "Fresh" -> 0
            [] r.freshness = "NearExpiry" -> 1
            [] r.freshness = "Stale" -> 2

(* Ageing is one way: while an entry stays put, time takes it from fresh to
   near expiry to stale to gone, and the TTL handed to clients never grows. *)
AgesMonotonically ==
  [][\A k \in Keys(entries) \cap Keys(entries') :
       Entry(entries, k) = Entry(entries', k) =>
         LET before == Lookup(entries, k, now)
             after  == Lookup(entries', k, now')
         IN /\ FreshnessRank(before) <= FreshnessRank(after)
            /\ \A x \in before, y \in after : y.ttl <= x.ttl]_vars

(* The warm loop and the lookup path agree: an entry lookup_wire reports as
   near expiry or stale, or does not find, is one needs_warm asks to refresh.
   Entries of less than four seconds are the exception, since total / 4 is
   then zero: they are only warmed once expired. *)
WarmCoversRefresh ==
  \A d \in Domains, t \in Qtypes :
    LET found == Lookup(entries, <<d, t>>, now)
    IN \/ \E r \in found : r.freshness = "Fresh"
       \/ \E r \in found : r.freshness = "NearExpiry" /\ Entry(entries, <<d, t>>).ttl < 4
       \/ NeedsWarm(entries, d, Qtypes, now)
=============================================================================
