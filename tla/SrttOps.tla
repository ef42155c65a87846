------------------------------ MODULE SrttOps -------------------------------
(***************************************************************************)
(* The smoothed round-trip times of upstream servers (src/src/srtt.rs) as   *)
(* operators on a value: a function from (address, transport) keys to       *)
(* [srtt_ms, updated_at].  Milliseconds are the code's integers; the clock  *)
(* counts seconds, DECAY_AFTER_SECS of which make one decay period.         *)
(***************************************************************************)
EXTENDS Integers, FiniteSets

CONSTANTS
  INITIAL_SRTT_MS, FAILURE_PENALTY_MS, PRIMARY_SKIP_SRTT_MS,
  DECAY_AFTER_SECS,
  MAX_ENTRIES, EVICT_BATCH,
  SrttEnabled      \* SrttCache.enabled

ASSUME SrttConstants ==
  /\ INITIAL_SRTT_MS \in Nat /\ FAILURE_PENALTY_MS \in Nat
  /\ PRIMARY_SKIP_SRTT_MS \in Nat
  /\ INITIAL_SRTT_MS < PRIMARY_SKIP_SRTT_MS /\ PRIMARY_SKIP_SRTT_MS <= FAILURE_PENALTY_MS
  /\ FAILURE_PENALTY_MS + INITIAL_SRTT_MS < 2 * PRIMARY_SKIP_SRTT_MS
  /\ DECAY_AFTER_SECS \in Nat \ {0}
  /\ MAX_ENTRIES \in Nat \ {0} /\ EVICT_BATCH \in 1..MAX_ENTRIES
  /\ SrttEnabled \in BOOLEAN

NoSrtt == [k \in {} |-> [srtt_ms |-> 0, updated_at |-> 0]]

Periods(age) == IF age \div DECAY_AFTER_SECS < 8 THEN age \div DECAY_AFTER_SECS ELSE 8

Half(ms) == (ms + INITIAL_SRTT_MS) \div 2

(* The loop of decay_for_age, which runs at most eight times. *)
Halved(ms, n) ==
  LET h1 == Half(ms) h2 == Half(h1) h3 == Half(h2) h4 == Half(h3)
      h5 == Half(h4) h6 == Half(h5) h7 == Half(h6) h8 == Half(h7)
  IN <<h1, h2, h3, h4, h5, h6, h7, h8>>[n]

(* The definitions whose names start with Bug are faulty variants of the one
   that follows; substituting them shows that the properties can fail. *)

BugDecaysTooLate(ms, age) ==
  IF age > 2 * DECAY_AFTER_SECS THEN Halved(ms, Periods(age)) ELSE ms

(* Each full period halves the distance to INITIAL_SRTT_MS. *)
decay_for_age(ms, age) ==
  IF age > DECAY_AFTER_SECS THEN Halved(ms, Periods(age)) ELSE ms

get(s, k, now) ==
  IF k \in DOMAIN s THEN decay_for_age(s[k].srtt_ms, now - s[k].updated_at)
  ELSE INITIAL_SRTT_MS

BugNeverEvicts(s) == {s}

(* What maybe_evict can leave: at capacity the EVICT_BATCH oldest entries go
   (HashMap order decides between equals). *)
maybe_evict(s) ==
  IF Cardinality(DOMAIN s) < MAX_ENTRIES THEN {s}
  ELSE {[k \in DOMAIN s \ old |-> s[k]] :
          old \in {E \in SUBSET DOMAIN s :
                     /\ Cardinality(E) = EVICT_BATCH
                     /\ \A e \in E, k \in DOMAIN s \ E : s[e].updated_at <= s[k].updated_at}}

Set(s, k, ms, now) ==
  [j \in DOMAIN s \cup {k} |-> IF j = k THEN [srtt_ms |-> ms, updated_at |-> now] ELSE s[j]]

(* The values record_rtt and record_failure can leave. *)
record_rtt(s, k, rtt, now) ==
  IF ~SrttEnabled THEN {s}
  ELSE {Set(e, k, IF k \in DOMAIN e THEN (get(e, k, now) * 7 + rtt) \div 8 ELSE rtt, now) :
          e \in maybe_evict(s)}

record_failure(s, k, now) ==
  IF ~SrttEnabled THEN {s}
  ELSE {Set(e, k, FAILURE_PENALTY_MS, now) : e \in maybe_evict(s)}
=============================================================================
