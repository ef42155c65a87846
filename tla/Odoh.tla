-------------------------------- MODULE Odoh --------------------------------
(***************************************************************************)
(* Oblivious DoH: the client with its cached target configuration          *)
(* (src/src/odoh.rs), the resolver of the names it connects to             *)
(* (src/src/bootstrap_resolver.rs) and the relay (src/src/relay.rs).       *)
(*                                                                         *)
(* A configuration is the target's key and the time it expires.  Sealing is*)
(* ideal: the target reads what is sealed to its current key, and nothing  *)
(* else.                                                                   *)
(***************************************************************************)
EXTENDS Integers, SequencesExt, FiniteSets

CONSTANTS
  Queries,            \* concurrent queries
  Fallbacks,          \* possible values of upstream.fallback: sequences of addresses and host names
  HostNames,          \* the entries of these that are no IP literals
  DEFAULT_BOOTSTRAP,  \* servers used when there is no literal
  Overrides,          \* possible values: the endpoints with a configured address
  MaxAges,            \* values of max-age that the target may send, 0 for none
  DEFAULT_CONFIG_TTL, MAX_CONFIG_TTL, REFRESH_BACKOFF,
  MaxNow, MaxRotations, MaxBegun  \* bounds

VARIABLES
  now,
  key,           \* the target's key; it counts its rotations
  current, last_failure, refresh_lock,
  q,             \* the queries
  relay,         \* open: the relay's total less its three outcome counters; history: requests given up by the client
  bootstrap, overrides,
  nets,          \* what answers at the bootstrap servers
  lastFault,     \* history: when a fetch of the configuration last went wrong
  begun
odohVars == <<now, key, current, last_failure, refresh_lock, q, relay, bootstrap, overrides, nets, lastFault, begun>>

None == [key |-> -1, expires |-> 0, at |-> 0]
Never == -1
Nobody == "nobody"
NoQuery == [pc |-> "idle", attempt |-> 1, cfg |-> None, reply |-> "none", outcome |-> "none", excused |-> FALSE]

(* The names of queries are apart from Nobody; times are numbers, and a
   configuration may be kept for some time. *)
ASSUME OdohConstants ==
  /\ IsFiniteSet(Queries) /\ Nobody \notin Queries
  /\ MaxAges \subseteq Nat /\ DEFAULT_CONFIG_TTL \in Nat
  /\ MAX_CONFIG_TTL \in Nat \ {0} /\ REFRESH_BACKOFF \in Nat

-----------------------------------------------------------------------------
(* NumaResolver::new: only literals; the defaults when there are none. *)
Bootstrap(fallback) ==
  LET literals == SelectSeq(fallback, LAMBDA e : e \notin HostNames)
  IN IF literals = <<>> THEN DEFAULT_BOOTSTRAP ELSE literals

(* UDP, then TCP. *)
query_with_tcp_fallback(server) == nets[server] \in {"up", "tcp only"}

(* resolve and resolve_via_bootstrap: the configured address, or the first
   server that returns one. *)
Resolves(host) == host \in overrides \/ \E i \in DOMAIN bootstrap : query_with_tcp_fallback(bootstrap[i])

-----------------------------------------------------------------------------
Fresh(cfg) == cfg # None /\ now < cfg.expires
backoff_error == last_failure # Never /\ now - last_failure < REFRESH_BACKOFF
cache_control_ttl(age) == IF age > 0 THEN age ELSE DEFAULT_CONFIG_TTL

ConfigTtl(age) == IF cache_control_ttl(age) < MAX_CONFIG_TTL THEN cache_control_ttl(age) ELSE MAX_CONFIG_TTL

OdohInit ==
  /\ now = 0 /\ key = 0 /\ current = None /\ last_failure = Never /\ refresh_lock = Nobody
  /\ q = [p \in Queries |-> NoQuery]
  /\ relay = [open |-> 0, abandoned |-> 0]
  /\ \E f \in Fallbacks : bootstrap = Bootstrap(f)
  /\ overrides \in Overrides
  /\ nets \in [ToSet(bootstrap) -> {"up", "tcp only", "down"}]
  /\ lastFault = Never /\ begun = 0

Fixed == UNCHANGED <<bootstrap, overrides, nets>>
Ends(p, outcome, excused) ==
  q' = [q EXCEPT ![p] = [NoQuery EXCEPT !.pc = "done", !.outcome = outcome, !.excused = q[p].excused \/ excused]]

Begin(p) ==
  /\ q[p].pc \in {"idle", "done"} /\ begun < MaxBegun /\ begun' = begun + 1
  /\ q' = [q EXCEPT ![p] = [NoQuery EXCEPT !.pc = "get"]]
  /\ Fixed /\ UNCHANGED <<now, key, current, last_failure, refresh_lock, relay, lastFault>>

(* get, both before and after it waits for the lock: the cached configuration,
   or the last error while that is recent, or on to else. *)
Cached(p, else) ==
  \/ Fresh(current) /\ q' = [q EXCEPT ![p].pc = "seal", ![p].cfg = current] /\ UNCHANGED refresh_lock
  \/ /\ ~Fresh(current) /\ backoff_error
     /\ Ends(p, "error", lastFault # Never /\ now - lastFault < REFRESH_BACKOFF) /\ UNCHANGED refresh_lock
  \/ ~Fresh(current) /\ ~backoff_error /\ else

Get(p) ==
  /\ q[p].pc = "get"
  /\ Cached(p, q' = [q EXCEPT ![p].pc = "wait"] /\ UNCHANGED refresh_lock)
  /\ Fixed /\ UNCHANGED <<now, key, current, last_failure, relay, lastFault, begun>>

BugNoSecondLook(p) ==
  /\ q[p].pc = "wait" /\ refresh_lock = Nobody
  /\ q' = [q EXCEPT ![p].pc = "fetch"] /\ refresh_lock' = p
  /\ Fixed /\ UNCHANGED <<now, key, current, last_failure, relay, lastFault, begun>>

Lock(p) ==
  /\ q[p].pc = "wait" /\ refresh_lock = Nobody
  /\ Cached(p, q' = [q EXCEPT ![p].pc = "fetch"] /\ refresh_lock' = p)
  /\ Fixed /\ UNCHANGED <<now, key, current, last_failure, relay, lastFault, begun>>

(* fetch_odoh_config: the target's answer carries the key of the moment; it is
   stored when it has arrived. *)
Published(p) ==
  /\ q[p].pc = "fetch" /\ Resolves("target")
  /\ q' = [q EXCEPT ![p].pc = "fetched", ![p].cfg = [None EXCEPT !.key = key]]
  /\ Fixed /\ UNCHANGED <<now, key, current, last_failure, refresh_lock, relay, lastFault, begun>>

Store(p, age) ==
  /\ q[p].pc = "fetched" /\ refresh_lock' = Nobody /\ last_failure' = Never
  /\ current' = [key |-> q[p].cfg.key, expires |-> now + ConfigTtl(age), at |-> now]
  /\ q' = [q EXCEPT ![p].pc = "seal", ![p].cfg = current']
  /\ Fixed /\ UNCHANGED <<now, key, relay, lastFault, begun>>

(* A fetch that fails: no address, no connection, an error status, a body that
   does not parse.  The last three are faults; the first is one only if no
   server could be asked. *)
Unreachable == \A i \in DOMAIN bootstrap : nets[bootstrap[i]] = "down"

FetchFails(p, fault) ==
  /\ q[p].pc = "fetch" /\ (fault \/ ~Resolves("target"))
  /\ last_failure' = now /\ refresh_lock' = Nobody
  /\ lastFault' = IF fault \/ Unreachable THEN now ELSE lastFault
  /\ Ends(p, "error", fault \/ Unreachable)
  /\ Fixed /\ UNCHANGED <<now, key, current, relay, begun>>

-----------------------------------------------------------------------------
(* attempt_query: sealed to the configuration's key and sent to the relay. *)
Post(p) ==
  /\ q[p].pc = "seal"
  /\ IF Resolves("relay") THEN q' = [q EXCEPT ![p].pc = "sent"] ELSE Ends(p, "error", Unreachable)
  /\ Fixed /\ UNCHANGED <<now, key, current, last_failure, refresh_lock, relay, lastFault, begun>>

Total(r) == [r EXCEPT !.open = @ + 1]
Outcome(r) == [r EXCEPT !.open = @ - 1]

(* handle_relay takes a query; of what others send it rejects what has the
   wrong type, size, host or path. *)
Rejected == Outcome(Total(relay))

Stranger ==
  /\ relay.open <= Cardinality(Queries) /\ relay' = Rejected
  /\ Fixed /\ UNCHANGED <<now, key, current, last_failure, refresh_lock, q, lastFault, begun>>

Take(p) ==
  /\ q[p].pc = "sent" /\ q' = [q EXCEPT ![p].pc = "relayed"]
  /\ relay' = Total(relay)
  /\ Fixed /\ UNCHANGED <<now, key, current, last_failure, refresh_lock, lastFault, begun>>

(* forward_to_target: the target's status and body are passed on, its refusal
   of an old key (401, or a body that does not open) included; anything else
   is 502.  The target may also refuse for reasons of its own. *)
Passed(target) == target

Forward(p, target) ==
  /\ q[p].pc = "relayed"
  /\ target = "200" <=> q[p].cfg.key = key
  /\ relay' = Outcome(relay)
  /\ q' = [q EXCEPT ![p].pc = "answered", ![p].reply = Passed(target)]
  /\ Fixed /\ UNCHANGED <<now, key, current, last_failure, refresh_lock, lastFault, begun>>

Refuse(p) ==
  /\ q[p].pc = "relayed"
  /\ relay' = Outcome(relay)
  /\ q' = [q EXCEPT ![p].pc = "answered", ![p].reply = "401", ![p].excused = TRUE]
  /\ Fixed /\ UNCHANGED <<now, key, current, last_failure, refresh_lock, lastFault, begun>>

TargetFails(p) ==
  /\ q[p].pc = "relayed"
  /\ relay' = Outcome(relay)
  /\ q' = [q EXCEPT ![p].pc = "answered", ![p].reply = "502", ![p].excused = TRUE]
  /\ Fixed /\ UNCHANGED <<now, key, current, last_failure, refresh_lock, lastFault, begun>>

(* The client's timeout, or a broken connection; the relay then drops a
   request that it had taken, and counts no outcome. *)
Timeout(p) ==
  /\ q[p].pc \in {"sent", "relayed"} /\ Ends(p, "error", TRUE)
  /\ relay' = IF q[p].pc = "relayed" THEN [relay EXCEPT !.abandoned = @ + 1] ELSE relay
  /\ Fixed /\ UNCHANGED <<now, key, current, last_failure, refresh_lock, lastFault, begun>>

(* query_through_relay: an answer to a key that is no longer current drops the
   cached configuration, whichever it is by now, and is tried once more. *)
BugKeepsConfig(p) ==
  /\ q[p].pc = "answered"
  /\ IF q[p].reply \in {"401", "garbled"} /\ q[p].attempt = 1
     THEN q' = [q EXCEPT ![p] = [NoQuery EXCEPT !.pc = "get", !.attempt = 2, !.excused = q[p].excused]]
     ELSE Ends(p, IF q[p].reply = "200" THEN "ok" ELSE "error", FALSE)
  /\ Fixed /\ UNCHANGED <<now, key, current, last_failure, refresh_lock, relay, lastFault, begun>>

Answered(p) ==
  /\ q[p].pc = "answered"
  /\ IF q[p].reply \in {"401", "garbled"} /\ q[p].attempt = 1
     THEN current' = None /\ q' = [q EXCEPT ![p] = [NoQuery EXCEPT !.pc = "get", !.attempt = 2, !.excused = q[p].excused]]
     ELSE Ends(p, IF q[p].reply = "200" THEN "ok" ELSE "error", FALSE) /\ UNCHANGED current
  /\ Fixed /\ UNCHANGED <<now, key, last_failure, refresh_lock, relay, lastFault, begun>>

Rotate ==
  /\ key < MaxRotations /\ key' = key + 1
  /\ q' = [p \in Queries |-> IF q[p].pc \in {"idle", "done"} THEN q[p] ELSE [q[p] EXCEPT !.excused = TRUE]]
  /\ Fixed /\ UNCHANGED <<now, current, last_failure, refresh_lock, relay, lastFault, begun>>

OdohTick ==
  /\ now < MaxNow /\ now' = now + 1
  /\ Fixed /\ UNCHANGED <<key, current, last_failure, refresh_lock, q, relay, lastFault, begun>>

Step(p) ==
  \/ Get(p) \/ Lock(p) \/ Published(p) \/ Post(p) \/ Take(p) \/ TargetFails(p) \/ Timeout(p) \/ Answered(p)
  \/ \E age \in MaxAges : Store(p, age)
  \/ \E fault \in BOOLEAN : FetchFails(p, fault)
  \/ \E target \in {"200", "401", "garbled"} : Forward(p, target)

OdohNext == \/ \E p \in Queries : Begin(p) \/ Step(p) \/ Refuse(p)
        \/ Stranger \/ Rotate \/ OdohTick

OdohSpec == OdohInit /\ [][OdohNext]_odohVars

(* Every request ends in an answer, an error or the timeout; only the fetch of
   the configuration has no timeout of its own and relies on the server. *)
OdohFairness == \A p \in Queries : WF_odohVars(Step(p))

-----------------------------------------------------------------------------
(* query_through_relay ("this handles the benign race where the target rotated
   its key"): a query fails only for a cause of its own time: a fault of the
   network or the target, the backoff after a recent one, or a rotation while
   the query was under way.  A key that is old already when the query starts,
   or a network that blocks UDP, is no cause. *)
FailsOnlyForCause == \A p \in Queries : q[p].outcome = "error" => q[p].excused

(* get ("a burst of simultaneous misses produces a single outbound fetch"):
   the configuration is fetched only when none is usable and no fetch failed
   within the backoff, whatever happened while the query waited. *)
FetchesAreNeeded ==
  \A p \in Queries : q[p].pc # "fetch" /\ q'[p].pc = "fetch" =>
    ~Fresh(current) /\ ~backoff_error /\ \A o \in Queries : q[o].pc \notin {"fetch", "fetched"}

(* MAX_CONFIG_TTL ("Keeps a misconfigured server from pinning an old key
   indefinitely"): no query is sealed to a key learnt longer ago. *)
KeysAgeOut ==
  \A p \in Queries : q[p].pc # "seal" /\ q'[p].pc = "seal" => now - q'[p].cfg.at < MAX_CONFIG_TTL

(* get ("a burst of simultaneous misses produces a single outbound fetch"): the
   configuration is fetched only when none is usable, nobody else is fetching
   and no fetch failed within the backoff; and no query is sealed to a key
   learnt longer ago than MAX_CONFIG_TTL (src/src/odoh.rs). *)
OdohKeysAreFresh == [][FetchesAreNeeded /\ KeysAgeOut]_odohVars

(* handle_relay: every request the relay has taken is counted under exactly
   one outcome, or is still there, or was given up by its client. *)
RelayAccounts ==
  relay.open = relay.abandoned + Cardinality({p \in Queries : q[p].pc = "relayed"})

(* query_through_relay ("this handles the benign race where the target rotated
   its key"): an ODoH query fails only for a cause of its own time: a fault of
   the network or the target, the backoff after a recent one, or a rotation
   while it was under way, never for a key that was old before it began; and
   the relay counts every request it took under exactly one outcome, unless
   its client gave up (src/src/odoh.rs, src/src/relay.rs). *)
OdohFailsForCause == FailsOnlyForCause /\ RelayAccounts

(* get, query_through_relay: every query ends, also when the fetch it waited
   for failed and when its second attempt is refused. *)
QueriesEnd == \A p \in Queries : q[p].pc = "get" ~> q[p].pc = "done"
=============================================================================
