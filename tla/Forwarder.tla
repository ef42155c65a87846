----------------------------- MODULE Forwarder ------------------------------
(***************************************************************************)
(* Forwarding with failover (src/src/forward.rs: forward_with_failover_raw, *)
(* forward_with_hedging_raw).  Calls run concurrently over a shared SRTT    *)
(* cache; each works through the list of upstreams it made at its start,    *)
(* while other calls record round-trip times and failures and the network   *)
(* watch loop may replace the pool's primary.                               *)
(*                                                                          *)
(* With a hedge delay, an upstream is asked a second time when it is slow:  *)
(* legs[i] is the state of the i-th of the two requests.                    *)
(***************************************************************************)
EXTENDS UpstreamPool

CONSTANTS
  Tasks,         \* concurrent calls of forward_with_failover_raw
  Configs,       \* configurations the server may have been started with
  Rtts,          \* round-trip times answers can take, milliseconds
  MaxTime        \* bound on the clock

(* A configuration: the lists of upstreams, whether hedge_delay is not zero
   and whether the primary follows the system's resolver (upstream_auto),
   which starts as the resolver found or the default one. *)
ASSUME ForwarderConstants ==
  /\ Configs \subseteq [primary : Seq(Upstream), fallback : Seq(Upstream),
                        hedged : BOOLEAN, auto : BOOLEAN]
  /\ \A c \in Configs : c.auto => c.primary # <<>>
  /\ Rtts \subseteq 0..FAILURE_PENALTY_MS
  /\ MaxTime \in Nat

VARIABLES
  config, \* the configuration, which never changes
  pool,   \* ctx.upstream_pool
  srtt,   \* ctx.srtt
  now,
  call    \* call[t]: the call of task t

vars == <<config, pool, srtt, now, call>>

(* at: idle, asking (the head of todo), ok or failed.  asked: upstreams that
   have failed this call.  skips: primaries the call left out. *)
NoCall == [at |-> "idle", todo |-> <<>>, asked |-> <<>>, legs |-> <<>>, skips |-> {}]

Init ==
  /\ config \in Configs
  /\ pool = Paired(config.primary, config.fallback)
  /\ srtt = NoSrtt
  /\ now = 0
  /\ call = [t \in Tasks |-> NoCall]

(* The upstream the call of t is asking. *)
Current(t) == call[t].todo[1]

(* The list is made under one read lock; an empty pool fails at once. *)
Start(t) ==
  /\ call[t].at = "idle"
  /\ LET todo == all_upstreams(pool, srtt, now)
     IN call' = [call EXCEPT ![t] =
                   [at    |-> IF todo = <<>> THEN "failed" ELSE "asking",
                    todo  |-> todo,
                    asked |-> <<>>,
                    legs  |-> <<"open">>,
                    skips |-> ToSet(pool.primary) \ ToSet(todo)]]
  /\ UNCHANGED <<config, pool, srtt, now>>

(* hedge_delay expires before the first request returned: send another. *)
HedgeDelay(t) ==
  /\ config.hedged
  /\ call[t].at = "asking" /\ call[t].legs = <<"open">>
  /\ call' = [call EXCEPT ![t].legs = <<"open", "open">>]
  /\ UNCHANGED <<config, pool, srtt, now>>

(* A request succeeds: the call returns it and records the round trip. *)
Answer(t, leg, rtt) ==
  /\ call[t].at = "asking" /\ leg \in DOMAIN call[t].legs /\ call[t].legs[leg] = "open"
  /\ call' = [call EXCEPT ![t] = [NoCall EXCEPT !.at = "ok"]]
  /\ IF tracked_key(Current(t)) = {} THEN UNCHANGED srtt
     ELSE \E k \in tracked_key(Current(t)) : srtt' \in record_rtt(srtt, k, rtt, now)
  /\ UNCHANGED <<config, pool, now>>

BugFirstLegDecides(t, leg) ==
  /\ call[t].at = "asking" /\ leg \in DOMAIN call[t].legs /\ call[t].legs[leg] = "open"
  /\ call' = [call EXCEPT
                ![t].asked = Append(@, [up |-> Current(t), legs |-> [call[t].legs EXCEPT ![leg] = "failed"]]),
                ![t].todo = Tail(@), ![t].legs = <<"open">>,
                ![t].at = IF Len(call[t].todo) = 1 THEN "failed" ELSE "asking"]
  /\ IF tracked_key(Current(t)) = {} THEN UNCHANGED srtt
     ELSE \E k \in tracked_key(Current(t)) : srtt' \in record_failure(srtt, k, now)
  /\ UNCHANGED <<config, pool, now>>

(* A request fails or times out.  The upstream has failed when no other
   request to it is open; then the next one is asked, if any. *)
Fail(t, leg) ==
  /\ call[t].at = "asking" /\ leg \in DOMAIN call[t].legs /\ call[t].legs[leg] = "open"
  /\ LET legs == [call[t].legs EXCEPT ![leg] = "failed"]
     IN IF \E i \in DOMAIN legs : legs[i] = "open"
        THEN /\ call' = [call EXCEPT ![t].legs = legs]
             /\ UNCHANGED srtt
        ELSE /\ call' = [call EXCEPT
                           ![t].asked = Append(@, [up |-> Current(t), legs |-> legs]),
                           ![t].todo = Tail(@), ![t].legs = <<"open">>,
                           ![t].at = IF Len(call[t].todo) = 1 THEN "failed" ELSE "asking"]
             /\ IF tracked_key(Current(t)) = {} THEN UNCHANGED srtt
                ELSE \E k \in tracked_key(Current(t)) : srtt' \in record_failure(srtt, k, now)
  /\ UNCHANGED <<config, pool, now>>

(* The caller's future is dropped: nothing is recorded. *)
Cancel(t) ==
  /\ call[t].at = "asking"
  /\ call' = [call EXCEPT ![t] = NoCall]
  /\ UNCHANGED <<config, pool, srtt, now>>

(* The call has returned and its task takes another query. *)
Return(t) ==
  /\ call[t].at \in {"ok", "failed"}
  /\ call' = [call EXCEPT ![t] = NoCall]
  /\ UNCHANGED <<config, pool, srtt, now>>

(* The network watch loop found the system resolver at address a. *)
UpdatePrimary(a) ==
  /\ config.auto
  /\ pool' = maybe_update_primary(pool, a)
  /\ UNCHANGED <<config, srtt, now, call>>

Tick ==
  /\ now < MaxTime
  /\ now' = now + 1
  /\ UNCHANGED <<config, pool, srtt, call>>

Next ==
  \/ \E t \in Tasks : Start(t) \/ HedgeDelay(t) \/ Cancel(t) \/ Return(t)
  \/ \E t \in Tasks, leg \in 1..2, rtt \in Rtts : Answer(t, leg, rtt)
  \/ \E t \in Tasks, leg \in 1..2 : Fail(t, leg)
  \/ \E a \in Addrs : UpdatePrimary(a)
  \/ Tick

Spec == Init /\ [][Next]_vars

-----------------------------------------------------------------------------
SrttKeys == {<<a, k>> : a \in Addrs, k \in {"Udp", "Tcp", "Dot"}}

(* Types: SRTT entries are for tracked transports and never exceed the
   failure penalty; a call asks one upstream over at most two requests. *)
TypeOK ==
  /\ config \in Configs
  /\ now \in 0..MaxTime
  /\ pool \in [primary : Seq(Upstream), fallback : Seq(Upstream)]
  /\ DOMAIN srtt \subseteq SrttKeys
  /\ \A k \in DOMAIN srtt : srtt[k] \in [srtt_ms : 0..FAILURE_PENALTY_MS, updated_at : 0..now]
  /\ \A t \in Tasks :
       /\ call[t].at \in {"idle", "asking", "ok", "failed"}
       /\ call[t].todo \in Seq(Upstream) /\ call[t].skips \subseteq Upstream
       /\ Len(call[t].legs) <= 2

(* record_rtt and record_failure make room before they insert: the SRTT cache
   never outgrows MAX_ENTRIES. *)
SrttBounded == Cardinality(DOMAIN srtt) <= MAX_ENTRIES

(* A call that fails has asked somebody: skipping tripped primaries never
   leaves the list empty, however many of them have failed. *)
NeverFailsUnasked ==
  \A t \in Tasks : call[t].at = "failed" /\ pool.primary # <<>> => call[t].asked # <<>>

(* Failover is complete: a call gives up on an upstream only when every
   request it sent there has failed, and on the query only when all upstreams
   of the pool have failed it, but for tripped primaries that a fallback stood
   in for. *)
FailsOnlyAfterAll ==
  \A t \in Tasks : call[t].at = "failed" =>
    LET asked == {call[t].asked[i].up : i \in DOMAIN call[t].asked}
    IN /\ \A i \in DOMAIN call[t].asked : ToSet(call[t].asked[i].legs) = {"failed"}
       /\ ~config.auto =>
            /\ ToSet(pool.primary) \cup ToSet(pool.fallback) = asked \cup call[t].skips
            /\ call[t].skips # {} => ToSet(pool.fallback) # {} /\ ToSet(pool.fallback) \subseteq asked

(* Every call ends as it should: its state is well formed, and it fails only
   after everybody it may ask was asked and failed (src/src/forward.rs,
   forward_with_failover_raw). *)
CallsEndWell == TypeOK /\ NeverFailsUnasked /\ FailsOnlyAfterAll

(* The breaker always lets go: an upstream is only passed over within one
   decay period of its last recorded outcome, so a skipped primary is asked
   again although nothing ever probes it. *)
BreakerUntrips ==
  \A k \in DOMAIN srtt :
    get(srtt, k, now) >= PRIMARY_SKIP_SRTT_MS => now - srtt[k].updated_at <= DECAY_AFTER_SECS

(* A sibling transport's outcomes do not re-arm a broken transport: while an
   upstream is tripped, only the clock, an outcome of its own or its eviction
   makes it eligible again. *)
SiblingDoesNotRearm ==
  [][\A u \in ToSet(pool.primary) :
       Tripped(u, srtt, now) /\ ~Tripped(u, srtt', now) =>
         \/ \E t \in Tasks : call[t].at = "asking" /\ call'[t] # call[t] /\ Current(t) = u
         \/ ~(tracked_key(u) \subseteq DOMAIN srtt')]_vars
=============================================================================
