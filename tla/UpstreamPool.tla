---------------------------- MODULE UpstreamPool ----------------------------
(***************************************************************************)
(* The order in which the upstreams of a pool are asked                     *)
(* (src/src/forward.rs: the candidate list of forward_with_failover_raw).   *)
(***************************************************************************)
EXTENDS SrttOps, Upstreams

BugKeyedByAddress(u) == IF u.kind \in {"Doh", "Odoh"} THEN {} ELSE {<<u.at, "Udp">>}

(* The SRTT key of an upstream: none for those reached through a URL. *)
tracked_key(u) == IF u.kind \in {"Doh", "Odoh"} THEN {} ELSE {<<u.at, u.kind>>}

(* The RTT an upstream is ranked by: 0 when it has no SRTT key. *)
RankOf(u, s, now) == IF tracked_key(u) = {} THEN 0
                     ELSE get(s, CHOOSE k \in tracked_key(u) : TRUE, now)

Tripped(u, s, now) == RankOf(u, s, now) >= PRIMARY_SKIP_SRTT_MS

(* The upstreams one call will ask, in order: primaries by ascending RTT
   (stable), without the tripped ones when there is a fallback, then the
   fallbacks. *)
all_upstreams(pool, s, now) ==
  LET usable == {i \in DOMAIN pool.primary : \/ pool.fallback = <<>>
                                             \/ ~Tripped(pool.primary[i], s, now)}
      order  == sort_by_key([i \in usable |-> RankOf(pool.primary[i], s, now)])
  IN [k \in DOMAIN order |-> pool.primary[order[k]]] \o pool.fallback
=============================================================================
