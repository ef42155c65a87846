----------------------------- MODULE Upstreams -----------------------------
(***************************************************************************)
(* The pool of upstream servers (src/src/forward.rs: Upstream and          *)
(* UpstreamPool) and how the server builds it (src/src/serve.rs:           *)
(* resolve_upstream_pool).  An upstream is its transport and its address;  *)
(* a pool holds two lists.                                                 *)
(***************************************************************************)
EXTENDS Integers, FiniteSets, SequencesExt

CONSTANT Addrs  \* addresses (or URLs) of servers

Transports == {"Udp", "Tcp", "Dot", "Doh", "Odoh"}
Upstream == [kind : Transports, at : Addrs]
Udp(a) == [kind |-> "Udp", at |-> a]
Tcp(a) == [kind |-> "Tcp", at |-> a]

(* sort_by_key, which is stable: the positions in DOMAIN rank by ascending
   rank.  The position that has k - 1 others before it is the k-th. *)
sort_by_key(rank) ==
  LET Before(i) == {j \in DOMAIN rank : rank[j] < rank[i] \/ (rank[j] = rank[i] /\ j < i)}
  IN [k \in 1..Cardinality(DOMAIN rank) |->
        CHOOSE i \in DOMAIN rank : Cardinality(Before(i)) = k - 1]

(* resolve_upstream_pool in forward mode: every UDP primary is paired with a
   TCP sibling at the end of the fallback list, unless it is there already. *)
Paired(primary, fallback) ==
  LET unpaired == {i \in DOMAIN primary : /\ primary[i].kind = "Udp"
                                         /\ Tcp(primary[i].at) \notin ToSet(fallback)
                                         /\ \A j \in 1..(i - 1) : primary[j] # primary[i]}
      order    == sort_by_key([i \in unpaired |-> 0])
  IN [primary  |-> primary,
      fallback |-> fallback \o [k \in DOMAIN order |-> Tcp(primary[order[k]].at)]]

(* The first primary, or else the first fallback. *)
preferred(pool) ==
  IF pool.primary # <<>> THEN {pool.primary[1]}
  ELSE IF pool.fallback # <<>> THEN {pool.fallback[1]} ELSE {}

(* maybe_update_primary with an address that parses. *)
maybe_update_primary(pool, a) ==
  IF preferred(pool) = {Udp(a)} THEN pool ELSE [pool EXCEPT !.primary = <<Udp(a)>>]
=============================================================================
