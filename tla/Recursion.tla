------------------------------ MODULE Recursion ------------------------------
(***************************************************************************)
(* Iterative resolution from the root (src/src/recursive.rs:                *)
(* resolve_iterative and its helpers, send_query_hedged, prime_tld_cache)   *)
(* for one call after another over the shared cache.  The function calls    *)
(* itself for CNAME targets and for name servers without glue: its pending  *)
(* calls are the frames of stack.  Other tasks appear as cache entries that *)
(* expire (Expire) and as TLDs primed (PrimeTld) at any moment.             *)
(*                                                                          *)
(* A name is its sequence of labels, the TLD last; <<>> is the root.  A     *)
(* packet is its rcode and three sets of records [domain, type, data].      *)
(* What a server may answer is the operator Answers; any request may also   *)
(* fail.  Lists of addresses are sets put in some order, because            *)
(* sort_by_udp_rtt orders them by measurements.                             *)
(***************************************************************************)
EXTENDS Integers, Sequences, FiniteSets

CONSTANTS
  Answers(_, _, _),    \* the packets a server may send for a name and type
  RootHints,           \* addresses of the root servers
  Queries,             \* the <<name, type>> pairs asked
  PrimeTlds,           \* upstream.prime_tlds, as names
  MAX_REFERRAL_DEPTH, MAX_CNAME_DEPTH,
  MaxCalls, MaxExpiries, \* bounds: calls and expiries in a behaviour
  NoPacket, Err        \* no result yet; the result of a call that failed

ASSUME RecursionConstants ==
  /\ MAX_REFERRAL_DEPTH \in Nat /\ MAX_CNAME_DEPTH \in Nat
  /\ MaxCalls \in Nat /\ MaxExpiries \in Nat
  /\ NoPacket # Err

VARIABLES
  stack,     \* the pending calls of resolve_iterative, innermost last
  cache,     \* (name, type) -> packet
  ret,       \* what the innermost call has just returned
  query,     \* the question of the outermost call
  unprimed,  \* TLDs prime_tld_cache has not reached
  lost,      \* history: a request of this call failed
  calls, expiries

vars == <<stack, cache, ret, query, unprimed, lost, calls, expiries>>

AddrTypes == {"A", "AAAA"}

Frame(qname, qtype, referral_depth, cname_depth) ==
  [qname |-> qname, qtype |-> qtype,
   referral_depth |-> referral_depth, cname_depth |-> cname_depth,
   at |-> "enter", zone |-> <<>>, ns_addrs |-> <<>>, ns_idx |-> 1, round |-> 0,
   legs |-> {}, hedge |-> FALSE, todo |-> <<>>, response |-> NoPacket]

Init ==
  /\ stack = <<>> /\ ret = NoPacket /\ query = <<>>
  /\ cache = [k \in {} |-> NoPacket]
  /\ unprimed = PrimeTlds
  /\ lost = FALSE /\ calls = 0 /\ expiries = 0

-----------------------------------------------------------------------------
(* Records and packets. *)

OfType(recs, types) == {r \in recs : r.type \in types}
DomainsOf(recs) == {r.domain : r \in recs}
DataOf(recs) == {r.data : r \in recs}

(* record_to_addr over a list of records *)
Addrs(recs) == DataOf(OfType(recs, AddrTypes))

extract_ns_from_records(recs) == DataOf(OfType(recs, {"NS"}))
extract_ns_names(p) == extract_ns_from_records(p.authorities)

(* The owners of the NS records a response refers to; {} for None. *)
referral_zones(p) == DomainsOf(OfType(p.authorities, {"NS"}))

extract_cname_targets(p, qname) ==
  DataOf({r \in OfType(p.answers, {"CNAME"}) : r.domain = qname})

glue_addrs_for(p, host) == Addrs({r \in p.resources : r.domain = host})

GluePacket(recs) ==
  [rcode |-> "NOERROR", answers |-> recs, authorities |-> {}, resources |-> {}]

(* A list of addresses in the order its measured round trips give it. *)
Orders(S) ==
  {s \in [1..Cardinality(S) -> S] : \A i, j \in DOMAIN s : s[i] = s[j] => i = j}

-----------------------------------------------------------------------------
(* The cache. *)

Lookup(c, k) == IF k \in DOMAIN c THEN {c[k]} ELSE {}

StoreAll(c, new) ==
  [k \in DOMAIN c \cup DOMAIN new |-> IF k \in DOMAIN new THEN new[k] ELSE c[k]]

Store(c, k, p) == StoreAll(c, [x \in {k} |-> p])

(* One packet per name and type out of records of several names. *)
Split(recs) ==
  [k \in {<<r.domain, r.type>> : r \in recs} |->
     GluePacket({r \in recs : <<r.domain, r.type>> = k})]

cache_glue(c, p, hosts) ==
  StoreAll(c, Split({r \in OfType(p.resources, AddrTypes) : r.domain \in hosts}))

cache_ds_from_authority(c, p) == StoreAll(c, Split(OfType(p.authorities, {"DS"})))

BugDelegationOfParent(c, zone, p) ==
  LET ns == OfType(p.authorities, {"NS"})
  IN IF ns = {} THEN c ELSE Store(c, <<Tail(zone), "NS">>, GluePacket(ns))

cache_ns_delegation(c, zone, p) ==
  LET ns == OfType(p.authorities, {"NS"})
  IN IF ns = {} THEN c ELSE Store(c, <<zone, "NS">>, GluePacket(ns))

addrs_from_cache(c, host) ==
  UNION {Addrs(p.answers) : p \in UNION {Lookup(c, <<host, t>>) : t \in AddrTypes}}

(* Glue first; the cache only when the response has none. *)
resolve_ns_addrs_from_glue(c, p, hosts) ==
  LET glue == UNION {glue_addrs_for(p, h) : h \in hosts}
  IN IF glue # {} THEN glue ELSE UNION {addrs_from_cache(c, h) : h \in hosts}

(* The addresses a cached delegation of zone leads to. *)
CachedServers(c, zone) ==
  UNION {LET ns == extract_ns_from_records(p.answers)
         IN UNION {addrs_from_cache(c, h) : h \in IF ns # {} THEN ns ELSE extract_ns_names(p)} :
           p \in Lookup(c, <<zone, "NS">>)}

(* The longest suffix of qname with a usable cached delegation, and its
   servers (a set with that one element). *)
find_closest_ns(c, qname) ==
  LET Zone(i)    == SubSeq(qname, i, Len(qname))
      Servers(i) == CachedServers(c, Zone(i))
      best == {i \in 1..Len(qname) : Servers(i) # {} /\ \A j \in 1..(i - 1) : Servers(j) = {}}
  IN IF best = {} THEN {[zone |-> <<>>, addrs |-> RootHints]}
     ELSE {[zone |-> Zone(i), addrs |-> Servers(i)] : i \in best}

(* At the root only the TLD is asked for. *)
minimize_query(f) ==
  IF f.zone = <<>> /\ Len(f.qname) > 1 THEN <<SubSeq(f.qname, Len(f.qname), Len(f.qname)), "NS">>
  ELSE <<f.qname, f.qtype>>

-----------------------------------------------------------------------------
(* The innermost call: it goes on as frame f, calls itself, or returns. *)

top == stack[Len(stack)]

(* A step of the innermost call, which is at label l. *)
Running(l) == stack # <<>> /\ ret = NoPacket /\ top.at = l

Continue(f) ==
  /\ stack' = [stack EXCEPT ![Len(stack)] = f]
  /\ ret' = NoPacket

Recurse(f, child) ==
  /\ stack' = Append([stack EXCEPT ![Len(stack)] = f], child)
  /\ ret' = NoPacket

Return(p) ==
  /\ stack' = SubSeq(stack, 1, Len(stack) - 1)
  /\ ret' = p

(* The definitions whose names start with Bug are faulty variants of the one
   that follows; substituting them shows that the properties can fail. *)

BugRoundNotCounted(f, zone, order) ==
  [f EXCEPT !.at = "loop", !.zone = zone, !.ns_addrs = order, !.ns_idx = 1,
            !.legs = {}, !.hedge = FALSE, !.todo = <<>>]

(* The servers of the next zone, from the first again. *)
NextServers(f, zone, order) ==
  [f EXCEPT !.at = "loop", !.zone = zone, !.ns_addrs = order, !.ns_idx = 1,
            !.round = f.round + 1, !.legs = {}, !.hedge = FALSE, !.todo = <<>>]

(* Skip n servers of this zone. *)
SkipServers(f, n) ==
  [f EXCEPT !.at = "loop", !.ns_idx = f.ns_idx + n,
            !.round = f.round + 1, !.legs = {}, !.hedge = FALSE]

-----------------------------------------------------------------------------
(* resolve_recursive, fetch_dnskeys or fetch_ds asks. *)
Call(q) ==
  /\ stack = <<>> /\ ret = NoPacket
  /\ calls < MaxCalls
  /\ calls' = calls + 1
  /\ query' = q
  /\ lost' = FALSE
  /\ stack' = <<Frame(q[1], q[2], 0, 0)>>
  /\ UNCHANGED <<cache, ret, unprimed, expiries>>

(* The caller takes the result; refresh_entry, the validating branch of
   resolve_query, fetch_dnskeys and fetch_ds also store it. *)
Finish(stores) ==
  /\ stack = <<>> /\ ret # NoPacket
  /\ cache' = IF stores /\ ret # Err THEN Store(cache, query, ret) ELSE cache
  /\ ret' = NoPacket
  /\ UNCHANGED <<stack, query, unprimed, lost, calls, expiries>>

(* The start of resolve_iterative: depth check, cache, closest servers. *)
Enter ==
  /\ Running("enter")
  /\ LET k == <<top.qname, top.qtype>>
     IN IF top.referral_depth > MAX_REFERRAL_DEPTH THEN Return(Err)
        ELSE IF Lookup(cache, k) # {} THEN Return(cache[k])
        ELSE \E start \in find_closest_ns(cache, top.qname) :
               \E order \in Orders(start.addrs) :
                 Continue([top EXCEPT !.at = "loop", !.zone = start.zone, !.ns_addrs = order])
  /\ UNCHANGED <<cache, query, unprimed, lost, calls, expiries>>

BugOneRoundLess(known) ==
  /\ Running("loop")
  /\ IF top.round + 1 >= MAX_REFERRAL_DEPTH \/ top.ns_idx > Len(top.ns_addrs) THEN Return(Err)
     ELSE Continue([top EXCEPT !.at = "asking", !.legs = {top.ns_idx}, !.hedge = FALSE])
  /\ UNCHANGED <<cache, query, unprimed, lost, calls, expiries>>

(* The top of the loop, and the requests send_query_hedged opens at once: two
   when the SRTT cache does not know the first server, one otherwise. *)
Ask(known) ==
  /\ Running("loop")
  /\ IF top.round >= MAX_REFERRAL_DEPTH \/ top.ns_idx > Len(top.ns_addrs) THEN Return(Err)
     ELSE LET i   == top.ns_idx
              two == i < Len(top.ns_addrs)
          IN Continue([top EXCEPT !.at = "asking",
                                  !.legs = IF two /\ ~known THEN {i, i + 1} ELSE {i},
                                  !.hedge = two /\ known])
  /\ UNCHANGED <<cache, query, unprimed, lost, calls, expiries>>

(* The known server is slow: ask the second one too. *)
Hedge ==
  /\ Running("asking") /\ top.hedge
  /\ Continue([top EXCEPT !.legs = @ \cup {top.ns_idx + 1}, !.hedge = FALSE])
  /\ UNCHANGED <<cache, query, unprimed, lost, calls, expiries>>

(* A request times out or fails.  Once none is open both servers are skipped,
   even when the second was never asked. *)
RequestFails(i) ==
  /\ Running("asking") /\ i \in top.legs
  /\ lost' = TRUE
  /\ LET remaining == Len(top.ns_addrs) - top.ns_idx + 1
     IN Continue(IF top.legs = {i}
                 THEN SkipServers(top, IF remaining < 2 THEN remaining ELSE 2)
                 ELSE [top EXCEPT !.legs = @ \ {i}])
  /\ UNCHANGED <<cache, query, unprimed, calls, expiries>>

-----------------------------------------------------------------------------
(* What the loop makes of a response. *)

Minimised(f, p) ==
  /\ minimize_query(f) # <<f.qname, f.qtype>>
  /\ p.authorities # {} \/ p.answers # {}

(* The answer to a minimised query only tells the next servers. *)
TldReferral(p) ==
  /\ Minimised(top, p)
  /\ \E zone \in IF referral_zones(p) = {} THEN {top.zone} ELSE referral_zones(p) :
       LET in_answer == extract_ns_from_records(p.answers)
           hosts == IF in_answer # {} THEN in_answer ELSE extract_ns_names(p)
           c     == cache_glue(cache_ns_delegation(cache, zone, p), p, hosts)
           addrs == resolve_ns_addrs_from_glue(c, p, hosts)
       IN /\ cache' = c
          /\ IF addrs = {} THEN Continue([SkipServers(top, 1) EXCEPT !.zone = zone])
             ELSE \E order \in Orders(addrs) : Continue(NextServers(top, zone, order))

HasTarget(f, p) == f.qtype = "CNAME" \/ OfType(p.answers, {f.qtype}) # {}

(* The records asked for, or an answer that leads nowhere else. *)
FinalAnswer(p) ==
  /\ ~Minimised(top, p) /\ p.answers # {}
  /\ HasTarget(top, p) \/ extract_cname_targets(p, top.qname) = {}
  /\ cache' = Store(cache, <<top.qname, top.qtype>>, p)
  /\ Return(p)

BugCnameNotCounted(p) ==
  /\ ~Minimised(top, p) /\ p.answers # {} /\ ~HasTarget(top, p)
  /\ \E target \in extract_cname_targets(p, top.qname) :
       Recurse([Frame(top.qname, top.qtype, top.referral_depth, top.cname_depth)
                  EXCEPT !.at = "cname", !.response = p],
               Frame(target, top.qtype, 0, top.cname_depth))
  /\ UNCHANGED cache

(* A CNAME: resolve its target from the start, with a fresh referral depth. *)
ChaseCname(p) ==
  /\ ~Minimised(top, p) /\ p.answers # {} /\ ~HasTarget(top, p)
  /\ \E target \in extract_cname_targets(p, top.qname) :
       IF top.cname_depth >= MAX_CNAME_DEPTH THEN Return(Err)
       ELSE Recurse([Frame(top.qname, top.qtype, top.referral_depth, top.cname_depth)
                       EXCEPT !.at = "cname", !.response = p],
                    Frame(target, top.qtype, 0, top.cname_depth + 1))
  /\ UNCHANGED cache

Negative(p) ==
  /\ ~Minimised(top, p) /\ p.answers = {}
  /\ p.rcode \in {"NXDOMAIN", "REFUSED"}
  /\ cache' = Store(cache, <<top.qname, top.qtype>>, p)
  /\ Return(p)

(* Neither answer nor referral: returned as it is, not stored. *)
NoData(p) ==
  /\ ~Minimised(top, p) /\ p.answers = {}
  /\ p.rcode \notin {"NXDOMAIN", "REFUSED"}
  /\ extract_ns_names(p) = {}
  /\ Return(p)
  /\ UNCHANGED cache

(* Look up the next name server without glue, or give up. *)
ResolveNs(f, todo) ==
  IF todo = <<>> THEN Return(Err)
  ELSE Recurse([f EXCEPT !.at = "glueless", !.todo = Tail(todo), !.ns_addrs = <<>>,
                         !.ns_idx = 1, !.legs = {}, !.hedge = FALSE],
               Frame(Head(todo)[1], Head(todo)[2], f.referral_depth + 1, f.cname_depth))

(* Each name with its two address types, one name after the other. *)
NsQueries(names) ==
  [i \in 1..(2 * Len(names)) |->
     <<names[(i + 1) \div 2], IF i % 2 = 1 THEN "A" ELSE "AAAA">>]

Referral(p) ==
  /\ ~Minimised(top, p) /\ p.answers = {}
  /\ p.rcode \notin {"NXDOMAIN", "REFUSED"}
  /\ \E zone \in referral_zones(p) :
       LET hosts == extract_ns_names(p)
           c     == cache_glue(cache_ds_from_authority(
                      cache_ns_delegation(cache, zone, p), p), p, hosts)
           addrs == resolve_ns_addrs_from_glue(c, p, hosts)
       IN /\ cache' = c
          /\ IF addrs # {}
             THEN \E order \in Orders(addrs) : Continue(NextServers(top, zone, order))
             ELSE \E names \in Orders(hosts) :
                    ResolveNs([top EXCEPT !.zone = zone],
                              IF top.referral_depth < MAX_REFERRAL_DEPTH
                              THEN NsQueries(names) ELSE <<>>)

(* The first answer wins; the other request is dropped. *)
Response(i) ==
  /\ Running("asking") /\ i \in top.legs
  /\ LET q == minimize_query(top)
     IN \E p \in Answers(top.ns_addrs[i], q[1], q[2]) :
          \/ TldReferral(p) \/ FinalAnswer(p) \/ ChaseCname(p)
          \/ Negative(p) \/ NoData(p) \/ Referral(p)
  /\ UNCHANGED <<query, unprimed, lost, calls, expiries>>

-----------------------------------------------------------------------------
(* A call made by resolve_iterative has returned. *)
Resuming(l) == stack # <<>> /\ ret # NoPacket /\ top.at = l

(* The target's records follow the CNAME; its errors are passed on. *)
ResumeCname ==
  /\ Resuming("cname")
  /\ IF ret = Err THEN Return(Err) /\ UNCHANGED cache
     ELSE LET combined == [top.response EXCEPT !.answers = @ \cup ret.answers,
                                               !.rcode = ret.rcode]
          IN Return(combined) /\ cache' = Store(cache, <<top.qname, top.qtype>>, combined)
  /\ UNCHANGED <<query, unprimed, lost, calls, expiries>>

(* Addresses for a name server end the search; otherwise try the next. *)
ResumeGlueless ==
  /\ Resuming("glueless")
  /\ LET addrs == IF ret = Err THEN {} ELSE Addrs(ret.answers)
     IN IF addrs = {} THEN ResolveNs(top, top.todo)
        ELSE \E order \in Orders(addrs) : Continue(NextServers(top, top.zone, order))
  /\ UNCHANGED <<cache, query, unprimed, lost, calls, expiries>>

-----------------------------------------------------------------------------
(* prime_tld_cache: the whole referral is stored as the answer to NS. *)
PrimeTld(tld, server) ==
  /\ tld \in unprimed
  /\ unprimed' = unprimed \ {tld}
  /\ \E p \in Answers(server, tld, "NS") :
       /\ extract_ns_names(p) # {}
       /\ cache' = cache_ds_from_authority(
                     cache_glue(Store(cache, <<tld, "NS">>, p), p, extract_ns_names(p)), p)
  /\ UNCHANGED <<stack, ret, query, lost, calls, expiries>>

Expire(k) ==
  /\ expiries < MaxExpiries
  /\ expiries' = expiries + 1
  /\ cache' = [x \in DOMAIN cache \ {k} |-> cache[x]]
  /\ UNCHANGED <<stack, ret, query, unprimed, lost, calls>>

(* What a pending call does next. *)
Step ==
  \/ Enter
  \/ \E known \in BOOLEAN : Ask(known)
  \/ Running("asking") /\ \E i \in top.legs : Response(i) \/ RequestFails(i)
  \/ ResumeCname \/ ResumeGlueless

Next ==
  \/ \E q \in Queries : Call(q)
  \/ Step \/ Hedge
  \/ \E stores \in BOOLEAN : Finish(stores)
  \/ \E tld \in PrimeTlds, server \in RootHints : PrimeTld(tld, server)
  \/ \E k \in DOMAIN cache : Expire(k)

Spec == Init /\ [][Next]_vars

(* Every request ends by its timeout and the runtime polls ready tasks. *)
FairSpec == Spec /\ WF_vars(Step)

-----------------------------------------------------------------------------
(* Whatever servers answer (aliases and name servers that lead back to each
   other included), resolve_iterative never nests deeper than its two limits
   allow together: a chased CNAME starts a new count of referrals. *)
StackBounded ==
  Len(stack) <= (MAX_CNAME_DEPTH + 1) * (MAX_REFERRAL_DEPTH + 1)

(* There is no timeout over the whole walk: the limits alone make every call
   return, over broken trees too. *)
EveryWalkEnds == stack # <<>> ~> stack = <<>>
=============================================================================
