------------------------------ MODULE Pipeline ------------------------------
(***************************************************************************)
(* resolve_query of src/src/ctx.rs around the remote resolution: the local  *)
(* stages in their order, the CNAME chase, validation, rebind protection,   *)
(* the response's final shape, the counters (src/src/stats.rs) and the      *)
(* query log (src/src/query_log.rs); and the API handlers that change       *)
(* overrides and blocking while queries are on their way.                   *)
(*                                                                          *)
(* Every lock of a query is taken and released within one stage, so each    *)
(* stage is a step.  resolve_remote is the constant Remote here: the        *)
(* module Resolver has its cache, coalescing and upstreams.                 *)
(***************************************************************************)
EXTENDS PipelineOps

CONSTANTS
  Clients,        \* client -> [loopback]: who may ask
  Questions,      \* [name, type, do, edns]
  Remote(_, _),   \* possible remote outcomes of a name and type: [path, resp]
  Overrides,      \* records that handlers may set: [name, family, target]
  Durations,      \* their durations; 0 for none
  ZoneRecords,    \* the [[zones]] of the configuration, in order
  Forwarding,     \* suffixes with a forwarding rule
  ProxyTld,       \* label of the proxy's TLD
  Local,          \* the proxy's names: [services, peers], peers name -> address
  Policy,         \* client rules (Rule of BlockOps)
  Blocked,        \* names on the blocklist
  Private, V6,    \* private addresses; IPv6 addresses
  RebindAllowed,  \* names exempt from rebind protection
  FilterAaaa, Dnssec, Strict,
  MAX_CNAME_DEPTH, LogCapacity,
  MaxNow, MaxQueries, MaxSets   \* bounds

ASSUME PipelineConstants ==
  /\ IsFiniteSet(DOMAIN Clients)
  /\ ZoneRecords \in Seq(ToSet(ZoneRecords))
  /\ Durations \subseteq Nat /\ LogCapacity \in Nat

VARIABLES
  q,            \* client -> its query: [at, name, type, do, edns, cur, visited,
                \* resp, path, out]
  overrides, blocking, now,
  stats,        \* [total, paths]
  qlog,         \* [entries, next_seq]; an entry is [seq, path]
  asked,        \* history: names handed to resolve_remote
  promised,     \* history: override -> deadline as the user asked for it
  sets, queries

Zones == build_zone_map(ZoneRecords)

pipeVars == <<q, overrides, blocking, now, stats, qlog, asked, promised, sets, queries>>

Paths == {"Local", "Cached", "Forwarded", "Upstream", "Recursive", "Coalesced", "Blocked",
          "Overridden", "UpstreamError"}
NoResp == Response("NONE", <<>>)
Idle == [at |-> "idle", name |-> <<>>, type |-> "", do |-> FALSE, edns |-> FALSE, cur |-> <<>>,
         visited |-> {}, resp |-> NoResp, path |-> "", out |-> NoResp]

Store == [NewStore(List({}, {}), List({}, {})) EXCEPT !.domains = Blocked, !.enabled = blocking]

Init ==
  /\ q = [c \in DOMAIN Clients |-> Idle]
  /\ overrides = [n \in {} |-> 0] /\ promised = [n \in {} |-> 0]
  /\ blocking = TRUE /\ now = 1
  /\ stats = [total |-> 0, paths |-> [p \in Paths |-> 0]]
  /\ qlog = [entries |-> <<>>, next_seq |-> 0]
  /\ asked = {} /\ sets = 0 /\ queries = 0

others == <<overrides, blocking, now, promised, sets>>
counters == <<stats, qlog>>

-----------------------------------------------------------------------------
(* resolve_proxy_tld: a service is where the proxy is, a peer where it is. *)
resolve_proxy_tld(c, n, t) ==
  LET s == Front(n)
      here == IF Clients[c].loopback THEN <<"127.0.0.1", "::1">> ELSE <<"lan", "::ffff:lan">>
  IN IF Len(n) > 1 /\ s \in Local.services
     THEN Response("NOERROR", answer_record(n, t, here[1], here[2]))
     ELSE IF Len(n) > 1 /\ s \in DOMAIN Local.peers
     THEN Response("NOERROR", answer_record(n, t, Local.peers[s][1], Local.peers[s][2]))
     ELSE Response("NXDOMAIN", <<>>)

InProxyTld(n) == ProxyTld # "" /\ Ends(n, <<ProxyTld>>)
FiltersAaaa(c) == effective_filter_aaaa(Policy, c, Clients[c].loopback, FilterAaaa)
Sinkhole(n, t) == Response("NOERROR", answer_record(n, t, "0.0.0.0", "::"))
Out(path, resp) == {[path |-> path, resp |-> resp]}

(* The local stages in order; {} hands the name to resolve_remote. *)
resolve_local(c, n, t) ==
  LET override == LookupOverride(overrides, n, now)
      zone     == ZoneLookup(Zones.exact, Zones.wildcard, n, t)
      decision == evaluate(Policy, c, Clients[c].loopback, n)
  IN IF override # {} THEN Out("Overridden", Response("NOERROR", SetToSeq(override)))
     ELSE IF Ends(n, <<"localhost">>)
          THEN Out("Local", Response("NOERROR", answer_record(n, t, "127.0.0.1", "::1")))
     ELSE IF zone # {} THEN Out("Local", Response("NOERROR", CHOOSE z \in zone : TRUE))
     ELSE IF is_special_use_domain(n) /\ ~match_forwarding_rule(Forwarding, n)
          THEN Out("Local", special_use_response(n, t))
     ELSE IF InProxyTld(n) THEN Out("Local", resolve_proxy_tld(c, n, t))
     ELSE IF decision = "Block" THEN Out("Blocked", Sinkhole(n, t))
     ELSE IF decision # "Allow" /\ is_blocked(Store, n, now) THEN Out("Blocked", Sinkhole(n, t))
     ELSE IF t = "AAAA" /\ FiltersAaaa(c) THEN Out("Local", Response("NOERROR", <<>>))
     ELSE {}

-----------------------------------------------------------------------------
Ask(c, question) ==
  /\ q[c].at = "idle" /\ queries < MaxQueries
  /\ q' = [q EXCEPT ![c] = [Idle EXCEPT !.at = "local", !.name = question.name,
             !.type = question.type, !.do = question.do, !.edns = question.edns,
             !.cur = question.name, !.visited = {question.name}]]
  /\ queries' = queries + 1
  /\ UNCHANGED <<others, counters, asked>>

(* A stage's response: the first one, or the continuation of the chase,
   whose path and flags are dropped. *)
Take(x, r) ==
  IF x.path = "" THEN [x EXCEPT !.at = "loop", !.resp = r.resp, !.path = r.path]
  ELSE [x EXCEPT !.at = "loop", !.resp.answers = @ \o r.resp.answers,
                 !.resp.rcode = r.resp.rcode]

ResolveLocal(c) ==
  /\ q[c].at = "local"
  /\ LET r == resolve_local(c, q[c].cur, q[c].type)
     IN IF r = {}
        THEN q' = [q EXCEPT ![c].at = "remote"] /\ asked' = asked \cup {q[c].cur}
        ELSE q' = [q EXCEPT ![c] = Take(@, CHOOSE x \in r : TRUE)] /\ UNCHANGED asked
  /\ UNCHANGED <<others, counters, queries>>

ResolveRemote(c, r) ==
  /\ q[c].at = "remote"
  /\ q' = [q EXCEPT ![c] = Take(@, r)]
  /\ UNCHANGED <<others, counters, asked, queries>>

BugReturnsLoops(x) ==
  LET target == extract_cname_target(x.resp.answers, x.cur)
      t == CHOOSE n \in target : TRUE
  IN IF \/ \E i \in DOMAIN x.resp.answers : x.resp.answers[i].type = x.type
        \/ x.resp.rcode # "NOERROR" \/ target = {} \/ t \in x.visited
     THEN [x EXCEPT !.at = "post"]
     ELSE [x EXCEPT !.at = "local", !.cur = t, !.visited = @ \cup {t}]

(* One turn of the chase: done, a bad chain, or on to the target. *)
Turn(x) ==
  LET target == extract_cname_target(x.resp.answers, x.cur)
      t == CHOOSE n \in target : TRUE
  IN IF \/ \E i \in DOMAIN x.resp.answers : x.resp.answers[i].type = x.type
        \/ x.resp.rcode # "NOERROR" \/ target = {}
     THEN [x EXCEPT !.at = "post"]
     ELSE IF Cardinality(x.visited) > MAX_CNAME_DEPTH \/ t \in x.visited
     THEN [x EXCEPT !.at = "post", !.resp = Response("SERVFAIL", <<>>)]
     ELSE [x EXCEPT !.at = "local", !.cur = t, !.visited = @ \cup {t}]

Chase(c) ==
  /\ q[c].at = "loop"
  /\ q' = [q EXCEPT ![c] = Turn(@)]
  /\ UNCHANGED <<others, counters, asked, queries>>

(* Validation of recursive answers: AD for Secure, SERVFAIL for Bogus in
   strict mode. *)
Validated(x, status) ==
  IF ~(Dnssec /\ x.path = "Recursive") THEN x.resp
  ELSE IF status = "Bogus" /\ Strict THEN Response("SERVFAIL", <<>>)
  ELSE [x.resp EXCEPT !.ad = status = "Secure"]

RebindExempt(x) == returns_trusted_local_data(x.path) \/ find_in_set(x.name, RebindAllowed) # {}

(* AD does not survive the removal of a record. *)
Scrubbed(x, resp) ==
  LET clean == scrub_section(resp.answers, Private)
  IN IF RebindExempt(x) \/ clean = resp.answers THEN resp
     ELSE [resp EXCEPT !.answers = clean, !.ad = FALSE]

(* serialize_with_fallback: too large becomes TC, what cannot be written
   SERVFAIL; both are shaped for the client again. *)
serialize_with_fallback(resp, x, filter, size) ==
  LET Shape(r) == shape_response_for_client(r, x, filter, V6)
  IN CASE size = "fits" -> Shape(resp)
       [] size = "overflow" -> Shape([Response(resp.rcode, <<>>) EXCEPT !.tc = TRUE])
       [] OTHER -> Shape(Response("SERVFAIL", <<>>))

Finish(c, status, size) ==
  /\ q[c].at = "post"
  /\ LET x == q[c]
         resp == Scrubbed(x, Validated(x, status))
     IN q' = [q EXCEPT ![c].at = "record",
                ![c].out = serialize_with_fallback(resp, x, FiltersAaaa(c), size)]
  /\ UNCHANGED <<others, counters, asked, queries>>

-----------------------------------------------------------------------------
(* ServerStats::record and QueryLog::push, each under its own lock. *)
Record(c) ==
  /\ q[c].at = "record"
  /\ stats' = [stats EXCEPT !.total = @ + 1, !.paths[q[c].path] = @ + 1]
  /\ q' = [q EXCEPT ![c].at = "push"]
  /\ UNCHANGED <<others, qlog, asked, queries>>

push(log, entry) ==
  [entries |-> Append(IF Len(log.entries) >= LogCapacity
                      THEN SubSeq(log.entries, 2, Len(log.entries)) ELSE log.entries, entry),
   next_seq |-> log.next_seq + 1]

Push(c) ==
  /\ q[c].at = "push"
  /\ qlog' = push(qlog, [seq |-> qlog.next_seq + 1, path |-> q[c].path])
  /\ q' = [q EXCEPT ![c] = Idle]
  /\ UNCHANGED <<others, stats, asked, queries>>

(* QueryLog::query: newest first, filtered, at most limit. *)
query(log, paths, limit) ==
  LET found == Only(Reverse(log.entries), {e \in ToSet(log.entries) : e.path \in paths})
  IN SubSeq(found, 1, IF Len(found) < limit THEN Len(found) ELSE limit)

-----------------------------------------------------------------------------
(* create_overrides and load_environment: each entry in turn, one lock. *)
CreateOverride(o, d) ==
  /\ sets < MaxSets /\ sets' = sets + 1
  /\ LET e == IF d = 0 THEN 0 ELSE now + d
     IN /\ overrides' = InsertOverride(overrides, o.name,
                                       parse_target(o.name, o.family, o.target), e, now)
        /\ promised' = [n \in DOMAIN promised \cup {o.name} |-> IF n = o.name THEN e ELSE promised[n]]
  /\ UNCHANGED <<q, blocking, now, counters, asked, queries>>

RemoveOverride(n) ==
  /\ n \in DOMAIN overrides
  /\ overrides' = [m \in DOMAIN overrides \ {n} |-> overrides[m]]
  /\ promised' = [m \in DOMAIN promised \ {n} |-> promised[m]]
  /\ UNCHANGED <<q, blocking, now, counters, asked, sets, queries>>

ClearOverrides ==
  /\ DOMAIN overrides # {}
  /\ overrides' = [n \in {} |-> 0] /\ promised' = [n \in {} |-> 0]
  /\ UNCHANGED <<q, blocking, now, counters, asked, sets, queries>>

ToggleBlocking ==
  /\ sets < MaxSets /\ sets' = sets + 1
  /\ blocking' = ~blocking
  /\ UNCHANGED <<q, overrides, now, counters, asked, promised, queries>>

Tick ==
  /\ now < MaxNow /\ now' = now + 1
  /\ UNCHANGED <<q, overrides, blocking, counters, asked, promised, sets, queries>>

Next ==
  \/ \E c \in DOMAIN Clients :
       \/ \E x \in Questions : Ask(c, x)
       \/ ResolveLocal(c) \/ Chase(c) \/ Record(c) \/ Push(c)
       \/ \E r \in Remote(q[c].cur, q[c].type) : ResolveRemote(c, r)
       \/ \E s \in {"Secure", "Insecure", "Bogus"}, z \in {"fits", "overflow", "error"} : Finish(c, s, z)
  \/ \E o \in Overrides, d \in Durations : CreateOverride(o, d)
  \/ \E n \in DOMAIN overrides : RemoveOverride(n)
  \/ ClearOverrides \/ ToggleBlocking \/ Tick

Spec == Init /\ [][Next]_pipeVars

-----------------------------------------------------------------------------
(* Names that numa answers itself are never handed to a server, not even as
   the target of a CNAME (src/src/ctx.rs, resolve_local). *)
LocalNamesStayLocal ==
  \A n \in asked :
    /\ ~Ends(n, <<"localhost">>) /\ ~InProxyTld(n)
    /\ ZoneLookup(Zones.exact, Zones.wildcard, n, "A") = {}
    /\ is_special_use_domain(n) => match_forwarding_rule(Forwarding, n)

(* A NOERROR answer without a record of the type asked for never ends in an
   alias that was not followed: loops and long chains are SERVFAIL
   (src/src/ctx.rs, resolve_with_cname_chase). *)
NeverBareCname ==
  \A c \in DOMAIN Clients :
    LET x == q[c]
    IN x.at = "post" /\ x.resp.rcode = "NOERROR" =>
         \/ \E i \in DOMAIN x.resp.answers : x.resp.answers[i].type = x.type
         \/ extract_cname_target(x.resp.answers, x.cur) = {}

(* Whatever stages and aliases an answer went through, a client never gets a
   private address, nor a hint with one, from a path that is not trusted
   (src/src/rebind.rs, apply). *)
NoPrivateFromRemote ==
  \A c \in DOMAIN Clients :
    LET x == q[c]
    IN x.at = "record" /\ ~RebindExempt(x) =>
         \A i \in DOMAIN x.out.answers :
           LET r == x.out.answers[i]
           IN /\ r.type \in {"A", "AAAA"} => r.data \notin Private
              /\ r.type = "HTTPS" => r.data \cap Private = {}

(* Every response a client gets fits its query, the ones made up for lack of
   room or after an error too: EDNS only for EDNS, DNSSEC records only for DO,
   and one that is truncated here, not by the server asked, is empty
   (src/src/ctx.rs, serialize_with_fallback). *)
FitsClient ==
  \A c \in DOMAIN Clients :
    LET x == q[c]
    IN x.at = "record" =>
         /\ x.out.edns = x.edns
         /\ x.do \/ \A i \in DOMAIN x.out.answers : x.out.answers[i].type \notin DnssecTypes
         /\ x.out.tc => x.resp.tc \/ x.out.answers = <<>>

Total(n) ==
  n["Local"] + n["Cached"] + n["Forwarded"] + n["Upstream"] + n["Recursive"] + n["Coalesced"]
    + n["Blocked"] + n["Overridden"] + n["UpstreamError"]

(* The counters add up and are ahead of the log by the queries between the
   two locks (src/src/stats.rs, record; src/src/query_log.rs, push). *)
CountersAgree ==
  /\ stats.total = Total(stats.paths)
  /\ stats.total = qlog.next_seq + Cardinality({c \in DOMAIN Clients : q[c].at = "push"})

(* The log holds the newest queries without a gap, so that a reader who polls
   it can tell by the sequence numbers what it missed (src/src/query_log.rs). *)
LogIsSuffix ==
  LET n == Len(qlog.entries)
      room == IF LogCapacity = 0 THEN 1 ELSE LogCapacity
      newest == query(qlog, Paths, n)
  IN /\ n = IF qlog.next_seq < room THEN qlog.next_seq ELSE room
     /\ \A i \in 1..n : newest[i].seq = qlog.next_seq - i + 1

(* An override is in force exactly until its deadline or its removal, however
   late it is cleaned up and whatever else is set (src/src/override_store.rs). *)
OverridesExpireOnTime ==
  \A n \in {o.name : o \in Overrides} :
    (LookupOverride(overrides, n, now) # {}) <=>
      (n \in DOMAIN promised /\ (promised[n] = 0 \/ now < promised[n]))

(* Whatever stages and aliases an answer went through, it is fit for its
   client: a NOERROR answer never ends in an alias that was not followed
   (src/src/ctx.rs, resolve_with_cname_chase), names that numa answers itself
   are never handed to a server, not even as the target of an alias
   (resolve_local), no private address or hint comes from an untrusted path
   (src/src/rebind.rs, apply), and EDNS and DNSSEC records are there only if
   the query asked for them (serialize_with_fallback). *)
AnswersAreFit == NeverBareCname /\ LocalNamesStayLocal /\ NoPrivateFromRemote /\ FitsClient

(* What the server keeps about its queries is right at every moment between
   the locks that queries take one after the other: the counters add up and
   are ahead of the log by the queries in between, the log is the newest
   queries without a gap, and an override is in force exactly until its
   deadline or its removal (src/src/stats.rs, src/src/query_log.rs,
   src/src/override_store.rs). *)
BooksBalance == CountersAgree /\ LogIsSuffix /\ OverridesExpireOnTime
=============================================================================
