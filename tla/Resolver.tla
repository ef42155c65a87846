------------------------------ MODULE Resolver ------------------------------
(***************************************************************************)
(* Remote resolution (src/src/ctx.rs: resolve_remote, refresh_entry and the *)
(* DNSSEC part of resolve_query; src/src/serve.rs: cache_warm_loop).  Many  *)
(* queries share one cache, one in-flight map and one set of keys being     *)
(* refreshed; no lock is held across an await, so another task can run      *)
(* between any two of the steps below.                                      *)
(*                                                                          *)
(* Composition: the cache is CacheOps' value, each query's coalesced call   *)
(* is a call of Inflight.  A response is a wire message [ttl, data]; its    *)
(* data remembers when it was fetched from a server, what the DNSSEC        *)
(* validator concludes about it and whether its header has the AD bit.      *)
(***************************************************************************)
EXTENDS CacheOps, Sequences

CONSTANTS
  Tasks,           \* client queries under way at once
  Settings,        \* configurations the server may have been started with
  ForwardedNames,  \* names covered by a forwarding rule
  WarmTypes,       \* the types warmed for each, in order (<<"A", "AAAA">> in the code)
  WarmLoop,        \* a model value: the warm loop as a refresher
  RawTtls,         \* TTLs upstream answers carry
  Sigs,            \* what the validator may conclude about upstream data
  ServerAD,        \* values of the AD bit in servers' answers
  Failed, NoTask,
  MaxTime          \* bound on the clock

(* A setting: ctx.upstream_mode, the [dnssec] section and the cache.warm list. *)
ASSUME ResolverConstants ==
  /\ Settings \subseteq [upstream_mode : {"Upstream", "Recursive"}, dnssec_enabled : BOOLEAN,
                         dnssec_strict : BOOLEAN, warm : SUBSET Domains]
  /\ ForwardedNames \subseteq Domains
  /\ WarmTypes \in Seq(Qtypes) /\ WarmTypes # <<>> /\ WarmLoop \notin Key
  /\ Sigs \subseteq DnssecStatus /\ ServerAD \subseteq BOOLEAN
  /\ RawTtls \subseteq Nat /\ MaxTime \in Nat

VARIABLES
  conf,        \* the configuration, which never changes
  cache, now,
  inflight, pc, key, leader, mailbox, result,  \* Inflight's
  asked,       \* asked[t]: the key t asked for, and when
  stage,       \* stage[t]: where t is in resolve_remote / resolve_query
  hold,        \* hold[t]: {} or {what t read or was answered and carries on with}
  reply,       \* reply[t]: {} or {the response sent to t's client}
  refreshing,  \* ctx.refreshing: keys with a stale-refresh task
  job,         \* job[j]: the refresh_entry call of refresher j
  unwarmed     \* warm names the startup pass of the warm loop has yet to visit

flightVars == <<inflight, pc, key, leader, mailbox, result>>
taskVars == <<asked, stage, hold, reply>>
jobVars == <<refreshing, job, unwarmed>>
vars == <<conf, cache, now, flightVars, taskVars, jobVars>>

Data == [rcode : {"NOERROR", "SERVFAIL"}, fetched : 0..MaxTime, sig : DnssecStatus,
         ad : BOOLEAN]
Packet == [ttl : Nat \cup {NoTtl}, data : Data]

ASSUME ResolverMarkers == Failed \notin Packet /\ NoTask \notin Tasks

(* DnsPacket::response_from(query, SERVFAIL): no records. *)
ServFail == [ttl |-> NoTtl,
             data |-> [rcode |-> "SERVFAIL", fetched |-> now, sig |-> "Insecure",
                      ad |-> FALSE]]

(* Without DNSSEC nobody judges the data. *)
Verdicts == IF conf.dnssec_enabled THEN Sigs ELSE {"Indeterminate"}

(* The answers a server can give now. *)
UpstreamAnswers ==
  {[ttl |-> n, data |-> [rcode |-> "NOERROR", fetched |-> now, sig |-> s, ad |-> a]] :
     n \in RawTtls, s \in Verdicts, a \in ServerAD}

(* if Secure { header.authed_data = true }: the bit is never cleared here. *)
WithAD(packet, status) ==
  IF status = "Secure" THEN [packet EXCEPT !.data.ad = TRUE] ELSE packet

Fl == INSTANCE Inflight WITH QKeys <- Key, Answers <- Packet

(* Conditional forwarding takes priority over recursive mode. *)
Route(k) == IF k[1] \in ForwardedNames THEN "Forwarded" ELSE conf.upstream_mode

(* Refreshers: one stale-refresh task per key, one warm loop. *)
Jobs == Key \cup {WarmLoop}
NoJob == [at |-> "none", key |-> <<>>, packet |-> {}, since |-> 0]

Stages == {"idle", "hit", "miss", "coalesced", "asking", "cached", "validating", "done"}

Init ==
  /\ conf \in Settings
  /\ cache = EmptyCache /\ now = 0
  /\ Fl!Init
  /\ asked \in [Tasks -> [key : Key, at : {0}]]
  /\ stage = [t \in Tasks |-> "idle"]
  /\ hold = [t \in Tasks |-> {}]
  /\ reply = [t \in Tasks |-> {}]
  /\ refreshing = {}
  /\ job = [j \in Jobs |-> NoJob]
  /\ unwarmed = conf.warm

Insert(k, packet, status) == cache' \in insert_wire(cache, k, packet, status, now)

Reply(t, packet, path) ==
  /\ reply' = [reply EXCEPT ![t] = {[packet |-> packet, path |-> path, at |-> now]}]
  /\ stage' = [stage EXCEPT ![t] = "done"]
  /\ hold' = [hold EXCEPT ![t] = {}]
  /\ UNCHANGED asked

-----------------------------------------------------------------------------
(* resolve_remote starts with one read-locked lookup. *)
Query(t, k) ==
  /\ stage[t] = "idle"
  /\ asked' = [asked EXCEPT ![t] = [key |-> k, at |-> now]]
  /\ hold' = [hold EXCEPT ![t] = Lookup(cache.entries, k, now)]
  /\ stage' = [stage EXCEPT ![t] = IF Lookup(cache.entries, k, now) = {} THEN "miss" ELSE "hit"]
  /\ UNCHANGED <<conf, cache, now, flightVars, reply, jobVars>>

(* The cached branch: spawn a refresh unless one is running, then answer. *)
ServeCached(t) ==
  /\ stage[t] = "hit"
  /\ \E c \in hold[t] :
       /\ Reply(t, WithAD([ttl |-> c.ttl, data |-> c.data], c.status), "Cached")
       /\ IF needs_refresh(c.freshness) /\ asked[t].key \notin refreshing
          THEN /\ refreshing' = refreshing \cup {asked[t].key}
               /\ job' = [job EXCEPT ![asked[t].key] =
                            [at |-> "start", key |-> asked[t].key, packet |-> {}, since |-> now]]
          ELSE UNCHANGED <<refreshing, job>>
  /\ UNCHANGED <<conf, cache, now, flightVars, unwarmed>>

(* A miss goes through resolve_coalesced. *)
Coalesce(t) ==
  /\ stage[t] = "miss"
  /\ Fl!Lead(t, asked[t].key) \/ Fl!Follow(t, asked[t].key)
  /\ stage' = [stage EXCEPT ![t] = "coalesced"]
  /\ UNCHANGED <<conf, cache, now, asked, hold, reply, jobVars>>

(* The leader's resolve_fn begins.  resolve_recursive looks in the cache
   once more before it asks anybody. *)
LeaderStart(t) ==
  /\ stage[t] = "coalesced" /\ pc[t] = "resolving"
  /\ LET found == IF Route(asked[t].key) = "Recursive" THEN Lookup(cache.entries, asked[t].key, now) ELSE {}
     IN /\ hold' = [hold EXCEPT ![t] = {[ttl |-> c.ttl, data |-> c.data] : c \in found}]
        /\ stage' = [stage EXCEPT ![t] = IF found = {} THEN "asking" ELSE "cached"]
  /\ UNCHANGED <<conf, cache, now, flightVars, asked, reply, jobVars>>

(* What becomes of an answer to k: cache_and_parse and refresh_entry insert
   what a forwarder sent; resolve_iterative inserts what it found, except an
   empty answer without referral, which it only returns. *)
StoreAnswer(k, packet) ==
  \/ Insert(k, packet, "Indeterminate")
  \/ Route(k) = "Recursive" /\ UNCHANGED cache

(* A server answers the leader. *)
LeaderAnswer(t, packet) ==
  /\ stage[t] = "asking"
  /\ StoreAnswer(asked[t].key, packet)
  /\ hold' = [hold EXCEPT ![t] = {packet}]
  /\ stage' = [stage EXCEPT ![t] = "cached"]
  /\ UNCHANGED <<conf, now, flightVars, asked, reply, jobVars>>

(* resolve_fn returns: the guard is dropped, the result not yet sent. *)
LeaderDone(t) ==
  /\ stage[t] = "cached" /\ pc[t] = "resolving"
  /\ \E packet \in hold[t] : Fl!Resolve(t, packet)
  /\ UNCHANGED <<conf, cache, now, taskVars, jobVars>>

(* resolve_fn returns an error. *)
LeaderFails(t) ==
  /\ stage[t] = "asking"
  /\ Fl!Resolve(t, Failed)
  /\ stage' = [stage EXCEPT ![t] = "cached"]
  /\ UNCHANGED <<conf, cache, now, asked, hold, reply, jobVars>>

(* The leader broadcasts and goes on with its own response. *)
LeaderSend(t) ==
  /\ Fl!Send(t)
  /\ IF result[t] = Failed THEN Reply(t, ServFail, "UpstreamError")
     ELSE IF conf.dnssec_enabled /\ Route(asked[t].key) = "Recursive"
     THEN stage' = [stage EXCEPT ![t] = "validating"] /\ UNCHANGED <<asked, hold, reply>>
     ELSE Reply(t, result[t], Route(asked[t].key))
  /\ UNCHANGED <<conf, cache, now, jobVars>>

(* A follower's answer, or SERVFAIL when its leader failed or vanished. *)
FollowerReceive(t) ==
  /\ Fl!Receive(t)
  /\ IF result'[t] = Failed THEN Reply(t, ServFail, "UpstreamError")
     ELSE Reply(t, result'[t], "Coalesced")
  /\ UNCHANGED <<conf, cache, now, jobVars>>

(* resolve_query after validate_response: AD for Secure, SERVFAIL for Bogus
   in strict mode, and the (possibly replaced) response is cached with its
   status. *)
Validate(t) ==
  /\ stage[t] = "validating"
  /\ \E packet \in hold[t] :
       LET status   == packet.data.sig
           response == IF status = "Bogus" /\ conf.dnssec_strict THEN ServFail
                       ELSE WithAD(packet, status)
       IN /\ Insert(asked[t].key, response, status)
          /\ Reply(t, response, "Recursive")
  /\ UNCHANGED <<conf, now, flightVars, jobVars>>

(* The client is gone: the future is dropped at one of its awaits. *)
Cancel(t) ==
  /\ \/ stage[t] = "asking" /\ Fl!CancelLeader(t)
     \/ stage[t] = "coalesced" /\ Fl!CancelFollower(t)
     \/ stage[t] = "validating" /\ UNCHANGED flightVars
  /\ stage' = [stage EXCEPT ![t] = "done"]
  /\ hold' = [hold EXCEPT ![t] = {}]
  /\ UNCHANGED <<conf, cache, now, asked, reply, jobVars>>

(* The sender of a cancelled leader is dropped after its guard. *)
CancelledSender(t) ==
  /\ Fl!DropSender(t)
  /\ UNCHANGED <<conf, cache, now, taskVars, jobVars>>

(* The task is free for the next query. *)
NextQuery(t) ==
  /\ stage[t] = "done"
  /\ \/ pc[t] = "idle" /\ UNCHANGED flightVars
     \/ Fl!Reuse(t)
  /\ stage' = [stage EXCEPT ![t] = "idle"]
  /\ reply' = [reply EXCEPT ![t] = {}]
  /\ UNCHANGED <<conf, cache, now, asked, hold, jobVars>>

-----------------------------------------------------------------------------
(* cache_warm_loop comes to a warm name: at startup unconditionally, later
   when needs_warm says so.  It neither reads nor sets ctx.refreshing. *)
WarmStart(d) ==
  /\ job[WarmLoop].at = "none"
  /\ d \in unwarmed \/ (unwarmed = {} /\ d \in conf.warm
                        /\ NeedsWarm(cache.entries, d, {WarmTypes[i] : i \in DOMAIN WarmTypes}, now))
  /\ unwarmed' = unwarmed \ {d}
  /\ job' = [job EXCEPT ![WarmLoop] =
               [at |-> "start", key |-> <<d, WarmTypes[1]>>, packet |-> {}, since |-> now]]
  /\ UNCHANGED <<conf, cache, now, flightVars, taskVars, refreshing>>

(* refresh_entry: the recursive branch starts with resolve_recursive's cache
   lookup, the other two ask an upstream. *)
RefreshStart(j) ==
  /\ job[j].at = "start"
  /\ LET k     == job[j].key
         found == IF Route(k) = "Recursive" THEN Lookup(cache.entries, k, now) ELSE {}
     IN job' = [job EXCEPT ![j].at = IF found = {} THEN "asking" ELSE "storing",
                           ![j].packet = {[ttl |-> c.ttl, data |-> c.data] : c \in found}]
  /\ UNCHANGED <<conf, cache, now, flightVars, taskVars, refreshing, unwarmed>>

(* An answer arrives and is inserted, by refresh_entry itself or, in
   recursive mode, by resolve_iterative, after which refresh_entry inserts
   the response once more. *)
RefreshAnswer(j, packet) ==
  /\ job[j].at = "asking"
  /\ StoreAnswer(job[j].key, packet)
  /\ job' = IF Route(job[j].key) = "Recursive"
            THEN [job EXCEPT ![j].at = "storing", ![j].packet = {packet}]
            ELSE [job EXCEPT ![j].at = "ending"]
  /\ UNCHANGED <<conf, now, flightVars, taskVars, refreshing, unwarmed>>

(* No server answered: the cache is left alone. *)
RefreshFails(j) ==
  /\ job[j].at = "asking"
  /\ job' = [job EXCEPT ![j].at = "ending"]
  /\ UNCHANGED <<conf, cache, now, flightVars, taskVars, refreshing, unwarmed>>

BugKeepsOldStatus(j) ==
  /\ job[j].at = "storing"
  /\ \E packet \in job[j].packet :
       Insert(job[j].key, packet, IF job[j].key \in Keys(cache.entries)
                                  THEN Entry(cache.entries, job[j].key).status
                                  ELSE "Indeterminate")
  /\ job' = [job EXCEPT ![j].at = "ending", ![j].packet = {}]
  /\ UNCHANGED <<conf, now, flightVars, taskVars, refreshing, unwarmed>>

(* refresh_entry's own insert of what resolve_recursive returned. *)
RefreshStore(j) ==
  /\ job[j].at = "storing"
  /\ \E packet \in job[j].packet : Insert(job[j].key, packet, "Indeterminate")
  /\ job' = [job EXCEPT ![j].at = "ending", ![j].packet = {}]
  /\ UNCHANGED <<conf, now, flightVars, taskVars, refreshing, unwarmed>>

(* refresh_entry returned to the spawned task, which removes its key. *)
RefreshEnd(k) ==
  /\ job[k].at = "ending"
  /\ refreshing' = refreshing \ {k}
  /\ job' = [job EXCEPT ![k] = NoJob]
  /\ UNCHANGED <<conf, cache, now, flightVars, taskVars, unwarmed>>

(* refresh_entry returned to warm_domain, which goes on to the next type. *)
WarmEnd ==
  /\ job[WarmLoop].at = "ending"
  /\ LET k    == job[WarmLoop].key
         next == {i \in DOMAIN WarmTypes : i > 1 /\ WarmTypes[i - 1] = k[2]}
     IN job' = [job EXCEPT ![WarmLoop] =
                  IF next = {} THEN NoJob
                  ELSE [at |-> "start", key |-> <<k[1], WarmTypes[CHOOSE i \in next : TRUE]>>,
                        packet |-> {}, since |-> now]]
  /\ UNCHANGED <<conf, cache, now, flightVars, taskVars, refreshing, unwarmed>>

(* DELETE /cache and DELETE /cache/{domain}. *)
FlushCache ==
  /\ cache' = EmptyCache
  /\ UNCHANGED <<conf, now, flightVars, taskVars, jobVars>>

FlushCacheDomain(d) ==
  /\ cache' = remove(cache, d)
  /\ UNCHANGED <<conf, now, flightVars, taskVars, jobVars>>

(* Code between two awaits takes no time on the scale of seconds. *)
Busy ==
  \/ \E t \in Tasks : \/ stage[t] \in {"hit", "miss", "cached"}
                      \/ stage[t] = "coalesced" /\ pc[t] = "resolving"
                      \/ pc[t] = "dropping"
  \/ \E j \in Jobs : job[j].at \in {"storing", "ending"}

Tick ==
  /\ now < MaxTime
  /\ ~Busy
  /\ now' = now + 1
  /\ UNCHANGED <<conf, cache, flightVars, taskVars, jobVars>>

Next ==
  \/ \E t \in Tasks, k \in Key : Query(t, k)
  \/ \E t \in Tasks :
       \/ ServeCached(t) \/ Coalesce(t)
       \/ LeaderStart(t) \/ LeaderDone(t) \/ LeaderFails(t) \/ LeaderSend(t)
       \/ FollowerReceive(t) \/ Validate(t)
       \/ Cancel(t) \/ CancelledSender(t) \/ NextQuery(t)
  \/ \E t \in Tasks, packet \in UpstreamAnswers : LeaderAnswer(t, packet)
  \/ \E j \in Jobs : RefreshStart(j) \/ RefreshFails(j) \/ RefreshStore(j)
  \/ \E k \in Key : RefreshEnd(k)
  \/ \E d \in conf.warm : WarmStart(d)
  \/ WarmEnd
  \/ \E j \in Jobs, packet \in UpstreamAnswers : RefreshAnswer(j, packet)
  \/ FlushCache
  \/ \E d \in Domains : FlushCacheDomain(d)
  \/ Tick

Spec == Init /\ [][Next]_vars

(* Upstream answers or its timeout fires; runnable tasks are polled. *)
Fairness ==
  /\ \A t \in Tasks :
       /\ WF_vars(ServeCached(t)) /\ WF_vars(Coalesce(t))
       /\ WF_vars(LeaderStart(t)) /\ WF_vars(LeaderDone(t))
       /\ WF_vars(LeaderFails(t) \/ \E p \in UpstreamAnswers : LeaderAnswer(t, p))
       /\ WF_vars(LeaderSend(t)) /\ WF_vars(FollowerReceive(t))
       /\ WF_vars(Validate(t)) /\ WF_vars(CancelledSender(t))
  /\ \A j \in Jobs :
       /\ WF_vars(RefreshStart(j)) /\ WF_vars(RefreshStore(j))
       /\ WF_vars(RefreshFails(j) \/ \E p \in UpstreamAnswers : RefreshAnswer(j, p))
  /\ \A k \in Key : WF_vars(RefreshEnd(k))
  /\ WF_vars(WarmEnd)

FairSpec == Spec /\ Fairness

-----------------------------------------------------------------------------
(* Types of the resolver's state. *)
TypeOK ==
  /\ conf \in Settings
  /\ now \in 0..MaxTime
  /\ Fl!TypeOK
  /\ \A k \in Keys(cache.entries) : Entry(cache.entries, k).data \in Data
  /\ asked \in [Tasks -> [key : Key, at : 0..MaxTime]]
  /\ stage \in [Tasks -> Stages]
  /\ \A t \in Tasks : \A r \in reply[t] : r.packet \in Packet
  /\ refreshing \subseteq Key
  /\ \A j \in Jobs : job[j].at \in {"none", "start", "asking", "storing", "ending"}

(* ctx.refreshing and the refresh tasks agree: a key is in the set exactly
   while one task refreshes it, so a stale entry is never refreshed twice at
   once by its readers and never shut out from refreshing. *)
RefreshingExact == \A k \in Key : k \in refreshing <=> job[k].at # "none"

(* Serve-stale is bounded: an answer from the cache was fetched from a server
   less than max_ttl plus the stale window before.  Names that are resolved
   recursively are left out, for their refresh stores old data again. *)
StaleBounded ==
  \A t \in Tasks : \A r \in reply[t] :
    r.path = "Cached" /\ Route(asked[t].key) # "Recursive" =>
      r.at - r.packet.data.fetched < (MaxTtl + StaleWindow) * TicksPerSec

(* refresh_entry re-resolves: what a refresh leaves in the cache under its
   key was fetched from a server since the refresh began. *)
ReResolves ==
  \A j \in Jobs :
    job[j].at \in {"asking", "storing"} /\ job'[j].at = "ending" /\ cache' # cache =>
      Entry(cache'.entries, job[j].key).data.fetched >= job[j].since
RefreshReResolves == [][ReResolves]_vars

(* A forwarded answer that is not labelled Cached was fetched after its client
   asked: coalescing never hands out the result of an earlier resolution. *)
UncachedIsFresh ==
  \A t \in Tasks : \A r \in reply[t] :
    r.path # "Cached" /\ Route(asked[t].key) # "Recursive" =>
      r.packet.data.fetched >= asked[t].at

(* Nothing a client gets is too old, however refreshes, the warm loop and
   coalesced queries overlap: no key is refreshed twice at once or shut out
   from refreshing, and for a forwarded name a cached answer was fetched
   within the longest TTL and the stale window, any other one after its client
   asked (src/src/ctx.rs, resolve_remote). *)
AnswersAreRecent == TypeOK /\ RefreshingExact /\ StaleBounded /\ UncachedIsFresh

(* When servers leave the AD bit alone, a client only sees it over data the
   validator found Secure: the bit travels inside the cached message and the
   status beside it, while refreshes replace both. *)
ADOnlyWhenValidated ==
  \A t \in Tasks : \A r \in reply[t] :
    r.packet.data.ad => r.packet.data.sig = "Secure" /\ r.packet.data.rcode = "NOERROR"

(* In strict mode no client is given data with a bogus signature. *)
StrictNeverServesBogus ==
  conf.dnssec_enabled /\ conf.dnssec_strict =>
    \A t \in Tasks : \A r \in reply[t] :
      asked[t].key[1] \notin ForwardedNames => r.packet.data.sig # "Bogus"

(* Every query ends in an answer or in its client's departure, and every
   refresh releases its key. *)
EveryQueryEnds ==
  /\ \A t \in Tasks : stage[t] \notin {"idle", "done"} ~> stage[t] = "done"
  /\ \A k \in Key : k \in refreshing ~> k \notin refreshing
=============================================================================
