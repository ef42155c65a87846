--------------------------- MODULE ResolverProofs ---------------------------
(***************************************************************************)
(* Proofs about remote resolution, for any number of queries, names and     *)
(* types and in every configuration: one refresh per key, bounded           *)
(* staleness, freshness of what is not cached, and the AD bit.              *)
(***************************************************************************)
EXTENDS Resolver, TLAPS

Flight == INSTANCE InflightProofs WITH QKeys <- Key, Answers <- Packet

Forwards(k) == Route(k) # "Recursive"

Bound == (MaxTtl + StaleWindow) * TicksPerSec

(* What is in the cache is typed, and for a forwarded name it is as old as its
   entry says. *)
EntryOK(k, en) ==
  /\ en.data \in Data /\ en.inserted_at \in Nat /\ en.inserted_at <= now
  /\ en.ttl \in Nat /\ en.ttl <= MaxTtl
  /\ Forwards(k) => en.data.fetched = en.inserted_at

CacheOK == \A k \in Keys(cache.entries) : EntryOK(k, Entry(cache.entries, k))

(* Where a query is in resolve_remote and where its coalesced call is. *)
StageAt(t) ==
  /\ stage[t] \in {"idle", "hit", "miss"} => pc[t] = "idle"
  /\ stage[t] = "coalesced" => pc[t] \in {"resolving", "waiting"}
  /\ stage[t] = "asking" => pc[t] = "resolving"
  /\ stage[t] = "cached" => pc[t] \in {"resolving", "sending"}
  /\ stage[t] = "validating" => pc[t] = "done" /\ ~Forwards(asked[t].key)
  /\ stage[t] = "done" => pc[t] \in {"idle", "done", "dropping"}
  /\ stage[t] # "done" => reply[t] = {}
  /\ pc[t] # "idle" => key[t] = asked[t].key
  /\ asked[t].at <= now

(* What a query carries from step to step. *)
HoldAt(t) ==
  /\ stage[t] = "hit" =>
       \A c \in hold[t] : /\ [ttl |-> c.ttl, data |-> c.data] \in Packet
                          /\ Forwards(asked[t].key) => now - c.data.fetched < Bound
  /\ stage[t] = "asking" => hold[t] = {}
  /\ stage[t] \in {"cached", "validating"} => hold[t] \subseteq Packet
  /\ stage[t] = "cached" /\ Forwards(asked[t].key) =>
       /\ \A p \in hold[t] : p.data.fetched = now
       /\ pc[t] = "sending" /\ result[t] # Failed => result[t].data.fetched = now

(* A follower is answered with what was fetched since it asked. *)
MailAt(t) ==
  \A m \in mailbox[t] :
    m # Failed /\ Forwards(asked[t].key) => m.data.fetched >= asked[t].at

(* So is a client that is not answered from the cache. *)
AnswerOK(t, r) ==
  /\ r.packet \in Packet /\ r.at \in Nat
  /\ Forwards(asked[t].key) =>
       IF r.path = "Cached" THEN r.at - r.packet.data.fetched < Bound
       ELSE r.packet.data.fetched >= asked[t].at

ReplyAt(t) == \A r \in reply[t] : AnswerOK(t, r)

(* A refresh of a forwarded name never stores what it read from the cache. *)
JobOK ==
  /\ job \in [Jobs -> [at : {"none", "start", "asking", "storing", "ending"},
                       key : Key \cup {<<>>}, packet : SUBSET Packet, since : 0..MaxTime]]
  /\ \A j \in Jobs : /\ job[j].at # "none" => job[j].key \in Key
                     /\ job[j].at = "storing" => ~Forwards(job[j].key)
  /\ unwarmed \subseteq conf.warm /\ refreshing \subseteq Key
  /\ RefreshingExact

TaskOK == /\ conf \in Settings /\ now \in 0..MaxTime
          /\ asked \in [Tasks -> [key : Key, at : 0..MaxTime]]
          /\ stage \in [Tasks -> Stages]
          /\ DOMAIN hold = Tasks /\ DOMAIN reply = Tasks

QueryAt(t) == StageAt(t) /\ HoldAt(t) /\ ReplyAt(t)

QueryOK == TaskOK /\ \A t \in Tasks : QueryAt(t) /\ MailAt(t)

(* The inductive invariant. *)
RInv == Flight!IInv /\ QueryOK /\ CacheOK /\ JobOK

-----------------------------------------------------------------------------
(* The coalescing part: its invariant carries over, since every step of the
   resolver is a step of Inflight or leaves the flights alone. *)
LEMMA FlightConstants == Flight!InflightConstants
BY ResolverMarkers DEF Flight!InflightConstants

LEMMA FlightInit == Fl!Init => Flight!IInv
BY FlightConstants, Flight!InitIInv DEF Flight!Init, Fl!Init

LEMMA FlightNext == Flight!IInv /\ [Flight!Next]_flightVars => Flight!IInv'
BY FlightConstants, Flight!NextIInv DEF Flight!vars, flightVars

-----------------------------------------------------------------------------
(* Lemmas about the cache. *)

(* Restricting a map changes none of the entries it keeps. *)
LEMMA KeepEntries ==
  ASSUME NEW e, NEW S, NEW k \in Keys(Keep(e, S))
  PROVE  k \in Keys(e) /\ Entry(Keep(e, S), k) = Entry(e, k)
BY DEF Keys, Keep, Entry

(* Making room drops entries and changes none. *)
LEMMA MakeRoomEntries ==
  ASSUME NEW c, NEW n, NEW m \in MakeRoom(c, n), NEW k \in Keys(m.entries)
  PROVE  k \in Keys(c.entries) /\ Entry(m.entries, k) = Entry(c.entries, k)
<1> DEFINE x == evict_expired(c, n)
<1>1. \A j \in Keys(x.entries) : j \in Keys(c.entries) /\ Entry(x.entries, j) = Entry(c.entries, j)
  BY KeepEntries DEF evict_expired
<1>2. CASE m = c
  BY <1>2
<1>3. CASE m = x
  BY <1>1, <1>3
<1>4. CASE m \in evict_stalest(x, n) /\ m # x
  <2>1. PICK j \in Stalest(x.entries, n) : m.entries = Keep(x.entries, Keys(x.entries) \ {j})
    BY <1>4 DEF evict_stalest
  <2>2. k \in Keys(x.entries) /\ Entry(m.entries, k) = Entry(x.entries, k)
    BY <2>1, KeepEntries
  <2> QED BY <1>1, <2>2
<1> QED BY <1>2, <1>3, <1>4 DEF MakeRoom

(* insert_wire stores the new entry and changes no other one. *)
LEMMA InsertEntries ==
  ASSUME NEW c, NEW k \in Key, NEW w, NEW s, NEW n,
         NEW d \in insert_wire(c, k, w, s, n), NEW j \in Keys(d.entries)
  PROVE  \/ j = k /\ Entry(d.entries, j) = NewEntry(w, s, n)
         \/ j \in Keys(c.entries) /\ Entry(d.entries, j) = Entry(c.entries, j)
<1>1. PICK m \in MakeRoom(c, n) : d = Put(m, k, NewEntry(w, s, n))
  BY DEF insert_wire
<1>2. j \in Key /\ j = <<j[1], j[2]>> /\ k = <<k[1], k[2]>>
  BY DEF Keys, Key
<1>3. CASE j = k
  BY <1>1, <1>3 DEF Put, Entry
<1>4. CASE j # k
  <2>1. j[1] # k[1] \/ j[2] # k[2]
    BY <1>2, <1>4, Zenon
  <2>2. j \in Keys(m.entries) /\ Entry(d.entries, j) = Entry(m.entries, j)
    BY <1>1, <1>2, <2>1 DEF Put, Entry, Keys
  <2> QED BY <2>2, MakeRoomEntries
<1> QED BY <1>3, <1>4

(* remove only drops entries. *)
LEMMA RemoveEntries ==
  ASSUME NEW c, NEW d, NEW k \in Keys(remove(c, d).entries)
  PROVE  k \in Keys(c.entries) /\ Entry(remove(c, d).entries, k) = Entry(c.entries, k)
<1>1. CASE d \in DOMAIN c.entries
  <2>1. remove(c, d).entries = Keep(c.entries, {j \in Keys(c.entries) : j[1] # d})
    BY <1>1 DEF remove
  <2> QED BY <2>1, KeepEntries
<1>2. CASE d \notin DOMAIN c.entries
  BY <1>2 DEF remove
<1> QED BY <1>1, <1>2

LEMMA ClampType ==
  ASSUME NEW n \in Nat \cup {NoTtl}
  PROVE  Clamp(n) \in Nat /\ Clamp(n) <= MaxTtl
BY CacheConstants DEF Clamp

(* What a lookup finds is a packet; for a forwarded name it is young. *)
LEMMA LookupOK ==
  ASSUME TaskOK, CacheOK, NEW k, NEW c \in Lookup(cache.entries, k, now)
  PROVE  /\ [ttl |-> c.ttl, data |-> c.data] \in Packet
         /\ Forwards(k) => now - c.data.fetched < Bound
<1> DEFINE en == Entry(cache.entries, k)
<1>1. /\ k \in Keys(cache.entries)
      /\ now - en.inserted_at < TtlTicks(en) + StaleWindow * TicksPerSec
      /\ c = [ttl |-> PatchedTtl(en, now), freshness |-> FreshnessOf(en, now),
              status |-> en.status, data |-> en.data]
  BY DEF Lookup, Found
<1>2. EntryOK(k, en)
  BY <1>1 DEF CacheOK
<1> HIDE DEF en
<1>3. now \in Nat /\ en.inserted_at \in Nat /\ en.ttl \in Nat /\ TtlTicks(en) \in Nat
  BY <1>2, CacheConstants, ResolverConstants DEF EntryOK, TaskOK, TtlTicks
<1>4. PatchedTtl(en, now) \in Nat
  <2>1. Secs(en, now) \in Int
    BY <1>3, CacheConstants DEF Secs
  <2> QED BY <2>1 DEF PatchedTtl
<1>5. TtlTicks(en) + StaleWindow * TicksPerSec <= Bound
  <2>1. en.ttl * TicksPerSec <= MaxTtl * TicksPerSec
    BY <1>2, CacheConstants DEF EntryOK
  <2>2. Bound = MaxTtl * TicksPerSec + StaleWindow * TicksPerSec
    BY CacheConstants DEF Bound
  <2> QED BY <2>1, <2>2, CacheConstants, <1>3 DEF TtlTicks
<1>6. Bound \in Nat
  BY CacheConstants DEF Bound
<1>7. TtlTicks(en) + StaleWindow * TicksPerSec \in Nat
  BY <1>3, CacheConstants
<1>8. now - en.inserted_at < Bound
  BY <1>1, <1>3, <1>5, <1>6, <1>7
<1> QED BY <1>1, <1>2, <1>4, <1>8 DEF EntryOK, Packet

(* An insertion keeps the cache as it should be. *)
LEMMA InsertOK ==
  ASSUME TaskOK, CacheOK, NEW k \in Key, NEW p \in Packet, NEW s, Insert(k, p, s),
         Forwards(k) => p.data.fetched = now, UNCHANGED <<conf, now>>
  PROVE  CacheOK'
<1> SUFFICES ASSUME NEW j \in Keys(cache'.entries)
             PROVE  EntryOK(j, Entry(cache.entries, j))'
  BY DEF CacheOK
<1>0. Forwards(j)' = Forwards(j)
  BY DEF Forwards, Route
<1>1. CASE j = k /\ Entry(cache'.entries, j) = NewEntry(p, s, now)
  <2>1. p.ttl \in Nat \cup {NoTtl} /\ p.data \in Data
    BY DEF Packet
  <2>2. now \in Nat
    BY ResolverConstants DEF TaskOK
  <2> DEFINE en == NewEntry(p, s, now)
  <2>3. en.data = p.data /\ en.inserted_at = now /\ en.ttl = Clamp(p.ttl)
    BY DEF NewEntry
  <2>4. Clamp(p.ttl) \in Nat /\ Clamp(p.ttl) <= MaxTtl
    BY <2>1, ClampType
  <2> HIDE DEF en
  <2>5. Entry(cache'.entries, j) = en /\ now' = now
    BY <1>1 DEF en
  <2>6. EntryOK(j, Entry(cache.entries, j))' <=>
          /\ en.data \in Data /\ en.inserted_at \in Nat /\ en.inserted_at <= now
          /\ en.ttl \in Nat /\ en.ttl <= MaxTtl
          /\ Forwards(j) => en.data.fetched = en.inserted_at
    BY <1>0, <2>5 DEF EntryOK
  <2> QED BY <1>1, <2>1, <2>2, <2>3, <2>4, <2>6
<1>2. CASE j \in Keys(cache.entries) /\ Entry(cache'.entries, j) = Entry(cache.entries, j)
  BY <1>0, <1>2 DEF CacheOK, EntryOK
<1> QED BY <1>1, <1>2, InsertEntries DEF Insert

(* Dropping entries keeps it too. *)
LEMMA DropOK ==
  ASSUME CacheOK, UNCHANGED <<conf, now>>,
         \A j \in Keys(cache'.entries) :
            j \in Keys(cache.entries) /\ Entry(cache'.entries, j) = Entry(cache.entries, j)
  PROVE  CacheOK'
<1> SUFFICES ASSUME NEW j \in Keys(cache'.entries)
             PROVE  EntryOK(j, Entry(cache.entries, j))'
  BY DEF CacheOK
<1>1. Forwards(j)' = Forwards(j)
  BY DEF Forwards, Route
<1>2. EntryOK(j, Entry(cache.entries, j))
  BY DEF CacheOK
<1> QED BY <1>1, <1>2 DEF EntryOK

LEMMA FlushOK ==
  ASSUME CacheOK, UNCHANGED <<conf, now>>,
         \/ cache' = cache
         \/ cache' = EmptyCache
         \/ \E d \in Domains : cache' = remove(cache, d)
  PROVE  CacheOK'
<1>1. CASE cache' = cache
  BY <1>1, DropOK
<1>2. CASE cache' = EmptyCache
  BY <1>2, DropOK DEF EmptyCache, Keys
<1>3. ASSUME NEW d \in Domains, cache' = remove(cache, d)
      PROVE  CacheOK'
  BY <1>3, DropOK, RemoveEntries
<1> QED BY <1>1, <1>2, <1>3

LEMMA UpstreamAnswerOK ==
  ASSUME TaskOK, NEW p \in UpstreamAnswers
  PROVE  p \in Packet /\ p.data.fetched = now
BY ResolverConstants DEF TaskOK, UpstreamAnswers, Packet, Data, Verdicts, DnssecStatus

LEMMA ServFailOK == TaskOK => ServFail \in Packet /\ ServFail.data.fetched = now
BY ResolverConstants DEF TaskOK, ServFail, Packet, Data, DnssecStatus

LEMMA WithADOK ==
  ASSUME NEW p \in Packet, NEW s
  PROVE  WithAD(p, s) \in Packet /\ WithAD(p, s).data.fetched = p.data.fetched
BY DEF WithAD, Packet, Data

-----------------------------------------------------------------------------
LEMMA InitRInv == Init => RInv
<1> SUFFICES ASSUME Init PROVE RInv
  OBVIOUS
<1>1. Flight!IInv
  BY FlightInit DEF Init
<1>2. TaskOK
  BY ResolverConstants DEF Init, TaskOK, Stages
<1>3. CacheOK
  BY DEF Init, CacheOK, EmptyCache, Keys
<1>4. \A t \in Tasks : StageAt(t)
  BY DEF Init, StageAt, Fl!Init
<1>5. \A t \in Tasks : HoldAt(t) /\ ReplyAt(t)
  BY DEF Init, HoldAt, ReplyAt
<1>6. \A t \in Tasks : MailAt(t)
  BY DEF Init, Fl!Init, MailAt
<1>7. JobOK
  BY ResolverConstants DEF Init, JobOK, NoJob, RefreshingExact, Jobs
<1> QED BY <1>1, <1>2, <1>3, <1>4, <1>5, <1>6, <1>7 DEF RInv, QueryOK, QueryAt

-----------------------------------------------------------------------------
(* Every step of the resolver is a step of Inflight or leaves it alone. *)
LEMMA FlightStep == RInv /\ Next => Flight!IInv'
<1> SUFFICES ASSUME RInv, Next PROVE [Flight!Next]_flightVars
  BY FlightNext DEF RInv
<1> USE DEF Flight!Next, Flight!Results
<1>1. ASSUME NEW t \in Tasks, Coalesce(t) PROVE Flight!Next
  <2>1. asked[t].key \in Key
    BY DEF RInv, QueryOK, TaskOK
  <2>2. Flight!Lead(t, asked[t].key) \/ Flight!Follow(t, asked[t].key)
    BY <1>1 DEF Coalesce, Fl!Lead, Fl!Follow, Flight!Lead, Flight!Follow
  <2> QED BY <2>1, <2>2
<1>2. ASSUME NEW t \in Tasks, LeaderDone(t) PROVE Flight!Next
  <2>1. PICK p \in hold[t] : Fl!Resolve(t, p)
    BY <1>2 DEF LeaderDone
  <2>2. p \in Packet
    BY <1>2, <2>1 DEF LeaderDone, RInv, QueryOK, QueryAt, HoldAt
  <2>3. Flight!Resolve(t, p)
    BY <2>1 DEF Fl!Resolve, Fl!DropGuard, Flight!Resolve, Flight!DropGuard
  <2> QED BY <2>2, <2>3
<1>3. ASSUME NEW t \in Tasks, LeaderFails(t) PROVE Flight!Next
  <2>1. Flight!Resolve(t, Failed)
    BY <1>3 DEF LeaderFails, Fl!Resolve, Fl!DropGuard, Flight!Resolve, Flight!DropGuard
  <2> QED BY <2>1
<1>4. ASSUME NEW t \in Tasks, LeaderSend(t) PROVE Flight!Next
  <2>1. Flight!Send(t)
    BY <1>4 DEF LeaderSend, Fl!Send, Flight!Send, Fl!Broadcast, Flight!Broadcast
  <2> QED BY <2>1
<1>5. ASSUME NEW t \in Tasks, FollowerReceive(t) PROVE Flight!Next
  <2>1. Flight!Receive(t)
    BY <1>5 DEF FollowerReceive, Fl!Receive, Flight!Receive
  <2> QED BY <2>1
<1>6. ASSUME NEW t \in Tasks, Cancel(t) PROVE [Flight!Next]_flightVars
  <2>1. Flight!CancelLeader(t) \/ Flight!CancelFollower(t) \/ UNCHANGED flightVars
    BY <1>6 DEF Cancel, Fl!CancelLeader, Fl!DropGuard, Flight!CancelLeader, Flight!DropGuard,
                Fl!CancelFollower, Flight!CancelFollower
  <2> QED BY <2>1
<1>7. ASSUME NEW t \in Tasks, CancelledSender(t) PROVE Flight!Next
  <2>1. Flight!DropSender(t)
    BY <1>7 DEF CancelledSender, Fl!DropSender, Flight!DropSender, Fl!Broadcast, Flight!Broadcast
  <2> QED BY <2>1
<1>8. ASSUME NEW t \in Tasks, NextQuery(t) PROVE [Flight!Next]_flightVars
  <2>1. Flight!Reuse(t) \/ UNCHANGED flightVars
    BY <1>8 DEF NextQuery, Fl!Reuse, Flight!Reuse
  <2> QED BY <2>1
<1>9. ASSUME NEW t \in Tasks,
             \/ \E k \in Key : Query(t, k)
             \/ ServeCached(t) \/ LeaderStart(t) \/ Validate(t)
             \/ \E packet \in UpstreamAnswers : LeaderAnswer(t, packet)
      PROVE  UNCHANGED flightVars
  BY <1>9 DEF Query, ServeCached, LeaderStart, Validate, LeaderAnswer
<1>10. ASSUME \/ \E j \in Jobs : RefreshStart(j) \/ RefreshFails(j) \/ RefreshStore(j)
              \/ \E k \in Key : RefreshEnd(k)
              \/ \E d \in conf.warm : WarmStart(d)
              \/ WarmEnd
              \/ \E j \in Jobs, packet \in UpstreamAnswers : RefreshAnswer(j, packet)
              \/ FlushCache
              \/ \E d \in Domains : FlushCacheDomain(d)
              \/ Tick
       PROVE  UNCHANGED flightVars
  BY <1>10 DEF RefreshStart, RefreshFails, RefreshStore, RefreshEnd, WarmStart, WarmEnd,
               RefreshAnswer, FlushCache, FlushCacheDomain, Tick
<1> HIDE DEF Flight!Next
<1> QED BY <1>1, <1>2, <1>3, <1>4, <1>5, <1>6, <1>7, <1>8, <1>9, <1>10 DEF Next

-----------------------------------------------------------------------------
(* What a step that leaves a part of the state alone preserves. *)
LEMMA KeepCache ==
  ASSUME CacheOK, UNCHANGED <<conf, cache, now>>
  PROVE  CacheOK'
BY FlushOK

LEMMA KeepJobs ==
  ASSUME JobOK, UNCHANGED <<conf, jobVars>>
  PROVE  JobOK'
BY DEF JobOK, jobVars, RefreshingExact, Forwards, Route

(* The route of a name is fixed. *)
LEMMA SameRoute ==
  ASSUME UNCHANGED conf
  PROVE  \A k : Route(k)' = Route(k) /\ (Forwards(k)' <=> Forwards(k))
BY DEF Forwards, Route

(* A query that a step does not touch. *)
LEMMA KeepQuery ==
  ASSUME NEW t \in Tasks, QueryAt(t), UNCHANGED <<conf, now>>,
         asked'[t] = asked[t], stage'[t] = stage[t], hold'[t] = hold[t], reply'[t] = reply[t],
         pc'[t] = pc[t], key'[t] = key[t], result'[t] = result[t]
  PROVE  QueryAt(t)'
<1>0. Forwards(asked[t].key)' <=> Forwards(asked[t].key)
  BY DEF Forwards, Route
<1>1. StageAt(t)'
  BY <1>0 DEF QueryAt, StageAt
<1>2. HoldAt(t)'
  BY <1>0 DEF QueryAt, HoldAt, Bound
<1>3. ReplyAt(t)'
  BY <1>0 DEF QueryAt, ReplyAt, AnswerOK, Bound
<1> QED BY <1>1, <1>2, <1>3 DEF QueryAt

LEMMA KeepMail ==
  ASSUME NEW t \in Tasks, MailAt(t), UNCHANGED conf,
         asked'[t] = asked[t], mailbox'[t] = mailbox[t]
  PROVE  MailAt(t)'
BY DEF MailAt, Forwards, Route

LEMMA KeepQueries ==
  ASSUME QueryOK, UNCHANGED <<conf, now, flightVars, taskVars>>
  PROVE  QueryOK'
<1>1. TaskOK'
  BY DEF QueryOK, TaskOK, taskVars
<1>2. \A t \in Tasks : QueryAt(t)' /\ MailAt(t)'
  BY KeepQuery, KeepMail DEF QueryOK, flightVars, taskVars
<1> QED BY <1>1, <1>2 DEF QueryOK

(* The flights' part of the invariant, as far as the queries need it. *)
LEMMA FlightFacts ==
  ASSUME Flight!IInv
  PROVE  /\ pc \in [Tasks -> {"idle", "resolving", "sending", "dropping", "waiting", "done"}]
         /\ key \in [Tasks -> Key] /\ leader \in [Tasks -> Tasks \cup {NoTask}]
         /\ mailbox \in [Tasks -> SUBSET (Packet \cup {Failed})]
         /\ result \in [Tasks -> Packet \cup {Failed}]
         /\ \A t \in Tasks : pc[t] # "waiting" => mailbox[t] = {} /\ leader[t] = NoTask
         /\ \A t \in Tasks : pc[t] \notin {"sending", "done"} => result[t] = Failed
         /\ \A t \in Tasks : pc[t] = "waiting" /\ mailbox[t] = {} =>
              leader[t] \in Tasks /\ key[leader[t]] = key[t]
BY DEF Flight!IInv, Flight!TypeOK, Flight!PC, Flight!Results, Flight!Mailboxes,
       Flight!NoOrphanFollower

(* A step of one query, of whose other queries only the mailboxes change. *)
LEMMA OneQuery ==
  ASSUME QueryOK, UNCHANGED <<conf, now>>, TaskOK', NEW t \in Tasks,
         \A s \in Tasks \ {t} :
           /\ asked'[s] = asked[s] /\ stage'[s] = stage[s] /\ hold'[s] = hold[s]
           /\ reply'[s] = reply[s]
           /\ pc'[s] = pc[s] /\ key'[s] = key[s] /\ result'[s] = result[s],
         QueryAt(t)', \A s \in Tasks : MailAt(s)'
  PROVE  QueryOK'
<1>1. ASSUME NEW s \in Tasks \ {t} PROVE QueryAt(s)'
  <2>1. QueryAt(s)
    BY DEF QueryOK
  <2> QED BY <2>1, KeepQuery
<1> QED BY <1>1 DEF QueryOK

LEMMA QueryStep ==
  ASSUME RInv, NEW t \in Tasks, NEW k \in Key, Query(t, k)
  PROVE  QueryOK'
<1> USE DEF Query, flightVars
<1>0. QueryAt(t) /\ TaskOK /\ CacheOK /\ QueryOK /\ \A s \in Tasks : MailAt(s)
  BY DEF RInv, QueryOK
<1>1. TaskOK'
  BY <1>0 DEF TaskOK, Stages
<1>2. /\ asked'[t] = [key |-> k, at |-> now] /\ hold'[t] = Lookup(cache.entries, k, now)
      /\ stage'[t] \in {"hit", "miss"}
      /\ stage[t] = "idle" /\ pc[t] = "idle" /\ reply[t] = {} /\ now \in Nat
  BY <1>0, ResolverConstants DEF TaskOK, QueryAt, StageAt
<1>3. StageAt(t)'
  BY <1>2 DEF StageAt
<1>4. HoldAt(t)'
  <2>1. \A c \in Lookup(cache.entries, k, now) :
           /\ [ttl |-> c.ttl, data |-> c.data] \in Packet
           /\ Forwards(k) => now - c.data.fetched < Bound
    BY <1>0, LookupOK
  <2> QED BY <1>2, <2>1, SameRoute DEF HoldAt, Bound
<1>5. ReplyAt(t)'
  BY <1>2 DEF ReplyAt
<1>6. ASSUME NEW s \in Tasks PROVE MailAt(s)'
  <2>1. CASE s = t
    <3>1. mailbox'[t] = {}
      BY <1>2, FlightFacts DEF RInv
    <3> QED BY <2>1, <3>1 DEF MailAt
  <2>2. CASE s # t
    BY <1>0, <2>2, KeepMail DEF TaskOK
  <2> QED BY <2>1, <2>2
<1> QED BY <1>0, <1>1, <1>3, <1>4, <1>5, <1>6, OneQuery DEF QueryAt, TaskOK

(* What a reply leaves. *)
LEMMA ReplyFacts ==
  ASSUME TaskOK, NEW t \in Tasks, NEW p, NEW path, Reply(t, p, path), UNCHANGED <<conf, now>>
  PROVE  /\ TaskOK' /\ asked' = asked
         /\ stage'[t] = "done" /\ hold'[t] = {}
         /\ reply'[t] = {[packet |-> p, path |-> path, at |-> now]}
         /\ \A s \in Tasks \ {t} :
              stage'[s] = stage[s] /\ hold'[s] = hold[s] /\ reply'[s] = reply[s]
BY DEF TaskOK, Reply, Stages

(* A query that has replied is in order when its reply is. *)
LEMMA RepliedQuery ==
  ASSUME QueryOK, NEW t \in Tasks, NEW p, NEW path, Reply(t, p, path), UNCHANGED <<conf, now>>,
         StageAt(t), pc'[t] \in {"idle", "done", "dropping"}, pc[t] # "idle" \/ pc'[t] = "idle",
         key'[t] = key[t], AnswerOK(t, [packet |-> p, path |-> path, at |-> now])
  PROVE  QueryAt(t)'
<1>1. /\ asked' = asked /\ stage'[t] = "done" /\ hold'[t] = {}
      /\ reply'[t] = {[packet |-> p, path |-> path, at |-> now]}
  BY ReplyFacts DEF QueryOK
<1>2. StageAt(t)'
  BY <1>1 DEF StageAt
<1>3. HoldAt(t)'
  BY <1>1 DEF HoldAt
<1>4. AnswerOK(t, [packet |-> p, path |-> path, at |-> now])'
  BY <1>1, SameRoute DEF AnswerOK, Bound
<1>5. ReplyAt(t)'
  BY <1>1, <1>4 DEF ReplyAt
<1> QED BY <1>2, <1>3, <1>5 DEF QueryAt

LEMMA KeepMails ==
  ASSUME QueryOK, UNCHANGED <<conf, asked, mailbox>>
  PROVE  \A s \in Tasks : MailAt(s)'
BY KeepMail DEF QueryOK

LEMMA ServeCachedStep ==
  ASSUME RInv, NEW t \in Tasks, ServeCached(t)
  PROVE  QueryOK' /\ JobOK'
<1>0. QueryAt(t) /\ TaskOK /\ QueryOK /\ JobOK /\ stage[t] = "hit" /\ now \in Nat
  BY ResolverConstants DEF RInv, QueryOK, ServeCached, TaskOK
<1>p. PICK c \in hold[t] :
        /\ Reply(t, WithAD([ttl |-> c.ttl, data |-> c.data], c.status), "Cached")
        /\ IF needs_refresh(c.freshness) /\ asked[t].key \notin refreshing
           THEN /\ refreshing' = refreshing \cup {asked[t].key}
                /\ job' = [job EXCEPT ![asked[t].key] =
                             [at |-> "start", key |-> asked[t].key, packet |-> {}, since |-> now]]
           ELSE UNCHANGED <<refreshing, job>>
  BY DEF ServeCached
<1> DEFINE p == WithAD([ttl |-> c.ttl, data |-> c.data], c.status)
<1>u. UNCHANGED <<conf, now, inflight, pc, key, leader, mailbox, result, unwarmed>>
  BY DEF ServeCached, flightVars
<1>1. /\ p \in Packet
      /\ Forwards(asked[t].key) => now - p.data.fetched < Bound
  <2>1. /\ [ttl |-> c.ttl, data |-> c.data] \in Packet
        /\ Forwards(asked[t].key) => now - c.data.fetched < Bound
    BY <1>0, <1>p DEF QueryAt, HoldAt
  <2>2. p \in Packet /\ p.data.fetched = c.data.fetched
    BY <2>1, WithADOK
  <2> QED BY <2>1, <2>2
<1> HIDE DEF p
<1>2. AnswerOK(t, [packet |-> p, path |-> "Cached", at |-> now])
  BY <1>0, <1>1 DEF AnswerOK
<1>3. Reply(t, p, "Cached")
  BY <1>p DEF p
<1>4. QueryAt(t)'
  BY <1>0, <1>2, <1>3, <1>u, RepliedQuery DEF QueryAt, StageAt
<1>5. QueryOK'
  BY <1>0, <1>3, <1>4, <1>u, ReplyFacts, KeepMails, OneQuery
<1>6. JobOK'
  <2>1. asked[t].key \in Key /\ now \in 0..MaxTime /\ asked[t].key \in Jobs /\ asked[t].key # WarmLoop
    BY <1>0, ResolverConstants DEF TaskOK, Jobs
  <2>2. CASE UNCHANGED <<refreshing, job>>
    BY <1>0, <1>u, <2>2, KeepJobs DEF jobVars
  <2>3. CASE /\ refreshing' = refreshing \cup {asked[t].key}
             /\ job' = [job EXCEPT ![asked[t].key] =
                          [at |-> "start", key |-> asked[t].key, packet |-> {}, since |-> now]]
    <3> DEFINE J == [at |-> "start", key |-> asked[t].key, packet |-> {}, since |-> now]
    <3>1. J \in [at : {"none", "start", "asking", "storing", "ending"},
                 key : Key \cup {<<>>}, packet : SUBSET Packet, since : 0..MaxTime]
          /\ J.at = "start" /\ J.key = asked[t].key
      BY <2>1
    <3> HIDE DEF J
    <3>2. job' = [job EXCEPT ![asked[t].key] = J]
      BY <2>3 DEF J
    <3> QED BY <1>0, <1>u, <2>1, <2>3, <3>1, <3>2, SameRoute DEF JobOK, RefreshingExact, Jobs
  <2> QED BY <1>p, <2>2, <2>3
<1> QED BY <1>5, <1>6

LEMMA CoalesceStep ==
  ASSUME RInv, NEW t \in Tasks, Coalesce(t)
  PROVE  QueryOK'
<1>0. QueryAt(t) /\ TaskOK /\ QueryOK /\ stage[t] = "miss"
  BY DEF RInv, QueryOK, Coalesce
<1>u. UNCHANGED <<conf, cache, now, asked, hold, reply, mailbox, result>>
  BY DEF Coalesce, Fl!Lead, Fl!Follow
<1>1. TaskOK'
  BY <1>0, <1>u DEF Coalesce, TaskOK, Stages
<1>2. /\ stage'[t] = "coalesced" /\ pc'[t] \in {"resolving", "waiting"}
      /\ key'[t] = asked[t].key
      /\ \A s \in Tasks \ {t} : stage'[s] = stage[s] /\ pc'[s] = pc[s] /\ key'[s] = key[s]
  BY <1>0, FlightFacts DEF Coalesce, Fl!Lead, Fl!Follow, TaskOK, RInv
<1>3. StageAt(t)'
  BY <1>0, <1>2, <1>u DEF QueryAt, StageAt
<1>4. HoldAt(t)'
  BY <1>2 DEF HoldAt
<1>5. ReplyAt(t)'
  BY <1>3, <1>2 DEF StageAt, ReplyAt
<1> QED BY <1>0, <1>1, <1>2, <1>3, <1>4, <1>5, <1>u, KeepMails, OneQuery DEF QueryAt

LEMMA LeaderStartStep ==
  ASSUME RInv, NEW t \in Tasks, LeaderStart(t)
  PROVE  QueryOK'
<1>0. QueryAt(t) /\ TaskOK /\ QueryOK /\ CacheOK /\ stage[t] = "coalesced" /\ pc[t] = "resolving"
  BY DEF RInv, QueryOK, LeaderStart
<1>u. UNCHANGED <<conf, cache, now, asked, reply, pc, key, mailbox, result>>
  BY DEF LeaderStart, flightVars
<1> DEFINE found == IF Route(asked[t].key) = "Recursive" THEN Lookup(cache.entries, asked[t].key, now) ELSE {}
           read  == {[ttl |-> c.ttl, data |-> c.data] : c \in found}
<1>p. /\ hold' = [hold EXCEPT ![t] = read]
      /\ stage' = [stage EXCEPT ![t] = IF found = {} THEN "asking" ELSE "cached"]
  BY DEF LeaderStart
<1>r. /\ read \subseteq Packet /\ (found = {} => read = {})
      /\ Forwards(asked[t].key) => found = {}
  BY <1>0, LookupOK DEF Forwards
<1> HIDE DEF found, read
<1>1. TaskOK'
  BY <1>0, <1>p, <1>u DEF TaskOK, Stages
<1>2. /\ hold'[t] = read /\ stage'[t] = IF found = {} THEN "asking" ELSE "cached"
      /\ \A s \in Tasks \ {t} : stage'[s] = stage[s] /\ hold'[s] = hold[s]
  BY <1>0, <1>p DEF TaskOK
<1>3. StageAt(t)'
  BY <1>0, <1>2, <1>u DEF QueryAt, StageAt
<1>4. HoldAt(t)'
  BY <1>0, <1>2, <1>r, <1>u, SameRoute DEF HoldAt
<1>5. ReplyAt(t)'
  BY <1>2, <1>3 DEF StageAt, ReplyAt
<1> QED BY <1>0, <1>1, <1>2, <1>3, <1>4, <1>5, <1>u, KeepMails, OneQuery DEF QueryAt

LEMMA LeaderAnswerStep ==
  ASSUME RInv, NEW t \in Tasks, NEW p \in UpstreamAnswers, LeaderAnswer(t, p)
  PROVE  QueryOK' /\ CacheOK'
<1>0. QueryAt(t) /\ TaskOK /\ QueryOK /\ CacheOK /\ stage[t] = "asking" /\ pc[t] = "resolving"
  BY DEF RInv, QueryOK, LeaderAnswer, QueryAt, StageAt
<1>u. UNCHANGED <<conf, now, asked, reply, pc, key, mailbox, result>>
  BY DEF LeaderAnswer, flightVars
<1>p. p \in Packet /\ p.data.fetched = now
  BY <1>0, UpstreamAnswerOK
<1>1. TaskOK'
  BY <1>0, <1>u DEF LeaderAnswer, TaskOK, Stages
<1>2. /\ hold'[t] = {p} /\ stage'[t] = "cached"
      /\ \A s \in Tasks \ {t} : stage'[s] = stage[s] /\ hold'[s] = hold[s]
  BY <1>0 DEF LeaderAnswer, TaskOK
<1>3. StageAt(t)'
  BY <1>0, <1>2, <1>u DEF QueryAt, StageAt
<1>4. HoldAt(t)'
  BY <1>0, <1>2, <1>p, <1>u DEF HoldAt
<1>5. ReplyAt(t)'
  BY <1>2, <1>3 DEF StageAt, ReplyAt
<1>6. QueryOK'
  BY <1>0, <1>1, <1>2, <1>3, <1>4, <1>5, <1>u, KeepMails, OneQuery DEF QueryAt
<1>7. CacheOK'
  <2>1. asked[t].key \in Key
    BY <1>0 DEF TaskOK
  <2> QED BY <1>0, <1>p, <1>u, <2>1, InsertOK, KeepCache DEF LeaderAnswer, StoreAnswer
<1> QED BY <1>6, <1>7

LEMMA LeaderDoneStep ==
  ASSUME RInv, NEW t \in Tasks, LeaderDone(t)
  PROVE  QueryOK'
<1>0. QueryAt(t) /\ TaskOK /\ QueryOK /\ stage[t] = "cached" /\ pc[t] = "resolving"
  BY DEF RInv, QueryOK, LeaderDone
<1>u. UNCHANGED <<conf, now, asked, stage, hold, reply, key, mailbox>>
  BY DEF LeaderDone, taskVars, Fl!Resolve
<1>1. TaskOK'
  BY <1>0, <1>u DEF TaskOK
<1>2. /\ result'[t] \in hold[t] /\ pc'[t] = "sending"
      /\ \A s \in Tasks \ {t} : pc'[s] = pc[s] /\ result'[s] = result[s]
  BY FlightFacts DEF LeaderDone, Fl!Resolve, RInv
<1>3. StageAt(t)'
  BY <1>0, <1>2, <1>u, SameRoute DEF QueryAt, StageAt
<1>4. HoldAt(t)'
  BY <1>0, <1>2, <1>u, SameRoute DEF QueryAt, HoldAt
<1>5. ReplyAt(t)'
  BY <1>0, <1>u, <1>3 DEF StageAt, ReplyAt
<1> QED BY <1>0, <1>1, <1>2, <1>3, <1>4, <1>5, <1>u, KeepMails, OneQuery DEF QueryAt

LEMMA LeaderFailsStep ==
  ASSUME RInv, NEW t \in Tasks, LeaderFails(t)
  PROVE  QueryOK'
<1>0. QueryAt(t) /\ TaskOK /\ QueryOK /\ stage[t] = "asking" /\ pc[t] = "resolving" /\ hold[t] = {}
  BY DEF RInv, QueryOK, LeaderFails, QueryAt, StageAt, HoldAt
<1>u. UNCHANGED <<conf, now, asked, hold, reply, key, mailbox>>
  BY DEF LeaderFails, Fl!Resolve
<1>1. TaskOK'
  BY <1>0, <1>u DEF LeaderFails, TaskOK, Stages
<1>2. /\ result'[t] = Failed /\ pc'[t] = "sending" /\ stage'[t] = "cached"
      /\ \A s \in Tasks \ {t} : pc'[s] = pc[s] /\ result'[s] = result[s] /\ stage'[s] = stage[s]
  BY <1>0, FlightFacts DEF LeaderFails, Fl!Resolve, RInv, TaskOK
<1>3. StageAt(t)'
  BY <1>0, <1>2, <1>u DEF QueryAt, StageAt
<1>4. HoldAt(t)'
  BY <1>0, <1>2, <1>u DEF HoldAt
<1>5. ReplyAt(t)'
  BY <1>2, <1>3 DEF StageAt, ReplyAt
<1> QED BY <1>0, <1>1, <1>2, <1>3, <1>4, <1>5, <1>u, KeepMails, OneQuery DEF QueryAt

(* A broadcast reaches followers of the same key, who asked no later than now. *)
LEMMA BroadcastMail ==
  ASSUME RInv, NEW t \in Tasks, NEW m, Fl!Broadcast(t, m), UNCHANGED <<conf, asked>>,
         pc[t] # "idle",
         m # Failed /\ Forwards(asked[t].key) => m.data.fetched = now
  PROVE  \A s \in Tasks : MailAt(s)'
<1> SUFFICES ASSUME NEW s \in Tasks PROVE MailAt(s)'
  OBVIOUS
<1>1. QueryAt(s) /\ QueryAt(t) /\ MailAt(s) /\ now \in Nat
  BY ResolverConstants DEF RInv, QueryOK, TaskOK
<1>2. CASE mailbox'[s] = mailbox[s]
  BY <1>1, <1>2, KeepMail
<1>3. CASE pc[s] = "waiting" /\ leader[s] = t /\ mailbox[s] = {} /\ mailbox'[s] = {m}
  <2>1. asked[s].key = asked[t].key
    BY <1>1, <1>3, FlightFacts DEF RInv, QueryAt, StageAt
  <2>2. asked[s].at <= now
    BY <1>1 DEF QueryAt, StageAt
  <2> QED BY <1>1, <1>3, <2>1, <2>2, SameRoute DEF MailAt
<1> QED BY <1>2, <1>3 DEF Fl!Broadcast

LEMMA LeaderSendStep ==
  ASSUME RInv, NEW t \in Tasks, LeaderSend(t)
  PROVE  QueryOK'
<1>a. QueryAt(t) /\ TaskOK /\ QueryOK /\ pc[t] = "sending"
  BY DEF RInv, QueryOK, LeaderSend, Fl!Send
<1>b. stage[t] \in Stages /\ now \in Nat /\ asked[t].at \in Nat
  BY <1>a, ResolverConstants DEF TaskOK
<1>0. /\ QueryAt(t) /\ TaskOK /\ QueryOK /\ pc[t] = "sending" /\ stage[t] = "cached"
      /\ now \in Nat /\ asked[t].at \in Nat /\ asked[t].at <= now
  BY <1>a, <1>b DEF QueryAt, StageAt, Stages
<1>u. UNCHANGED <<conf, now, key, result>>
  BY DEF LeaderSend, Fl!Send
<1>1. /\ pc'[t] = "done" /\ \A s \in Tasks \ {t} : pc'[s] = pc[s]
  BY FlightFacts DEF LeaderSend, Fl!Send, RInv
<1>2. /\ result[t] \in Packet \cup {Failed}
      /\ result[t] # Failed /\ Forwards(asked[t].key) => result[t].data.fetched = now
  BY <1>0, FlightFacts DEF RInv, QueryAt, HoldAt
<1>3. asked' = asked => \A s \in Tasks : MailAt(s)'
  BY <1>0, <1>u, <1>2, BroadcastMail DEF LeaderSend, Fl!Send
<1>4. ASSUME NEW p \in Packet, NEW path, path # "Cached", Reply(t, p, path),
             Forwards(asked[t].key) => p.data.fetched = now
      PROVE  QueryOK'
  <2>1. AnswerOK(t, [packet |-> p, path |-> path, at |-> now])
    BY <1>0, <1>4 DEF AnswerOK
  <2>2. QueryAt(t)'
    BY <1>0, <1>1, <1>4, <1>u, <2>1, RepliedQuery DEF QueryAt
  <2> QED BY <1>0, <1>1, <1>3, <1>4, <1>u, <2>2, ReplyFacts, OneQuery
<1>5. CASE result[t] = Failed
  <2>1. Reply(t, ServFail, "UpstreamError")
    BY <1>5 DEF LeaderSend
  <2> QED BY <1>0, <1>4, <2>1, ServFailOK
<1>6. CASE result[t] # Failed /\ conf.dnssec_enabled /\ Route(asked[t].key) = "Recursive"
  <2>1. UNCHANGED <<asked, hold, reply>> /\ stage' = [stage EXCEPT ![t] = "validating"]
    BY <1>6 DEF LeaderSend
  <2>2. TaskOK' /\ stage'[t] = "validating" /\ \A s \in Tasks \ {t} : stage'[s] = stage[s]
    BY <1>0, <1>u, <2>1 DEF TaskOK, Stages
  <2>3. StageAt(t)'
    BY <1>0, <1>1, <1>6, <1>u, <2>1, <2>2, SameRoute DEF QueryAt, StageAt, Forwards
  <2>4. HoldAt(t)'
    BY <1>0, <1>u, <2>1, <2>2 DEF QueryAt, HoldAt
  <2>5. ReplyAt(t)'
    BY <2>2, <2>3 DEF StageAt, ReplyAt
  <2> QED BY <1>0, <1>1, <1>3, <1>u, <2>1, <2>2, <2>3, <2>4, <2>5, OneQuery DEF QueryAt
<1>7. CASE result[t] # Failed /\ ~(conf.dnssec_enabled /\ Route(asked[t].key) = "Recursive")
  <2>1. Reply(t, result[t], Route(asked[t].key))
    BY <1>7 DEF LeaderSend
  <2>2. Route(asked[t].key) # "Cached"
    BY <1>0, ResolverConstants DEF TaskOK, Route
  <2>3. result[t] \in Packet
    BY <1>2, <1>7
  <2> QED BY <1>2, <1>4, <1>7, <2>1, <2>2, <2>3
<1> QED BY <1>5, <1>6, <1>7

LEMMA FollowerReceiveStep ==
  ASSUME RInv, NEW t \in Tasks, FollowerReceive(t)
  PROVE  QueryOK'
<1>0. /\ QueryAt(t) /\ MailAt(t) /\ TaskOK /\ QueryOK /\ pc[t] = "waiting"
      /\ now \in Nat /\ asked[t].at \in Nat /\ asked[t].at <= now
  BY ResolverConstants DEF RInv, QueryOK, FollowerReceive, Fl!Receive, QueryAt, StageAt, TaskOK
<1>u. UNCHANGED <<conf, now, key>>
  BY DEF FollowerReceive, Fl!Receive
<1>1. /\ pc'[t] = "done" /\ \A s \in Tasks \ {t} : pc'[s] = pc[s] /\ result'[s] = result[s]
      /\ result'[t] \in mailbox[t] /\ result'[t] \in Packet \cup {Failed}
      /\ \A s \in Tasks : mailbox'[s] = mailbox[s] \/ mailbox'[s] = {}
  BY FlightFacts DEF FollowerReceive, Fl!Receive, RInv
<1>2. asked' = asked => \A s \in Tasks : MailAt(s)'
  <2> SUFFICES ASSUME NEW s \in Tasks, asked' = asked PROVE MailAt(s)'
    OBVIOUS
  <2>1. CASE mailbox'[s] = mailbox[s]
    BY <1>0, <1>u, <2>1, KeepMail DEF QueryOK
  <2>2. CASE mailbox'[s] = {}
    BY <2>2 DEF MailAt
  <2> QED BY <1>1, <2>1, <2>2
<1>4. ASSUME NEW p \in Packet, NEW path, path # "Cached", Reply(t, p, path),
             Forwards(asked[t].key) => p.data.fetched >= asked[t].at
      PROVE  QueryOK'
  <2>1. AnswerOK(t, [packet |-> p, path |-> path, at |-> now])
    BY <1>0, <1>4 DEF AnswerOK
  <2>2. QueryAt(t)'
    BY <1>0, <1>1, <1>4, <1>u, <2>1, RepliedQuery DEF QueryAt
  <2> QED BY <1>0, <1>1, <1>2, <1>4, <1>u, <2>2, ReplyFacts, OneQuery
<1>5. CASE result'[t] = Failed
  <2>1. Reply(t, ServFail, "UpstreamError")
    BY <1>5 DEF FollowerReceive
  <2> QED BY <1>0, <1>4, <2>1, ServFailOK
<1>6. CASE result'[t] # Failed
  <2>1. Reply(t, result'[t], "Coalesced")
    BY <1>6 DEF FollowerReceive
  <2>2. Forwards(asked[t].key) => result'[t].data.fetched >= asked[t].at
    BY <1>0, <1>1, <1>6 DEF MailAt
  <2> QED BY <1>1, <1>4, <1>6, <2>1, <2>2
<1> QED BY <1>5, <1>6

LEMMA ValidateStep ==
  ASSUME RInv, NEW t \in Tasks, Validate(t)
  PROVE  QueryOK' /\ CacheOK'
<1>0. /\ QueryAt(t) /\ TaskOK /\ QueryOK /\ CacheOK /\ pc[t] = "done" /\ ~Forwards(asked[t].key)
      /\ now \in Nat /\ asked[t].key \in Key /\ hold[t] \subseteq Packet
  BY ResolverConstants DEF RInv, QueryOK, Validate, QueryAt, StageAt, HoldAt, TaskOK
<1>u. UNCHANGED <<conf, now, pc, key, mailbox, result>>
  BY DEF Validate, flightVars
<1>1. PICK packet \in hold[t] :
        \E response \in {ServFail, WithAD(packet, packet.data.sig)} :
          /\ Insert(asked[t].key, response, packet.data.sig)
          /\ Reply(t, response, "Recursive")
  BY DEF Validate
<1>2. PICK p \in {ServFail, WithAD(packet, packet.data.sig)} :
          Insert(asked[t].key, p, packet.data.sig) /\ Reply(t, p, "Recursive")
  BY <1>1
<1>3. p \in Packet
  BY <1>0, <1>2, ServFailOK, WithADOK
<1>4. AnswerOK(t, [packet |-> p, path |-> "Recursive", at |-> now])
  BY <1>0, <1>3 DEF AnswerOK
<1>5. QueryAt(t)'
  BY <1>0, <1>2, <1>4, <1>u, RepliedQuery DEF QueryAt
<1>6. QueryOK'
  BY <1>0, <1>2, <1>5, <1>u, ReplyFacts, KeepMails, OneQuery
<1>7. CacheOK'
  BY <1>0, <1>2, <1>3, <1>u, InsertOK
<1> QED BY <1>6, <1>7

LEMMA CancelStep ==
  ASSUME RInv, NEW t \in Tasks, Cancel(t)
  PROVE  QueryOK'
<1>0. QueryAt(t) /\ TaskOK /\ QueryOK
  BY DEF RInv, QueryOK
<1>u. UNCHANGED <<conf, now, asked, reply, key, result>>
  BY DEF Cancel, flightVars, Fl!CancelLeader, Fl!CancelFollower
<1>1. /\ TaskOK' /\ stage'[t] = "done" /\ hold'[t] = {}
      /\ \A s \in Tasks \ {t} : stage'[s] = stage[s] /\ hold'[s] = hold[s]
  BY <1>0, <1>u DEF Cancel, TaskOK, Stages
<1>2. /\ pc'[t] \in {"done", "dropping"} /\ pc[t] # "idle"
      /\ stage[t] \in {"asking", "coalesced", "validating"}
      /\ \A s \in Tasks \ {t} : pc'[s] = pc[s]
      /\ \A s \in Tasks : mailbox'[s] = mailbox[s] \/ mailbox'[s] = {}
  BY <1>0, FlightFacts DEF Cancel, flightVars, Fl!CancelLeader, Fl!CancelFollower, RInv,
                           QueryAt, StageAt
<1>3. StageAt(t)'
  BY <1>0, <1>1, <1>2, <1>u DEF QueryAt, StageAt
<1>4. HoldAt(t)' /\ ReplyAt(t)'
  BY <1>0, <1>1, <1>2, <1>u DEF HoldAt, QueryAt, StageAt, ReplyAt
<1>5. ASSUME NEW s \in Tasks PROVE MailAt(s)'
  <2>1. CASE mailbox'[s] = mailbox[s]
    BY <1>0, <1>u, <2>1, KeepMail DEF QueryOK
  <2>2. CASE mailbox'[s] = {}
    BY <2>2 DEF MailAt
  <2> QED BY <1>2, <2>1, <2>2
<1> QED BY <1>0, <1>1, <1>2, <1>3, <1>4, <1>5, <1>u, OneQuery DEF QueryAt

LEMMA CancelledSenderStep ==
  ASSUME RInv, NEW t \in Tasks, CancelledSender(t)
  PROVE  QueryOK'
<1>0. QueryAt(t) /\ TaskOK /\ QueryOK /\ pc[t] = "dropping"
  BY DEF RInv, QueryOK, CancelledSender, Fl!DropSender
<1>u. UNCHANGED <<conf, now, asked, stage, hold, reply, key, result>>
  BY DEF CancelledSender, Fl!DropSender, taskVars
<1>1. TaskOK' /\ stage[t] = "done"
  <2>1. stage[t] \in Stages
    BY <1>0 DEF TaskOK
  <2> QED BY <1>0, <1>u, <2>1 DEF TaskOK, QueryAt, StageAt, Stages
<1>2. pc'[t] = "done" /\ \A s \in Tasks \ {t} : pc'[s] = pc[s]
  BY FlightFacts DEF CancelledSender, Fl!DropSender, RInv
<1>3. StageAt(t)'
  BY <1>0, <1>1, <1>2, <1>u DEF QueryAt, StageAt
<1>4. HoldAt(t)'
  BY <1>1, <1>u DEF HoldAt
<1>5. ReplyAt(t)'
  BY <1>0, <1>u, SameRoute DEF QueryAt, ReplyAt, AnswerOK, Bound
<1>6. \A s \in Tasks : MailAt(s)'
  BY <1>0, <1>u, BroadcastMail DEF CancelledSender, Fl!DropSender
<1> QED BY <1>0, <1>1, <1>2, <1>3, <1>4, <1>5, <1>6, <1>u, OneQuery DEF QueryAt

LEMMA NextQueryStep ==
  ASSUME RInv, NEW t \in Tasks, NextQuery(t)
  PROVE  QueryOK'
<1>0. QueryAt(t) /\ TaskOK /\ QueryOK
  BY DEF RInv, QueryOK
<1>u. UNCHANGED <<conf, now, asked, hold, key, mailbox>>
  BY DEF NextQuery, flightVars, Fl!Reuse
<1>1. /\ TaskOK' /\ stage'[t] = "idle" /\ reply'[t] = {}
      /\ \A s \in Tasks \ {t} : stage'[s] = stage[s] /\ reply'[s] = reply[s]
  BY <1>0, <1>u DEF NextQuery, TaskOK, Stages
<1>2. pc'[t] = "idle" /\ \A s \in Tasks \ {t} : pc'[s] = pc[s] /\ result'[s] = result[s]
  BY FlightFacts DEF NextQuery, flightVars, Fl!Reuse, RInv
<1>3. StageAt(t)' /\ HoldAt(t)' /\ ReplyAt(t)'
  BY <1>0, <1>1, <1>2, <1>u DEF QueryAt, StageAt, HoldAt, ReplyAt
<1> QED BY <1>0, <1>1, <1>2, <1>3, <1>u, KeepMails, OneQuery DEF QueryAt

-----------------------------------------------------------------------------
(* A step that changes one refresher. *)
LEMMA OneJob ==
  ASSUME JobOK, UNCHANGED conf, NEW j \in Jobs, NEW J, job' = [job EXCEPT ![j] = J],
         J \in [at : {"none", "start", "asking", "storing", "ending"},
                key : Key \cup {<<>>}, packet : SUBSET Packet, since : 0..MaxTime],
         J.at # "none" => J.key \in Key,
         J.at = "storing" => ~Forwards(J.key),
         refreshing' \subseteq Key, unwarmed' \subseteq unwarmed,
         j \in Key => (j \in refreshing' <=> J.at # "none"),
         \A k \in Key \ {j} : k \in refreshing' <=> k \in refreshing
  PROVE  JobOK'
<1>1. job' \in [Jobs -> [at : {"none", "start", "asking", "storing", "ending"},
                         key : Key \cup {<<>>}, packet : SUBSET Packet, since : 0..MaxTime]]
      /\ job'[j] = J /\ \A i \in Jobs \ {j} : job'[i] = job[i]
  BY DEF JobOK
<1>2. (\A i \in Jobs : /\ job[i].at # "none" => job[i].key \in Key
                       /\ job[i].at = "storing" => ~Forwards(job[i].key))'
  BY <1>1, SameRoute DEF JobOK
<1>3. RefreshingExact'
  BY <1>1 DEF JobOK, RefreshingExact, Jobs
<1> QED BY <1>1, <1>2, <1>3 DEF JobOK

LEMMA WarmStartStep ==
  ASSUME RInv, NEW d \in conf.warm, WarmStart(d)
  PROVE  JobOK'
<1> DEFINE J == [at |-> "start", key |-> <<d, WarmTypes[1]>>, packet |-> {}, since |-> now]
<1>1. WarmTypes[1] \in Qtypes /\ d \in Domains
  BY ResolverConstants DEF RInv, QueryOK, TaskOK
<1>2. <<d, WarmTypes[1]>> \in Key /\ now \in 0..MaxTime
  BY <1>1 DEF Key, RInv, QueryOK, TaskOK
<1>3. /\ J \in [at : {"none", "start", "asking", "storing", "ending"},
                key : Key \cup {<<>>}, packet : SUBSET Packet, since : 0..MaxTime]
      /\ J.at = "start" /\ J.key \in Key
  BY <1>2
<1> HIDE DEF J
<1>4. /\ job' = [job EXCEPT ![WarmLoop] = J] /\ unwarmed' \subseteq unwarmed
      /\ UNCHANGED <<conf, refreshing>> /\ WarmLoop \in Jobs /\ WarmLoop \notin Key
      /\ refreshing \subseteq Key /\ JobOK
  BY ResolverConstants DEF WarmStart, J, Jobs, RInv, JobOK
<1> QED BY <1>3, <1>4, OneJob

LEMMA WarmEndStep ==
  ASSUME RInv, WarmEnd
  PROVE  JobOK'
<1> DEFINE k    == job[WarmLoop].key
           next == {i \in DOMAIN WarmTypes : i > 1 /\ WarmTypes[i - 1] = k[2]}
           J    == IF next = {} THEN NoJob
                   ELSE [at |-> "start", key |-> <<k[1], WarmTypes[CHOOSE i \in next : TRUE]>>,
                         packet |-> {}, since |-> now]
<1>1. /\ JobOK /\ UNCHANGED <<conf, refreshing, unwarmed>> /\ WarmLoop \in Jobs
      /\ WarmLoop \notin Key /\ refreshing \subseteq Key /\ job' = [job EXCEPT ![WarmLoop] = J]
      /\ now \in 0..MaxTime /\ k \in Key /\ MaxTime \in Nat
  BY ResolverConstants DEF WarmEnd, Jobs, RInv, JobOK, QueryOK, TaskOK
<1>2. /\ J \in [at : {"none", "start", "asking", "storing", "ending"},
                key : Key \cup {<<>>}, packet : SUBSET Packet, since : 0..MaxTime]
      /\ J.at \in {"none", "start"} /\ (J.at # "none" => J.key \in Key)
  <2>1. CASE next = {}
    BY <1>1, <2>1 DEF NoJob
  <2>2. CASE next # {}
    <3>1. (CHOOSE i \in next : TRUE) \in DOMAIN WarmTypes
      BY <2>2
    <3>2. WarmTypes[CHOOSE i \in next : TRUE] \in Qtypes
      BY <3>1, ResolverConstants
    <3>3. <<k[1], WarmTypes[CHOOSE i \in next : TRUE]>> \in Key
      BY <1>1, <3>2 DEF Key
    <3> HIDE DEF k, next
    <3> QED BY <1>1, <2>2, <3>3
  <2> QED BY <2>1, <2>2
<1> HIDE DEF J
<1> QED BY <1>1, <1>2, OneJob

LEMMA RefreshStep ==
  ASSUME RInv, NEW j \in Jobs,
         \/ RefreshStart(j) \/ RefreshFails(j) \/ RefreshStore(j)
         \/ \E p \in UpstreamAnswers : RefreshAnswer(j, p)
  PROVE  JobOK' /\ CacheOK'
<1>0. /\ JobOK /\ TaskOK /\ CacheOK
      /\ job[j] \in [at : {"none", "start", "asking", "storing", "ending"},
                     key : Key \cup {<<>>}, packet : SUBSET Packet, since : 0..MaxTime]
      /\ job[j].at # "none" => job[j].key \in Key
      /\ job[j].at = "storing" => ~Forwards(job[j].key)
      /\ refreshing \subseteq Key
      /\ j \in Key => (j \in refreshing <=> job[j].at # "none")
  BY DEF RInv, QueryOK, JobOK, RefreshingExact
<1>u. UNCHANGED <<conf, now, refreshing, unwarmed>> /\ job[j].at # "none"
  BY DEF RefreshStart, RefreshFails, RefreshStore, RefreshAnswer
<1>1. ASSUME NEW J,
             /\ J \in [at : {"none", "start", "asking", "storing", "ending"},
                       key : Key \cup {<<>>}, packet : SUBSET Packet, since : 0..MaxTime]
             /\ J.at # "none" /\ J.key = job[j].key /\ job' = [job EXCEPT ![j] = J]
             /\ J.at = "storing" => ~Forwards(J.key)
      PROVE  JobOK'
  BY <1>0, <1>1, <1>u, OneJob
<1>2. CASE RefreshStart(j)
  <2> DEFINE k     == job[j].key
             found == IF Route(k) = "Recursive" THEN Lookup(cache.entries, k, now) ELSE {}
             read  == {[ttl |-> c.ttl, data |-> c.data] : c \in found}
             J     == [job[j] EXCEPT !.at = IF found = {} THEN "asking" ELSE "storing",
                                     !.packet = read]
  <2>1. read \subseteq Packet /\ (found # {} => ~Forwards(k))
    BY <1>0, LookupOK DEF Forwards
  <2>2. job' = [job EXCEPT ![j] = J]
    BY <1>2, <1>0 DEF RefreshStart, JobOK
  <2> HIDE DEF found, read
  <2>5. /\ J \in [at : {"none", "start", "asking", "storing", "ending"},
                  key : Key \cup {<<>>}, packet : SUBSET Packet, since : 0..MaxTime]
        /\ J.at \in {"asking", "storing"} /\ J.key = job[j].key
        /\ J.at = "storing" => ~Forwards(J.key)
    BY <1>0, <2>1
  <2> HIDE DEF J
  <2>3. JobOK'
    BY <1>1, <2>2, <2>5
  <2>4. CacheOK'
    BY <1>2, <1>0, KeepCache DEF RefreshStart
  <2> QED BY <2>3, <2>4
<1>3. CASE RefreshFails(j)
  <2> DEFINE J == [job[j] EXCEPT !.at = "ending"]
  <2>1. job' = [job EXCEPT ![j] = J]
    BY <1>3, <1>0 DEF RefreshFails, JobOK
  <2>2. JobOK'
    BY <1>0, <1>1, <2>1
  <2>3. CacheOK'
    BY <1>3, <1>0, KeepCache DEF RefreshFails
  <2> QED BY <2>2, <2>3
<1>4. CASE RefreshStore(j)
  <2> DEFINE J == [job[j] EXCEPT !.at = "ending", !.packet = {}]
  <2>1. job' = [job EXCEPT ![j] = J]
    BY <1>4, <1>0 DEF RefreshStore, JobOK
  <2>2. JobOK'
    BY <1>0, <1>1, <2>1
  <2>3. CacheOK'
    <3>1. PICK p \in job[j].packet : Insert(job[j].key, p, "Indeterminate")
      BY <1>4 DEF RefreshStore
    <3>2. p \in Packet /\ job[j].key \in Key /\ ~Forwards(job[j].key)
      BY <1>4, <1>0 DEF RefreshStore
    <3> QED BY <1>0, <1>u, <3>1, <3>2, InsertOK
  <2> QED BY <2>2, <2>3
<1>5. ASSUME NEW p \in UpstreamAnswers, RefreshAnswer(j, p) PROVE JobOK' /\ CacheOK'
  <2> DEFINE J == IF Route(job[j].key) = "Recursive"
                  THEN [job[j] EXCEPT !.at = "storing", !.packet = {p}]
                  ELSE [job[j] EXCEPT !.at = "ending"]
  <2>0. p \in Packet /\ p.data.fetched = now
    BY <1>0, UpstreamAnswerOK
  <2>1. job' = [job EXCEPT ![j] = J]
    BY <1>5, <1>0 DEF RefreshAnswer, JobOK
  <2>4. /\ J \in [at : {"none", "start", "asking", "storing", "ending"},
                  key : Key \cup {<<>>}, packet : SUBSET Packet, since : 0..MaxTime]
        /\ J.at \in {"storing", "ending"} /\ J.key = job[j].key
        /\ J.at = "storing" => ~Forwards(J.key)
    BY <1>0, <2>0 DEF Forwards
  <2> HIDE DEF J
  <2>2. JobOK'
    BY <1>1, <2>1, <2>4
  <2>3. CacheOK'
    <3>1. job[j].key \in Key
      BY <1>0, <1>u
    <3> QED BY <1>0, <1>5, <1>u, <2>0, <3>1, InsertOK, KeepCache DEF RefreshAnswer, StoreAnswer
  <2> QED BY <2>2, <2>3
<1> QED BY <1>2, <1>3, <1>4, <1>5

LEMMA RefreshEndStep ==
  ASSUME RInv, NEW k \in Key, RefreshEnd(k)
  PROVE  JobOK'
<1>1. /\ JobOK /\ UNCHANGED <<conf, unwarmed>> /\ k \in Jobs /\ refreshing' = refreshing \ {k}
      /\ refreshing \subseteq Key /\ job' = [job EXCEPT ![k] = NoJob] /\ MaxTime \in Nat
  BY ResolverConstants DEF RefreshEnd, Jobs, RInv, JobOK
<1>2. NoJob \in [at : {"none", "start", "asking", "storing", "ending"},
                 key : Key \cup {<<>>}, packet : SUBSET Packet, since : 0..MaxTime]
      /\ NoJob.at = "none"
  BY <1>1 DEF NoJob
<1> QED BY <1>1, <1>2, OneJob

(* The clock stands still while something is held that would age. *)
LEMMA TickStep ==
  ASSUME RInv, Tick
  PROVE  QueryOK' /\ CacheOK' /\ JobOK'
<1>u. UNCHANGED <<conf, cache, inflight, pc, key, leader, mailbox, result, asked, stage, hold, reply,
                  refreshing, job, unwarmed>>
  BY DEF Tick, flightVars, taskVars, jobVars
<1>0. now \in Nat /\ now' = now + 1 /\ now' \in 0..MaxTime
  BY ResolverConstants DEF Tick, RInv, QueryOK, TaskOK
<1>1. TaskOK'
  BY <1>0, <1>u DEF RInv, QueryOK, TaskOK
<1>2. ASSUME NEW t \in Tasks PROVE QueryAt(t)' /\ MailAt(t)'
  <2>1. QueryAt(t) /\ MailAt(t) /\ asked[t].at \in Nat
    BY ResolverConstants DEF RInv, QueryOK, TaskOK
  <2>2. StageAt(t)'
    BY <1>0, <1>u, <2>1, SameRoute DEF QueryAt, StageAt
  <2>3. stage[t] \notin {"hit", "cached"}
    BY DEF Tick, Busy
  <2>4. HoldAt(t)'
    BY <1>u, <2>1, <2>3 DEF QueryAt, HoldAt
  <2>5. ReplyAt(t)'
    BY <1>u, <2>1, SameRoute DEF QueryAt, ReplyAt, AnswerOK, Bound
  <2>6. MailAt(t)'
    BY <1>u, <2>1, KeepMail
  <2> QED BY <2>2, <2>4, <2>5, <2>6 DEF QueryAt
<1>3. CacheOK'
  BY <1>0, <1>u, SameRoute DEF RInv, CacheOK, EntryOK
<1>4. JobOK'
  BY <1>u, KeepJobs DEF RInv, jobVars
<1> QED BY <1>1, <1>2, <1>3, <1>4 DEF QueryOK

(* The invariant is inductive. *)
LEMMA NextRInv == RInv /\ [Next]_vars => RInv'
<1> SUFFICES ASSUME RInv, [Next]_vars PROVE RInv'
  OBVIOUS
<1>0. QueryOK /\ CacheOK /\ JobOK
  BY DEF RInv
<1>1. CASE Next
  <2>0. Flight!IInv'
    BY <1>1, FlightStep
  <2>1. ASSUME NEW t \in Tasks,
               \/ \E k \in Key : Query(t, k)
               \/ Coalesce(t) \/ LeaderStart(t) \/ LeaderDone(t) \/ LeaderFails(t)
               \/ LeaderSend(t) \/ FollowerReceive(t) \/ Cancel(t) \/ CancelledSender(t)
               \/ NextQuery(t)
        PROVE  QueryOK' /\ CacheOK' /\ JobOK'
    <3>1. QueryOK'
      BY <2>1, QueryStep, CoalesceStep, LeaderStartStep, LeaderDoneStep, LeaderFailsStep,
         LeaderSendStep, FollowerReceiveStep, CancelStep, CancelledSenderStep, NextQueryStep
    <3>2. UNCHANGED <<conf, cache, now, jobVars>>
      BY <2>1 DEF Query, Coalesce, LeaderStart, LeaderDone, LeaderFails, LeaderSend,
                  FollowerReceive, Cancel, CancelledSender, NextQuery
    <3> QED BY <1>0, <3>1, <3>2, KeepCache, KeepJobs
  <2>2. ASSUME NEW t \in Tasks, ServeCached(t) PROVE QueryOK' /\ CacheOK' /\ JobOK'
    BY <1>0, <2>2, ServeCachedStep, KeepCache DEF ServeCached
  <2>3. ASSUME NEW t \in Tasks,
               Validate(t) \/ \E p \in UpstreamAnswers : LeaderAnswer(t, p)
        PROVE  QueryOK' /\ CacheOK' /\ JobOK'
    <3>1. QueryOK' /\ CacheOK'
      BY <2>3, ValidateStep, LeaderAnswerStep
    <3>2. UNCHANGED <<conf, jobVars>>
      BY <2>3 DEF Validate, LeaderAnswer
    <3> QED BY <1>0, <3>1, <3>2, KeepJobs
  <2>4. ASSUME \/ \E j \in Jobs : RefreshStart(j) \/ RefreshFails(j) \/ RefreshStore(j)
               \/ \E j \in Jobs, p \in UpstreamAnswers : RefreshAnswer(j, p)
        PROVE  QueryOK' /\ CacheOK' /\ JobOK'
    <3>1. JobOK' /\ CacheOK'
      BY <2>4, RefreshStep
    <3>2. UNCHANGED <<conf, now, flightVars, taskVars>>
      BY <2>4 DEF RefreshStart, RefreshFails, RefreshStore, RefreshAnswer
    <3> QED BY <1>0, <3>1, <3>2, KeepQueries
  <2>5. ASSUME \/ \E k \in Key : RefreshEnd(k)
               \/ \E d \in conf.warm : WarmStart(d)
               \/ WarmEnd
        PROVE  QueryOK' /\ CacheOK' /\ JobOK'
    <3>1. JobOK'
      BY <2>5, RefreshEndStep, WarmStartStep, WarmEndStep
    <3>2. UNCHANGED <<conf, cache, now, flightVars, taskVars>>
      BY <2>5 DEF RefreshEnd, WarmStart, WarmEnd
    <3> QED BY <1>0, <3>1, <3>2, KeepQueries, KeepCache
  <2>6. ASSUME FlushCache \/ \E d \in Domains : FlushCacheDomain(d)
        PROVE  QueryOK' /\ CacheOK' /\ JobOK'
    <3>1. UNCHANGED <<conf, now, flightVars, taskVars, jobVars>>
      BY <2>6 DEF FlushCache, FlushCacheDomain
    <3>2. CacheOK'
      BY <1>0, <2>6, <3>1, FlushOK DEF FlushCache, FlushCacheDomain
    <3> QED BY <1>0, <3>1, <3>2, KeepQueries, KeepJobs
  <2>7. CASE Tick
    BY <2>0, <2>7, TickStep DEF RInv
  <2> QED BY <1>1, <2>0, <2>1, <2>2, <2>3, <2>4, <2>5, <2>6, <2>7 DEF Next, RInv
<1>2. CASE UNCHANGED vars
  <2>1. UNCHANGED <<conf, cache, now, flightVars, taskVars, jobVars>>
    BY <1>2 DEF vars
  <2>2. Flight!IInv'
    BY <2>1, FlightNext DEF RInv
  <2> QED BY <1>0, <2>1, <2>2, KeepQueries, KeepCache, KeepJobs DEF RInv
<1> QED BY <1>1, <1>2

LEMMA RInvHolds == Spec => []RInv
BY InitRInv, NextRInv, PTL DEF Spec

(* Nothing a client gets is too old: one refresh task per key at a time, a
   forwarded name's cached answer younger than max_ttl plus the stale window
   and any other answer fetched after its client asked, for any number of
   queries, names and types and for every configuration (src/src/ctx.rs,
   resolve_remote, refresh_entry and resolve_coalesced). *)
THEOREM AnswersAreRecentThm == Spec => []AnswersAreRecent
<1>1. ASSUME RInv PROVE AnswersAreRecent
  <2>1. Fl!TypeOK
    BY <1>1 DEF RInv, Flight!IInv, Flight!TypeOK, Fl!TypeOK, Flight!PC, Fl!PC, Flight!Results,
                Fl!Results
  <2>2. \A k \in Keys(cache.entries) : Entry(cache.entries, k).data \in Data
    BY <1>1 DEF RInv, CacheOK, EntryOK
  <2>3. \A t \in Tasks : \A r \in reply[t] : AnswerOK(t, r)
    BY <1>1 DEF RInv, QueryOK, QueryAt, ReplyAt
  <2>4. TypeOK
    BY <1>1, <2>1, <2>2, <2>3 DEF TypeOK, RInv, QueryOK, TaskOK, JobOK, AnswerOK
  <2>5. StaleBounded /\ UncachedIsFresh
    BY <2>3 DEF StaleBounded, UncachedIsFresh, AnswerOK, Forwards, Bound
  <2> QED BY <1>1, <2>4, <2>5 DEF AnswersAreRecent, RInv, JobOK
<1> QED BY <1>1, RInvHolds, PTL

-----------------------------------------------------------------------------
(* The AD bit.  Wherever a message is kept, the bit is set only over data
   found Secure, and a status of Secure belongs to the data beside it. *)
Good(d) == /\ d.ad => d.sig = "Secure"
           /\ d.sig = "Secure" => d.rcode = "NOERROR"

ADCache == \A k \in Keys(cache.entries) :
             LET en == Entry(cache.entries, k)
             IN Good(en.data) /\ (en.status = "Secure" => en.data.sig = "Secure")

ADQuery(t) ==
  /\ \A c \in hold[t] : /\ Good(c.data)
                        /\ stage[t] = "hit" /\ c.status = "Secure" => c.data.sig = "Secure"
  /\ result[t] # Failed => Good(result[t].data)
  /\ \A r \in reply[t] : Good(r.packet.data)

ADMail(t) == \A m \in mailbox[t] : m # Failed => Good(m.data)

ADQueries == \A t \in Tasks : ADQuery(t) /\ ADMail(t)

ADJobs == \A j \in Jobs : \A p \in job[j].packet : Good(p.data)

ADInv == ADCache /\ ADQueries /\ ADJobs

LEMMA ADInsert ==
  ASSUME ADCache, NEW k \in Key, NEW p, NEW s, Insert(k, p, s),
         Good(p.data), s = "Secure" => p.data.sig = "Secure"
  PROVE  ADCache'
<1> SUFFICES ASSUME NEW j \in Keys(cache'.entries)
             PROVE  LET en == Entry(cache'.entries, j)
                    IN Good(en.data) /\ (en.status = "Secure" => en.data.sig = "Secure")
  BY DEF ADCache, Good
<1>1. CASE j = k /\ Entry(cache'.entries, j) = NewEntry(p, s, now)
  BY <1>1 DEF NewEntry
<1>2. CASE j \in Keys(cache.entries) /\ Entry(cache'.entries, j) = Entry(cache.entries, j)
  BY <1>2 DEF ADCache
<1> QED BY <1>1, <1>2, InsertEntries DEF Insert

LEMMA ADFlush ==
  ASSUME ADCache,
         \/ cache' = cache
         \/ cache' = EmptyCache
         \/ \E d \in Domains : cache' = remove(cache, d)
  PROVE  ADCache'
<1>1. CASE cache' = cache
  BY <1>1 DEF ADCache
<1>2. CASE cache' = EmptyCache
  BY <1>2 DEF ADCache, EmptyCache, Keys
<1>3. ASSUME NEW d \in Domains, cache' = remove(cache, d) PROVE ADCache'
  BY <1>3, RemoveEntries DEF ADCache
<1> QED BY <1>1, <1>2, <1>3

LEMMA ADLookup ==
  ASSUME ADCache, NEW k, NEW c \in Lookup(cache.entries, k, now)
  PROVE  Good(c.data) /\ (c.status = "Secure" => c.data.sig = "Secure")
BY DEF ADCache, Lookup, Found

LEMMA ADMessages ==
  ASSUME ServerAD \subseteq {FALSE}
  PROVE  /\ Good(ServFail.data)
         /\ \A p \in UpstreamAnswers : Good(p.data)
         /\ \A p \in Packet : \A s : Good(p.data) /\ (s = "Secure" => p.data.sig = "Secure") =>
              Good(WithAD(p, s).data) /\ WithAD(p, s).data.sig = p.data.sig
<1>1. Good(ServFail.data)
  BY DEF ServFail, Good
<1>2. ASSUME NEW p \in UpstreamAnswers PROVE Good(p.data)
  <2>1. PICK n \in RawTtls, s \in Verdicts, a \in ServerAD :
          p = [ttl |-> n, data |-> [rcode |-> "NOERROR", fetched |-> now, sig |-> s, ad |-> a]]
    BY DEF UpstreamAnswers
  <2>2. p.data.ad = a /\ p.data.rcode = "NOERROR"
    BY <2>1
  <2>3. ~a
    BY Zenon
  <2> QED BY <2>2, <2>3, Zenon DEF Good
<1>3. ASSUME NEW p \in Packet, NEW s, Good(p.data), s = "Secure" => p.data.sig = "Secure"
      PROVE  Good(WithAD(p, s).data) /\ WithAD(p, s).data.sig = p.data.sig
  BY <1>3 DEF WithAD, Good, Packet, Data
<1> QED BY <1>1, <1>2, <1>3

LEMMA ADOneQuery ==
  ASSUME ADQueries, NEW t \in Tasks, ADQuery(t)',
         \A s \in Tasks \ {t} :
           stage'[s] = stage[s] /\ hold'[s] = hold[s] /\ reply'[s] = reply[s] /\ result'[s] = result[s],
         \A s \in Tasks : mailbox'[s] \subseteq mailbox[s]
                          \/ \E m : mailbox'[s] = {m} /\ (m # Failed => Good(m.data))
  PROVE  ADQueries'
<1>1. ASSUME NEW s \in Tasks PROVE ADMail(s)'
  BY DEF ADQueries, ADMail, Good
<1>2. ASSUME NEW s \in Tasks \ {t} PROVE ADQuery(s)'
  BY DEF ADQueries, ADQuery, Good
<1> QED BY <1>1, <1>2 DEF ADQueries

LEMMA ADReplied ==
  ASSUME TaskOK, NEW t \in Tasks, NEW p, NEW path, Reply(t, p, path), UNCHANGED <<conf, now>>,
         Good(p.data), result'[t] # Failed => Good(result'[t].data)
  PROVE  ADQuery(t)'
BY ReplyFacts DEF ADQuery, Good

(* One step per action: what it hands on was good already. *)
LEMMA ADNext ==
  ASSUME ServerAD \subseteq {FALSE}, RInv, ADInv, Next
  PROVE  ADInv'
<1>0. /\ TaskOK /\ CacheOK /\ JobOK /\ ADCache /\ ADQueries /\ ADJobs
      /\ \A t \in Tasks : QueryAt(t) /\ ADQuery(t) /\ ADMail(t)
  BY DEF RInv, QueryOK, ADInv, ADQueries
<1>f. ASSUME UNCHANGED <<flightVars, taskVars>> PROVE ADQueries'
  BY <1>0, <1>f DEF ADQueries, ADQuery, ADMail, flightVars, taskVars, Good
<1>j. ASSUME UNCHANGED job PROVE ADJobs'
  BY <1>0, <1>j DEF ADJobs, Good
<1>c. ASSUME UNCHANGED cache PROVE ADCache'
  BY <1>0, <1>c, ADFlush
<1>1. ASSUME NEW t \in Tasks, NEW k \in Key, Query(t, k) PROVE ADInv'
  <2>1. UNCHANGED <<conf, cache, now, reply, job, mailbox, result>>
    BY <1>1 DEF Query, flightVars, jobVars
  <2>2. /\ hold'[t] = Lookup(cache.entries, k, now)
        /\ \A s \in Tasks \ {t} : stage'[s] = stage[s] /\ hold'[s] = hold[s]
    BY <1>0, <1>1 DEF Query, TaskOK
  <2>3. \A c \in hold'[t] : Good(c.data) /\ (c.status = "Secure" => c.data.sig = "Secure")
    BY <1>0, <2>2, ADLookup
  <2>4. ADQuery(t)'
    BY <1>0, <2>1, <2>3 DEF ADQuery, Good
  <2>5. ADQueries'
    BY <1>0, <2>1, <2>2, <2>4, ADOneQuery
  <2> QED BY <2>1, <2>5, <1>c, <1>j DEF ADInv
<1>2. ASSUME NEW t \in Tasks, ServeCached(t) PROVE ADInv'
  <2>1. PICK c \in hold[t] : Reply(t, WithAD([ttl |-> c.ttl, data |-> c.data], c.status), "Cached")
    BY <1>2 DEF ServeCached
  <2>2. /\ [ttl |-> c.ttl, data |-> c.data] \in Packet
        /\ Good(c.data) /\ (c.status = "Secure" => c.data.sig = "Secure")
    BY <1>0, <1>2, <2>1 DEF ServeCached, QueryAt, HoldAt, ADQuery
  <2>3. Good(WithAD([ttl |-> c.ttl, data |-> c.data], c.status).data)
    BY <2>2, ADMessages
  <2>4. UNCHANGED <<conf, cache, now, mailbox, result>>
    BY <1>2 DEF ServeCached, flightVars
  <2>5. ADQuery(t)'
    BY <1>0, <2>1, <2>3, <2>4, ADReplied DEF ADQuery
  <2>6. ADQueries'
    BY <1>0, <2>1, <2>4, <2>5, ReplyFacts, ADOneQuery
  <2>7. ADJobs'
    BY <1>0, <1>2 DEF ServeCached, ADJobs, JobOK, Jobs, Good
  <2> QED BY <2>4, <2>6, <2>7, <1>c DEF ADInv
<1>3. ASSUME NEW t \in Tasks, LeaderStart(t) PROVE ADInv'
  <2> DEFINE found == IF Route(asked[t].key) = "Recursive" THEN Lookup(cache.entries, asked[t].key, now) ELSE {}
  <2>1. UNCHANGED <<conf, cache, now, reply, job, mailbox, result>>
    BY <1>3 DEF LeaderStart, flightVars, jobVars
  <2>2. /\ hold'[t] = {[ttl |-> c.ttl, data |-> c.data] : c \in found}
        /\ stage'[t] # "hit"
        /\ \A s \in Tasks \ {t} : stage'[s] = stage[s] /\ hold'[s] = hold[s]
    BY <1>0, <1>3 DEF LeaderStart, TaskOK
  <2>3. \A c \in found : Good(c.data)
    BY <1>0, ADLookup
  <2> HIDE DEF found
  <2>4. ADQuery(t)'
    BY <1>0, <2>1, <2>2, <2>3 DEF ADQuery, Good
  <2>5. ADQueries'
    BY <1>0, <2>1, <2>2, <2>4, ADOneQuery
  <2> QED BY <2>1, <2>5, <1>c, <1>j DEF ADInv
<1>4. ASSUME NEW t \in Tasks, NEW p \in UpstreamAnswers, LeaderAnswer(t, p) PROVE ADInv'
  <2>1. UNCHANGED <<conf, now, reply, job, mailbox, result>>
    BY <1>4 DEF LeaderAnswer, flightVars, jobVars
  <2>2. /\ hold'[t] = {p} /\ stage'[t] = "cached" /\ Good(p.data)
        /\ \A s \in Tasks \ {t} : stage'[s] = stage[s] /\ hold'[s] = hold[s]
    BY <1>0, <1>4, ADMessages DEF LeaderAnswer, TaskOK
  <2>3. ADQuery(t)'
    BY <1>0, <2>1, <2>2 DEF ADQuery, Good
  <2>4. ADQueries'
    BY <1>0, <2>1, <2>2, <2>3, ADOneQuery
  <2>5. ADCache'
    BY <1>0, <1>4, <1>c, <2>2, ADInsert DEF LeaderAnswer, StoreAnswer, TaskOK
  <2> QED BY <2>1, <2>4, <2>5, <1>j DEF ADInv
<1>5. ASSUME NEW t \in Tasks, Coalesce(t) \/ LeaderDone(t) \/ LeaderFails(t) \/ NextQuery(t)
      PROVE  ADInv'
  <2>1. UNCHANGED <<cache, job, hold, mailbox>>
    BY <1>5 DEF Coalesce, LeaderDone, LeaderFails, NextQuery, jobVars, taskVars, flightVars,
                Fl!Lead, Fl!Follow, Fl!Resolve, Fl!Reuse
  <2>2. /\ stage'[t] = stage[t] \/ stage'[t] # "hit"
        /\ \A s \in Tasks \ {t} : stage'[s] = stage[s] /\ reply'[s] = reply[s]
        /\ reply'[t] = reply[t] \/ reply'[t] = {}
    BY <1>0, <1>5 DEF Coalesce, LeaderDone, LeaderFails, NextQuery, TaskOK, taskVars
  <2>3. /\ result'[t] = result[t] \/ result'[t] = Failed \/ result'[t] \in hold[t]
        /\ \A s \in Tasks \ {t} : result'[s] = result[s]
    BY <1>5, FlightFacts DEF Coalesce, LeaderDone, LeaderFails, NextQuery, flightVars, RInv,
                Fl!Lead, Fl!Follow, Fl!Resolve, Fl!Reuse
  <2>4. ADQuery(t)'
    BY <1>0, <2>1, <2>2, <2>3 DEF ADQuery, Good
  <2>5. ADQueries'
    BY <1>0, <2>1, <2>2, <2>3, <2>4, ADOneQuery
  <2> QED BY <2>1, <2>5, <1>c, <1>j DEF ADInv
<1>6. ASSUME NEW t \in Tasks, LeaderSend(t) PROVE ADInv'
  <2>1. UNCHANGED <<conf, cache, now, job, result>>
    BY <1>6 DEF LeaderSend, jobVars, Fl!Send
  <2>2. /\ result[t] \in Packet \cup {Failed} /\ (result[t] # Failed => Good(result[t].data))
        /\ \A s \in Tasks : mailbox'[s] \subseteq mailbox[s] \/ mailbox'[s] = {result[t]}
    BY <1>0, <1>6, FlightFacts DEF LeaderSend, Fl!Send, Fl!Broadcast, ADQuery, RInv
  <2>3. ASSUME NEW p, NEW path, Reply(t, p, path), Good(p.data) PROVE ADQueries'
    <3>1. ADQuery(t)'
      BY <1>0, <2>1, <2>2, <2>3, ADReplied
    <3> QED BY <1>0, <2>1, <2>2, <2>3, <3>1, ReplyFacts, ADOneQuery
  <2>4. ASSUME stage' = [stage EXCEPT ![t] = "validating"], UNCHANGED <<hold, reply>>
        PROVE ADQueries'
    <3>1. stage'[t] = "validating" /\ \A s \in Tasks \ {t} : stage'[s] = stage[s]
      BY <1>0, <2>4 DEF TaskOK
    <3>2. ADQuery(t)'
      BY <1>0, <2>1, <2>4, <3>1 DEF ADQuery, Good
    <3> QED BY <1>0, <2>1, <2>2, <2>4, <3>1, <3>2, ADOneQuery
  <2>5. ADQueries'
    BY <1>6, <2>2, <2>3, <2>4, ADMessages DEF LeaderSend
  <2> QED BY <2>1, <2>5, <1>c, <1>j DEF ADInv
<1>7. ASSUME NEW t \in Tasks, FollowerReceive(t) PROVE ADInv'
  <2>1. UNCHANGED <<conf, cache, now, job>>
    BY <1>7 DEF FollowerReceive, jobVars
  <2>2. /\ result'[t] \in mailbox[t] /\ \A s \in Tasks \ {t} : result'[s] = result[s]
        /\ \A s \in Tasks : mailbox'[s] \subseteq mailbox[s]
    BY <1>7, FlightFacts DEF FollowerReceive, Fl!Receive, RInv
  <2>3. result'[t] # Failed => Good(result'[t].data)
    BY <1>0, <2>2 DEF ADMail
  <2>4. ASSUME NEW p, NEW path, Reply(t, p, path), Good(p.data) PROVE ADQueries'
    <3>1. ADQuery(t)'
      BY <1>0, <2>1, <2>3, <2>4, ADReplied
    <3> QED BY <1>0, <2>1, <2>2, <2>4, <3>1, ReplyFacts, ADOneQuery
  <2>5. ADQueries'
    BY <1>7, <2>3, <2>4, ADMessages DEF FollowerReceive
  <2> QED BY <2>1, <2>5, <1>c, <1>j DEF ADInv
<1>8. ASSUME NEW t \in Tasks, Validate(t) PROVE ADInv'
  <2>1. UNCHANGED <<conf, now, job, mailbox, result>>
    BY <1>8 DEF Validate, flightVars, jobVars
  <2>2. PICK packet \in hold[t] :
          \E p : /\ (p = ServFail /\ packet.data.sig = "Bogus") \/ p = WithAD(packet, packet.data.sig)
                 /\ Insert(asked[t].key, p, packet.data.sig) /\ Reply(t, p, "Recursive")
    BY <1>8 DEF Validate
  <2>3. PICK p : /\ (p = ServFail /\ packet.data.sig = "Bogus") \/ p = WithAD(packet, packet.data.sig)
                 /\ Insert(asked[t].key, p, packet.data.sig) /\ Reply(t, p, "Recursive")
    BY <2>2
  <2>4. packet \in Packet /\ Good(packet.data) /\ asked[t].key \in Key
    BY <1>0, <1>8, <2>2 DEF Validate, QueryAt, HoldAt, ADQuery, TaskOK
  <2>5. Good(p.data) /\ (packet.data.sig = "Secure" => p.data.sig = "Secure")
    BY <2>3, <2>4, ADMessages
  <2>6. ADCache'
    BY <1>0, <2>3, <2>4, <2>5, ADInsert
  <2>7. ADQuery(t)'
    BY <1>0, <2>1, <2>3, <2>5, ADReplied DEF ADQuery
  <2>8. ADQueries'
    BY <1>0, <2>1, <2>3, <2>7, ReplyFacts, ADOneQuery
  <2> QED BY <2>1, <2>6, <2>8, <1>j DEF ADInv
<1>9. ASSUME NEW t \in Tasks, Cancel(t) \/ CancelledSender(t) PROVE ADInv'
  <2>1. UNCHANGED <<cache, job, reply, result>>
    BY <1>9 DEF Cancel, CancelledSender, jobVars, taskVars, flightVars,
                Fl!CancelLeader, Fl!CancelFollower, Fl!DropSender
  <2>2. /\ (stage'[t] = stage[t] /\ hold'[t] = hold[t]) \/ hold'[t] = {}
        /\ \A s \in Tasks \ {t} : stage'[s] = stage[s] /\ hold'[s] = hold[s]
    BY <1>0, <1>9 DEF Cancel, CancelledSender, TaskOK, taskVars
  <2>3. \A s \in Tasks : mailbox'[s] \subseteq mailbox[s] \/ mailbox'[s] = {Failed}
    BY <1>9, FlightFacts DEF Cancel, CancelledSender, flightVars, RInv,
                Fl!CancelLeader, Fl!CancelFollower, Fl!DropSender, Fl!Broadcast
  <2>4. ADQuery(t)'
    BY <1>0, <2>1, <2>2 DEF ADQuery, Good
  <2>5. ADQueries'
    BY <1>0, <2>1, <2>2, <2>3, <2>4, ADOneQuery
  <2> QED BY <2>1, <2>5, <1>c, <1>j DEF ADInv
<1>10. ASSUME NEW j \in Jobs, RefreshStart(j) PROVE ADInv'
  <2> DEFINE k     == job[j].key
             found == IF Route(k) = "Recursive" THEN Lookup(cache.entries, k, now) ELSE {}
             read  == {[ttl |-> c.ttl, data |-> c.data] : c \in found}
  <2>1. UNCHANGED <<cache, flightVars, taskVars>>
    BY <1>10 DEF RefreshStart
  <2>2. \A p \in read : Good(p.data)
    BY <1>0, ADLookup
  <2>3. job'[j].packet = read /\ \A i \in Jobs \ {j} : job'[i] = job[i]
    BY <1>0, <1>10 DEF RefreshStart, JobOK
  <2> HIDE DEF read
  <2>4. ADJobs'
    BY <1>0, <2>2, <2>3 DEF ADJobs, Good
  <2> QED BY <2>1, <2>4, <1>c, <1>f DEF ADInv
<1>11. ASSUME NEW j \in Jobs, NEW p \in UpstreamAnswers, RefreshAnswer(j, p) PROVE ADInv'
  <2>1. UNCHANGED <<flightVars, taskVars>> /\ Good(p.data) /\ job[j].key \in Key
    BY <1>0, <1>11, ADMessages DEF RefreshAnswer, JobOK
  <2>2. /\ job'[j].packet = {p} \/ job'[j].packet = job[j].packet
        /\ \A i \in Jobs \ {j} : job'[i] = job[i]
    BY <1>0, <1>11 DEF RefreshAnswer, JobOK
  <2>3. ADJobs'
    BY <1>0, <2>1, <2>2 DEF ADJobs, Good
  <2>4. ADCache'
    BY <1>0, <1>11, <1>c, <2>1, ADInsert DEF RefreshAnswer, StoreAnswer
  <2> QED BY <2>1, <2>3, <2>4, <1>f DEF ADInv
<1>12. ASSUME NEW j \in Jobs, RefreshStore(j) PROVE ADInv'
  <2>1. UNCHANGED <<flightVars, taskVars>> /\ job[j].key \in Key
    BY <1>0, <1>12 DEF RefreshStore, JobOK
  <2>2. PICK p \in job[j].packet : Insert(job[j].key, p, "Indeterminate")
    BY <1>12 DEF RefreshStore
  <2>3. Good(p.data)
    BY <1>0, <2>2 DEF ADJobs
  <2>4. ADCache'
    BY <1>0, <2>1, <2>2, <2>3, ADInsert
  <2>5. job'[j].packet = {} /\ \A i \in Jobs \ {j} : job'[i] = job[i]
    BY <1>0, <1>12 DEF RefreshStore, JobOK
  <2>6. ADJobs'
    BY <1>0, <2>5 DEF ADJobs, Good
  <2> QED BY <2>1, <2>4, <2>6, <1>f DEF ADInv
<1>13. ASSUME \/ \E j \in Jobs : RefreshFails(j)
              \/ \E k \in Key : RefreshEnd(k)
              \/ \E d \in conf.warm : WarmStart(d)
              \/ WarmEnd
       PROVE  ADInv'
  <2>1. UNCHANGED <<cache, flightVars, taskVars>>
    BY <1>13 DEF RefreshFails, RefreshEnd, WarmStart, WarmEnd
  <2>2. \A i \in Jobs : job'[i].packet = job[i].packet \/ job'[i].packet = {}
    <3>1. CASE \E j \in Jobs : RefreshFails(j)
      BY <1>0, <3>1 DEF RefreshFails, JobOK
    <3>2. CASE \E k \in Key : RefreshEnd(k)
      BY <1>0, <3>2 DEF RefreshEnd, JobOK, NoJob, Jobs
    <3>3. CASE \E d \in conf.warm : WarmStart(d)
      BY <1>0, <3>3 DEF WarmStart, JobOK, Jobs
    <3>4. CASE WarmEnd
      BY <1>0, <3>4 DEF WarmEnd, NoJob, JobOK, Jobs
    <3> QED BY <1>13, <3>1, <3>2, <3>3, <3>4
  <2>3. ADJobs'
    BY <1>0, <2>2 DEF ADJobs, Good
  <2> QED BY <2>1, <2>3, <1>c, <1>f DEF ADInv
<1>14. ASSUME FlushCache \/ (\E d \in Domains : FlushCacheDomain(d)) \/ Tick PROVE ADInv'
  <2>1. UNCHANGED <<flightVars, taskVars, job>>
    BY <1>14 DEF FlushCache, FlushCacheDomain, Tick, jobVars
  <2>2. ADCache'
    BY <1>0, <1>14, ADFlush DEF FlushCache, FlushCacheDomain, Tick
  <2> QED BY <2>1, <2>2, <1>f, <1>j DEF ADInv
<1> QED BY <1>1, <1>2, <1>3, <1>4, <1>5, <1>6, <1>7, <1>8, <1>9, <1>10, <1>11, <1>12, <1>13, <1>14
       DEF Next

(* Where servers leave the AD bit alone, a client sees it only over data the
   validator found Secure, whatever refreshes, coalesced answers and repeated
   insertions happen in between (src/src/ctx.rs, resolve_remote and
   resolve_query). *)
THEOREM ADOnlyWhenValidatedThm ==
  ASSUME ServerAD \subseteq {FALSE}
  PROVE  Spec => []ADOnlyWhenValidated
<1>1. Init => ADInv
  BY DEF Init, Fl!Init, ADInv, ADCache, ADQueries, ADQuery, ADMail, ADJobs, EmptyCache, Keys, NoJob
<1>2. RInv /\ ADInv /\ [Next]_vars => ADInv'
  <2>1. ADInv /\ UNCHANGED vars => ADInv'
    BY DEF vars, flightVars, taskVars, jobVars, ADInv, ADCache, ADQueries, ADQuery, ADMail, ADJobs,
           Good
  <2> QED BY <2>1, ADNext
<1>3. ADInv => ADOnlyWhenValidated
  BY DEF ADInv, ADQueries, ADQuery, Good, ADOnlyWhenValidated
<1> QED BY <1>1, <1>2, <1>3, RInvHolds, PTL DEF Spec
=============================================================================
