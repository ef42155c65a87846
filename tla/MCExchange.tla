----------------------------- MODULE MCExchange -----------------------------
(***************************************************************************)
(* TLC instance of what queries wait for, under fair scheduling: their      *)
(* connections (Listeners), a whole resolution (Resolver as a forwarder),   *)
(* the UDP breaker of the recursive resolver (UdpBreaker) and an ODoH relay *)
(* with its target (Odoh).  The initial state chooses which of them runs;   *)
(* the others rest in an initial state in which none of their fair actions  *)
(* is enabled.                                                              *)
(***************************************************************************)
EXTENDS UdpBreaker

CONSTANTS Failed, NoTask, NoTtl, WarmLoop, d1

VARIABLES
  part,
  conf, cache, now, inflight, pc, key, leader, mailbox, result,
  asked, stage, hold, reply, refreshing, job, unwarmed,
  odohNow, targetKey, current, last_failure, refresh_lock, q, relay, bootstrap, overrides, nets,
  lastFault, begun,
  pp, allow, conn, free, ppStats, resolved, arrivals

queryVars == <<conf, cache, now, inflight, pc, key, leader, mailbox, result,
               asked, stage, hold, reply, refreshing, job, unwarmed>>
odohVars == <<odohNow, targetKey, current, last_failure, refresh_lock, q, relay, bootstrap,
              overrides, nets, lastFault, begun>>
listenVars == <<pp, allow, conn, free, ppStats, resolved, arrivals>>
exchangeVars == <<part, vars, queryVars, odohVars, listenVars>>

-----------------------------------------------------------------------------

(* Clients of one name, whose answers' TTL is clamped to a second. *)
Query == INSTANCE Resolver WITH
  Domains <- {d1}, Qtypes <- {"A"}, MinTtl <- 1, MaxTtl <- 1, MaxEntries <- 4,
  StaleWindow <- 1, TicksPerSec <- 1,
  Settings <- {[upstream_mode |-> "Upstream", dnssec_enabled |-> FALSE,
                dnssec_strict |-> FALSE, warm |-> {}]},
  ForwardedNames <- {}, WarmTypes <- <<"A">>, RawTtls <- {2}, Sigs <- {"Insecure"}, ServerAD <- {FALSE},
  MaxTime <- 2

-----------------------------------------------------------------------------
(* A bootstrap list with a name in it and one address. *)
Oblivious == INSTANCE Odoh WITH
  now <- odohNow, key <- targetKey,
  Queries <- {"p1", "p2"}, Fallbacks <- {<<"s2", "h">>}, HostNames <- {"h"},
  DEFAULT_BOOTSTRAP <- <<"s1">>, Overrides <- {{}}, MaxAges <- {9},
  DEFAULT_CONFIG_TTL <- 1, MAX_CONFIG_TTL <- 1, REFRESH_BACKOFF <- 1,
  MaxNow <- 1, MaxRotations <- 1, MaxBegun <- 2

-----------------------------------------------------------------------------
(* Two clients of one permit, one of them a proxy on the loopback. *)
Listen == INSTANCE Listeners WITH
  Conns <- {"c1", "c2"}, Listening <- {"tcp", "dot"}, Peers <- {"a", "lo"},
  Loopback <- {"lo"}, Trusted <- {"lo"}, AllowFrom <- {{}}, MAX_CONNECTIONS <- 1,
  MaxFrames <- 2, MaxArrivals <- 2

-----------------------------------------------------------------------------
ExchangeInit ==
  /\ part \in {"breaker", "query", "odoh", "listen"}
  /\ Init /\ Query!Init
  /\ Oblivious!OdohInit
  /\ part # "odoh" => \A s \in DOMAIN nets : nets[s] = "up"
  /\ Listen!ListenInit
  /\ part # "listen" => ~pp /\ allow = {}

ExchangeNext ==
  /\ UNCHANGED part
  /\ \/ part = "breaker" /\ Next /\ UNCHANGED <<queryVars, odohVars, listenVars>>
     \/ part = "query" /\ Query!Next /\ UNCHANGED <<vars, odohVars, listenVars>>
     \/ part = "odoh" /\ Oblivious!OdohNext /\ UNCHANGED <<vars, queryVars, listenVars>>
     \/ part = "listen" /\ Listen!ListenNext /\ UNCHANGED <<vars, queryVars, odohVars>>

ExchangeSpec == /\ ExchangeInit /\ [][ExchangeNext]_exchangeVars
                /\ Fairness /\ Query!Fairness /\ Oblivious!OdohFairness /\ Listen!ListenFairness

-----------------------------------------------------------------------------
(* Every query ends, whoever it waits for: it is answered and its stale
   refresh ends although leaders are cancelled at any await and their
   followers have no timeout of their own (src/src/ctx.rs, resolve_remote and
   refresh_entry); an ODoH query ends although the fetch it waited for failed
   and its retry is refused (src/src/odoh.rs, get and query_through_relay); and
   no client holds a connection permit for ever, however it stalls
   (src/src/tcp.rs, src/src/dot.rs: header, handshake, idle and write
   timeouts). *)
EveryQueryEnds == Query!EveryQueryEnds /\ Oblivious!QueriesEnd /\ Listen!PermitsComeBack
=============================================================================
