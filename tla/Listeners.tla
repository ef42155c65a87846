----------------------------- MODULE Listeners -----------------------------
(***************************************************************************)
(* How queries come in and answers go out: DNS over TCP (src/src/tcp.rs),  *)
(* TLS (src/src/dot.rs), HTTPS (src/src/doh.rs behind accept_loop_tls of   *)
(* src/src/proxy.rs) and UDP (src/src/udp_listener.rs, udp_serve_loop of   *)
(* src/src/serve.rs), behind PROXY protocol v2 (src/src/pp2.rs,            *)
(* src/src/pp2_udp.rs) and the access list (src/src/acl.rs).               *)
(*                                                                         *)
(* A client connects, may send a PROXY header and then frames, and may     *)
(* stall anywhere.  A frame is "good" (parses), "bad" or "oversized".      *)
(***************************************************************************)
EXTENDS Integers, Sequences, FiniteSets

CONSTANTS
  Conns,        \* connections that clients may open
  Listening,    \* listeners: a subset of {"tcp", "dot", "doh"}
  Peers, Loopback,  \* addresses that connect; the loopback ones among them
  Trusted,      \* proxy_protocol.from, when the feature is on
  AllowFrom,    \* the possible access lists
  MAX_CONNECTIONS,
  MaxFrames,    \* bound: frames one client sends
  MaxArrivals   \* bound: connections and datagrams together

ASSUME ListenConstants ==
  /\ IsFiniteSet(Conns) /\ MAX_CONNECTIONS \in Nat
  /\ Listening \subseteq {"tcp", "dot", "doh"}

VARIABLES
  pp,        \* PROXY protocol is required
  allow,     \* the clients that allow_from matches, {} when it is off
  conn,      \* connection -> its task
  free,      \* listener -> permits left in its semaphore
  ppStats,   \* the proxy_v2 counters of ServerStats
  resolved,  \* history: what resolve_query was called for
  arrivals   \* history: connections accepted and datagrams received

listenVars == <<pp, allow, conn, free, ppStats, resolved, arrivals>>

Closed == [at |-> "closed"]
Counters == {"accepted", "local", "untrusted", "signature", "timeout"}

(* PpConfig::allows compares the address as it came; the access list first
   turns an IPv4-mapped address into its IPv4 form. *)
PpAllows(peer, mapped) == peer \in Trusted /\ ~mapped
allows(peer) == allow = {} \/ peer \in Loopback \/ peer \in allow
admits(peer, local_command) == local_command \/ allows(peer)

ListenInit ==
  /\ pp \in BOOLEAN /\ allow \in AllowFrom
  /\ conn = [c \in Conns |-> Closed]
  /\ free = [l \in Listening |-> MAX_CONNECTIONS]
  /\ ppStats = [k \in Counters |-> 0]
  /\ resolved = {} /\ arrivals = 0

Limited(l) == l \in {"tcp", "dot"}
Count(k) == ppStats' = [ppStats EXCEPT ![k] = @ + 1]
Arrives == arrivals < MaxArrivals /\ arrivals' = arrivals + 1

(* The task of connection c ends and gives its permit back. *)
End(c) ==
  /\ conn' = [conn EXCEPT ![c] = Closed]
  /\ free' = IF Limited(conn[c].on) THEN [free EXCEPT ![conn[c].on] = @ + 1] ELSE free

To(c, s) == conn' = [conn EXCEPT ![c].at = s] /\ UNCHANGED free

(* accept_loop: without a permit the connection is dropped at once; the
   proxy's TLS listener has no limit. *)
Accept(c, l, peer, mapped) ==
  /\ conn[c] = Closed
  /\ Limited(l) => free[l] > 0
  /\ Arrives
  /\ conn' = [conn EXCEPT ![c] = [at |-> "pp", on |-> l, peer |-> peer, mapped |-> mapped,
                                  src |-> peer, local |-> FALSE, asked |-> <<>>, answered |-> <<>>]]
  /\ free' = IF Limited(l) THEN [free EXCEPT ![l] = @ - 1] ELSE free
  /\ UNCHANGED <<pp, allow, ppStats, resolved>>

(* pp2::handshake and the access check behind it. *)
Passes(c, src, local) ==
  IF admits(src, local)
  THEN /\ conn' = [conn EXCEPT ![c].at = IF @ = "pp" /\ conn[c].on = "tcp" THEN "idle" ELSE "tls",
                               ![c].src = src, ![c].local = local]
       /\ UNCHANGED free
  ELSE End(c)

NoProxy(c) ==
  /\ conn[c].at = "pp" /\ ~pp
  /\ Passes(c, conn[c].peer, FALSE)
  /\ UNCHANGED <<pp, allow, ppStats, resolved, arrivals>>

Untrusted(c) ==
  /\ conn[c].at = "pp" /\ pp /\ ~PpAllows(conn[c].peer, conn[c].mapped)
  /\ Count("untrusted") /\ End(c)
  /\ UNCHANGED <<pp, allow, resolved, arrivals>>

ProxyHeader(c, src, local) ==
  /\ conn[c].at = "pp" /\ pp /\ PpAllows(conn[c].peer, conn[c].mapped)
  /\ local => src = conn[c].peer
  /\ Count(IF local THEN "local" ELSE "accepted")
  /\ Passes(c, src, local)
  /\ UNCHANGED <<pp, allow, resolved, arrivals>>

ProxyHeaderFails(c, k) ==
  /\ conn[c].at = "pp" /\ pp /\ PpAllows(conn[c].peer, conn[c].mapped)
  /\ Count(k) /\ End(c)
  /\ UNCHANGED <<pp, allow, resolved, arrivals>>

(* The TLS handshake; DoT bounds it by HANDSHAKE_TIMEOUT, the proxy does not. *)
TlsDone(c) ==
  /\ conn[c].at = "tls" /\ To(c, "idle")
  /\ UNCHANGED <<pp, allow, ppStats, resolved, arrivals>>

TlsFails(c) ==
  /\ conn[c].at = "tls" /\ End(c)
  /\ UNCHANGED <<pp, allow, ppStats, resolved, arrivals>>

-----------------------------------------------------------------------------
(* The task goes on with a query it resolves or with an error to send. *)
Took(c, good) ==
  /\ conn' = [conn EXCEPT ![c].at = IF good THEN "resolving" ELSE "refused",
                          ![c].asked = Append(@, IF good THEN "query" ELSE "error")]
  /\ resolved' = IF good THEN resolved \cup {[peer |-> conn[c].peer, mapped |-> conn[c].mapped,
                                              src |-> conn[c].src, local |-> conn[c].local]}
                 ELSE resolved
  /\ UNCHANGED free

(* handle_framed_dns_connection: an oversized frame closes the connection, a
   malformed one is answered with FORMERR. *)
Frame(c, f) ==
  /\ conn[c].at = "idle" /\ conn[c].on # "doh" /\ Len(conn[c].asked) < MaxFrames
  /\ IF f = "oversized" THEN End(c) /\ UNCHANGED resolved ELSE Took(c, f = "good")
  /\ UNCHANGED <<pp, allow, ppStats, arrivals>>

(* doh_post and doh_get on an HTTP/1 connection, one request after the other:
   the access list is checked again for the source, LOCAL or not, and every
   error is answered. *)
DohRequest(c, f) ==
  /\ conn[c].at = "idle" /\ conn[c].on = "doh" /\ Len(conn[c].asked) < MaxFrames
  /\ Took(c, f = "good" /\ allows(conn[c].src))
  /\ UNCHANGED <<pp, allow, ppStats, arrivals>>

(* The answer, SERVFAIL when resolve_query failed, or FORMERR, is written
   before the next frame is read. *)
Answer(c) ==
  /\ conn[c].at \in {"resolving", "refused"} /\ To(c, "writing")
  /\ UNCHANGED <<pp, allow, ppStats, resolved, arrivals>>

Written(c) ==
  /\ conn[c].at = "writing"
  /\ conn' = [conn EXCEPT ![c].at = "idle", ![c].answered = Append(@, conn[c].asked[Len(@) + 1])]
  /\ UNCHANGED <<pp, allow, free, ppStats, resolved, arrivals>>

(* The client hangs up, or a read (IDLE_TIMEOUT) or a write (WRITE_TIMEOUT)
   takes too long. *)
Hangup(c) ==
  /\ conn[c].at \in {"idle", "writing"} /\ End(c)
  /\ UNCHANGED <<pp, allow, ppStats, resolved, arrivals>>

Timeout(c) ==
  /\ conn[c].at \in {"idle", "writing"} /\ Limited(conn[c].on) /\ End(c)
  /\ UNCHANGED <<pp, allow, ppStats, resolved, arrivals>>

-----------------------------------------------------------------------------
(* udp_serve_loop: parse_if_trusted, the access check, a task per query. *)
BugReadsAnyHeader(peer, mapped, header, src) ==
  IF ~pp THEN [to |-> "query", src |-> peer, count |-> {}]
  ELSE IF header = "none" THEN [to |-> "drop", count |-> {"signature"}]
  ELSE IF header = "local" THEN [to |-> "query", src |-> peer, count |-> {"local"}]
  ELSE [to |-> "query", src |-> src, count |-> {"accepted"}]

parse_if_trusted(peer, mapped, header, src) ==
  IF ~pp THEN [to |-> "query", src |-> peer, count |-> {}]
  ELSE IF ~PpAllows(peer, mapped) THEN [to |-> "drop", count |-> {"untrusted"}]
  ELSE IF header = "none" THEN [to |-> "drop", count |-> {"signature"}]
  ELSE IF header = "local" THEN [to |-> "query", src |-> peer, count |-> {"local"}]
  ELSE [to |-> "query", src |-> src, count |-> {"accepted"}]

Datagram(peer, mapped, header, src) ==
  /\ Arrives
  /\ LET r == parse_if_trusted(peer, mapped, header, src)
         local == r.count = {"local"}
     IN /\ ppStats' = [k \in Counters |-> ppStats[k] + IF k \in r.count THEN 1 ELSE 0]
        /\ resolved' = IF r.to = "query" /\ admits(r.src, local)
                       THEN resolved \cup {[peer |-> peer, mapped |-> mapped, src |-> r.src, local |-> local]}
                       ELSE resolved
  /\ UNCHANGED <<pp, allow, conn, free>>

ListenNext ==
  \/ \E c \in Conns, l \in Listening, p \in Peers, m \in BOOLEAN : Accept(c, l, p, m)
  \/ \E c \in Conns :
       \/ NoProxy(c) \/ Untrusted(c) \/ TlsDone(c) \/ TlsFails(c)
       \/ Answer(c) \/ Written(c) \/ Hangup(c) \/ Timeout(c)
       \/ \E p \in Peers, local \in BOOLEAN : ProxyHeader(c, p, local)
       \/ \E k \in {"signature", "timeout"} : ProxyHeaderFails(c, k)
       \/ \E f \in {"good", "bad", "oversized"} : Frame(c, f) \/ DohRequest(c, f)
  \/ \E p \in Peers, m \in BOOLEAN, h \in {"none", "local", "proxy"}, s \in Peers : Datagram(p, m, h, s)

ListenSpec == ListenInit /\ [][ListenNext]_listenVars

(* The timeouts fire, handshakes that have one end, resolve_query returns. *)
ListenFairness ==
  \A c \in Conns :
    /\ WF_listenVars(NoProxy(c) \/ Untrusted(c) \/ ProxyHeaderFails(c, "timeout"))
    /\ WF_listenVars(conn[c].at = "tls" /\ conn[c].on = "dot" /\ (TlsDone(c) \/ TlsFails(c)))
    /\ WF_listenVars(Answer(c))
    /\ WF_listenVars(Timeout(c))

-----------------------------------------------------------------------------
(* Every way a connection can end gives its permit back: the permits left and
   the live connections always make up the limit (src/src/tcp.rs and
   src/src/dot.rs, accept_loop). *)
PermitsAccounted ==
  \A l \in {k \in Listening : Limited(k)} :
    free[l] + Cardinality({c \in Conns : conn[c] # Closed /\ conn[c].on = l}) = MAX_CONNECTIONS

(* On one connection every readable frame gets exactly one answer, in the
   order of the frames (src/src/tcp.rs, handle_framed_dns_connection). *)
AnswersInOrder ==
  \A c \in Conns : conn[c] # Closed =>
    LET done == Len(conn[c].answered) IN
    /\ conn[c].answered = SubSeq(conn[c].asked, 1, done)
    /\ conn[c].at = "idle" => Len(conn[c].asked) = done

(* Nothing is resolved for a source that the access list does not admit, and
   a source other than the peer comes from a trusted front-end only
   (src/src/pp2.rs, src/src/pp2_udp.rs, src/src/acl.rs). *)
SourcesAreVetted ==
  \A r \in resolved :
    /\ allows(r.src) \/ (r.local /\ pp /\ PpAllows(r.peer, r.mapped))
    /\ r.src # r.peer => pp /\ PpAllows(r.peer, r.mapped)

(* Every connection and datagram that must carry a PROXY header is counted
   once, under one outcome, unless its handshake still runs (src/src/pp2.rs,
   handshake; src/src/pp2_udp.rs, parse_if_trusted). *)
HandshakesCounted ==
  pp => ppStats["accepted"] + ppStats["local"] + ppStats["untrusted"] + ppStats["signature"]
          + ppStats["timeout"] + Cardinality({c \in Conns : conn[c].at = "pp"}) = arrivals

(* Nothing is resolved for a source that the access list does not admit, a
   source other than the peer comes from a trusted front-end only, every
   readable frame gets one answer in its turn, and every way a connection or a
   PROXY handshake can end is accounted for, its permit given back
   (src/src/pp2.rs, src/src/pp2_udp.rs, src/src/acl.rs, src/src/tcp.rs,
   src/src/dot.rs). *)
ConnectionsAreVetted ==
  SourcesAreVetted /\ AnswersInOrder /\ PermitsAccounted /\ HandshakesCounted

(* No client can hold a permit for ever, however it stalls (src/src/tcp.rs,
   src/src/dot.rs: the header, handshake, idle and write timeouts). *)
PermitsComeBack ==
  \A c \in Conns : (conn[c] # Closed /\ Limited(conn[c].on) /\ Len(conn[c].asked) = MaxFrames)
                     ~> conn[c] = Closed
=============================================================================
