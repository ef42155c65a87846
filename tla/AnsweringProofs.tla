--------------------------- MODULE AnsweringProofs ---------------------------
(***************************************************************************)
(* Proofs about how queries are answered: the connections they come in on   *)
(* (Listeners), for any number of connections, clients and permits, and the *)
(* pipeline they go through (Pipeline), for any clients, names, zones,      *)
(* rules and upstream answers.                                              *)
(***************************************************************************)
EXTENDS Pipeline, Listeners, FiniteSetTheorems, WellFoundedInduction, TLAPS

ConnType ==
  [at : {"pp", "tls", "idle", "resolving", "refused", "writing"}, on : Listening, peer : Peers,
   mapped : BOOLEAN, src : Peers, local : BOOLEAN,
   asked : Seq({"query", "error"}), answered : Seq({"query", "error"})]

(* A source that may be resolved for. *)
Vetted(x) == allows(x.src) \/ (x.local /\ pp /\ PpAllows(x.peer, x.mapped))

(* A live connection: its source is the peer until the handshake has vetted
   it, and it owes at most the answer to the frame it read last. *)
ConnOK(x) ==
  /\ x \in ConnType
  /\ x.at = "pp" => x.src = x.peer
  /\ x.at # "pp" => Vetted(x)
  /\ x.src # x.peer => pp /\ PpAllows(x.peer, x.mapped)
  /\ \A i \in 1..Len(x.answered) : x.answered[i] = x.asked[i]
  /\ x.at \in {"pp", "tls"} => Len(x.asked) = 0
  /\ Len(x.asked) = IF x.at \in {"resolving", "refused", "writing"} THEN Len(x.answered) + 1
                    ELSE Len(x.answered)

Handshaking == {c \in Conns : conn[c].at = "pp"}
LiveOn(l) == {c \in Conns : conn[c] # Closed /\ conn[c].on = l}

ConnsOK ==
  /\ conn \in [Conns -> ConnType \cup {Closed}]
  /\ \A c \in Conns : conn[c] # Closed => ConnOK(conn[c])

PermitsOK ==
  /\ free \in [Listening -> Nat]
  /\ PermitsAccounted

CountsOK ==
  /\ ppStats \in [Counters -> Nat] /\ arrivals \in Nat
  /\ HandshakesCounted

(* The inductive invariant. *)
ListenInv == ConnsOK /\ SourcesAreVetted /\ PermitsOK /\ CountsOK

-----------------------------------------------------------------------------
(* A finite set that gains, loses or keeps one connection. *)
LEMMA CardSteps ==
  ASSUME NEW S \in SUBSET Conns
  PROVE  /\ Cardinality(S) \in Nat
         /\ \A c \in Conns \ S : Cardinality(S \cup {c}) = Cardinality(S) + 1
         /\ \A c \in S : Cardinality(S \ {c}) = Cardinality(S) - 1
<1>1. IsFiniteSet(S)
  BY ListenConstants, FS_Subset
<1>2. Cardinality(S) \in Nat
  BY <1>1, FS_CardinalityType
<1>3. \A c \in Conns \ S : Cardinality(S \cup {c}) = Cardinality(S) + 1
  BY <1>1, FS_AddElement
<1>4. \A c \in S : Cardinality(S \ {c}) = Cardinality(S) - 1
  BY <1>1, FS_RemoveElement
<1> QED BY <1>2, <1>3, <1>4

LEMMA ClosedIsNot ==
  /\ Closed \notin ConnType /\ Closed.at = "closed"
  /\ \A x \in ConnType : x.at # "closed"
BY DEF Closed, ConnType

(* No connection is there at first. *)
LEMMA ListenInitInv == ListenInit => ListenInv
<1> SUFFICES ASSUME ListenInit PROVE ListenInv
  OBVIOUS
<1>1. ConnsOK /\ SourcesAreVetted
  BY DEF ListenInit, ConnsOK, SourcesAreVetted
<1>2. \A l \in Listening : LiveOn(l) = {}
  BY DEF ListenInit, LiveOn
<1>3. Handshaking = {}
  BY ClosedIsNot DEF ListenInit, Handshaking
<1>4. PermitsOK
  BY <1>2, ListenConstants, FS_EmptySet DEF ListenInit, PermitsOK, PermitsAccounted, LiveOn
<1>5. CountsOK
  BY <1>3, FS_EmptySet DEF ListenInit, CountsOK, HandshakesCounted, Handshaking, Counters
<1> QED BY <1>1, <1>4, <1>5 DEF ListenInv

-----------------------------------------------------------------------------
(* The task of a connection ends: its permit is free again. *)
LEMMA EndConn ==
  ASSUME ListenInv, NEW c \in Conns, conn[c] # Closed, End(c), UNCHANGED <<pp, allow>>
  PROVE  ConnsOK' /\ PermitsOK' /\ Handshaking' = Handshaking \ {c}
<1>1. /\ conn'[c] = Closed /\ \A d \in Conns \ {c} : conn'[d] = conn[d]
      /\ conn' \in [Conns -> ConnType \cup {Closed}]
  BY DEF ListenInv, ConnsOK, End
<1>2. ConnsOK'
  BY <1>1 DEF ListenInv, ConnsOK, ConnOK, Vetted, allows
<1>3. Handshaking' = Handshaking \ {c}
  BY <1>1, ClosedIsNot DEF Handshaking
<1>4. conn[c] \in ConnType /\ conn[c].on \in Listening
  BY DEF ListenInv, ConnsOK, ConnType
<1>5. ASSUME NEW l \in Listening, Limited(l)
      PROVE  free'[l] \in Nat /\ free'[l] + Cardinality(LiveOn(l)') = MAX_CONNECTIONS
  <2>0. /\ free[l] \in Nat /\ free[l] + Cardinality(LiveOn(l)) = MAX_CONNECTIONS
        /\ LiveOn(l) \in SUBSET Conns
    BY <1>5 DEF ListenInv, PermitsOK, PermitsAccounted, LiveOn
  <2>1. CASE conn[c].on = l
    <3>1. LiveOn(l)' = LiveOn(l) \ {c} /\ c \in LiveOn(l)
      BY <1>1, <2>1 DEF LiveOn
    <3>2. free'[l] = free[l] + 1
      BY <1>4, <1>5, <2>1 DEF End, ListenInv, PermitsOK
    <3> QED BY <2>0, <3>1, <3>2, CardSteps
  <2>2. CASE conn[c].on # l
    <3>1. LiveOn(l)' = LiveOn(l)
      BY <1>1, <2>2 DEF LiveOn
    <3>2. free'[l] = free[l]
      BY <1>4, <1>5, <2>2 DEF End, ListenInv, PermitsOK
    <3> QED BY <2>0, <3>1, <3>2
  <2> QED BY <2>1, <2>2
<1>6. free' \in [Listening -> Nat]
  BY <1>4 DEF End, ListenInv, PermitsOK
<1>7. PermitsOK'
  BY <1>5, <1>6 DEF PermitsOK, PermitsAccounted, LiveOn
<1> QED BY <1>2, <1>3, <1>7

(* The task of a connection goes on: it keeps its permit. *)
LEMMA GoOn ==
  ASSUME ListenInv, NEW c \in Conns, NEW x, conn[c] # Closed, conn' = [conn EXCEPT ![c] = x],
         ConnOK(x), x.on = conn[c].on, x.at # "pp", UNCHANGED <<pp, allow, free>>
  PROVE  ConnsOK' /\ PermitsOK' /\ Handshaking' = Handshaking \ {c}
<1>1. /\ conn'[c] = x /\ \A d \in Conns \ {c} : conn'[d] = conn[d]
      /\ conn' \in [Conns -> ConnType \cup {Closed}] /\ x # Closed
  BY ClosedIsNot DEF ListenInv, ConnsOK, ConnOK
<1>2. ConnsOK'
  BY <1>1 DEF ListenInv, ConnsOK, ConnOK, Vetted, allows
<1>3. Handshaking' = Handshaking \ {c}
  BY <1>1 DEF Handshaking
<1>4. \A l \in Listening : LiveOn(l)' = LiveOn(l)
  BY <1>1 DEF LiveOn
<1>5. PermitsOK'
  BY <1>4 DEF ListenInv, PermitsOK, PermitsAccounted, LiveOn
<1> QED BY <1>2, <1>3, <1>5

(* Handshakes end with one count each, and nothing else counts. *)
LEMMA CountedOnce ==
  ASSUME ListenInv, NEW c \in Conns, conn[c].at = "pp", Handshaking' = Handshaking \ {c},
         NEW k \in Counters, Count(k), UNCHANGED <<pp, arrivals>>
  PROVE  CountsOK'
<1>1. c \in Handshaking /\ Handshaking \in SUBSET Conns
  BY DEF Handshaking
<1>2. Cardinality(Handshaking') = Cardinality(Handshaking) - 1 /\ Cardinality(Handshaking) \in Nat
  BY <1>1, CardSteps
<1>3. ppStats \in [Counters -> Nat] /\ arrivals \in Nat /\ HandshakesCounted
  BY DEF ListenInv, CountsOK
<1>4. ppStats' = [ppStats EXCEPT ![k] = @ + 1] /\ ppStats' \in [Counters -> Nat]
  BY <1>3 DEF Count
<1>5. HandshakesCounted'
  BY <1>2, <1>3, <1>4 DEF HandshakesCounted, Handshaking, Counters
<1> QED BY <1>3, <1>4, <1>5 DEF CountsOK

LEMMA NotCounted ==
  ASSUME ListenInv, UNCHANGED <<pp, ppStats, arrivals>>,
         Handshaking' = Handshaking \/ ~pp
  PROVE  CountsOK'
BY DEF ListenInv, CountsOK, HandshakesCounted, Handshaking

LEMMA KeepVetted ==
  ASSUME SourcesAreVetted, UNCHANGED <<pp, allow, resolved>>
  PROVE  SourcesAreVetted'
BY DEF SourcesAreVetted, allows

(* The handshake is over: the connection goes on or ends. *)
LEMMA PassesConn ==
  ASSUME ListenInv, NEW c \in Conns, NEW src \in Peers, NEW local \in BOOLEAN,
         conn[c].at = "pp", Passes(c, src, local), UNCHANGED <<pp, allow>>,
         local \/ src # conn[c].peer => pp /\ PpAllows(conn[c].peer, conn[c].mapped)
  PROVE  ConnsOK' /\ PermitsOK' /\ Handshaking' = Handshaking \ {c}
<1>0. conn[c] # Closed /\ ConnOK(conn[c]) /\ conn[c] \in ConnType
  BY ClosedIsNot DEF ListenInv, ConnsOK, ConnOK
<1>1. CASE admits(src, local)
  <2> DEFINE x == [conn[c] EXCEPT !.at = IF conn[c].on = "tcp" THEN "idle" ELSE "tls",
                                  !.src = src, !.local = local]
  <2>1. conn' = [conn EXCEPT ![c] = x] /\ UNCHANGED free
    BY <1>1 DEF Passes, ListenInv, ConnsOK
  <2>2. /\ x \in ConnType /\ x.on = conn[c].on /\ x.at \in {"idle", "tls"}
        /\ x.src = src /\ x.local = local /\ x.peer = conn[c].peer /\ x.mapped = conn[c].mapped
        /\ x.asked = conn[c].asked /\ x.answered = conn[c].answered
    BY <1>0 DEF ConnType
  <2> HIDE DEF x
  <2>3. Vetted(x)
    BY <1>1, <2>2 DEF Vetted, admits
  <2>4. ConnOK(x)
    BY <1>0, <2>2, <2>3 DEF ConnOK
  <2> QED BY <1>0, <2>1, <2>2, <2>4, GoOn
<1>2. CASE ~admits(src, local)
  BY <1>0, <1>2, EndConn DEF Passes
<1> QED BY <1>1, <1>2

-----------------------------------------------------------------------------
(* accept_loop takes a permit and opens a connection. *)
LEMMA AcceptStep ==
  ASSUME ListenInv, NEW c \in Conns, NEW l \in Listening, NEW p \in Peers, NEW m \in BOOLEAN,
         Accept(c, l, p, m)
  PROVE  ListenInv'
<1> DEFINE x == [at |-> "pp", on |-> l, peer |-> p, mapped |-> m, src |-> p, local |-> FALSE,
                 asked |-> <<>>, answered |-> <<>>]
<1>1. ConnOK(x) /\ x \in ConnType /\ x.on = l /\ x.at = "pp" /\ x # Closed
  BY DEF ConnOK, ConnType, Closed
<1>u. UNCHANGED <<pp, allow, ppStats, resolved>> /\ arrivals' = arrivals + 1 /\ conn[c] = Closed
  BY DEF Accept, Arrives
<1>2. conn' = [conn EXCEPT ![c] = x]
  BY DEF Accept
<1> HIDE DEF x
<1>3. /\ conn'[c] = x /\ \A d \in Conns \ {c} : conn'[d] = conn[d]
      /\ conn' \in [Conns -> ConnType \cup {Closed}]
  BY <1>1, <1>2 DEF ListenInv, ConnsOK
<1>4. ConnsOK'
  BY <1>1, <1>3, <1>u DEF ListenInv, ConnsOK, ConnOK, Vetted, allows
<1>5. ASSUME NEW k \in Listening, Limited(k)
      PROVE  free'[k] \in Nat /\ free'[k] + Cardinality(LiveOn(k)') = MAX_CONNECTIONS
  <2>0. /\ free[k] \in Nat /\ free[k] + Cardinality(LiveOn(k)) = MAX_CONNECTIONS
        /\ LiveOn(k) \in SUBSET Conns
    BY <1>5 DEF ListenInv, PermitsOK, PermitsAccounted, LiveOn
  <2>1. CASE k = l
    <3>1. LiveOn(k)' = LiveOn(k) \cup {c} /\ c \in Conns \ LiveOn(k)
      BY <1>1, <1>3, <1>u, <2>1 DEF LiveOn
    <3>2. free'[k] = free[k] - 1 /\ free[k] > 0
      BY <1>5, <2>1 DEF Accept, ListenInv, PermitsOK
    <3>3. Cardinality(LiveOn(k)') = Cardinality(LiveOn(k)) + 1 /\ Cardinality(LiveOn(k)) \in Nat
      BY <2>0, <3>1, CardSteps
    <3> QED BY <2>0, <3>2, <3>3
  <2>2. CASE k # l
    <3>1. LiveOn(k)' = LiveOn(k)
      BY <1>1, <1>3, <1>u, <2>2 DEF LiveOn
    <3>2. free'[k] = free[k]
      BY <2>2 DEF Accept, ListenInv, PermitsOK
    <3> QED BY <2>0, <3>1, <3>2
  <2> QED BY <2>1, <2>2
<1>6. free' \in [Listening -> Nat]
  BY DEF Accept, ListenInv, PermitsOK
<1>7. PermitsOK'
  BY <1>5, <1>6 DEF PermitsOK, PermitsAccounted, LiveOn
<1>8. Handshaking' = Handshaking \cup {c} /\ c \in Conns \ Handshaking /\ Handshaking \in SUBSET Conns
  BY <1>1, <1>3, <1>u, ClosedIsNot DEF Handshaking
<1>9. Cardinality(Handshaking') = Cardinality(Handshaking) + 1 /\ Cardinality(Handshaking) \in Nat
  BY <1>8, CardSteps
<1>10. CountsOK'
  <2>1. /\ ppStats \in [Counters -> Nat] /\ arrivals \in Nat /\ HandshakesCounted
    BY DEF ListenInv, CountsOK
  <2>2. HandshakesCounted'
    BY <1>9, <1>u, <2>1 DEF HandshakesCounted, Handshaking, Counters
  <2> QED BY <1>u, <2>1, <2>2 DEF CountsOK
<1> QED BY <1>4, <1>7, <1>10, <1>u, KeepVetted DEF ListenInv

LEMMA HandshakeStep ==
  ASSUME ListenInv, NEW c \in Conns,
         \/ NoProxy(c) \/ Untrusted(c)
         \/ \E src \in Peers, local \in BOOLEAN : ProxyHeader(c, src, local)
         \/ \E k \in {"signature", "timeout"} : ProxyHeaderFails(c, k)
  PROVE  ListenInv'
<1>u. UNCHANGED <<pp, allow, resolved, arrivals>> /\ conn[c].at = "pp"
  BY DEF NoProxy, Untrusted, ProxyHeader, ProxyHeaderFails
<1>0. conn[c] # Closed /\ conn[c] \in ConnType /\ conn[c].peer \in Peers
  BY <1>u, ClosedIsNot DEF ListenInv, ConnsOK, ConnType
<1>1. CASE NoProxy(c)
  <2>1. ConnsOK' /\ PermitsOK'
    BY <1>0, <1>1, <1>u, PassesConn DEF NoProxy
  <2>2. CountsOK'
    BY <1>1, <1>u, NotCounted DEF NoProxy
  <2> QED BY <1>u, <2>1, <2>2, KeepVetted DEF ListenInv
<1>2. CASE Untrusted(c) \/ \E k \in {"signature", "timeout"} : ProxyHeaderFails(c, k)
  <2>1. ConnsOK' /\ PermitsOK' /\ Handshaking' = Handshaking \ {c}
    BY <1>0, <1>2, <1>u, EndConn DEF Untrusted, ProxyHeaderFails
  <2>2. PICK k \in Counters : Count(k)
    BY <1>2 DEF Untrusted, ProxyHeaderFails, Counters
  <2>3. CountsOK'
    BY <1>u, <2>1, <2>2, CountedOnce
  <2> QED BY <1>u, <2>1, <2>3, KeepVetted DEF ListenInv
<1>3. ASSUME NEW src \in Peers, NEW local \in BOOLEAN, ProxyHeader(c, src, local) PROVE ListenInv'
  <2>1. ConnsOK' /\ PermitsOK' /\ Handshaking' = Handshaking \ {c}
    BY <1>3, <1>u, PassesConn DEF ProxyHeader
  <2>2. PICK k \in Counters : Count(k)
    BY <1>3 DEF ProxyHeader, Counters
  <2>3. CountsOK'
    BY <1>u, <2>1, <2>2, CountedOnce
  <2> QED BY <1>u, <2>1, <2>3, KeepVetted DEF ListenInv
<1> QED BY <1>1, <1>2, <1>3

(* A connection past its handshake ends or goes on. *)
LEMMA PastHandshake ==
  ASSUME ListenInv, NEW c \in Conns, conn[c].at \notin {"pp", "closed"},
         UNCHANGED <<pp, allow, ppStats, arrivals>>, SourcesAreVetted',
         \/ End(c)
         \/ UNCHANGED free /\ \E x : /\ conn' = [conn EXCEPT ![c] = x] /\ ConnOK(x)
                                     /\ x.on = conn[c].on /\ x.at # "pp"
  PROVE  ListenInv'
<1>0. conn[c] # Closed /\ c \notin Handshaking
  BY ClosedIsNot DEF ListenInv, Handshaking
<1>1. ConnsOK' /\ PermitsOK' /\ Handshaking' = Handshaking \ {c}
  BY <1>0, EndConn, GoOn
<1>2. CountsOK'
  BY <1>0, <1>1, NotCounted
<1> QED BY <1>1, <1>2 DEF ListenInv

LEMMA TlsStep ==
  ASSUME ListenInv, NEW c \in Conns, TlsDone(c) \/ TlsFails(c) \/ Hangup(c) \/ Timeout(c) \/ Answer(c)
  PROVE  ListenInv'
<1>0. /\ conn[c].at \notin {"pp", "closed"} /\ UNCHANGED <<pp, allow, ppStats, resolved, arrivals>>
      /\ SourcesAreVetted'
  BY KeepVetted DEF TlsDone, TlsFails, Hangup, Timeout, Answer, ListenInv
<1>1. conn[c] # Closed /\ ConnOK(conn[c])
  BY <1>0, ClosedIsNot DEF ListenInv, ConnsOK
<1>2. CASE TlsDone(c) \/ Answer(c)
  <2>1. PICK s \in {"idle", "writing"} : To(c, s)
                                         /\ (s = "idle" <=> conn[c].at = "tls")
                                         /\ (s = "writing" <=> conn[c].at \in {"resolving", "refused"})
    BY <1>2 DEF TlsDone, Answer
  <2> DEFINE x == [conn[c] EXCEPT !.at = s]
  <2>2. conn' = [conn EXCEPT ![c] = x] /\ UNCHANGED free
    BY <2>1 DEF To, ListenInv, ConnsOK
  <2>3. /\ x \in ConnType /\ x.at = s /\ x.on = conn[c].on /\ x.peer = conn[c].peer
        /\ x.src = conn[c].src /\ x.local = conn[c].local /\ x.mapped = conn[c].mapped
        /\ x.asked = conn[c].asked /\ x.answered = conn[c].answered
    BY <1>1 DEF ConnOK, ConnType
  <2> HIDE DEF x
  <2>4. ConnOK(x)
    BY <1>1, <2>1, <2>3 DEF ConnOK, Vetted
  <2> QED BY <1>0, <2>2, <2>3, <2>4, PastHandshake
<1>3. CASE TlsFails(c) \/ Hangup(c) \/ Timeout(c)
  BY <1>0, <1>3, PastHandshake DEF TlsFails, Hangup, Timeout
<1> QED BY <1>2, <1>3

(* Took: a frame was read on a connection that owed nothing. *)
LEMMA TookStep ==
  ASSUME ListenInv, NEW c \in Conns, NEW good \in BOOLEAN, conn[c].at = "idle", Took(c, good),
         UNCHANGED <<pp, allow, ppStats, arrivals>>
  PROVE  ListenInv'
<1>1. conn[c] # Closed /\ ConnOK(conn[c]) /\ conn[c] \in ConnType
  BY ClosedIsNot DEF ListenInv, ConnsOK, ConnOK
<1> DEFINE kind == IF good THEN "query" ELSE "error"
           more == Append(conn[c].asked, kind)
           x == [conn[c] EXCEPT !.at = IF good THEN "resolving" ELSE "refused", !.asked = more]
<1>2. conn' = [conn EXCEPT ![c] = x] /\ UNCHANGED free
  BY DEF Took, ListenInv, ConnsOK
<1>3. /\ conn[c].asked \in Seq({"query", "error"}) /\ conn[c].answered \in Seq({"query", "error"})
      /\ more \in Seq({"query", "error"})
  BY <1>1 DEF ConnType
<1> HIDE DEF more
<1>4. /\ x \in ConnType /\ x.at \in {"resolving", "refused"} /\ x.on = conn[c].on
      /\ x.peer = conn[c].peer /\ x.src = conn[c].src /\ x.local = conn[c].local
      /\ x.mapped = conn[c].mapped
      /\ x.asked = more /\ x.answered = conn[c].answered
  BY <1>1, <1>3 DEF ConnType
<1> HIDE DEF x
<1>5. /\ Len(x.asked) = Len(conn[c].asked) + 1
      /\ \A i \in 1..Len(conn[c].asked) : x.asked[i] = conn[c].asked[i]
  BY <1>3, <1>4 DEF more
<1>6. ConnOK(x)
  <2>1. Len(conn[c].asked) = Len(conn[c].answered)
    BY <1>1 DEF ConnOK
  <2>2. \A i \in 1..Len(x.answered) : x.answered[i] = x.asked[i]
    BY <1>1, <1>4, <1>5, <2>1 DEF ConnOK
  <2>3. Vetted(x)
    BY <1>1, <1>4 DEF ConnOK, Vetted
  <2> QED BY <1>1, <1>3, <1>4, <1>5, <2>1, <2>2, <2>3 DEF ConnOK
<1>7. SourcesAreVetted'
  <2> DEFINE r == [peer |-> conn[c].peer, mapped |-> conn[c].mapped,
                   src |-> conn[c].src, local |-> conn[c].local]
  <2>1. resolved' = resolved \/ resolved' = resolved \cup {r}
    BY DEF Took
  <2>2. /\ allows(r.src) \/ (r.local /\ pp /\ PpAllows(r.peer, r.mapped))
        /\ r.src # r.peer => pp /\ PpAllows(r.peer, r.mapped)
    BY <1>1 DEF ConnOK, Vetted
  <2> HIDE DEF r
  <2> QED BY <2>1, <2>2 DEF ListenInv, SourcesAreVetted, allows
<1> QED BY <1>2, <1>4, <1>6, <1>7, PastHandshake

LEMMA FrameStep ==
  ASSUME ListenInv, NEW c \in Conns, NEW f \in {"good", "bad", "oversized"},
         Frame(c, f) \/ DohRequest(c, f)
  PROVE  ListenInv'
<1>1. conn[c].at = "idle" /\ UNCHANGED <<pp, allow, ppStats, arrivals>>
  BY DEF Frame, DohRequest
<1>2. CASE \E good \in BOOLEAN : Took(c, good)
  BY <1>1, <1>2, TookStep
<1>3. CASE End(c) /\ UNCHANGED resolved
  BY <1>1, <1>3, PastHandshake, KeepVetted DEF ListenInv
<1> QED BY <1>2, <1>3 DEF Frame, DohRequest

(* The answer to the frame read last goes out. *)
LEMMA WrittenStep ==
  ASSUME ListenInv, NEW c \in Conns, Written(c)
  PROVE  ListenInv'
<1>0. /\ conn[c].at = "writing" /\ UNCHANGED <<pp, allow, free, ppStats, resolved, arrivals>>
      /\ SourcesAreVetted'
  BY KeepVetted DEF Written, ListenInv
<1>1. ConnOK(conn[c]) /\ conn[c] \in ConnType
  BY <1>0, ClosedIsNot DEF ListenInv, ConnsOK, ConnOK
<1> DEFINE next == conn[c].asked[Len(conn[c].answered) + 1]
           more == Append(conn[c].answered, next)
           x == [conn[c] EXCEPT !.at = "idle", !.answered = more]
<1>2. conn' = [conn EXCEPT ![c] = x]
  BY DEF Written, ListenInv, ConnsOK
<1>3. /\ conn[c].asked \in Seq({"query", "error"}) /\ conn[c].answered \in Seq({"query", "error"})
      /\ Len(conn[c].asked) = Len(conn[c].answered) + 1
  BY <1>0, <1>1 DEF ConnType, ConnOK
<1>4. next \in {"query", "error"}
  BY <1>3
<1>5. /\ more \in Seq({"query", "error"}) /\ Len(more) = Len(conn[c].answered) + 1
      /\ \A i \in 1..Len(conn[c].answered) : more[i] = conn[c].answered[i]
      /\ more[Len(conn[c].answered) + 1] = next
  BY <1>3, <1>4
<1> HIDE DEF more
<1>6. /\ x \in ConnType /\ x.at = "idle" /\ x.on = conn[c].on
      /\ x.peer = conn[c].peer /\ x.src = conn[c].src /\ x.local = conn[c].local
      /\ x.mapped = conn[c].mapped
      /\ x.asked = conn[c].asked /\ x.answered = more
  BY <1>1, <1>5 DEF ConnType
<1> HIDE DEF x
<1>7. \A i \in 1..Len(more) : more[i] = conn[c].asked[i]
  BY <1>1, <1>3, <1>5 DEF ConnOK
<1>8. ConnOK(x)
  BY <1>0, <1>1, <1>3, <1>5, <1>6, <1>7 DEF ConnOK, Vetted
<1> QED BY <1>0, <1>2, <1>6, <1>8, PastHandshake

(* udp_serve_loop: one count and at most one query per datagram. *)
LEMMA DatagramStep ==
  ASSUME ListenInv, NEW p \in Peers, NEW m \in BOOLEAN, NEW h \in {"none", "local", "proxy"},
         NEW s \in Peers, Datagram(p, m, h, s)
  PROVE  ListenInv'
<1> DEFINE r     == parse_if_trusted(p, m, h, s)
           local == r.count = {"local"}
<1>u. UNCHANGED <<pp, allow, conn, free>> /\ arrivals' = arrivals + 1
  BY DEF Datagram, Arrives
<1>1. /\ ppStats' = [k \in Counters |-> ppStats[k] + IF k \in r.count THEN 1 ELSE 0]
      /\ resolved' = resolved
         \/ /\ r.to = "query" /\ admits(r.src, local)
            /\ resolved' = resolved \cup {[peer |-> p, mapped |-> m, src |-> r.src, local |-> local]}
  BY DEF Datagram
<1>2. /\ r.to = "query" /\ (local \/ r.src # p) => pp /\ PpAllows(p, m)
      /\ pp => \E k \in Counters : r.count = {k}
  BY DEF parse_if_trusted, Counters
<1> HIDE DEF r
<1>3. SourcesAreVetted'
  <2> DEFINE a == [peer |-> p, mapped |-> m, src |-> r.src, local |-> local]
  <2>1. CASE resolved' = resolved
    BY <1>u, <2>1, KeepVetted DEF ListenInv
  <2>2. CASE /\ r.to = "query" /\ admits(r.src, local)
             /\ resolved' = resolved \cup {a}
    <3>1. /\ allows(a.src) \/ (a.local /\ pp /\ PpAllows(a.peer, a.mapped))
          /\ a.src # a.peer => pp /\ PpAllows(a.peer, a.mapped)
      BY <1>2, <2>2 DEF admits
    <3> HIDE DEF a
    <3> QED BY <1>u, <2>2, <3>1 DEF ListenInv, SourcesAreVetted, allows
  <2> QED BY <1>1, <2>1, <2>2
<1>4. ConnsOK' /\ PermitsOK' /\ Handshaking' = Handshaking
  BY <1>u DEF ListenInv, ConnsOK, ConnOK, Vetted, allows, PermitsOK, PermitsAccounted, Handshaking
<1>5. CountsOK'
  <2>1. ppStats \in [Counters -> Nat] /\ arrivals \in Nat /\ HandshakesCounted
    BY DEF ListenInv, CountsOK
  <2>2. ppStats' \in [Counters -> Nat] /\ arrivals' \in Nat
    BY <1>1, <1>u, <2>1
  <2>3. Cardinality(Handshaking) \in Nat
    BY CardSteps DEF Handshaking
  <2>4. HandshakesCounted'
    <3>1. CASE ~pp
      BY <1>u, <3>1 DEF HandshakesCounted
    <3>2. CASE pp
      <4>1. PICK k \in Counters : r.count = {k}
        BY <1>2, <3>2
      <4>2. \A j \in Counters : ppStats'[j] = IF j = k THEN ppStats[j] + 1 ELSE ppStats[j]
        BY <1>1, <2>1, <4>1
      <4> QED BY <1>4, <1>u, <2>1, <2>3, <3>2, <4>2 DEF HandshakesCounted, Handshaking, Counters
    <3> QED BY <3>1, <3>2
  <2> QED BY <2>2, <2>4 DEF CountsOK
<1> QED BY <1>3, <1>4, <1>5 DEF ListenInv

LEMMA ListenNextInv == ListenInv /\ [ListenNext]_listenVars => ListenInv'
<1> SUFFICES ASSUME ListenInv, [ListenNext]_listenVars PROVE ListenInv'
  OBVIOUS
<1>1. CASE UNCHANGED listenVars
  BY <1>1 DEF listenVars, ListenInv, ConnsOK, ConnOK, Vetted, allows, SourcesAreVetted, PermitsOK,
              PermitsAccounted, CountsOK, HandshakesCounted
<1>2. ASSUME NEW c \in Conns, TlsDone(c) \/ TlsFails(c) \/ Answer(c) \/ Hangup(c) \/ Timeout(c)
      PROVE  ListenInv'
  BY <1>2, TlsStep
<1> QED BY <1>1, <1>2, AcceptStep, HandshakeStep, FrameStep, WrittenStep, DatagramStep DEF ListenNext

LEMMA ListenInvHolds == ListenSpec => []ListenInv
BY ListenInitInv, ListenNextInv, PTL DEF ListenSpec

(* For any number of connections, permits, clients and frames: nothing is
   resolved for a source the access list does not admit, answers come in the
   order of the frames, no permit is lost and every PROXY handshake is counted
   once (src/src/tcp.rs, src/src/dot.rs, src/src/pp2.rs, src/src/acl.rs). *)
THEOREM ConnectionsAreVettedThm == ListenSpec => []ConnectionsAreVetted
<1>1. ASSUME ListenInv PROVE AnswersInOrder
  <2> SUFFICES ASSUME NEW c \in Conns, conn[c] # Closed
               PROVE  LET done == Len(conn[c].answered) IN
                      /\ conn[c].answered = SubSeq(conn[c].asked, 1, done)
                      /\ conn[c].at = "idle" => Len(conn[c].asked) = done
    BY DEF AnswersInOrder
  <2>1. ConnOK(conn[c]) /\ conn[c].asked \in Seq({"query", "error"})
        /\ conn[c].answered \in Seq({"query", "error"})
    BY <1>1 DEF ListenInv, ConnsOK, ConnOK, ConnType
  <2>2. /\ Len(conn[c].answered) <= Len(conn[c].asked)
        /\ \A i \in 1..Len(conn[c].answered) : conn[c].answered[i] = conn[c].asked[i]
        /\ conn[c].at = "idle" => Len(conn[c].asked) = Len(conn[c].answered)
    BY <2>1 DEF ConnOK
  <2> QED BY <2>1, <2>2
<1>2. ListenInv => ConnectionsAreVetted
  BY <1>1 DEF ListenInv, PermitsOK, CountsOK, ConnectionsAreVetted
<1> QED BY <1>2, ListenInvHolds, PTL

-----------------------------------------------------------------------------
(* Induction over the naturals, for a set of numbers: a set has a least
   element, and what holds of 0 and is handed on holds of all. *)
LEMMA Least ==
  ASSUME NEW T \in SUBSET Nat, T # {}
  PROVE  \E x \in T : \A y \in T : x <= y
<1>1. PICK x \in T : \A y \in T : ~(<<y, x>> \in OpToRel(<, Nat))
  BY NatLessThanWellFounded, WFMin, Zenon
<1>2. \A y \in T : ~(y < x)
  BY <1>1 DEF OpToRel
<1> QED BY <1>2

LEMMA SetInduction ==
  ASSUME NEW T, 0 \in T, \A n \in Nat : n \in T => n + 1 \in T
  PROVE  Nat \subseteq T
<1> SUFFICES ASSUME Nat \ T # {} PROVE FALSE
  OBVIOUS
<1>1. PICK x \in Nat \ T : \A y \in Nat \ T : x <= y
  BY Least
<1>2. x - 1 \in T /\ x - 1 \in Nat
  BY <1>1
<1> QED BY <1>1, <1>2

(* The body of OnlyUpTo. *)
FilterBody(s, S, g) ==
  [i \in 0..Len(s) |->
     IF i = 0 THEN <<>> ELSE IF s[i] \in S THEN Append(g[i - 1], s[i]) ELSE g[i - 1]]

LEMMA OnlyUpToExists ==
  ASSUME NEW s, NEW S, Len(s) \in Nat
  PROVE  \E g : g = FilterBody(s, S, g)
<1> DEFINE Val(g, i) ==
             IF i = 0 THEN <<>> ELSE IF s[i] \in S THEN Append(g[i - 1], s[i]) ELSE g[i - 1]
           P(n) == \E g : g = [i \in 0..n |-> Val(g, i)]
           T == {n \in Nat : P(n)}
<1>1. P(0)
  <2>1. [i \in 0..0 |-> <<>>] = [i \in 0..0 |-> Val([j \in 0..0 |-> <<>>], i)]
    OBVIOUS
  <2> QED BY <2>1
<1>2. ASSUME NEW n \in Nat, P(n) PROVE P(n + 1)
  <2>1. PICK g : g = [i \in 0..n |-> Val(g, i)]
    BY <1>2
  <2> DEFINE h == [i \in 0..(n + 1) |-> IF i = n + 1 THEN Val(g, i) ELSE g[i]]
  <2>2. ASSUME NEW i \in 0..(n + 1) PROVE h[i] = Val(h, i)
    <3>1. CASE i = n + 1
      BY <3>1
    <3>2. CASE i \in 0..n
      <4>1. h[i] = g[i] /\ g[i] = Val(g, i)
        BY <2>1, <3>2
      <4>2. i = 0 \/ h[i - 1] = g[i - 1]
        BY <3>2
      <4> QED BY <4>1, <4>2
    <3> QED BY <3>1, <3>2
  <2> HIDE DEF Val
  <2>3. h = [i \in 0..(n + 1) |-> h[i]]
    OBVIOUS
  <2> HIDE DEF h
  <2>4. h = [i \in 0..(n + 1) |-> Val(h, i)]
    BY <2>2, <2>3
  <2> QED BY <2>4
<1> HIDE DEF P
<1>3. Nat \subseteq T
  <2>1. 0 \in T /\ \A n \in Nat : n \in T => n + 1 \in T
    BY <1>1, <1>2
  <2> HIDE DEF T
  <2> QED BY <2>1, SetInduction
<1>4. P(Len(s))
  BY <1>3
<1> QED BY <1>4 DEF P, FilterBody

LEMMA OnlyUpToDef ==
  ASSUME NEW s, NEW S, Len(s) \in Nat
  PROVE  \A i \in 0..Len(s) : OnlyUpTo(s, S)[i] =
           IF i = 0 THEN <<>>
           ELSE IF s[i] \in S THEN Append(OnlyUpTo(s, S)[i - 1], s[i]) ELSE OnlyUpTo(s, S)[i - 1]
<1> DEFINE f == OnlyUpTo(s, S)
           Val(i) == IF i = 0 THEN <<>> ELSE IF s[i] \in S THEN Append(f[i - 1], s[i]) ELSE f[i - 1]
<1>1. f = CHOOSE g : g = FilterBody(s, S, g)
  BY DEF OnlyUpTo, FilterBody
<1>2. f = FilterBody(s, S, f)
  BY <1>1, OnlyUpToExists, Zenon
<1> HIDE DEF f
<1>3. f = [i \in 0..Len(s) |-> Val(i)]
  BY <1>2 DEF FilterBody
<1> HIDE DEF Val
<1>4. \A i \in 0..Len(s) : f[i] = Val(i)
  BY <1>3
<1> QED BY <1>4 DEF f, Val

(* Only keeps elements of the sequence that are in the set, and nothing else;
   and it keeps a sequence all of whose elements are in the set as it is. *)
LEMMA OnlyKeeps ==
  ASSUME NEW A, NEW s \in Seq(A), NEW S
  PROVE  Only(s, S) \in Seq(A \cap S)
<1> DEFINE f == OnlyUpTo(s, S)
           P(n) == n <= Len(s) => f[n] \in Seq(A \cap S)
           T == {n \in Nat : P(n)}
<1>1. Len(s) \in Nat
  OBVIOUS
<1>2. \A i \in 0..Len(s) : f[i] =
        IF i = 0 THEN <<>> ELSE IF s[i] \in S THEN Append(f[i - 1], s[i]) ELSE f[i - 1]
  BY <1>1, OnlyUpToDef
<1> HIDE DEF f
<1>3. P(0)
  <2>1. f[0] = <<>>
    BY <1>1, <1>2
  <2> QED BY <2>1
<1>4. ASSUME NEW n \in Nat, P(n) PROVE P(n + 1)
  <2> SUFFICES ASSUME n + 1 <= Len(s) PROVE f[n + 1] \in Seq(A \cap S)
    OBVIOUS
  <2>1. f[n + 1] = IF s[n + 1] \in S THEN Append(f[n], s[n + 1]) ELSE f[n]
    BY <1>1, <1>2
  <2>2. f[n] \in Seq(A \cap S) /\ s[n + 1] \in A
    BY <1>1, <1>4
  <2> QED BY <2>1, <2>2
<1> HIDE DEF P
<1>5. Nat \subseteq T
  <2>1. 0 \in T /\ \A n \in Nat : n \in T => n + 1 \in T
    BY <1>3, <1>4
  <2> HIDE DEF T
  <2> QED BY <2>1, SetInduction
<1>6. P(Len(s))
  BY <1>1, <1>5
<1> QED BY <1>6, <1>1 DEF P, Only, f

LEMMA OnlyAll ==
  ASSUME NEW S, NEW s \in Seq(S)
  PROVE  Only(s, S) = s
<1> DEFINE f == OnlyUpTo(s, S)
           P(n) == n <= Len(s) => f[n] = SubSeq(s, 1, n)
           T == {n \in Nat : P(n)}
<1>1. Len(s) \in Nat
  OBVIOUS
<1>2. \A i \in 0..Len(s) : f[i] =
        IF i = 0 THEN <<>> ELSE IF s[i] \in S THEN Append(f[i - 1], s[i]) ELSE f[i - 1]
  BY <1>1, OnlyUpToDef
<1> HIDE DEF f
<1>3. P(0)
  <2>1. f[0] = <<>>
    BY <1>1, <1>2
  <2> QED BY <2>1
<1>4. ASSUME NEW n \in Nat, P(n) PROVE P(n + 1)
  <2> SUFFICES ASSUME n + 1 <= Len(s) PROVE f[n + 1] = SubSeq(s, 1, n + 1)
    OBVIOUS
  <2>1. f[n + 1] = IF s[n + 1] \in S THEN Append(f[n], s[n + 1]) ELSE f[n]
    BY <1>1, <1>2
  <2>2. f[n] = SubSeq(s, 1, n) /\ s[n + 1] \in S
    BY <1>1, <1>4
  <2>3. Append(SubSeq(s, 1, n), s[n + 1]) = SubSeq(s, 1, n + 1)
    BY <1>1
  <2> QED BY <2>1, <2>2, <2>3
<1> HIDE DEF P
<1>5. Nat \subseteq T
  <2>1. 0 \in T /\ \A n \in Nat : n \in T => n + 1 \in T
    BY <1>3, <1>4
  <2> HIDE DEF T
  <2> QED BY <2>1, SetInduction
<1>6. f[Len(s)] = SubSeq(s, 1, Len(s))
  BY <1>1, <1>5 DEF P
<1>7. SubSeq(s, 1, Len(s)) = s
  OBVIOUS
<1> QED BY <1>6, <1>7 DEF Only, f

-----------------------------------------------------------------------------
(* Records and responses are what the operators of PipelineOps build. *)
IsRec(r) == r = [name |-> r.name, type |-> r.type, data |-> r.data]
IsAnswers(a) == \E A : a \in Seq(A) /\ \A r \in A : IsRec(r)
ResponseFields == {"rcode", "answers", "ad", "edns", "tc"}
IsResponse(r) == r = [f \in ResponseFields |-> r[f]] /\ IsAnswers(r.answers)

(* What resolve_remote hands back: one of the paths and a response. *)
RemoteResponds ==
  \A n, t : \A r \in Remote(n, t) : r.path \in Paths /\ IsResponse(r.resp)

LEMMA RecIsRec == \A n, t, d : IsRec(Rec(n, t, d))
BY DEF IsRec, Rec

LEMMA AnswersOf ==
  ASSUME NEW A, NEW a \in Seq(A), \A r \in A : IsRec(r)
  PROVE  IsAnswers(a)
BY DEF IsAnswers

LEMMA AnswersJoin ==
  ASSUME NEW a, NEW b, IsAnswers(a), IsAnswers(b)
  PROVE  IsAnswers(a \o b)
<1>1. PICK A : a \in Seq(A) /\ \A r \in A : IsRec(r)
  BY DEF IsAnswers
<1>2. PICK B : b \in Seq(B) /\ \A r \in B : IsRec(r)
  BY DEF IsAnswers
<1>3. a \o b \in Seq(A \cup B)
  BY <1>1, <1>2
<1>4. \A r \in A \cup B : IsRec(r)
  BY <1>1, <1>2
<1> QED BY <1>3, <1>4, AnswersOf

(* Records built one by one for the places of a sequence. *)
LEMMA AnswersBuilt ==
  ASSUME NEW a, NEW k \in Nat, a = [i \in 1..k |-> a[i]], \A i \in 1..k : IsRec(a[i])
  PROVE  IsAnswers(a)
<1> DEFINE A == {a[i] : i \in 1..k}
<1>1. a \in Seq(A)
  OBVIOUS
<1>2. \A r \in A : IsRec(r)
  OBVIOUS
<1> QED BY <1>1, <1>2, AnswersOf

LEMMA NoAnswers == IsAnswers(<<>>)
<1> DEFINE A == {}
<1>1. <<>> \in Seq(A) /\ \A r \in A : IsRec(r)
  OBVIOUS
<1> HIDE DEF A
<1> QED BY <1>1, AnswersOf

LEMMA OneAnswer ==
  ASSUME NEW r, IsRec(r)
  PROVE  IsAnswers(<<r>>)
<1> DEFINE A == {r}
<1>1. <<r>> \in Seq(A) /\ \A x \in A : IsRec(x)
  OBVIOUS
<1> HIDE DEF A
<1> QED BY <1>1, AnswersOf

LEMMA ResponseIs ==
  ASSUME NEW rcode, NEW a, IsAnswers(a)
  PROVE  IsResponse(Response(rcode, a))
BY DEF IsResponse, ResponseFields, Response

LEMMA AnswerRecord == \A n, t, v4, v6 : IsAnswers(answer_record(n, t, v4, v6))
<1> SUFFICES ASSUME NEW n, NEW t, NEW v4, NEW v6 PROVE IsAnswers(answer_record(n, t, v4, v6))
  OBVIOUS
<1>1. answer_record(n, t, v4, v6) \in {<<Rec(n, t, v4)>>, <<Rec(n, t, v6)>>, <<>>}
  BY DEF answer_record
<1> QED BY <1>1, NoAnswers, OneAnswer, RecIsRec

LEMMA SpecialUse == \A n, t : IsResponse(special_use_response(n, t))
<1> SUFFICES ASSUME NEW n, NEW t PROVE IsResponse(special_use_response(n, t))
  OBVIOUS
<1> DEFINE two == <<Rec(n, t, "nat64-170"), Rec(n, t, "nat64-171")>>
<1>1. two = <<Rec(n, t, "nat64-170")>> \o <<Rec(n, t, "nat64-171")>>
  OBVIOUS
<1>2. IsAnswers(two)
  BY <1>1, OneAnswer, RecIsRec, AnswersJoin
<1>3. IsAnswers(<<Rec(n, t, "nat64-aa")>>)
  BY OneAnswer, RecIsRec
<1> HIDE DEF two
<1>4. special_use_response(n, t) \in
        {Response("NOERROR", two), Response("NOERROR", <<Rec(n, t, "nat64-aa")>>),
         Response("NOERROR", <<>>), Response("NXDOMAIN", <<>>)}
  BY DEF special_use_response, two
<1> QED BY <1>2, <1>3, <1>4, NoAnswers, ResponseIs

LEMMA SingletonSeq ==
  ASSUME NEW r
  PROVE  SetToSeq({r}) = <<r>>
<1>1. Cardinality({r}) = 1
  BY FS_Singleton
<1> DEFINE g == [i \in 1..1 |-> r]
<1>2. g \in [1..1 -> {r}] /\ IsInjective(g)
  BY DEF IsInjective
<1>3. SetToSeq({r}) \in [1..1 -> {r}]
  BY <1>1, <1>2 DEF SetToSeq
<1> QED BY <1>3

(* The records of a zone, in sequences. *)
IsTypes(types) == \A u \in DOMAIN types : \E k \in Nat : DOMAIN types[u] = 1..k

LEMMA ZonesAreBuilt ==
  /\ \A n \in DOMAIN Zones.exact : IsTypes(Zones.exact[n])
  /\ \A n \in DOMAIN Zones.wildcard : IsTypes(Zones.wildcard[n])
<1> DEFINE With(w) == {z \in ToSet(ZoneRecords) : z.wildcard = w}
           Of(w, n) == {z \in With(w) : z.name = n}
           Rrs(w, n, t) == Only(ZoneRecords, {z \in Of(w, n) : z.type = t})
           Values(w, n, t) == [i \in DOMAIN Rrs(w, n, t) |-> Rrs(w, n, t)[i].value]
           Bucket(w) == [n \in {z.name : z \in With(w)} |->
                           [t \in {z.type : z \in Of(w, n)} |-> Values(w, n, t)]]
<1>1. Zones = [exact |-> Bucket(FALSE), wildcard |-> Bucket(TRUE)]
  BY DEF Zones, build_zone_map
<1>2. ASSUME NEW w, NEW n, NEW t PROVE \E k \in Nat : DOMAIN Values(w, n, t) = 1..k
  <2> DEFINE S == {z \in Of(w, n) : z.type = t}
  <2> HIDE DEF S
  <2>1. Only(ZoneRecords, S) \in Seq(ToSet(ZoneRecords) \cap S)
    BY PipelineConstants, OnlyKeeps
  <2> DEFINE rrs == Only(ZoneRecords, S)
  <2>2. Len(rrs) \in Nat /\ DOMAIN rrs = 1..Len(rrs)
    BY <2>1
  <2>3. Values(w, n, t) = [i \in DOMAIN rrs |-> rrs[i].value]
    BY DEF S
  <2> HIDE DEF rrs, Values
  <2> QED BY <2>2, <2>3
<1> HIDE DEF Values
<1>3. ASSUME NEW w PROVE \A n \in DOMAIN Bucket(w) : IsTypes(Bucket(w)[n])
  BY <1>2 DEF IsTypes
<1> HIDE DEF Bucket
<1> QED BY <1>1, <1>3

LEMMA Chosen ==
  ASSUME NEW types, NEW n, NEW t, IsTypes(types)
  PROVE  IsAnswers(Choose(types, n, t))
<1> DEFINE Records(u) == [i \in DOMAIN types[u] |-> Rec(n, u, types[u][i])]
<1>1. ASSUME NEW u \in DOMAIN types PROVE IsAnswers(Records(u))
  <2>1. PICK k \in Nat : DOMAIN types[u] = 1..k
    BY DEF IsTypes
  <2>2. Records(u) = [i \in 1..k |-> Records(u)[i]] /\ \A i \in 1..k : IsRec(Records(u)[i])
    BY <2>1, RecIsRec
  <2> HIDE DEF Records
  <2> QED BY <2>2, AnswersBuilt
<1>2. \/ t \in DOMAIN types /\ Choose(types, n, t) = Records(t)
      \/ "CNAME" \in DOMAIN types /\ Choose(types, n, t) = Records("CNAME")
      \/ Choose(types, n, t) = <<>>
  BY DEF Choose
<1> HIDE DEF Records
<1> QED BY <1>1, <1>2, NoAnswers

LEMMA ZoneAnswers ==
  ASSUME NEW n, NEW t, NEW z \in ZoneLookup(Zones.exact, Zones.wildcard, n, t)
  PROVE  IsAnswers(z)
<1> DEFINE parents == {i \in 2..Len(n) : SubSeq(n, i, Len(n)) \in DOMAIN Zones.wildcard}
<1>1. \/ n \in DOMAIN Zones.exact /\ z = Choose(Zones.exact[n], n, t)
      \/ \E i \in parents : z = Choose(Zones.wildcard[SubSeq(n, i, Len(n))], n, t)
  BY DEF ZoneLookup
<1> QED BY <1>1, ZonesAreBuilt, Chosen

(* Whether a zone owns a name does not depend on the type asked for. *)
LEMMA ZoneOwns ==
  ASSUME NEW n, NEW t, ZoneLookup(Zones.exact, Zones.wildcard, n, t) = {}
  PROVE  ZoneLookup(Zones.exact, Zones.wildcard, n, "A") = {}
BY DEF ZoneLookup

(* Every local stage gives one response, on a path of its own. *)
LEMMA LocalResponds ==
  ASSUME NEW c, NEW n, NEW t, \A m \in DOMAIN overrides : IsRec(overrides[m].record),
         NEW r \in resolve_local(c, n, t)
  PROVE  r.path \in Paths /\ IsResponse(r.resp)
<1> DEFINE override == LookupOverride(overrides, n, now)
           zone == ZoneLookup(Zones.exact, Zones.wildcard, n, t)
<1>1. override # {} => IsResponse(Response("NOERROR", SetToSeq(override)))
  <2> SUFFICES ASSUME override # {} PROVE IsResponse(Response("NOERROR", SetToSeq(override)))
    OBVIOUS
  <2>1. override = {overrides[n].record} /\ IsRec(overrides[n].record)
    BY DEF LookupOverride
  <2> QED BY <2>1, SingletonSeq, OneAnswer, ResponseIs
<1>2. zone # {} => IsResponse(Response("NOERROR", CHOOSE z \in zone : TRUE))
  BY ZoneAnswers, ResponseIs
<1>3. IsResponse(resolve_proxy_tld(c, n, t))
  BY NoAnswers, AnswerRecord, ResponseIs DEF resolve_proxy_tld
<1>4. IsResponse(Sinkhole(n, t))
  BY AnswerRecord, ResponseIs DEF Sinkhole
<1>5. /\ IsResponse(Response("NOERROR", answer_record(n, t, "127.0.0.1", "::1")))
      /\ IsResponse(Response("NOERROR", <<>>)) /\ IsResponse(special_use_response(n, t))
  BY AnswerRecord, NoAnswers, ResponseIs, SpecialUse
<1> HIDE DEF override, zone
<1>6. \/ override # {} /\ r \in Out("Overridden", Response("NOERROR", SetToSeq(override)))
      \/ zone # {} /\ r \in Out("Local", Response("NOERROR", CHOOSE z \in zone : TRUE))
      \/ r \in Out("Local", Response("NOERROR", answer_record(n, t, "127.0.0.1", "::1")))
      \/ r \in Out("Local", special_use_response(n, t))
      \/ r \in Out("Local", resolve_proxy_tld(c, n, t))
      \/ r \in Out("Blocked", Sinkhole(n, t))
      \/ r \in Out("Local", Response("NOERROR", <<>>))
  BY DEF resolve_local, override, zone
<1>7. \A p, y : r \in Out(p, y) => r.path = p /\ r.resp = y
  BY DEF Out
<1> QED BY <1>1, <1>2, <1>3, <1>4, <1>5, <1>6, <1>7, Zenon DEF Paths

-----------------------------------------------------------------------------
(* What may be sent to a client that must not see private addresses. *)
Clean(a) ==
  \A i \in DOMAIN a :
    /\ a[i].type \in {"A", "AAAA"} => a[i].data \notin Private
    /\ a[i].type = "HTTPS" => a[i].data \cap Private = {}

Plain(a) == \A i \in DOMAIN a : a[i].type \notin DnssecTypes

LEMMA OnlyAnswers ==
  ASSUME NEW a, NEW S, IsAnswers(a)
  PROVE  /\ IsAnswers(Only(a, S))
         /\ \A i \in DOMAIN Only(a, S) : Only(a, S)[i] \in S /\ Only(a, S)[i] \in ToSet(a)
         /\ a = <<>> => Only(a, S) = <<>>
<1> DEFINE b == Only(a, S)
<1>1. a \in Seq(ToSet(a)) /\ \A r \in ToSet(a) : IsRec(r)
  BY DEF IsAnswers, ToSet
<1>2. b \in Seq(ToSet(a) \cap S)
  BY <1>1, OnlyKeeps
<1>3. a = <<>> => ToSet(a) = {}
  BY DEF ToSet
<1> HIDE DEF b
<1>4. \A i \in DOMAIN b : b[i] \in ToSet(a) \cap S
  BY <1>2
<1>5. IsAnswers(b)
  <2>1. \A r \in ToSet(a) \cap S : IsRec(r)
    BY <1>1
  <2> DEFINE A == ToSet(a) \cap S
  <2> HIDE DEF A
  <2> QED BY <1>2, <2>1, AnswersOf DEF A
<1>6. a = <<>> => b = <<>>
  BY <1>2, <1>3
<1> QED BY <1>4, <1>5, <1>6 DEF b

(* Hints taken out of the HTTPS records. *)
WithoutHints(a, X) ==
  [i \in DOMAIN a |-> IF a[i].type = "HTTPS" THEN [a[i] EXCEPT !.data = @ \ X] ELSE a[i]]

LEMMA HintsOut ==
  ASSUME NEW a, NEW X, IsAnswers(a)
  PROVE  /\ IsAnswers(WithoutHints(a, X)) /\ DOMAIN WithoutHints(a, X) = DOMAIN a
         /\ \A i \in DOMAIN a :
              /\ WithoutHints(a, X)[i].type = a[i].type
              /\ WithoutHints(a, X)[i].data = IF a[i].type = "HTTPS" THEN a[i].data \ X ELSE a[i].data
<1> DEFINE b == WithoutHints(a, X)
<1>1. Len(a) \in Nat /\ DOMAIN a = 1..Len(a) /\ \A i \in DOMAIN a : IsRec(a[i])
  BY DEF IsAnswers
<1>2. DOMAIN b = DOMAIN a /\ b = [i \in 1..Len(a) |-> b[i]]
  BY <1>1 DEF WithoutHints
<1>3. ASSUME NEW i \in DOMAIN a
      PROVE  /\ IsRec(b[i]) /\ b[i].type = a[i].type
             /\ b[i].data = IF a[i].type = "HTTPS" THEN a[i].data \ X ELSE a[i].data
  <2>1. IsRec(a[i])
    BY <1>1
  <2>2. b[i] = IF a[i].type = "HTTPS" THEN [a[i] EXCEPT !.data = @ \ X] ELSE a[i]
    BY DEF WithoutHints
  <2> HIDE DEF b
  <2>3. [a[i] EXCEPT !.data = @ \ X] = [name |-> a[i].name, type |-> a[i].type, data |-> a[i].data \ X]
    BY <2>1 DEF IsRec
  <2> QED BY <2>1, <2>2, <2>3 DEF IsRec
<1> HIDE DEF b
<1>4. IsAnswers(b)
  BY <1>1, <1>2, <1>3, AnswersBuilt
<1> QED BY <1>2, <1>3, <1>4 DEF b

(* Rebind protection leaves no private address. *)
LEMMA ScrubCleans ==
  ASSUME NEW a, IsAnswers(a)
  PROVE  IsAnswers(scrub_section(a, Private)) /\ Clean(scrub_section(a, Private))
<1> DEFINE S == {r \in ToSet(a) : ~(r.type \in {"A", "AAAA"} /\ r.data \in Private)}
           kept == Only(a, S)
           b == WithoutHints(kept, Private)
<1>1. scrub_section(a, Private) = b
  BY DEF scrub_section, WithoutHints
<1>2. IsAnswers(kept) /\ \A i \in DOMAIN kept : kept[i] \in S
  BY OnlyAnswers
<1>3. \A i \in DOMAIN kept : ~(kept[i].type \in {"A", "AAAA"} /\ kept[i].data \in Private)
  BY <1>2
<1> HIDE DEF kept
<1>4. /\ IsAnswers(b) /\ DOMAIN b = DOMAIN kept
      /\ \A i \in DOMAIN kept :
           /\ b[i].type = kept[i].type
           /\ b[i].data = IF kept[i].type = "HTTPS" THEN kept[i].data \ Private ELSE kept[i].data
  BY <1>2, HintsOut
<1> HIDE DEF b
<1>5. Clean(b)
  BY <1>3, <1>4 DEF Clean
<1> QED BY <1>1, <1>4, <1>5

(* The final shape has the client's EDNS, DNSSEC records only for DO, and
   nothing in it that was not there. *)
LEMMA ShapeFits ==
  ASSUME NEW resp, NEW x, NEW f, IsResponse(resp)
  PROVE  LET out == shape_response_for_client(resp, x, f, V6)
         IN /\ out.edns = x.edns /\ out.tc = resp.tc
            /\ x.do \/ Plain(out.answers)
            /\ Clean(resp.answers) => Clean(out.answers)
            /\ resp.answers = <<>> => out.answers = <<>>
<1> DEFINE a == resp.answers
           S == {r \in ToSet(a) : r.type \notin DnssecTypes}
           plain == Only(a, S)
           hints == WithoutHints(plain, V6)
           out == shape_response_for_client(resp, x, f, V6)
<1>0. IsAnswers(a)
  BY DEF IsResponse, ResponseFields
<1>1. /\ IsAnswers(plain)
      /\ \A i \in DOMAIN plain : plain[i] \in S /\ plain[i] \in ToSet(a)
      /\ a = <<>> => plain = <<>>
  BY <1>0, OnlyAnswers
<1>2. /\ out.edns = x.edns /\ out.tc = resp.tc
      /\ out.answers = IF x.do THEN a ELSE IF f THEN hints ELSE plain
  BY DEF shape_response_for_client, WithoutHints, IsResponse, ResponseFields
<1>3. /\ Plain(plain)
      /\ Clean(a) => Clean(plain)
  BY <1>1 DEF Plain, Clean, ToSet
<1> HIDE DEF plain, out
<1>4. /\ DOMAIN hints = DOMAIN plain
      /\ \A i \in DOMAIN plain :
           /\ hints[i].type = plain[i].type
           /\ hints[i].data = IF plain[i].type = "HTTPS" THEN plain[i].data \ V6 ELSE plain[i].data
  BY <1>1, HintsOut
<1>5. plain = <<>> => hints = <<>>
  BY DEF WithoutHints
<1> HIDE DEF hints, a
<1>6. Plain(hints) /\ (Clean(plain) => Clean(hints))
  BY <1>3, <1>4 DEF Plain, Clean
<1>7. /\ x.do \/ Plain(out.answers)
      /\ Clean(a) => Clean(out.answers)
      /\ a = <<>> => out.answers = <<>>
  BY <1>1, <1>2, <1>3, <1>5, <1>6
<1> QED BY <1>2, <1>7 DEF a, out

-----------------------------------------------------------------------------
QueryFields ==
  {"at", "name", "type", "do", "edns", "cur", "visited", "resp", "path", "out"}
QueryIs(x) == x = [f \in QueryFields |-> x[f]]

(* A query anywhere on its way: it has a path from its first response on, and
   what the properties say of it. *)
Followed(x) ==
  x.resp.rcode = "NOERROR" =>
    \/ \E i \in DOMAIN x.resp.answers : x.resp.answers[i].type = x.type
    \/ extract_cname_target(x.resp.answers, x.cur) = {}

Fit(x) ==
  /\ RebindExempt(x) \/ Clean(x.out.answers)
  /\ x.out.edns = x.edns
  /\ x.do \/ Plain(x.out.answers)
  /\ x.out.tc => x.resp.tc \/ x.out.answers = <<>>

QueryOK(x) ==
  /\ QueryIs(x) /\ IsResponse(x.resp) /\ (x.path = "" \/ x.path \in Paths)
  /\ x.at \in {"loop", "post", "record", "push"} => x.path \in Paths
  /\ x.at = "post" => Followed(x)
  /\ x.at = "record" => Fit(x)

QueriesOK ==
  /\ q = [c \in DOMAIN Clients |-> q[c]]
  /\ \A c \in DOMAIN Clients : QueryOK(q[c])

(* An override that is in the store has the deadline it was promised; one that
   is gone has passed it. *)
OverridesOK ==
  /\ now \in Nat
  /\ \A n \in DOMAIN overrides :
       /\ IsRec(overrides[n].record)
       /\ n \in DOMAIN promised /\ promised[n] = overrides[n].expires
  /\ \A n \in DOMAIN promised :
       /\ promised[n] \in Nat
       /\ n \in DOMAIN overrides \/ (promised[n] # 0 /\ now >= promised[n])

Pushing == {c \in DOMAIN Clients : q[c].at = "push"}
Room == IF LogCapacity = 0 THEN 1 ELSE LogCapacity

StatsOK ==
  /\ stats = [total |-> stats.total, paths |-> stats.paths]
  /\ stats.paths \in [Paths -> Nat] /\ stats.total = Total(stats.paths)

(* The entries are numbered without a gap up to the last number given out. *)
LogOK ==
  /\ qlog = [entries |-> qlog.entries, next_seq |-> qlog.next_seq]
  /\ qlog.next_seq \in Nat /\ qlog.entries \in Seq([seq : Nat, path : Paths])
  /\ Len(qlog.entries) = IF qlog.next_seq < Room THEN qlog.next_seq ELSE Room
  /\ \A i \in 1..Len(qlog.entries) :
       qlog.entries[i].seq = qlog.next_seq - Len(qlog.entries) + i

AheadOK == stats.total = qlog.next_seq + Cardinality(Pushing)

(* The inductive invariant. *)
PipeInv == QueriesOK /\ LocalNamesStayLocal /\ OverridesOK /\ StatsOK /\ LogOK /\ AheadOK

LEMMA OneQuery ==
  ASSUME QueriesOK, NEW c \in DOMAIN Clients, NEW y, QueryOK(y), q' = [q EXCEPT ![c] = y]
  PROVE  QueriesOK'
BY DEF QueriesOK

LEMMA NoneArePushing ==
  ASSUME QueriesOK, NEW c \in DOMAIN Clients, NEW y, q' = [q EXCEPT ![c] = y],
         q[c].at # "push", y.at # "push"
  PROVE  Pushing' = Pushing
BY DEF QueriesOK, Pushing

LEMMA IdleOK == QueryOK(Idle)
<1>1. IsResponse(NoResp)
  BY NoAnswers, ResponseIs DEF NoResp
<1> QED BY <1>1 DEF QueryOK, QueryIs, QueryFields, Idle

LEMMA TakeOK ==
  ASSUME NEW x, QueryOK(x), NEW r, r.path \in Paths, IsResponse(r.resp)
  PROVE  QueryOK(Take(x, r)) /\ Take(x, r).at = "loop"
<1>1. CASE x.path = ""
  <2>1. Take(x, r) = [x EXCEPT !.at = "loop", !.resp = r.resp, !.path = r.path]
    BY <1>1 DEF Take
  <2> QED BY <2>1 DEF QueryOK, QueryIs, QueryFields
<1>2. CASE x.path # ""
  <2> DEFINE resp == [x.resp EXCEPT !.answers = @ \o r.resp.answers, !.rcode = r.resp.rcode]
  <2>1. Take(x, r) = [x EXCEPT !.at = "loop", !.resp = resp]
    BY <1>2 DEF Take, QueryOK, QueryIs, QueryFields
  <2>2. IsAnswers(x.resp.answers \o r.resp.answers)
    BY AnswersJoin DEF QueryOK, IsResponse, ResponseFields
  <2>3. IsResponse(resp)
    <3>1. x.resp = [f \in ResponseFields |-> x.resp[f]]
      BY DEF QueryOK, IsResponse
    <3>2. resp = [f \in ResponseFields |-> resp[f]]
          /\ resp.answers = x.resp.answers \o r.resp.answers
      BY <3>1 DEF ResponseFields
    <3> QED BY <2>2, <3>2 DEF IsResponse
  <2> HIDE DEF resp
  <2> QED BY <1>2, <2>1, <2>3 DEF QueryOK, QueryIs, QueryFields
<1> QED BY <1>1, <1>2

LEMMA TurnOK ==
  ASSUME NEW x, QueryOK(x), x.at = "loop"
  PROVE  QueryOK(Turn(x)) /\ Turn(x).at # "push"
<1> DEFINE target == extract_cname_target(x.resp.answers, x.cur)
           t == CHOOSE n \in target : TRUE
           found == \/ \E i \in DOMAIN x.resp.answers : x.resp.answers[i].type = x.type
                    \/ x.resp.rcode # "NOERROR" \/ target = {}
           bad == Cardinality(x.visited) > MAX_CNAME_DEPTH \/ t \in x.visited
           failed == Response("SERVFAIL", <<>>)
<1>1. Turn(x) = IF found THEN [x EXCEPT !.at = "post"]
                ELSE IF bad THEN [x EXCEPT !.at = "post", !.resp = failed]
                ELSE [x EXCEPT !.at = "local", !.cur = t, !.visited = @ \cup {t}]
  BY DEF Turn
<1>2. found => Followed([x EXCEPT !.at = "post"])
  BY DEF Followed, QueryOK, QueryIs, QueryFields
<1>3. IsResponse(failed) /\ failed.rcode = "SERVFAIL"
  BY NoAnswers, ResponseIs DEF Response
<1> HIDE DEF found, bad, t, failed
<1>4. CASE found
  BY <1>1, <1>2, <1>4 DEF QueryOK, QueryIs, QueryFields
<1>5. CASE ~found /\ bad
  BY <1>1, <1>3, <1>5 DEF QueryOK, QueryIs, QueryFields, Followed
<1>6. CASE ~found /\ ~bad
  BY <1>1, <1>6 DEF QueryOK, QueryIs, QueryFields
<1> QED BY <1>4, <1>5, <1>6

LEMMA FinishOK ==
  ASSUME NEW c, NEW x, QueryOK(x), x.at = "post", NEW status, NEW size, NEW f
  PROVE  QueryOK([x EXCEPT !.at = "record",
                    !.out = serialize_with_fallback(Scrubbed(x, Validated(x, status)), x, f, size)])
<1> DEFINE valid == Validated(x, status)
           resp == Scrubbed(x, valid)
           out == serialize_with_fallback(resp, x, f, size)
           failed == Response("SERVFAIL", <<>>)
           cut == [Response(resp.rcode, <<>>) EXCEPT !.tc = TRUE]
           y == [x EXCEPT !.at = "record", !.out = out]
<1>1. IsResponse(failed) /\ failed.answers = <<>> /\ failed.tc = FALSE
  BY NoAnswers, ResponseIs DEF Response
<1>2. IsResponse(cut) /\ cut.answers = <<>>
  <2> DEFINE r == Response(resp.rcode, <<>>)
  <2>1. r = [k \in ResponseFields |-> r[k]] /\ r.answers = <<>>
    BY DEF Response, ResponseFields
  <2> HIDE DEF r
  <2>2. cut = [k \in ResponseFields |-> cut[k]] /\ cut.answers = <<>>
    BY <2>1 DEF ResponseFields, r
  <2> QED BY <2>2, NoAnswers DEF IsResponse
<1>3. IsResponse(valid) /\ (valid.tc => x.resp.tc)
  BY <1>1 DEF Validated, QueryOK, IsResponse, ResponseFields
<1> HIDE DEF valid
<1>4. IsResponse(resp) /\ (resp.tc => x.resp.tc) /\ (RebindExempt(x) \/ Clean(resp.answers))
  <2>1. /\ IsAnswers(scrub_section(valid.answers, Private))
        /\ Clean(scrub_section(valid.answers, Private))
    BY <1>3, ScrubCleans DEF IsResponse, ResponseFields
  <2> DEFINE clean == scrub_section(valid.answers, Private)
  <2>2. resp = IF RebindExempt(x) \/ clean = valid.answers THEN valid
               ELSE [valid EXCEPT !.answers = clean, !.ad = FALSE]
    BY DEF Scrubbed
  <2> HIDE DEF clean, resp
  <2>3. CASE RebindExempt(x) \/ clean = valid.answers
    BY <1>3, <2>1, <2>2, <2>3 DEF clean
  <2>4. CASE ~(RebindExempt(x) \/ clean = valid.answers)
    <3>1. IsAnswers(clean) /\ Clean(clean)
      BY <2>1 DEF clean
    <3> QED BY <1>3, <2>2, <2>4, <3>1 DEF IsResponse, ResponseFields
  <2> QED BY <2>3, <2>4
<1> HIDE DEF resp
<1>5. Clean(<<>>)
  BY DEF Clean
<1>6. PICK z : /\ IsResponse(z) /\ out = shape_response_for_client(z, x, f, V6)
               /\ z = resp \/ z.answers = <<>>
  BY <1>1, <1>2, <1>4 DEF serialize_with_fallback
<1>7. /\ RebindExempt(x) \/ Clean(out.answers)
      /\ out.edns = x.edns /\ (x.do \/ Plain(out.answers))
      /\ out.tc => x.resp.tc \/ out.answers = <<>>
  BY <1>4, <1>5, <1>6, ShapeFits
<1> HIDE DEF out
<1>8. QueryIs(y) /\ y.resp = x.resp /\ y.path = x.path /\ y.name = x.name /\ y.edns = x.edns
      /\ y.do = x.do /\ y.out = out /\ y.at = "record"
  <2>1. QueryIs(x)
    BY DEF QueryOK
  <2> QED BY <2>1 DEF QueryIs, QueryFields
<1> HIDE DEF y
<1>9. Fit(y)
  BY <1>7, <1>8 DEF Fit, RebindExempt
<1>10. QueryOK(y)
  BY <1>8, <1>9 DEF QueryOK
<1> QED BY <1>10 DEF y, out, resp, valid

-----------------------------------------------------------------------------
LEMMA PipeInitInv == Init => PipeInv
<1> SUFFICES ASSUME Init PROVE PipeInv
  OBVIOUS
<1>1. QueriesOK /\ Pushing = {}
  <2>1. \A c \in DOMAIN Clients : q[c] = Idle
    BY DEF Init
  <2> QED BY <2>1, IdleOK DEF QueriesOK, Init, Pushing, Idle
<1>2. LocalNamesStayLocal /\ OverridesOK
  BY DEF Init, LocalNamesStayLocal, OverridesOK
<1>3. StatsOK /\ stats.total = 0
  <2> DEFINE zero == [p \in Paths |-> 0]
  <2>1. zero \in [Paths -> Nat] /\ Total(zero) = 0
    BY DEF Total, Paths
  <2>2. stats = [total |-> 0, paths |-> zero]
    BY DEF Init
  <2> HIDE DEF zero
  <2> QED BY <2>1, <2>2 DEF StatsOK
<1>4. LogOK /\ qlog.next_seq = 0
  BY PipelineConstants DEF Init, LogOK, Room
<1>5. AheadOK
  BY <1>1, <1>3, <1>4, FS_EmptySet DEF AheadOK
<1> QED BY <1>1, <1>2, <1>3, <1>4, <1>5 DEF PipeInv

(* Steps of a query that leave the books alone. *)
LEMMA QueryStep ==
  ASSUME PipeInv, NEW c \in DOMAIN Clients, NEW y, QueryOK(y), q' = [q EXCEPT ![c] = y],
         q[c].at # "push", y.at # "push", LocalNamesStayLocal',
         UNCHANGED <<overrides, now, promised, stats, qlog>>
  PROVE  PipeInv'
<1>1. QueriesOK'
  BY OneQuery DEF PipeInv
<1>2. Pushing' = Pushing
  BY NoneArePushing DEF PipeInv
<1>3. OverridesOK' /\ StatsOK' /\ LogOK'
  BY DEF PipeInv, OverridesOK, StatsOK, LogOK
<1>4. AheadOK'
  BY <1>2 DEF PipeInv, AheadOK
<1> QED BY <1>1, <1>3, <1>4 DEF PipeInv

LEMMA SameAsked == LocalNamesStayLocal /\ UNCHANGED asked => LocalNamesStayLocal'
BY DEF LocalNamesStayLocal

LEMMA AskStep ==
  ASSUME PipeInv, NEW c \in DOMAIN Clients, NEW x \in Questions, Ask(c, x)
  PROVE  PipeInv'
<1> DEFINE y == [Idle EXCEPT !.at = "local", !.name = x.name, !.type = x.type, !.do = x.do,
                   !.edns = x.edns, !.cur = x.name, !.visited = {x.name}]
<1>1. QueryIs(Idle) /\ IsResponse(Idle.resp) /\ Idle.path = ""
  BY IdleOK DEF QueryOK, Idle
<1>2. QueryIs(y) /\ y.at = "local" /\ y.resp = Idle.resp /\ y.path = Idle.path
  BY <1>1 DEF QueryIs, QueryFields
<1>3. q' = [q EXCEPT ![c] = y] /\ q[c].at = "idle"
  BY DEF Ask
<1> HIDE DEF y
<1>4. QueryOK(y)
  BY <1>1, <1>2 DEF QueryOK
<1>5. LocalNamesStayLocal'
  BY SameAsked DEF PipeInv, Ask
<1>6. UNCHANGED <<overrides, now, promised, stats, qlog>>
  BY DEF Ask, others, counters
<1> QED BY <1>2, <1>3, <1>4, <1>5, <1>6, QueryStep

LEMMA TakesStep ==
  ASSUME PipeInv, NEW c \in DOMAIN Clients, NEW r, r.path \in Paths, IsResponse(r.resp),
         q[c].at \in {"local", "remote"},
         q' = [q EXCEPT ![c] = Take(@, r)],
         UNCHANGED <<overrides, now, promised, stats, qlog, asked>>
  PROVE  PipeInv'
<1> DEFINE y == Take(q[c], r)
<1>1. QueryOK(q[c])
  BY DEF PipeInv, QueriesOK
<1>2. QueryOK(y) /\ y.at = "loop"
  BY <1>1, TakeOK
<1>3. q' = [q EXCEPT ![c] = y]
  BY DEF PipeInv, QueriesOK
<1>4. LocalNamesStayLocal'
  BY SameAsked DEF PipeInv
<1> HIDE DEF y
<1> QED BY <1>2, <1>3, <1>4, QueryStep

LEMMA LocalStep ==
  ASSUME PipeInv, NEW c \in DOMAIN Clients, ResolveLocal(c)
  PROVE  PipeInv'
<1> DEFINE rs == resolve_local(c, q[c].cur, q[c].type)
           n == q[c].cur
           y == [q[c] EXCEPT !.at = "remote"]
<1>0. QueryOK(q[c]) /\ q[c].at = "local"
  BY DEF PipeInv, QueriesOK, ResolveLocal
<1>1. CASE rs = {}
  <2>1. q' = [q EXCEPT ![c] = y] /\ asked' = asked \cup {n}
        /\ UNCHANGED <<overrides, now, promised, stats, qlog>>
    BY <1>1 DEF ResolveLocal, others, counters, PipeInv, QueriesOK
  <2>2. QueryIs(y) /\ y.at = "remote" /\ y.resp = q[c].resp /\ y.path = q[c].path
    <3>1. QueryIs(q[c])
      BY <1>0 DEF QueryOK
    <3> QED BY <3>1 DEF QueryIs, QueryFields
  <2> HIDE DEF y
  <2>3. QueryOK(y)
    BY <1>0, <2>2 DEF QueryOK
  <2>4. /\ ~Ends(n, <<"localhost">>) /\ ~InProxyTld(n)
        /\ ZoneLookup(Zones.exact, Zones.wildcard, n, q[c].type) = {}
        /\ is_special_use_domain(n) => match_forwarding_rule(Forwarding, n)
    BY <1>1 DEF resolve_local, Out
  <2>5. ZoneLookup(Zones.exact, Zones.wildcard, n, "A") = {}
    BY <2>4, ZoneOwns
  <2>6. LocalNamesStayLocal'
    BY <2>1, <2>4, <2>5 DEF PipeInv, LocalNamesStayLocal
  <2> QED BY <1>0, <2>1, <2>2, <2>3, <2>6, QueryStep
<1>2. CASE rs # {}
  <2> DEFINE r == CHOOSE x \in rs : TRUE
  <2>1. r \in rs
    BY <1>2
  <2>2. \A m \in DOMAIN overrides : IsRec(overrides[m].record)
    BY DEF PipeInv, OverridesOK
  <2>3. r.path \in Paths /\ IsResponse(r.resp)
    BY <2>1, <2>2, LocalResponds
  <2>4. q' = [q EXCEPT ![c] = Take(@, r)] /\ UNCHANGED <<overrides, now, promised, stats, qlog, asked>>
    BY <1>2 DEF ResolveLocal, others, counters
  <2> HIDE DEF r
  <2> QED BY <1>0, <2>3, <2>4, TakesStep
<1> QED BY <1>1, <1>2

LEMMA RemoteStep ==
  ASSUME RemoteResponds, PipeInv, NEW c \in DOMAIN Clients,
         NEW r \in Remote(q[c].cur, q[c].type), ResolveRemote(c, r)
  PROVE  PipeInv'
<1>1. r.path \in Paths /\ IsResponse(r.resp)
  BY DEF RemoteResponds
<1>2. q[c].at = "remote" /\ q' = [q EXCEPT ![c] = Take(@, r)]
      /\ UNCHANGED <<overrides, now, promised, stats, qlog, asked>>
  BY DEF ResolveRemote, others, counters
<1> QED BY <1>1, <1>2, TakesStep

LEMMA ChaseStep ==
  ASSUME PipeInv, NEW c \in DOMAIN Clients, Chase(c)
  PROVE  PipeInv'
<1> DEFINE y == Turn(q[c])
<1>1. QueryOK(q[c]) /\ q[c].at = "loop"
  BY DEF PipeInv, QueriesOK, Chase
<1>2. QueryOK(y) /\ y.at # "push"
  BY <1>1, TurnOK
<1>3. q' = [q EXCEPT ![c] = y] /\ UNCHANGED <<overrides, now, promised, stats, qlog, asked>>
  BY DEF Chase, others, counters
<1>4. LocalNamesStayLocal'
  BY <1>3, SameAsked DEF PipeInv
<1> HIDE DEF y
<1> QED BY <1>1, <1>2, <1>3, <1>4, QueryStep

LEMMA FinishStep ==
  ASSUME PipeInv, NEW c \in DOMAIN Clients, NEW s, NEW z, Finish(c, s, z)
  PROVE  PipeInv'
<1> DEFINE out == serialize_with_fallback(Scrubbed(q[c], Validated(q[c], s)), q[c], FiltersAaaa(c), z)
           y == [q[c] EXCEPT !.at = "record", !.out = out]
<1>1. QueryOK(q[c]) /\ q[c].at = "post"
  BY DEF PipeInv, QueriesOK, Finish
<1>2. QueryOK(y)
  BY <1>1, FinishOK
<1> HIDE DEF out
<1>3. y.at = "record"
  <2>1. QueryIs(q[c])
    BY <1>1 DEF QueryOK
  <2> QED BY <2>1 DEF QueryIs, QueryFields
<1>4. q' = [q EXCEPT ![c] = y] /\ UNCHANGED <<overrides, now, promised, stats, qlog, asked>>
  <2>1. q' = [q EXCEPT ![c].at = "record", ![c].out = out]
        /\ UNCHANGED <<overrides, now, promised, stats, qlog, asked>>
    BY DEF Finish, others, counters, out
  <2> QED BY <2>1 DEF PipeInv, QueriesOK
<1>5. LocalNamesStayLocal'
  BY <1>4, SameAsked DEF PipeInv
<1> HIDE DEF y
<1> QED BY <1>1, <1>2, <1>3, <1>4, <1>5, QueryStep

(* One more or one fewer query between the counters and the log. *)
LEMMA CardPushing ==
  ASSUME NEW c \in DOMAIN Clients
  PROVE  /\ Cardinality(Pushing) \in Nat
         /\ c \notin Pushing => Cardinality(Pushing \cup {c}) = Cardinality(Pushing) + 1
         /\ c \in Pushing => Cardinality(Pushing \ {c}) = Cardinality(Pushing) - 1
<1>1. IsFiniteSet(Pushing)
  BY PipelineConstants, FS_Subset DEF Pushing
<1> QED BY <1>1, FS_CardinalityType, FS_AddElement, FS_RemoveElement

LEMMA RecordStep ==
  ASSUME PipeInv, NEW c \in DOMAIN Clients, Record(c)
  PROVE  PipeInv'
<1> DEFINE y == [q[c] EXCEPT !.at = "push"]
           p == q[c].path
<1>1. QueryOK(q[c]) /\ q[c].at = "record" /\ p \in Paths
  BY DEF PipeInv, QueriesOK, QueryOK, Record
<1>2. q' = [q EXCEPT ![c] = y] /\ UNCHANGED <<overrides, now, promised, qlog, asked>>
  BY DEF Record, others, PipeInv, QueriesOK
<1>3. QueryIs(y) /\ y.at = "push" /\ y.resp = q[c].resp /\ y.path = q[c].path
  <2>1. QueryIs(q[c])
    BY <1>1 DEF QueryOK
  <2> QED BY <2>1 DEF QueryIs, QueryFields
<1> HIDE DEF y
<1>4. QueryOK(y)
  BY <1>1, <1>3 DEF QueryOK
<1>5. QueriesOK' /\ LocalNamesStayLocal' /\ OverridesOK' /\ LogOK'
  <2>1. QueriesOK'
    BY <1>2, <1>4, OneQuery DEF PipeInv
  <2>2. OverridesOK' /\ LogOK'
    BY <1>2 DEF PipeInv, OverridesOK, LogOK
  <2> QED BY <1>2, <2>1, <2>2, SameAsked DEF PipeInv
<1>6. StatsOK' /\ stats'.total = stats.total + 1
  <2> DEFINE paths == [stats.paths EXCEPT ![p] = @ + 1]
  <2>1. stats.paths \in [Paths -> Nat] /\ stats.total = Total(stats.paths)
        /\ stats = [total |-> stats.total, paths |-> stats.paths]
    BY DEF PipeInv, StatsOK
  <2>2. stats' = [total |-> stats.total + 1, paths |-> paths]
    BY <2>1 DEF Record
  <2>3. paths \in [Paths -> Nat] /\ Total(paths) = Total(stats.paths) + 1
    BY <1>1, <2>1 DEF Total, Paths
  <2> HIDE DEF paths
  <2> QED BY <2>1, <2>2, <2>3 DEF StatsOK
<1>7. AheadOK'
  <2>1. Pushing' = Pushing \cup {c} /\ c \notin Pushing
    BY <1>1, <1>2, <1>3 DEF Pushing, PipeInv, QueriesOK
  <2>2. stats.total = qlog.next_seq + Cardinality(Pushing) /\ qlog.next_seq \in Nat
    BY DEF PipeInv, AheadOK, LogOK
  <2> QED BY <1>2, <1>6, <2>1, <2>2, CardPushing DEF AheadOK
<1> QED BY <1>5, <1>6, <1>7 DEF PipeInv

(* The log at its capacity drops its oldest entry for the new one. *)
LEMMA PushLog ==
  ASSUME LogOK, NEW p \in Paths, qlog' = push(qlog, [seq |-> qlog.next_seq + 1, path |-> p])
  PROVE  LogOK' /\ qlog'.next_seq = qlog.next_seq + 1
<1> DEFINE E == [seq : Nat, path : Paths]
           es == qlog.entries
           s == qlog.next_seq
           e == [seq |-> s + 1, path |-> p]
           old == IF Len(es) >= LogCapacity THEN SubSeq(es, 2, Len(es)) ELSE es
<1>1. /\ s \in Nat /\ es \in Seq(E) /\ Len(es) \in Nat
      /\ Len(es) = IF s < Room THEN s ELSE Room
      /\ \A i \in 1..Len(es) : es[i].seq = s - Len(es) + i
  BY DEF LogOK
<1>2. qlog' = [entries |-> Append(old, e), next_seq |-> s + 1]
  BY DEF push
<1>3. e \in E /\ e.seq = s + 1
  BY <1>1
<1>4. LogCapacity \in Nat /\ Room \in Nat /\ Room >= 1 /\ Room >= LogCapacity
      /\ (LogCapacity >= 1 => Room = LogCapacity) /\ (LogCapacity = 0 => Room = 1)
  BY PipelineConstants DEF Room
<1> HIDE DEF E, es, s, e
<1>5. /\ old \in Seq(E) /\ Len(old) \in Nat
      /\ Len(old) + 1 = IF s + 1 < Room THEN s + 1 ELSE Room
      /\ \A i \in 1..Len(old) : old[i].seq = s - Len(old) + i
  <2>1. CASE Len(es) >= LogCapacity /\ Len(es) > 0
    <3>1. old = SubSeq(es, 2, Len(es)) /\ Len(old) = Len(es) - 1 /\ old \in Seq(E)
      BY <1>1, <2>1
    <3>2. \A i \in 1..Len(old) : old[i] = es[i + 1]
      BY <1>1, <2>1
    <3> HIDE DEF old
    <3>3. ASSUME NEW i \in 1..Len(old) PROVE old[i].seq = s - Len(old) + i
      <4>1. s \in Nat /\ Len(es) \in Nat /\ Len(old) = Len(es) - 1 /\ i \in Nat
        BY <1>1, <3>1
      <4>2. i + 1 \in 1..Len(es)
        BY <4>1
      <4>3. old[i].seq = s - Len(es) + (i + 1)
        BY <1>1, <3>2, <4>2
      <4> QED BY <4>1, <4>3
    <3>4. Len(es) = Room /\ s >= Room
      BY <1>1, <1>4, <2>1
    <3>5. Len(old) \in Nat /\ Len(old) + 1 = IF s + 1 < Room THEN s + 1 ELSE Room
      BY <1>1, <1>4, <3>1, <3>4
    <3> QED BY <3>1, <3>3, <3>5
  <2>2. CASE Len(es) >= LogCapacity /\ Len(es) = 0
    <3>1. old = <<>> /\ old \in Seq(E) /\ Len(old) = 0
      BY <1>1, <2>2
    <3> HIDE DEF old
    <3> QED BY <1>1, <1>4, <2>2, <3>1
  <2>3. CASE Len(es) < LogCapacity
    <3>1. old = es
      BY <1>1, <1>4, <2>3
    <3> HIDE DEF old
    <3> QED BY <1>1, <1>4, <2>3, <3>1
  <2> QED BY <1>1, <1>4, <2>1, <2>2, <2>3
<1> HIDE DEF old
<1> DEFINE new == Append(old, e)
<1>6. /\ new \in Seq(E) /\ Len(new) = Len(old) + 1
      /\ \A i \in 1..Len(old) : new[i] = old[i]
      /\ new[Len(old) + 1] = e
  BY <1>3, <1>5
<1> HIDE DEF new
<1>7. ASSUME NEW i \in 1..Len(new) PROVE new[i].seq = (s + 1) - Len(new) + i
  <2>1. CASE i \in 1..Len(old)
    <3>1. new[i].seq = s - Len(old) + i
      BY <1>5, <1>6, <2>1
    <3> QED BY <1>1, <1>5, <1>6, <3>1
  <2>2. CASE i = Len(old) + 1
    BY <1>1, <1>3, <1>5, <1>6, <2>2
  <2> QED BY <1>5, <1>6, <2>1, <2>2
<1>8. qlog' = [entries |-> new, next_seq |-> s + 1]
  BY <1>2 DEF new
<1> QED BY <1>1, <1>4, <1>5, <1>6, <1>7, <1>8 DEF LogOK, Room, E, s

LEMMA PushStep ==
  ASSUME PipeInv, NEW c \in DOMAIN Clients, Push(c)
  PROVE  PipeInv'
<1>1. q[c].at = "push" /\ q[c].path \in Paths
  BY DEF PipeInv, QueriesOK, QueryOK, Push
<1>2. q' = [q EXCEPT ![c] = Idle] /\ UNCHANGED <<overrides, now, promised, stats, asked>>
  BY DEF Push, others
<1>3. LogOK' /\ qlog'.next_seq = qlog.next_seq + 1
  BY <1>1, PushLog DEF PipeInv, Push
<1>4. QueriesOK' /\ LocalNamesStayLocal' /\ OverridesOK' /\ StatsOK'
  <2>1. QueriesOK'
    BY <1>2, IdleOK, OneQuery DEF PipeInv
  <2>2. OverridesOK' /\ StatsOK'
    BY <1>2 DEF PipeInv, OverridesOK, StatsOK
  <2> QED BY <1>2, <2>1, <2>2, SameAsked DEF PipeInv
<1>5. AheadOK'
  <2>1. Pushing' = Pushing \ {c} /\ c \in Pushing
    BY <1>1, <1>2 DEF Pushing, PipeInv, QueriesOK, Idle
  <2>2. stats.total = qlog.next_seq + Cardinality(Pushing) /\ qlog.next_seq \in Nat
    BY DEF PipeInv, AheadOK, LogOK
  <2> QED BY <1>2, <1>3, <2>1, <2>2, CardPushing DEF AheadOK
<1> QED BY <1>3, <1>4, <1>5 DEF PipeInv

-----------------------------------------------------------------------------
(* The steps of the API's handlers leave the queries alone. *)
LEMMA HandlerStep ==
  ASSUME PipeInv, UNCHANGED <<q, stats, qlog, asked>>, OverridesOK'
  PROVE  PipeInv'
<1>1. QueriesOK' /\ Pushing' = Pushing
  BY DEF PipeInv, QueriesOK, Pushing
<1>2. StatsOK' /\ LogOK' /\ LocalNamesStayLocal'
  BY SameAsked DEF PipeInv, StatsOK, LogOK
<1>3. AheadOK'
  BY <1>1 DEF PipeInv, AheadOK
<1> QED BY <1>1, <1>2, <1>3 DEF PipeInv

LEMMA CreateStep ==
  ASSUME PipeInv, NEW o \in Overrides, NEW d \in Durations, CreateOverride(o, d)
  PROVE  PipeInv'
<1> DEFINE e == IF d = 0 THEN 0 ELSE now + d
           rec == parse_target(o.name, o.family, o.target)
<1>1. now \in Nat /\ e \in Nat /\ IsRec(rec)
  BY PipelineConstants, RecIsRec DEF PipeInv, OverridesOK, parse_target
<1> HIDE DEF e, rec
<1>2. /\ UNCHANGED <<q, stats, qlog, asked, now>>
      /\ overrides' = InsertOverride(overrides, o.name, rec, e, now)
      /\ promised' = [n \in DOMAIN promised \cup {o.name} |->
                        IF n = o.name THEN e ELSE promised[n]]
  BY DEF CreateOverride, counters, e, rec
<1>3. ASSUME NEW n \in DOMAIN overrides'
      PROVE  /\ IsRec(overrides'[n].record)
             /\ n \in DOMAIN promised' /\ promised'[n] = overrides'[n].expires
  BY <1>1, <1>2, <1>3 DEF InsertOverride, PipeInv, OverridesOK
<1>4. ASSUME NEW n \in DOMAIN promised'
      PROVE  /\ promised'[n] \in Nat
             /\ n \in DOMAIN overrides' \/ (promised'[n] # 0 /\ now >= promised'[n])
  <2>1. CASE n = o.name
    BY <1>1, <1>2, <1>4, <2>1 DEF InsertOverride
  <2>2. CASE n # o.name
    <3>1. n \in DOMAIN promised /\ promised'[n] = promised[n]
      BY <1>2, <1>4, <2>2
    <3>2. /\ promised[n] \in Nat
          /\ n \in DOMAIN overrides \/ (promised[n] # 0 /\ now >= promised[n])
          /\ n \in DOMAIN overrides => promised[n] = overrides[n].expires
      BY <3>1 DEF PipeInv, OverridesOK
    <3>3. n \in DOMAIN overrides => n \in DOMAIN overrides' \/ is_expired(overrides[n], now)
      BY <1>2 DEF InsertOverride
    <3> QED BY <3>1, <3>2, <3>3 DEF is_expired
  <2> QED BY <2>1, <2>2
<1>5. OverridesOK'
  BY <1>1, <1>2, <1>3, <1>4 DEF OverridesOK
<1> QED BY <1>2, <1>5, HandlerStep

LEMMA RemoveStep ==
  ASSUME PipeInv, NEW n \in DOMAIN overrides, RemoveOverride(n)
  PROVE  PipeInv'
<1>1. UNCHANGED <<q, stats, qlog, asked, now>>
  BY DEF RemoveOverride, counters
<1>2. OverridesOK'
  BY DEF RemoveOverride, PipeInv, OverridesOK
<1> QED BY <1>1, <1>2, HandlerStep

LEMMA ClearStep ==
  ASSUME PipeInv, ClearOverrides
  PROVE  PipeInv'
<1>1. UNCHANGED <<q, stats, qlog, asked, now>>
  BY DEF ClearOverrides, counters
<1>2. OverridesOK'
  BY DEF ClearOverrides, PipeInv, OverridesOK
<1> QED BY <1>1, <1>2, HandlerStep

LEMMA ClockStep ==
  ASSUME PipeInv, Tick \/ ToggleBlocking \/ UNCHANGED pipeVars
  PROVE  PipeInv'
<1>1. UNCHANGED <<q, stats, qlog, asked, overrides, promised>> /\ (now' = now \/ now' = now + 1)
  BY DEF Tick, ToggleBlocking, pipeVars, counters
<1>2. OverridesOK'
  BY <1>1 DEF PipeInv, OverridesOK
<1> QED BY <1>1, <1>2, HandlerStep

LEMMA PipeNextInv ==
  ASSUME RemoteResponds, PipeInv, [Next]_pipeVars
  PROVE  PipeInv'
BY AskStep, LocalStep, RemoteStep, ChaseStep, FinishStep, RecordStep, PushStep, CreateStep,
   RemoveStep, ClearStep, ClockStep, Zenon DEF Next

LEMMA PipeInvHolds ==
  ASSUME RemoteResponds
  PROVE  Spec => []PipeInv
<1>1. PipeInv /\ [Next]_pipeVars => PipeInv'
  BY PipeNextInv
<1> QED BY <1>1, PipeInitInv, PTL DEF Spec

(* For any clients, questions, zones, rules, overrides and remote responses:
   no answer ends in an alias that was not followed, no local name is handed
   to a server, no private address comes from an untrusted path, and EDNS,
   DNSSEC records and truncation fit the query (src/src/ctx.rs,
   src/src/rebind.rs).  The remote stage is any that hands back a response on
   one of the paths, RemoteResponds. *)
THEOREM AnswersAreFitThm ==
  ASSUME RemoteResponds
  PROVE  Spec => []AnswersAreFit
<1>1. ASSUME PipeInv PROVE AnswersAreFit
  <2>1. \A c \in DOMAIN Clients : QueryOK(q[c])
    BY <1>1 DEF PipeInv, QueriesOK
  <2>2. NeverBareCname
    BY <2>1 DEF NeverBareCname, QueryOK, Followed
  <2>3. NoPrivateFromRemote
    BY <2>1 DEF NoPrivateFromRemote, QueryOK, Fit, Clean
  <2>4. FitsClient
    BY <2>1 DEF FitsClient, QueryOK, Fit, Plain
  <2> QED BY <1>1, <2>2, <2>3, <2>4 DEF PipeInv, AnswersAreFit
<1> QED BY <1>1, PipeInvHolds, PTL

(* For any clients, capacity and overrides: the counters add up and are ahead
   of the log by the queries in between, the log is the newest queries without
   a gap, and an override is in force exactly until its deadline or removal
   (src/src/stats.rs, src/src/query_log.rs, src/src/override_store.rs). *)
THEOREM BooksBalanceThm ==
  ASSUME RemoteResponds
  PROVE  Spec => []BooksBalance
<1>1. ASSUME PipeInv PROVE CountersAgree
  BY <1>1 DEF PipeInv, StatsOK, AheadOK, Pushing, CountersAgree
<1>2. ASSUME PipeInv PROVE LogIsSuffix
  <2> DEFINE es == qlog.entries
             n == Len(es)
             S == {e \in ToSet(es) : e.path \in Paths}
             newest == query(qlog, Paths, n)
  <2>1. /\ qlog.next_seq \in Nat /\ n \in Nat /\ es \in Seq([seq : Nat, path : Paths])
        /\ n = IF qlog.next_seq < Room THEN qlog.next_seq ELSE Room
        /\ \A i \in 1..n : es[i].seq = qlog.next_seq - n + i
    BY <1>2 DEF PipeInv, LogOK
  <2> HIDE DEF es
  <2>2. ASSUME NEW i \in 1..n PROVE es[i] \in S
    <3> DEFINE E == [seq : Nat, path : Paths]
    <3>1. es \in Seq(E) /\ i \in 1..Len(es)
      BY <2>1
    <3> HIDE DEF E
    <3>2. es[i] \in E /\ i \in DOMAIN es
      BY <3>1
    <3> QED BY <3>2 DEF ToSet, E
  <2> HIDE DEF S
  <2>3. Reverse(es) \in Seq(S) /\ Len(Reverse(es)) = n /\ \A i \in 1..n : Reverse(es)[i] = es[n - i + 1]
    <3>1. Reverse(es) = [i \in 1..n |-> es[n - i + 1]]
      BY DEF Reverse
    <3>2. n \in Nat
      BY <2>1
    <3> HIDE DEF n
    <3>3. \A i \in 1..n : n - i + 1 \in 1..n
      BY <3>2
    <3>4. \A i \in 1..n : es[n - i + 1] \in S
      BY <2>2, <3>3
    <3> QED BY <3>1, <3>2, <3>4
  <2>4. Only(Reverse(es), S) = Reverse(es)
    BY <2>3, OnlyAll
  <2>5. newest = SubSeq(Reverse(es), 1, n)
    BY <2>1, <2>3, <2>4 DEF query, es, S
  <2>6. \A i \in 1..n : newest[i] = es[n - i + 1]
    BY <2>1, <2>3, <2>5
  <2> HIDE DEF newest
  <2>7. ASSUME NEW i \in 1..n PROVE newest[i].seq = qlog.next_seq - i + 1
    <3>1. n \in Nat /\ qlog.next_seq \in Nat
      BY <2>1
    <3>2. \A j \in 1..n : es[j].seq = qlog.next_seq - n + j
      BY <2>1
    <3> HIDE DEF n
    <3>3. n - i + 1 \in 1..n
      BY <3>1
    <3>4. newest[i].seq = qlog.next_seq - n + (n - i + 1)
      BY <2>6, <3>2, <3>3
    <3> QED BY <3>1, <3>4
  <2> QED BY <2>1, <2>7 DEF LogIsSuffix, Room, newest, es
<1>3. ASSUME PipeInv PROVE OverridesExpireOnTime
  BY <1>3 DEF PipeInv, OverridesOK, OverridesExpireOnTime, LookupOverride, is_expired
<1>4. PipeInv => BooksBalance
  BY <1>1, <1>2, <1>3 DEF BooksBalance
<1> QED BY <1>4, PipeInvHolds, PTL
=============================================================================
