--------------------------- MODULE InflightProofs ---------------------------
(***************************************************************************)
(* Proofs about in-flight coalescing, for any number of tasks and keys.     *)
(***************************************************************************)
EXTENDS Inflight, TLAPS

(* What the mailboxes and results of tasks hold besides their types. *)
Mailboxes ==
  \A t \in Tasks :
    /\ mailbox[t] = {} \/ \E m \in Results : mailbox[t] = {m}
    /\ pc[t] # "waiting" => mailbox[t] = {} /\ leader[t] = NoTask
    /\ pc[t] \notin {"sending", "done"} => result[t] = Failed

(* The inductive invariant. *)
IInv == TypeOK /\ GuardOwnsEntry /\ NoOrphanFollower /\ Mailboxes

LEMMA InitIInv == Init => IInv
BY DEF Init, IInv, TypeOK, GuardOwnsEntry, NoOrphanFollower, Mailboxes, PC, Results

LEMMA NextIInv == IInv /\ [Next]_vars => IInv'
<1> SUFFICES ASSUME IInv, [Next]_vars PROVE IInv'
  OBVIOUS
<1> USE InflightConstants DEF IInv
<1>1. ASSUME NEW t \in Tasks, NEW k \in QKeys, Lead(t, k) PROVE IInv'
  <2>1. TypeOK'
    BY <1>1 DEF Lead, TypeOK, PC
  <2>2. GuardOwnsEntry'
    BY <1>1 DEF Lead, GuardOwnsEntry, TypeOK
  <2>3. NoOrphanFollower'
    BY <1>1 DEF Lead, NoOrphanFollower, TypeOK
  <2>4. Mailboxes'
    BY <1>1 DEF Lead, Mailboxes, TypeOK
  <2> QED BY <2>1, <2>2, <2>3, <2>4
<1>2. ASSUME NEW t \in Tasks, NEW k \in QKeys, Follow(t, k) PROVE IInv'
  <2>1. TypeOK'
    BY <1>2 DEF Follow, TypeOK, PC
  <2>2. GuardOwnsEntry'
    BY <1>2 DEF Follow, GuardOwnsEntry, TypeOK
  <2>3. NoOrphanFollower'
    BY <1>2 DEF Follow, NoOrphanFollower, GuardOwnsEntry, Mailboxes, TypeOK
  <2>4. Mailboxes'
    BY <1>2 DEF Follow, Mailboxes, TypeOK
  <2> QED BY <2>1, <2>2, <2>3, <2>4
<1>3. ASSUME NEW t \in Tasks, NEW r \in Results, Resolve(t, r) PROVE IInv'
  <2>1. TypeOK'
    BY <1>3 DEF Resolve, DropGuard, TypeOK, PC
  <2>2. GuardOwnsEntry'
    BY <1>3 DEF Resolve, DropGuard, GuardOwnsEntry, TypeOK
  <2>3. NoOrphanFollower'
    BY <1>3 DEF Resolve, NoOrphanFollower, TypeOK
  <2>4. Mailboxes'
    BY <1>3 DEF Resolve, Mailboxes, TypeOK
  <2> QED BY <2>1, <2>2, <2>3, <2>4
<1>4. ASSUME NEW t \in Tasks, Send(t) PROVE IInv'
  <2>1. TypeOK'
    BY <1>4 DEF Send, Broadcast, TypeOK, PC
  <2>2. GuardOwnsEntry'
    BY <1>4 DEF Send, GuardOwnsEntry, TypeOK
  <2>3. NoOrphanFollower'
    BY <1>4 DEF Send, Broadcast, NoOrphanFollower, TypeOK
  <2>4. Mailboxes'
    BY <1>4 DEF Send, Broadcast, Mailboxes, TypeOK
  <2> QED BY <2>1, <2>2, <2>3, <2>4
<1>5. ASSUME NEW t \in Tasks, Receive(t) PROVE IInv'
  <2>1. TypeOK'
    BY <1>5 DEF Receive, TypeOK, PC
  <2>2. GuardOwnsEntry'
    BY <1>5 DEF Receive, GuardOwnsEntry, TypeOK
  <2>3. NoOrphanFollower'
    BY <1>5 DEF Receive, NoOrphanFollower, TypeOK
  <2>4. Mailboxes'
    BY <1>5 DEF Receive, Mailboxes, TypeOK
  <2> QED BY <2>1, <2>2, <2>3, <2>4
<1>6. ASSUME NEW t \in Tasks, CancelLeader(t) PROVE IInv'
  <2>1. TypeOK'
    BY <1>6 DEF CancelLeader, DropGuard, TypeOK, PC
  <2>2. GuardOwnsEntry'
    BY <1>6 DEF CancelLeader, DropGuard, GuardOwnsEntry, TypeOK
  <2>3. NoOrphanFollower'
    BY <1>6 DEF CancelLeader, NoOrphanFollower, TypeOK
  <2>4. Mailboxes'
    BY <1>6 DEF CancelLeader, Mailboxes, TypeOK
  <2> QED BY <2>1, <2>2, <2>3, <2>4
<1>7. ASSUME NEW t \in Tasks, DropSender(t) PROVE IInv'
  <2>1. TypeOK'
    BY <1>7 DEF DropSender, Broadcast, TypeOK, PC, Results
  <2>2. GuardOwnsEntry'
    BY <1>7 DEF DropSender, GuardOwnsEntry, TypeOK
  <2>3. NoOrphanFollower'
    BY <1>7 DEF DropSender, Broadcast, NoOrphanFollower, TypeOK
  <2>4. Mailboxes'
    BY <1>7 DEF DropSender, Broadcast, Mailboxes, TypeOK, Results
  <2> QED BY <2>1, <2>2, <2>3, <2>4
<1>8. ASSUME NEW t \in Tasks, CancelFollower(t) PROVE IInv'
  <2>1. TypeOK'
    BY <1>8 DEF CancelFollower, TypeOK, PC
  <2>2. GuardOwnsEntry'
    BY <1>8 DEF CancelFollower, GuardOwnsEntry, TypeOK
  <2>3. NoOrphanFollower'
    BY <1>8 DEF CancelFollower, NoOrphanFollower, TypeOK
  <2>4. Mailboxes'
    BY <1>8 DEF CancelFollower, Mailboxes, TypeOK
  <2> QED BY <2>1, <2>2, <2>3, <2>4
<1>9. ASSUME NEW t \in Tasks, Reuse(t) PROVE IInv'
  <2>1. TypeOK'
    BY <1>9 DEF Reuse, TypeOK, PC, Results
  <2>2. GuardOwnsEntry'
    BY <1>9 DEF Reuse, GuardOwnsEntry, TypeOK
  <2>3. NoOrphanFollower'
    BY <1>9 DEF Reuse, NoOrphanFollower, TypeOK
  <2>4. Mailboxes'
    BY <1>9 DEF Reuse, Mailboxes, TypeOK
  <2> QED BY <2>1, <2>2, <2>3, <2>4
<1>10. CASE UNCHANGED vars
  BY <1>10 DEF vars, TypeOK, GuardOwnsEntry, NoOrphanFollower, Mailboxes
<1> QED BY <1>1, <1>2, <1>3, <1>4, <1>5, <1>6, <1>7, <1>8, <1>9, <1>10 DEF Next

LEMMA IInvHolds == Spec => []IInv
BY InitIInv, NextIInv, PTL DEF Spec

(* The map holds a key exactly while its leader resolves, for any number of
   tasks, keys and cancellations. *)
THEOREM GuardOwnsEntryThm == Spec => []GuardOwnsEntry
BY IInvHolds, PTL DEF IInv

(* At most one resolution per key is under way. *)
THEOREM OneFlightPerKeyThm == Spec => []OneFlightPerKey
<1>1. IInv => OneFlightPerKey
  BY DEF IInv, GuardOwnsEntry, OneFlightPerKey
<1> QED BY <1>1, IInvHolds, PTL

(* A waiting follower always has a message or a leader that will send one. *)
THEOREM NoOrphanFollowerThm == Spec => []NoOrphanFollower
BY IInvHolds, PTL DEF IInv

(* Map, guards, senders and followers of resolve_coalesced fit together for
   any number of tasks, keys and cancellations. *)
THEOREM FlightsConsistentThm == Spec => []FlightsConsistent
<1>1. IInv => TypeOK
  BY DEF IInv
<1> QED BY <1>1, IInvHolds, GuardOwnsEntryThm, OneFlightPerKeyThm, NoOrphanFollowerThm, PTL
       DEF FlightsConsistent

-----------------------------------------------------------------------------
(* The abstract state in terms of the concrete one, case by case. *)
LEMMA PhaseOf ==
  ASSUME IInv, NEW t \in Tasks
  PROVE  /\ pc[t] = "idle" => Phase(t) = "idle"
         /\ pc[t] = "resolving" => Phase(t) = "aboard"
         /\ pc[t] = "sending" => Phase(t) = "owed"
         /\ pc[t] \in {"dropping", "done"} => Phase(t) = "answered"
         /\ pc[t] = "waiting" =>
              Phase(t) = IF mailbox[t] = {} /\ pc[leader[t]] = "resolving" THEN "aboard" ELSE "owed"
BY DEF Phase

LEMMA OwedOf ==
  ASSUME IInv, NEW t \in Tasks
  PROVE  /\ pc[t] \in {"sending", "done"} => Owed(t) = result[t]
         /\ pc[t] \in {"idle", "resolving", "dropping"} => Owed(t) = Failed
         /\ \A m : pc[t] = "waiting" /\ mailbox[t] = {m} => Owed(t) = m
         /\ pc[t] = "waiting" /\ mailbox[t] = {} =>
              Owed(t) = IF pc[leader[t]] = "sending" THEN result[leader[t]] ELSE Failed
<1>1. \A m : (CHOOSE x \in {m} : TRUE) = m
  OBVIOUS
<1>2. \A m : pc[t] = "waiting" /\ mailbox[t] = {m} => Owed(t) = m
  BY <1>1 DEF Owed
<1>3. pc[t] = "waiting" /\ mailbox[t] = {} =>
        Owed(t) = IF pc[leader[t]] = "sending" THEN result[leader[t]] ELSE Failed
  BY DEF Owed
<1>4. pc[t] \in {"sending", "done"} => Owed(t) = result[t]
  BY DEF Owed
<1>5. pc[t] \in {"idle", "resolving", "dropping"} => Owed(t) = Failed
  BY DEF Owed
<1> QED BY <1>2, <1>3, <1>4, <1>5

(* Everybody on board the flight of a resolving leader's key is that leader
   or one of its subscribers. *)
LEMMA AboardOf ==
  ASSUME IInv, NEW t \in Tasks, pc[t] = "resolving", NEW u \in Tasks
  PROVE  (Phase(u) = "aboard" /\ key[u] = key[t])
           <=> (u = t \/ (pc[u] = "waiting" /\ mailbox[u] = {} /\ leader[u] = t))
<1>1. CASE pc[u] = "waiting"
  <2>1. Phase(u) = IF mailbox[u] = {} /\ pc[leader[u]] = "resolving" THEN "aboard" ELSE "owed"
    BY <1>1, PhaseOf
  <2>2. mailbox[u] = {} => leader[u] \in Tasks /\ key[leader[u]] = key[u]
    BY <1>1 DEF IInv, NoOrphanFollower
  <2>3. mailbox[u] = {} /\ pc[leader[u]] = "resolving" /\ key[u] = key[t] => leader[u] = t
    BY <2>2 DEF IInv, GuardOwnsEntry
  <2> QED BY <1>1, <2>1, <2>2, <2>3
<1>2. CASE pc[u] # "waiting"
  <2>1. Phase(u) = "aboard" <=> pc[u] = "resolving"
    BY <1>2, PhaseOf DEF IInv, TypeOK, PC
  <2>2. pc[u] = "resolving" /\ key[u] = key[t] => u = t
    BY DEF IInv, GuardOwnsEntry
  <2> QED BY <1>2, <2>1, <2>2
<1> QED BY <1>1, <1>2

(* Initial states map to initial states. *)
LEMMA InitRefines == Init => SF!Init
<1> SUFFICES ASSUME Init PROVE SF!Init
  OBVIOUS
<1>1. IInv
  BY InitIInv
<1>2. \A t \in Tasks : Phase(t) = "idle" /\ Owed(t) = Failed
  BY <1>1, PhaseOf, OwedOf DEF Init
<1> QED BY <1>2 DEF Init, SF!Init

(* Every step of the code is a step of SingleFlight, or changes nothing a
   caller can see. *)
LEMMA StepRefines == IInv /\ IInv' /\ [Next]_vars => [SF!Next]_(SF!vars)
<1> SUFFICES ASSUME IInv, IInv', [Next]_vars PROVE [SF!Next]_(SF!vars)
  OBVIOUS
<1>a. \A u \in Tasks : /\ pc[u] = "idle" => Phase(u) = "idle"
                       /\ pc[u] = "resolving" => Phase(u) = "aboard"
                       /\ pc[u] = "sending" => Phase(u) = "owed"
                       /\ pc[u] \in {"dropping", "done"} => Phase(u) = "answered"
                       /\ pc[u] = "waiting" => Phase(u) =
                            IF mailbox[u] = {} /\ pc[leader[u]] = "resolving" THEN "aboard" ELSE "owed"
  BY PhaseOf
<1>b. \A u \in Tasks : /\ pc'[u] = "idle" => Phase(u)' = "idle"
                       /\ pc'[u] = "resolving" => Phase(u)' = "aboard"
                       /\ pc'[u] = "sending" => Phase(u)' = "owed"
                       /\ pc'[u] \in {"dropping", "done"} => Phase(u)' = "answered"
                       /\ pc'[u] = "waiting" => Phase(u)' =
                            IF mailbox'[u] = {} /\ pc'[leader'[u]] = "resolving" THEN "aboard" ELSE "owed"
  BY DEF Phase
<1>c. \A u \in Tasks : /\ pc[u] \in {"sending", "done"} => Owed(u) = result[u]
                       /\ pc[u] \in {"idle", "resolving", "dropping"} => Owed(u) = Failed
                       /\ \A m : pc[u] = "waiting" /\ mailbox[u] = {m} => Owed(u) = m
                       /\ pc[u] = "waiting" /\ mailbox[u] = {} =>
                            Owed(u) = IF pc[leader[u]] = "sending" THEN result[leader[u]] ELSE Failed
  BY OwedOf
<1>d. \A u \in Tasks : /\ pc'[u] \in {"sending", "done"} => Owed(u)' = result'[u]
                       /\ pc'[u] \in {"idle", "resolving", "dropping"} => Owed(u)' = Failed
                       /\ \A m : pc'[u] = "waiting" /\ mailbox'[u] = {m} => Owed(u)' = m
                       /\ pc'[u] = "waiting" /\ mailbox'[u] = {} =>
                            Owed(u)' = IF pc'[leader'[u]] = "sending" THEN result'[leader'[u]] ELSE Failed
  <2>1. \A m : (CHOOSE x \in {m} : TRUE) = m
    OBVIOUS
  <2> QED BY <2>1 DEF Owed
<1>e. ASSUME NEW u \in Tasks, pc'[u] = pc[u], result'[u] = result[u],
             leader'[u] = leader[u], mailbox'[u] = mailbox[u],
             pc[u] = "waiting" /\ mailbox[u] = {} =>
               pc'[leader[u]] = pc[leader[u]] /\ result'[leader[u]] = result[leader[u]]
      PROVE  Phase(u)' = Phase(u) /\ Owed(u)' = Owed(u)
  <2>1. CASE pc[u] # "waiting"
    BY <1>e, <1>a, <1>b, <1>c, <1>d, <2>1 DEF IInv, TypeOK, PC
  <2>2. CASE pc[u] = "waiting" /\ mailbox[u] = {}
    BY <1>e, <1>a, <1>b, <1>c, <1>d, <2>2
  <2>3. CASE pc[u] = "waiting" /\ mailbox[u] # {}
    <3>1. PICK m : mailbox[u] = {m}
      BY <2>3 DEF IInv, Mailboxes
    <3> QED BY <1>e, <1>a, <1>b, <1>c, <1>d, <2>3, <3>1
  <2> QED BY <2>1, <2>2, <2>3
<1>1. ASSUME NEW t \in Tasks, NEW k \in QKeys, Lead(t, k) PROVE SF!Board(t, k)
  <2>1. ASSUME NEW u \in Tasks \ {t} PROVE Phase(u)' = Phase(u) /\ Owed(u)' = Owed(u)
    <3>1. /\ pc'[u] = pc[u] /\ result'[u] = result[u]
          /\ leader'[u] = leader[u] /\ mailbox'[u] = mailbox[u]
      BY <1>1 DEF Lead, IInv, TypeOK
    <3>2. pc[u] = "waiting" /\ mailbox[u] = {} =>
            pc'[leader[u]] = pc[leader[u]] /\ result'[leader[u]] = result[leader[u]]
      BY <1>1 DEF Lead, IInv, TypeOK, NoOrphanFollower
    <3> QED BY <1>e, <3>1, <3>2
  <2>2. Phase(t) = "idle" /\ Phase(t)' = "aboard" /\ Owed(t)' = Failed
    BY <1>1, <1>a, <1>b, <1>d DEF Lead, IInv, TypeOK
  <2>3. key' = [key EXCEPT ![t] = k]
    BY <1>1 DEF Lead
  <2> QED BY <2>1, <2>2, <2>3 DEF SF!Board
<1>2. ASSUME NEW t \in Tasks, NEW k \in QKeys, Follow(t, k) PROVE SF!Board(t, k)
  <2>1. ASSUME NEW u \in Tasks \ {t} PROVE Phase(u)' = Phase(u) /\ Owed(u)' = Owed(u)
    <3>1. /\ pc'[u] = pc[u] /\ result'[u] = result[u]
          /\ leader'[u] = leader[u] /\ mailbox'[u] = mailbox[u]
      BY <1>2 DEF Follow, IInv, TypeOK
    <3>2. pc[u] = "waiting" /\ mailbox[u] = {} =>
            pc'[leader[u]] = pc[leader[u]] /\ result'[leader[u]] = result[leader[u]]
      BY <1>2 DEF Follow, IInv, TypeOK, NoOrphanFollower
    <3> QED BY <1>e, <3>1, <3>2
  <2>2. /\ pc'[t] = "waiting" /\ mailbox'[t] = {} /\ leader'[t] = inflight[k]
        /\ pc'[leader'[t]] = "resolving"
    BY <1>2 DEF Follow, IInv, TypeOK, GuardOwnsEntry, Mailboxes
  <2>3. Phase(t) = "idle" /\ Phase(t)' = "aboard" /\ Owed(t)' = Failed
    BY <1>2, <1>a, <1>b, <1>d, <2>2 DEF Follow
  <2>4. key' = [key EXCEPT ![t] = k]
    BY <1>2 DEF Follow
  <2> QED BY <2>1, <2>3, <2>4 DEF SF!Board
<1>3. ASSUME NEW t \in Tasks, NEW r \in Results, Resolve(t, r)
      PROVE  SF!Land(key[t], r, {})
  <2> DEFINE Sub(u) == pc[u] = "waiting" /\ mailbox[u] = {} /\ leader[u] = t
  <2>1. \A u \in Tasks : (Phase(u) = "aboard" /\ key[u] = key[t]) <=> (u = t \/ Sub(u))
    BY <1>3, AboardOf DEF Resolve
  <2>2. Phase(t)' = "owed" /\ Owed(t)' = r
    BY <1>3, <1>b, <1>d DEF Resolve, IInv, TypeOK
  <2>3. \A u \in Tasks : u # t /\ Sub(u) => Phase(u)' = "owed" /\ Owed(u)' = r
    BY <1>3, <1>b, <1>d DEF Resolve, IInv, TypeOK
  <2>4. ASSUME NEW u \in Tasks, u # t, ~Sub(u) PROVE Phase(u)' = Phase(u) /\ Owed(u)' = Owed(u)
    <3>1. /\ pc'[u] = pc[u] /\ result'[u] = result[u]
          /\ leader'[u] = leader[u] /\ mailbox'[u] = mailbox[u]
      BY <1>3, <2>4 DEF Resolve, IInv, TypeOK
    <3>2. pc[u] = "waiting" /\ mailbox[u] = {} =>
            pc'[leader[u]] = pc[leader[u]] /\ result'[leader[u]] = result[leader[u]]
      BY <1>3, <2>4 DEF Resolve, IInv, TypeOK, NoOrphanFollower
    <3> QED BY <1>e, <3>1, <3>2
  <2>5. UNCHANGED key
    BY <1>3 DEF Resolve
  <2>6. SF!Aboard(key[t]) = {u \in Tasks : u = t \/ Sub(u)}
    BY <2>1 DEF SF!Aboard
  <2> HIDE DEF Sub
  <2> QED BY <2>2, <2>3, <2>4, <2>5, <2>6 DEF SF!Land
<1>4. ASSUME NEW t \in Tasks, Send(t) PROVE SF!Answer(t)
  <2>1. ASSUME NEW u \in Tasks \ {t} PROVE Phase(u)' = Phase(u) /\ Owed(u)' = Owed(u)
    <3>1. CASE pc[u] = "waiting" /\ leader[u] = t /\ mailbox[u] = {}
      <4>1. pc'[u] = "waiting" /\ mailbox'[u] = {result[t]}
        BY <1>4, <3>1 DEF Send, Broadcast, IInv, TypeOK
      <4> QED BY <1>4, <1>a, <1>b, <1>c, <1>d, <3>1, <4>1 DEF Send
    <3>2. CASE ~(pc[u] = "waiting" /\ leader[u] = t /\ mailbox[u] = {})
      <4>1. /\ pc'[u] = pc[u] /\ result'[u] = result[u]
            /\ leader'[u] = leader[u] /\ mailbox'[u] = mailbox[u]
        BY <1>4, <3>2 DEF Send, Broadcast, IInv, TypeOK
      <4>2. pc[u] = "waiting" /\ mailbox[u] = {} =>
              pc'[leader[u]] = pc[leader[u]] /\ result'[leader[u]] = result[leader[u]]
        BY <1>4, <3>2 DEF Send, IInv, TypeOK, NoOrphanFollower
      <4> QED BY <1>e, <4>1, <4>2
    <3> QED BY <3>1, <3>2
  <2>2. Phase(t) = "owed" /\ Phase(t)' = "answered" /\ Owed(t)' = Owed(t)
    BY <1>4, <1>a, <1>b, <1>c, <1>d DEF Send, IInv, TypeOK
  <2>3. UNCHANGED key
    BY <1>4 DEF Send
  <2> QED BY <2>1, <2>2, <2>3 DEF SF!Answer
<1>5. ASSUME NEW t \in Tasks, Receive(t) PROVE SF!Answer(t)
  <2>1. ASSUME NEW u \in Tasks \ {t} PROVE Phase(u)' = Phase(u) /\ Owed(u)' = Owed(u)
    <3>1. /\ pc'[u] = pc[u] /\ result'[u] = result[u]
          /\ leader'[u] = leader[u] /\ mailbox'[u] = mailbox[u]
      BY <1>5 DEF Receive, IInv, TypeOK
    <3>2. pc[u] = "waiting" /\ mailbox[u] = {} =>
            pc'[leader[u]] = pc[leader[u]] /\ result'[leader[u]] = result[leader[u]]
      BY <1>5 DEF Receive, IInv, TypeOK, NoOrphanFollower
    <3> QED BY <1>e, <3>1, <3>2
  <2>2. PICK m \in Results : mailbox[t] = {m} /\ result'[t] = m
    BY <1>5 DEF Receive, IInv, TypeOK, Mailboxes
  <2>3. Phase(t) = "owed" /\ Phase(t)' = "answered" /\ Owed(t)' = Owed(t)
    <3>1. pc[t] = "waiting" /\ mailbox[t] # {} /\ pc'[t] = "done"
      BY <1>5, <2>2 DEF Receive, IInv, TypeOK
    <3>2. Phase(t) = "owed" /\ Phase(t)' = "answered"
      BY <1>a, <1>b, <3>1
    <3>3. Owed(t) = m /\ Owed(t)' = m
      BY <1>c, <1>d, <2>2, <3>1
    <3> QED BY <3>2, <3>3
  <2>4. UNCHANGED key
    BY <1>5 DEF Receive
  <2> QED BY <2>1, <2>3, <2>4 DEF SF!Answer
<1>6. ASSUME NEW t \in Tasks, CancelLeader(t) PROVE SF!Land(key[t], Failed, {t})
  <2> DEFINE Sub(u) == pc[u] = "waiting" /\ mailbox[u] = {} /\ leader[u] = t
  <2>1. \A u \in Tasks : (Phase(u) = "aboard" /\ key[u] = key[t]) <=> (u = t \/ Sub(u))
    BY <1>6, AboardOf DEF CancelLeader
  <2>2. Phase(t)' = "answered" /\ Owed(t)' = Failed
    BY <1>6, <1>b, <1>d DEF CancelLeader, IInv, TypeOK
  <2>3. \A u \in Tasks : u # t /\ Sub(u) => Phase(u)' = "owed" /\ Owed(u)' = Failed
    BY <1>6, <1>b, <1>d DEF CancelLeader, IInv, TypeOK
  <2>4. ASSUME NEW u \in Tasks, u # t, ~Sub(u) PROVE Phase(u)' = Phase(u) /\ Owed(u)' = Owed(u)
    <3>1. /\ pc'[u] = pc[u] /\ result'[u] = result[u]
          /\ leader'[u] = leader[u] /\ mailbox'[u] = mailbox[u]
      BY <1>6, <2>4 DEF CancelLeader, IInv, TypeOK
    <3>2. pc[u] = "waiting" /\ mailbox[u] = {} =>
            pc'[leader[u]] = pc[leader[u]] /\ result'[leader[u]] = result[leader[u]]
      BY <1>6, <2>4 DEF CancelLeader, IInv, TypeOK, NoOrphanFollower
    <3> QED BY <1>e, <3>1, <3>2
  <2>5. UNCHANGED key
    BY <1>6 DEF CancelLeader
  <2>6. SF!Aboard(key[t]) = {u \in Tasks : u = t \/ Sub(u)}
    BY <2>1 DEF SF!Aboard
  <2> HIDE DEF Sub
  <2> QED BY <2>2, <2>3, <2>4, <2>5, <2>6 DEF SF!Land
<1>7. ASSUME NEW t \in Tasks, DropSender(t) PROVE UNCHANGED SF!vars
  <2>1. ASSUME NEW u \in Tasks PROVE Phase(u)' = Phase(u) /\ Owed(u)' = Owed(u)
    <3>0. CASE u = t
      BY <1>7, <1>a, <1>b, <1>c, <1>d, <3>0 DEF DropSender, IInv, TypeOK, Mailboxes
    <3>1. CASE pc[u] = "waiting" /\ leader[u] = t /\ mailbox[u] = {}
      <4>1. pc'[u] = "waiting" /\ mailbox'[u] = {Failed}
        BY <1>7, <3>1 DEF DropSender, Broadcast, IInv, TypeOK
      <4> QED BY <1>7, <1>a, <1>b, <1>c, <1>d, <3>1, <4>1 DEF DropSender
    <3>2. CASE u # t /\ ~(pc[u] = "waiting" /\ leader[u] = t /\ mailbox[u] = {})
      <4>1. /\ pc'[u] = pc[u] /\ result'[u] = result[u]
            /\ leader'[u] = leader[u] /\ mailbox'[u] = mailbox[u]
        BY <1>7, <3>2 DEF DropSender, Broadcast, IInv, TypeOK
      <4>2. pc[u] = "waiting" /\ mailbox[u] = {} =>
              pc'[leader[u]] = pc[leader[u]] /\ result'[leader[u]] = result[leader[u]]
        BY <1>7, <3>2 DEF DropSender, IInv, TypeOK, NoOrphanFollower
      <4> QED BY <1>e, <4>1, <4>2
    <3> QED BY <3>0, <3>1, <3>2
  <2>2. UNCHANGED key
    BY <1>7 DEF DropSender
  <2> QED BY <2>1, <2>2 DEF SF!vars
<1>8. ASSUME NEW t \in Tasks, CancelFollower(t) PROVE SF!Leave(t)
  <2>1. ASSUME NEW u \in Tasks \ {t} PROVE Phase(u)' = Phase(u) /\ Owed(u)' = Owed(u)
    <3>1. /\ pc'[u] = pc[u] /\ result'[u] = result[u]
          /\ leader'[u] = leader[u] /\ mailbox'[u] = mailbox[u]
      BY <1>8 DEF CancelFollower, IInv, TypeOK
    <3>2. pc[u] = "waiting" /\ mailbox[u] = {} =>
            pc'[leader[u]] = pc[leader[u]] /\ result'[leader[u]] = result[leader[u]]
      BY <1>8 DEF CancelFollower, IInv, TypeOK, NoOrphanFollower
    <3> QED BY <1>e, <3>1, <3>2
  <2>2. Phase(t) \in {"aboard", "owed"} /\ Phase(t)' = "answered" /\ Owed(t)' = Failed
    BY <1>8, <1>a, <1>b, <1>d DEF CancelFollower, IInv, TypeOK, Mailboxes
  <2>3. UNCHANGED key
    BY <1>8 DEF CancelFollower
  <2> QED BY <2>1, <2>2, <2>3 DEF SF!Leave
<1>9. ASSUME NEW t \in Tasks, Reuse(t) PROVE SF!Forget(t)
  <2>1. ASSUME NEW u \in Tasks \ {t} PROVE Phase(u)' = Phase(u) /\ Owed(u)' = Owed(u)
    <3>1. /\ pc'[u] = pc[u] /\ result'[u] = result[u]
          /\ leader'[u] = leader[u] /\ mailbox'[u] = mailbox[u]
      BY <1>9 DEF Reuse, IInv, TypeOK
    <3>2. pc[u] = "waiting" /\ mailbox[u] = {} =>
            pc'[leader[u]] = pc[leader[u]] /\ result'[leader[u]] = result[leader[u]]
      BY <1>9 DEF Reuse, IInv, TypeOK, NoOrphanFollower
    <3> QED BY <1>e, <3>1, <3>2
  <2>2. Phase(t) = "answered" /\ Phase(t)' = "idle" /\ Owed(t)' = Failed
    BY <1>9, <1>a, <1>b, <1>d DEF Reuse, IInv, TypeOK
  <2>3. UNCHANGED key
    BY <1>9 DEF Reuse
  <2> QED BY <2>1, <2>2, <2>3 DEF SF!Forget
<1>10. CASE UNCHANGED vars
  BY <1>10 DEF vars, SF!vars, Phase, Owed
<1>11. \A t \in Tasks : key[t] \in QKeys
  BY DEF IInv, TypeOK
<1>12. Failed \in Results /\ SF!Results = Results
  BY DEF Results, SF!Results
<1>13. CASE Next
  <2>1. ASSUME NEW t \in Tasks, NEW k \in QKeys, Lead(t, k) \/ Follow(t, k) PROVE SF!Next
    BY <1>1, <1>2, <2>1 DEF SF!Next
  <2>2. ASSUME NEW t \in Tasks, NEW r \in Results, Resolve(t, r) PROVE SF!Next
    BY <1>3, <1>11, <1>12, <2>2 DEF SF!Next
  <2>3. ASSUME NEW t \in Tasks, Send(t) \/ Receive(t) PROVE SF!Next
    BY <1>4, <1>5, <2>3 DEF SF!Next
  <2>4. ASSUME NEW t \in Tasks, CancelLeader(t) PROVE SF!Next
    BY <1>6, <1>11, <1>12, <2>4 DEF SF!Next
  <2>5. ASSUME NEW t \in Tasks, CancelFollower(t) \/ Reuse(t) PROVE SF!Next
    BY <1>8, <1>9, <2>5 DEF SF!Next
  <2> QED BY <1>7, <1>13, <2>1, <2>2, <2>3, <2>4, <2>5 DEF Next
<1> QED BY <1>10, <1>13

(* resolve_coalesced implements SingleFlight for any number of tasks, keys
   and cancellations: dropping the guard and sending the result in two steps
   is indistinguishable from landing everybody at once. *)
THEOREM SharesOneFlightThm == Spec => SharesOneFlight
BY InitRefines, StepRefines, IInvHolds, PTL DEF Spec, SharesOneFlight, SF!Spec
=============================================================================
