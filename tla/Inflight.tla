------------------------------ MODULE Inflight ------------------------------
(***************************************************************************)
(* In-flight coalescing (src/src/ctx.rs: acquire_inflight,                  *)
(* resolve_coalesced, InflightGuard).  The first call for a key inserts a   *)
(* broadcast channel into the shared map and resolves; later calls          *)
(* subscribe to that channel.  The steps below are the code's atomic        *)
(* regions: the map's mutex in acquire_inflight, its mutex again when the   *)
(* guard is dropped, and the send (or drop) of the leader's sender, which   *)
(* comes after the guard has gone.  The future of a call can be dropped at  *)
(* any await (a client that disconnects, a panic in the resolution).        *)
(*                                                                          *)
(* A channel belongs to the leader that made it and carries at most one     *)
(* message; mailbox[t] is what t's receiver will return next.               *)
(***************************************************************************)
CONSTANTS
  Tasks,    \* tasks that call resolve_coalesced
  QKeys,    \* (name, type) keys
  Answers,  \* what resolve_fn can return in Ok
  Failed,   \* Err from resolve_fn, None or RecvError for a follower
  NoTask    \* a model value: no leader

ASSUME InflightConstants == Failed \notin Answers /\ NoTask \notin Tasks

VARIABLES
  inflight,  \* the InflightMap: key -> the leader whose channel it holds
  pc,        \* where each task is
  key,       \* the key of each task's call
  leader,    \* leader[t]: whose channel t subscribed to (NoTask unless follower)
  mailbox,   \* mailbox[t]: {} or {message} (a closed channel reads as Failed)
  result     \* what resolve_fn returned to a leader, what a call returned

vars == <<inflight, pc, key, leader, mailbox, result>>

Results == Answers \cup {Failed}

PC == {"idle",       \* no call under way
       "resolving",  \* leader, awaiting resolve_fn with the guard held
       "sending",    \* leader, guard dropped, result not yet broadcast
       "dropping",   \* cancelled leader, guard dropped, sender still alive
       "waiting",    \* follower, awaiting rx.recv()
       "done"}       \* returned (or cancelled)

Init ==
  /\ inflight = [k \in {} |-> NoTask]
  /\ pc = [t \in Tasks |-> "idle"]
  /\ key \in [Tasks -> QKeys]
  /\ leader = [t \in Tasks |-> NoTask]
  /\ mailbox = [t \in Tasks |-> {}]
  /\ result = [t \in Tasks |-> Failed]

(* The definitions whose names start with Bug are faulty variants of the one
   that follows; substituting them shows that the properties can fail. *)

(* acquire_inflight, one critical section of the map's mutex. *)
Lead(t, k) ==
  /\ pc[t] = "idle"
  /\ k \notin DOMAIN inflight
  /\ inflight' = [j \in DOMAIN inflight \cup {k} |-> IF j = k THEN t ELSE inflight[j]]
  /\ pc' = [pc EXCEPT ![t] = "resolving"]
  /\ key' = [key EXCEPT ![t] = k]
  /\ UNCHANGED <<leader, mailbox, result>>

Follow(t, k) ==
  /\ pc[t] = "idle"
  /\ k \in DOMAIN inflight
  /\ pc' = [pc EXCEPT ![t] = "waiting"]
  /\ key' = [key EXCEPT ![t] = k]
  /\ leader' = [leader EXCEPT ![t] = inflight[k]]
  /\ UNCHANGED <<inflight, mailbox, result>>

(* InflightGuard::drop *)
DropGuard(t) == inflight' = [k \in DOMAIN inflight \ {key[t]} |-> inflight[k]]

BugGuardOutlivesSend(t, r) ==
  /\ pc[t] = "resolving"
  /\ pc' = [pc EXCEPT ![t] = "sending"]
  /\ result' = [result EXCEPT ![t] = r]
  /\ UNCHANGED <<inflight, key, leader, mailbox>>

(* resolve_fn().await has a result; the guard is dropped before it is sent. *)
Resolve(t, r) ==
  /\ pc[t] = "resolving"
  /\ DropGuard(t)
  /\ pc' = [pc EXCEPT ![t] = "sending"]
  /\ result' = [result EXCEPT ![t] = r]
  /\ UNCHANGED <<key, leader, mailbox>>

(* Every receiver subscribed to t's channel that has not read yet gets m. *)
Broadcast(t, m) ==
  mailbox' = [f \in Tasks |->
                IF pc[f] = "waiting" /\ leader[f] = t /\ mailbox[f] = {}
                THEN {m} ELSE mailbox[f]]

(* tx.send(..), after which the leader returns and its sender is dropped. *)
Send(t) ==
  /\ pc[t] = "sending"
  /\ Broadcast(t, result[t])
  /\ pc' = [pc EXCEPT ![t] = "done"]
  /\ UNCHANGED <<inflight, key, leader, result>>

(* rx.recv().await returns: Coalesced for an answer, SERVFAIL otherwise. *)
Receive(t) ==
  /\ pc[t] = "waiting"
  /\ \E m \in mailbox[t] : result' = [result EXCEPT ![t] = m]
  /\ mailbox' = [mailbox EXCEPT ![t] = {}]
  /\ leader' = [leader EXCEPT ![t] = NoTask]
  /\ pc' = [pc EXCEPT ![t] = "done"]
  /\ UNCHANGED <<inflight, key>>

BugCancelWithoutGuard(t) ==
  /\ pc[t] = "resolving"
  /\ pc' = [pc EXCEPT ![t] = "dropping"]
  /\ UNCHANGED <<inflight, key, leader, mailbox, result>>

(* The leader's future is dropped (or resolve_fn panics) while it resolves:
   the guard goes first, then the sender. *)
CancelLeader(t) ==
  /\ pc[t] = "resolving"
  /\ DropGuard(t)
  /\ pc' = [pc EXCEPT ![t] = "dropping"]
  /\ UNCHANGED <<key, leader, mailbox, result>>

BugSenderLeaks(t) ==
  /\ pc[t] = "dropping"
  /\ pc' = [pc EXCEPT ![t] = "done"]
  /\ UNCHANGED <<inflight, key, leader, mailbox, result>>

(* The last sender of the channel goes: receivers see it closed. *)
DropSender(t) ==
  /\ pc[t] = "dropping"
  /\ Broadcast(t, Failed)
  /\ pc' = [pc EXCEPT ![t] = "done"]
  /\ UNCHANGED <<inflight, key, leader, result>>

(* The follower's future, and its receiver, is dropped. *)
CancelFollower(t) ==
  /\ pc[t] = "waiting"
  /\ mailbox' = [mailbox EXCEPT ![t] = {}]
  /\ leader' = [leader EXCEPT ![t] = NoTask]
  /\ pc' = [pc EXCEPT ![t] = "done"]
  /\ UNCHANGED <<inflight, key, result>>

(* The task takes its next query. *)
Reuse(t) ==
  /\ pc[t] = "done"
  /\ pc' = [pc EXCEPT ![t] = "idle"]
  /\ result' = [result EXCEPT ![t] = Failed]
  /\ UNCHANGED <<inflight, key, leader, mailbox>>

Next ==
  \/ \E t \in Tasks, k \in QKeys : Lead(t, k) \/ Follow(t, k)
  \/ \E t \in Tasks, r \in Results : Resolve(t, r)
  \/ \E t \in Tasks :
       \/ Send(t) \/ Receive(t)
       \/ CancelLeader(t) \/ DropSender(t) \/ CancelFollower(t)
       \/ Reuse(t)

Spec == Init /\ [][Next]_vars

(* Every await of resolve_fn is bounded by a timeout (ctx.timeout on the
   forward path, NS_QUERY_TIMEOUT and the depth limits on the recursive one),
   and the runtime polls tasks that can make progress. *)
Fairness ==
  \A t \in Tasks :
    /\ WF_vars(\E r \in Results : Resolve(t, r))
    /\ WF_vars(Send(t))
    /\ WF_vars(Receive(t))
    /\ WF_vars(DropSender(t))

FairSpec == Spec /\ Fairness

-----------------------------------------------------------------------------
(* Types of the coalescing state. *)
TypeOK ==
  /\ DOMAIN inflight \subseteq QKeys
  /\ \A k \in DOMAIN inflight : inflight[k] \in Tasks
  /\ pc \in [Tasks -> PC]
  /\ key \in [Tasks -> QKeys]
  /\ leader \in [Tasks -> Tasks \cup {NoTask}]
  /\ mailbox \in [Tasks -> SUBSET Results]
  /\ result \in [Tasks -> Results]

(* The map and the guards agree: an entry is there exactly while the leader
   that put it there resolves.  So a guard's drop removes its own entry and
   never that of a later leader of the same key, and no entry is leaked by a
   cancelled leader. *)
GuardOwnsEntry ==
  /\ \A k \in DOMAIN inflight : pc[inflight[k]] = "resolving" /\ key[inflight[k]] = k
  /\ \A t \in Tasks : pc[t] = "resolving" => key[t] \in DOMAIN inflight /\ inflight[key[t]] = t

(* Concurrent calls for the same key share a single resolution. *)
OneFlightPerKey ==
  \A s, t \in Tasks :
    pc[s] = "resolving" /\ pc[t] = "resolving" /\ key[s] = key[t] => s = t

(* A follower that has nothing to read yet follows a leader of its own key
   that still holds a live sender: dropping the guard before sending leaves
   no window in which a call subscribes to a channel nobody will use. *)
NoOrphanFollower ==
  \A t \in Tasks : pc[t] = "waiting" /\ mailbox[t] = {} =>
    /\ leader[t] \in Tasks
    /\ pc[leader[t]] \in {"resolving", "sending", "dropping"}
    /\ key[leader[t]] = key[t]

(* Whatever leaders and followers are cancelled and whoever comes in between,
   map, guards, senders and followers fit together, and equal calls share one
   resolution (src/src/ctx.rs, acquire_inflight, resolve_coalesced and
   InflightGuard). *)
FlightsConsistent == TypeOK /\ GuardOwnsEntry /\ OneFlightPerKey /\ NoOrphanFollower

(* Every call returns: no follower waits for ever, whichever leaders are
   cancelled. *)
EveryCallReturns ==
  \A t \in Tasks : pc[t] \in {"resolving", "waiting"} ~> pc[t] = "done"

-----------------------------------------------------------------------------
(* Refinement: a flight lands when its leader drops the guard with a result. *)
Phase(t) ==
  CASE pc[t] = "idle" -> "idle"
    [] pc[t] = "resolving" -> "aboard"
    [] pc[t] = "sending" -> "owed"
    [] pc[t] \in {"dropping", "done"} -> "answered"
    [] pc[t] = "waiting" ->
         IF mailbox[t] = {} /\ pc[leader[t]] = "resolving" THEN "aboard" ELSE "owed"

Owed(t) ==
  CASE pc[t] = "waiting" /\ mailbox[t] # {} -> CHOOSE m \in mailbox[t] : TRUE
    [] pc[t] = "waiting" /\ mailbox[t] = {} /\ pc[leader[t]] = "sending" -> result[leader[t]]
    [] pc[t] \in {"sending", "done"} -> result[t]
    [] OTHER -> Failed

SF == INSTANCE SingleFlight WITH
        phase <- [t \in Tasks |-> Phase(t)],
        owed  <- [t \in Tasks |-> Owed(t)]

(* resolve_coalesced keeps the promise of SingleFlight: sending the result in
   a separate step, after the guard is gone, is invisible to the callers. *)
SharesOneFlight == SF!Spec
=============================================================================
