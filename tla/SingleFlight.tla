---------------------------- MODULE SingleFlight ----------------------------
(***************************************************************************)
(* What numa's in-flight coalescing promises (the doc comment of            *)
(* resolve_coalesced, src/src/ctx.rs): concurrent calls for one key share   *)
(* one resolution.  A call boards the flight of its key, starting one if    *)
(* none is under way; a flight lands once, and everybody on board is owed   *)
(* the same result from that instant.  Nobody boards a flight that has      *)
(* landed, so no call is ever answered with the result of a resolution that *)
(* ended before the call was made.                                          *)
(***************************************************************************)
CONSTANTS
  Tasks,    \* tasks that make calls
  QKeys,    \* (name, type) keys
  Answers,  \* what a successful resolution returns
  Failed    \* the result of a resolution that failed or was abandoned

VARIABLES
  phase,   \* phase[t]: "idle", "aboard", "owed" or "answered"
  key,     \* key[t]: the key t asked for (meaningful unless idle)
  owed     \* owed[t]: the result t is owed or was answered

vars == <<phase, key, owed>>

Results == Answers \cup {Failed}

Init ==
  /\ phase = [t \in Tasks |-> "idle"]
  /\ key \in [Tasks -> QKeys]
  /\ owed = [t \in Tasks |-> Failed]

Aboard(k) == {t \in Tasks : phase[t] = "aboard" /\ key[t] = k}

Board(t, k) ==
  /\ phase[t] = "idle"
  /\ phase' = [phase EXCEPT ![t] = "aboard"]
  /\ key' = [key EXCEPT ![t] = k]
  /\ owed' = [owed EXCEPT ![t] = Failed]

(* The flight of k lands with result r for everybody on board; those in
   gone were abandoned by their callers at that very moment. *)
Land(k, r, gone) ==
  /\ Aboard(k) # {}
  /\ gone \subseteq Aboard(k)
  /\ phase' = [t \in Tasks |-> IF t \in gone THEN "answered"
                               ELSE IF t \in Aboard(k) THEN "owed" ELSE phase[t]]
  /\ owed' = [t \in Tasks |-> IF t \in Aboard(k) THEN r ELSE owed[t]]
  /\ UNCHANGED key

Answer(t) ==
  /\ phase[t] = "owed"
  /\ phase' = [phase EXCEPT ![t] = "answered"]
  /\ UNCHANGED <<key, owed>>

(* The caller went away before it was answered. *)
Leave(t) ==
  /\ phase[t] \in {"aboard", "owed"}
  /\ phase' = [phase EXCEPT ![t] = "answered"]
  /\ owed' = [owed EXCEPT ![t] = Failed]
  /\ UNCHANGED key

Forget(t) ==
  /\ phase[t] = "answered"
  /\ phase' = [phase EXCEPT ![t] = "idle"]
  /\ owed' = [owed EXCEPT ![t] = Failed]
  /\ UNCHANGED key

Next ==
  \/ \E t \in Tasks : Answer(t) \/ Leave(t) \/ Forget(t)
  \/ \E t \in Tasks, k \in QKeys : Board(t, k)
  \/ \E k \in QKeys, r \in Results, gone \in SUBSET Tasks : Land(k, r, gone)

Spec == Init /\ [][Next]_vars
=============================================================================
