----------------------------- MODULE UdpBreaker -----------------------------
(***************************************************************************)
(* The UDP breaker of the recursive resolver (src/src/recursive.rs:         *)
(* send_query, probe_udp, reset_udp_state) and the part of the network      *)
(* watch loop that drives it (src/src/serve.rs: network_watch_loop).  The   *)
(* breaker is two process-wide atomics, written by every query under way    *)
(* and by the watch loop with no lock between them; each step below is one  *)
(* atomic access or one network outcome.                                    *)
(***************************************************************************)
EXTENDS Integers

CONSTANTS
  Tasks,               \* concurrent calls of send_query
  UDP_FAIL_THRESHOLD,
  CounterMod           \* 256: UDP_FAILURES is an AtomicU8

ASSUME BreakerConstants ==
  /\ UDP_FAIL_THRESHOLD \in Nat \ {0} /\ CounterMod \in Nat \ {0}
  /\ UDP_FAIL_THRESHOLD < CounterMod

VARIABLES
  UDP_FAILURES, UDP_DISABLED,
  at,       \* where each call is
  fails,    \* the value fetch_add gave a call, plus one
  watch     \* where the watch loop is: idle, probing, or between the two stores

vars == <<UDP_FAILURES, UDP_DISABLED, at, fails, watch>>

PC == {"idle", "udp", "check", "trip", "tcp"}

Init ==
  /\ UDP_FAILURES = 0 /\ UDP_DISABLED = FALSE
  /\ at = [t \in Tasks |-> "idle"]
  /\ fails = [t \in Tasks |-> 0]
  /\ watch = "idle"

Goto(t, l) == at' = [at EXCEPT ![t] = l]

(* The definitions whose names start with Bug are faulty variants of the one
   that follows; substituting them shows that the properties can fail. *)

(* send_query: IPv6 servers, and all servers while UDP is disabled, are asked
   over TCP. *)
Start(t, ipv6) ==
  /\ at[t] = "idle"
  /\ Goto(t, IF ipv6 \/ UDP_DISABLED THEN "tcp" ELSE "udp")
  /\ UNCHANGED <<UDP_FAILURES, UDP_DISABLED, fails, watch>>

(* A complete UDP answer clears the counter. *)
UdpAnswer(t) ==
  /\ at[t] = "udp"
  /\ UDP_FAILURES' = 0
  /\ Goto(t, "idle")
  /\ UNCHANGED <<UDP_DISABLED, fails, watch>>

(* A truncated one is asked again over TCP; the counter is left alone. *)
UdpTruncated(t) ==
  /\ at[t] = "udp"
  /\ Goto(t, "tcp")
  /\ UNCHANGED <<UDP_FAILURES, UDP_DISABLED, fails, watch>>

(* A timeout or error: UDP_FAILURES.fetch_add(1) + 1, in eight bits. *)
UdpError(t) ==
  /\ at[t] = "udp"
  /\ UDP_FAILURES' = (UDP_FAILURES + 1) % CounterMod
  /\ fails' = [fails EXCEPT ![t] = (UDP_FAILURES + 1) % CounterMod]
  /\ Goto(t, "check")
  /\ UNCHANGED <<UDP_DISABLED, watch>>

BugTripsOneLate(t) ==
  /\ at[t] = "check"
  /\ Goto(t, IF fails[t] > UDP_FAIL_THRESHOLD /\ ~UDP_DISABLED THEN "trip" ELSE "idle")
  /\ UNCHANGED <<UDP_FAILURES, UDP_DISABLED, fails, watch>>

(* fails >= threshold && !UDP_DISABLED: otherwise the query just fails. *)
Check(t) ==
  /\ at[t] = "check"
  /\ Goto(t, IF fails[t] >= UDP_FAIL_THRESHOLD /\ ~UDP_DISABLED THEN "trip" ELSE "idle")
  /\ UNCHANGED <<UDP_FAILURES, UDP_DISABLED, fails, watch>>

(* The store that trips the breaker, before the retry over TCP. *)
Trip(t) ==
  /\ at[t] = "trip"
  /\ UDP_DISABLED' = TRUE
  /\ Goto(t, "tcp")
  /\ UNCHANGED <<UDP_FAILURES, fails, watch>>

TcpDone(t) ==
  /\ at[t] = "tcp"
  /\ Goto(t, "idle")
  /\ UNCHANGED <<UDP_FAILURES, UDP_DISABLED, fails, watch>>

-----------------------------------------------------------------------------
BugResetLeavesFlag ==
  /\ watch' = "clearing"
  /\ UNCHANGED <<UDP_FAILURES, UDP_DISABLED, at, fails>>

(* reset_udp_state: the flag is stored first ... *)
ResetFlag ==
  /\ UDP_DISABLED' = FALSE
  /\ watch' = "clearing"
  /\ UNCHANGED <<UDP_FAILURES, at, fails>>

(* ... and then the counter. *)
ResetCounter ==
  /\ watch = "clearing"
  /\ UDP_FAILURES' = 0
  /\ watch' = "idle"
  /\ UNCHANGED <<UDP_DISABLED, at, fails>>

(* network_watch_loop: the LAN address changed. *)
LanIpChanged == watch = "idle" /\ ResetFlag

(* network_watch_loop: every five minutes, probe_udp if UDP is disabled. *)
ProbeStart ==
  /\ watch = "idle" /\ UDP_DISABLED
  /\ watch' = "probing"
  /\ UNCHANGED <<UDP_FAILURES, UDP_DISABLED, at, fails>>

ProbeOk == watch = "probing" /\ ResetFlag

ProbeFails ==
  /\ watch = "probing"
  /\ watch' = "idle"
  /\ UNCHANGED <<UDP_FAILURES, UDP_DISABLED, at, fails>>

Next ==
  \/ \E t \in Tasks, ipv6 \in BOOLEAN : Start(t, ipv6)
  \/ \E t \in Tasks : \/ UdpAnswer(t) \/ UdpTruncated(t) \/ UdpError(t)
                      \/ Check(t) \/ Trip(t) \/ TcpDone(t)
  \/ LanIpChanged \/ ProbeStart \/ ProbeOk \/ ProbeFails \/ ResetCounter

Spec == Init /\ [][Next]_vars

(* The watch loop keeps running, and a probe that is sent again and again is
   answered some time (the network lets UDP through again). *)
Fairness ==
  /\ WF_vars(ResetCounter) /\ WF_vars(ProbeStart)
  /\ WF_vars(ProbeOk \/ ProbeFails) /\ SF_vars(ProbeOk)

FairSpec == Spec /\ Fairness

-----------------------------------------------------------------------------
(* Types of the breaker's state. *)
TypeOK ==
  /\ UDP_FAILURES \in 0..CounterMod - 1 /\ UDP_DISABLED \in BOOLEAN
  /\ at \in [Tasks -> PC]
  /\ fails \in [Tasks -> 0..CounterMod - 1]
  /\ watch \in {"idle", "probing", "clearing"}

(* While nothing succeeds and nothing is reset, the threshold-th failure is
   the last to go unnoticed: at rest, a counter at or past the threshold means
   UDP is disabled. *)
TripsAtThreshold ==
  (\A t \in Tasks : at[t] \in {"idle", "tcp"}) /\ watch # "clearing"
    /\ UDP_FAILURES >= UDP_FAIL_THRESHOLD => UDP_DISABLED

(* A network that lets UDP through again gets UDP back. *)
UdpComesBack == UDP_DISABLED ~> ~UDP_DISABLED

=============================================================================
