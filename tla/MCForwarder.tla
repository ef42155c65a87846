---------------------------- MODULE MCForwarder -----------------------------
(* TLC instances of Forwarder. *)
EXTENDS Forwarder

CONSTANTS a1, a2

(* A UDP primary, which gets a TCP sibling, and a configured fallback. *)
WithFallback ==
  [primary |-> <<Udp(a1)>>, fallback |-> <<[kind |-> "Dot", at |-> a2]>>,
   hedged |-> FALSE, auto |-> FALSE]

(* No fallback at all: the default DoH primary, until the watch loop finds a
   system resolver and installs it. *)
WithoutFallback ==
  [primary |-> <<[kind |-> "Doh", at |-> a2]>>, fallback |-> <<>>,
   hedged |-> TRUE, auto |-> TRUE]

Symmetry == Permutations(Tasks)

BothConfigs == {WithFallback, WithoutFallback}
=============================================================================
