----------------------------- MODULE MCResolver -----------------------------
(* TLC instances of Resolver: one name of one type, so that every task and
   every refresher competes for the same key. *)
EXTENDS Resolver, TLC

MCWarmTypes == <<"A">>

(* A forwarder with a warm list, a recursive resolver, and one that validates
   and is strict. *)
Setting(mode, dnssec, warm) ==
  [upstream_mode |-> mode, dnssec_enabled |-> dnssec, dnssec_strict |-> dnssec, warm |-> warm]
Forwarding == Setting("Upstream", FALSE, Domains)
Recursive  == {Setting("Recursive", FALSE, {})}
Validating == {Setting("Recursive", TRUE, {})}
Modes      == {Forwarding} \cup Validating

Symmetry == Permutations(Tasks)
=============================================================================
