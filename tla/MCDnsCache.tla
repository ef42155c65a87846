----------------------------- MODULE MCDnsCache -----------------------------
(***************************************************************************)
(* TLC instance of DnsCache: two names with two types each over a           *)
(* cache of two entries, half-second ticks, TTLs on both sides of the four  *)
(* second boundary of needs_warm.                                           *)
(***************************************************************************)
EXTENDS DnsCache, TLC

Symmetry == Permutations(Domains) \cup Permutations(Data)
=============================================================================
