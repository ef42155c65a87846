--------------------------- MODULE HonestRecursion ---------------------------
(***************************************************************************)
(* Recursion over a tree of zones whose servers answer honestly (Answers is *)
(* ZoneTree's Honest) but whose requests may fail: what resolve_iterative   *)
(* returns and leaves in the cache, against what the tree says.             *)
(***************************************************************************)
EXTENDS Recursion, ZoneTree

CONSTANT Broken   \* zones that no resolver can reach

(* A pending call has just returned to its caller outside. *)
Returned == stack = <<>> /\ ret # NoPacket

(* A packet tells the truth about k: the right rcode and, in the answer (or
   for NS in the authority section of a primed referral), the right records. *)
Tells(k, p) ==
  LET said == p.answers \cup OfType(p.authorities, {"NS"})
  IN [rcode |-> p.rcode, records |-> OfType(said, {k[2]})] \in Truths(k)

(* Whatever the order of failures, expiries, priming and earlier calls, an
   answer of resolve_iterative is the tree's answer to that question, CNAMEs
   followed (src/src/recursive.rs, resolve_iterative); a server may refuse. *)
AnswersAreTrue ==
  Returned /\ ret # Err /\ ret.rcode # "REFUSED" => Tells(query, ret)

(* Everything the walk leaves in the cache for later calls (answers, negative
   answers, glue, delegations, DS records) is true of its key. *)
CacheIsTrue ==
  \A k \in DOMAIN cache : cache[k].rcode # "REFUSED" => Tells(k, cache[k])

(* Neither an answer nor anything a later walk may start from tells what the
   tree does not say (src/src/recursive.rs, resolve_iterative). *)
TellsTheTruth == AnswersAreTrue /\ CacheIsTrue

(* The question leads through a broken zone or a longer chain of CNAMEs than
   the resolver follows. *)
Unresolvable(k) ==
  \/ \E z \in Broken, h \in 0..MAX_CNAME_DEPTH : Under(Canonical(k[1], k[2], h), z)
  \/ k[2] # "CNAME" /\ AliasOf(Canonical(k[1], k[2], MAX_CNAME_DEPTH)) # {}

(* The depth limits and the skipping of servers never fail a question that
   can be answered: without a failed request a call fails only when the tree
   is at fault. *)
FailsOnlyAfterLoss ==
  Returned /\ ret = Err /\ ~lost => Unresolvable(query)
=============================================================================
