------------------------------ MODULE BlockOps ------------------------------
(***************************************************************************)
(* The lists of domains of numa as operators on values: the two-layer list  *)
(* of src/src/domain_list.rs, the blocklist store of src/src/blocklist.rs   *)
(* and the per-client rules of src/src/client_policy.rs.                    *)
(*                                                                          *)
(* A name is its sequence of labels, the TLD last, as normalize leaves it.  *)
(* An optional name is a set of at most one.                                *)
(***************************************************************************)
EXTENDS Integers, Sequences, FiniteSets

(* Exact-or-parent match: the longest suffix of d in S, d itself included. *)
find_in_set(d, S) ==
  LET at == {i \in 1..Len(d) : SubSeq(d, i, Len(d)) \in S}
  IN {SubSeq(d, i, Len(d)) : i \in {j \in at : \A k \in at : j <= k}}

-----------------------------------------------------------------------------
(* PersistedDomainList: entries of the configuration and of the user. *)
List(config, user) == [config |-> config, user |-> user \ config]

Inserts(l, d) == d \notin l.config \cup l.user
insert(l, d) == IF Inserts(l, d) THEN [l EXCEPT !.user = @ \cup {d}] ELSE l
remove(l, d) == [l EXCEPT !.user = @ \ {d}]
entries(l) == l.config \cup l.user

find_normalized(l, d) ==
  LET c == find_in_set(d, l.config) IN IF c # {} THEN c ELSE find_in_set(d, l.user)

-----------------------------------------------------------------------------
(* BlocklistStore.  paused_until is 0 when there is no pause. *)

NewStore(allowlist, manual) ==
  [domains |-> {}, allowlist |-> allowlist, manual |-> manual, enabled |-> TRUE,
   paused_until |-> 0, list_sources |-> {}]

is_blocked(b, d, now) ==
  /\ b.enabled /\ now >= b.paused_until
  /\ find_normalized(b.allowlist, d) = {}
  /\ \/ find_normalized(b.manual, d) # {}
     \/ find_in_set(d, b.domains) # {}

BlockCheckResult(blocked, matched) == [blocked |-> blocked, matched_rule |-> matched]

(* The same decision with the rule that made it. *)
check(b, d, now) ==
  LET allow == find_normalized(b.allowlist, d)
      block == find_normalized(b.manual, d)
      lists == find_in_set(d, b.domains)
  IN IF ~b.enabled \/ now < b.paused_until THEN BlockCheckResult(FALSE, {})
     ELSE IF allow # {} THEN BlockCheckResult(FALSE, allow)
     ELSE IF block # {} THEN BlockCheckResult(TRUE, block)
     ELSE BlockCheckResult(lists # {}, lists)

swap_domains(b, domains, sources) ==
  [b EXCEPT !.domains = domains, !.list_sources = sources]

(* A line of a list: what kind it is and the names on it.  A hosts line has
   any number of names, another line one, and a line with blanks none. *)
insert_if_valid(names) == {n \in names : Len(n) > 1 /\ n # <<"localhost", "localdomain">>}

parse_blocklist(lines) ==
  insert_if_valid(UNION {l.names : l \in {x \in lines : x.kind \in {"hosts", "domain"}}})

-----------------------------------------------------------------------------
(* ClientPolicySet: a rule is [nets, store, filter_aaaa], nets the clients
   its networks match and filter_aaaa a set of at most one BOOLEAN. *)

(* A configuration with a rule for nobody, or one that says nothing, is
   refused. *)
Rule(from, exclude, blocks, allows, filter_aaaa) ==
  [nets |-> from \ exclude, filter_aaaa |-> filter_aaaa,
   store |-> swap_domains(NewStore(List(allows, {}), List({}, {})), blocks, {})]

matching_rules(rules, peer, loopback) ==
  SelectSeq(rules, LAMBDA r : ~loopback /\ peer \in r.nets)

(* The first rule that says something about the name decides. *)
evaluate(rules, peer, loopback, d) ==
  LET mine  == matching_rules(rules, peer, loopback)
      Says(i) == check(mine[i].store, d, 0).matched_rule # {}
      first == {i \in DOMAIN mine : Says(i) /\ \A j \in 1..(i - 1) : ~Says(j)}
  IN IF first = {} THEN "Passthrough"
     ELSE IF \E i \in first : check(mine[i].store, d, 0).blocked THEN "Block" ELSE "Allow"

effective_filter_aaaa(rules, peer, loopback, global) ==
  LET mine  == matching_rules(rules, peer, loopback)
      first == {i \in DOMAIN mine : mine[i].filter_aaaa # {}
                                    /\ \A j \in 1..(i - 1) : mine[j].filter_aaaa = {}}
  IN IF first = {} THEN global ELSE \E i \in first : TRUE \in mine[i].filter_aaaa
=============================================================================
