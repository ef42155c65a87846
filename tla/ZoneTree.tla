------------------------------ MODULE ZoneTree -------------------------------
(***************************************************************************)
(* A tree of DNS zones as resolve_iterative meets it: which server is       *)
(* authoritative for what, the delegations and their glue, and what an      *)
(* honest server answers.  The tree is outside the repository; the shapes   *)
(* of the responses are the ones src/src/recursive.rs tells apart.          *)
(***************************************************************************)
EXTENDS Integers, Sequences, FiniteSets

CONSTANTS
  Zones,      \* zone apex -> [servers, ns, glue, ds]: the addresses that serve
              \* it, its NS hosts, those with glue in the parent, signed or not
  Records     \* the records inside the zones, NS and DS aside

Apexes == DOMAIN Zones

Under(n, z) ==
  Len(z) <= Len(n) /\ SubSeq(n, Len(n) - Len(z) + 1, Len(n)) = z

Deepest(S) == CHOOSE z \in S : \A y \in S : Len(y) <= Len(z)

NsRecords(z) == {[domain |-> z, type |-> "NS", data |-> h] : h \in Zones[z].ns}
DsRecords(z) == IF Zones[z].ds THEN {[domain |-> z, type |-> "DS", data |-> z]} ELSE {}
AllRecords == Records \cup UNION {NsRecords(z) \cup DsRecords(z) : z \in Apexes}

Exists(n) == \E r \in AllRecords : Under(r.domain, n)

Matching(n, types) == {r \in AllRecords : r.domain = n /\ r.type \in types}

(* Names are sequences of labels.  Every zone but the root has name servers
   in its parent, and an alias is the only record at its name. *)
Name == Seq(STRING)

ASSUME TreeConstants ==
  /\ Apexes \subseteq Name
  /\ \A z \in Apexes :
       /\ Zones[z].ns \subseteq Name /\ IsFiniteSet(Zones[z].ns)
       /\ z # <<>> => Zones[z].ns # {}
  /\ \A r \in Records :
       /\ r.domain \in Name /\ r.type \notin {"NS", "DS"}
       /\ r.type = "CNAME" =>
            r.data \in Name /\ \A x \in AllRecords : x.domain = r.domain => x = r

Soa(z) == {[domain |-> z, type |-> "SOA", data |-> z]}

(* A zone's own word on n: its records, a CNAME, or a denial. *)
Authoritative(z, n, t) ==
  LET found == IF Matching(n, {"CNAME"}) # {} THEN Matching(n, {"CNAME"}) ELSE Matching(n, {t})
  IN [rcode       |-> IF Exists(n) THEN "NOERROR" ELSE "NXDOMAIN",
      answers     |-> found,
      authorities |-> IF found = {} THEN Soa(z) ELSE {},
      resources   |-> {}]

(* The parent's referral to a zone, with the glue it has. *)
ReferralTo(z) ==
  [rcode |-> "NOERROR", answers |-> {},
   authorities |-> NsRecords(z) \cup DsRecords(z),
   resources |-> {r \in Records : r.domain \in Zones[z].glue /\ r.type \in {"A", "AAAA"}}]

Refused == [rcode |-> "REFUSED", answers |-> {}, authorities |-> {}, resources |-> {}]

NoRecords(z) ==
  [rcode |-> "NOERROR", answers |-> {}, authorities |-> Soa(z), resources |-> {}]

(* What server s sends for name n and type t: from the deepest zone it serves
   above n, a referral at the first cut below it, else the zone's own word.
   The DS record of a zone is its parent's to give: the zone has none. *)
Honest(s, n, t) ==
  LET ParentSide(z) == t = "DS" /\ n = z
      serves == {z \in Apexes : s \in Zones[z].servers /\ Under(n, z)}
      above  == {z \in serves : ~ParentSide(z)}
      home   == Deepest(above)
      cuts   == {z \in Apexes : Under(n, z) /\ Under(z, home) /\ z # home /\ ~ParentSide(z)}
      cut    == CHOOSE z \in cuts : \A y \in cuts : Len(z) <= Len(y)
  IN {IF serves = {} THEN Refused
      ELSE IF above = {} THEN NoRecords(n)
      ELSE IF cuts # {} THEN ReferralTo(cut)
      ELSE Authoritative(home, n, t)}

-----------------------------------------------------------------------------
AliasOf(n) == {r.data : r \in Matching(n, {"CNAME"})}

(* The name that n stands for after at most hops CNAMEs. *)
Canonical(n, t, hops) ==
  LET at[i \in 0..hops] ==
        IF i = 0 THEN n
        ELSE IF t = "CNAME" \/ AliasOf(at[i - 1]) = {} THEN at[i - 1]
        ELSE CHOOSE m \in AliasOf(at[i - 1]) : TRUE
  IN at[hops]

(* The owners of CNAMEs that lead to m: the least set with every owner of a
   CNAME to m or to a member. *)
Owners == {r.domain : r \in {x \in Records : x.type = "CNAME"}}
LeadingTo(m) ==
  {n \in Owners : \A S \in SUBSET Owners :
     (\A x \in Owners : AliasOf(x) \subseteq S \cup {m} => x \in S) => n \in S}

(* Where the CNAMEs of each owner end; nowhere when they loop. *)
Aliased == UNION {AliasOf(n) : n \in Owners}
EndsOf == [n \in Owners |-> {m \in Aliased \ Owners : n \in LeadingTo(m)}]

Ends(n) == IF n \in Owners THEN EndsOf[n] ELSE {n}

(* The rcode and records that are true of <<name, type>>. *)
Truths(k) ==
  {[rcode |-> IF Exists(n) THEN "NOERROR" ELSE "NXDOMAIN", records |-> Matching(n, {k[2]})] :
     n \in IF k[2] = "CNAME" THEN {k[1]} ELSE Ends(k[1])}
=============================================================================
