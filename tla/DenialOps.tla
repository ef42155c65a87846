----------------------------- MODULE DenialOps -----------------------------
(***************************************************************************)
(* NSEC and NSEC3 proofs that a name or a type does not exist              *)
(* (src/src/dnssec.rs, type_bitmap_contains to validate_denial).           *)
(*                                                                         *)
(* A name is a sequence of labels, its own label first; labels are numbers *)
(* in canonical order and Wildcard is the label "*".  A type is its number.*)
(* A bitmap is the octets of the type bitmap field.                        *)
(***************************************************************************)
EXTENDS Integers, SequencesExt

CONSTANT Hash(_)  \* external: the NSEC3 hash of a name
Wildcard == 0
CNAME == 5
NoName == <<-1>>

(* Windows of 256 types: number, length, and a bit per type from the left. *)
type_bitmap_contains(bitmap, qtype) ==
  LET offset == (qtype % 256) \div 8
      Bit(byte) == (byte \div 2^(7 - (qtype % 8))) % 2 = 1
      from[pos \in Nat] ==
        IF pos + 2 > Len(bitmap) \/ pos + 2 + bitmap[pos + 2] > Len(bitmap) THEN FALSE
        ELSE IF bitmap[pos + 1] = qtype \div 256 /\ offset < bitmap[pos + 2]
        THEN Bit(bitmap[pos + 3 + offset])
        ELSE from[pos + 2 + bitmap[pos + 2]]
  IN from[0]

(* -1, 0 or 1: labels compared from the root, then the number of labels. *)
canonical_dns_name_order(a, b) ==
  LET Sign(n) == IF n < 0 THEN -1 ELSE IF n > 0 THEN 1 ELSE 0
      x == Reverse(a)
      y == Reverse(b)
      differ == {i \in DOMAIN x \cap DOMAIN y : x[i] # y[i]}
  IN IF differ = {} THEN Sign(Len(a) - Len(b)) ELSE Sign(x[Min(differ)] - y[Min(differ)])

nsec_covers_name(owner, next, qname) ==
  LET Order(a, b) == canonical_dns_name_order(a, b)
  IN IF Order(owner, next) >= 0 THEN Order(qname, owner) > 0 \/ Order(qname, next) < 0
     ELSE Order(qname, owner) > 0 /\ Order(qname, next) < 0

(* The longest ancestor of qname, or qname itself, that owns one of nsecs. *)
closest_encloser(qname, nsecs) ==
  LET owned == {i \in DOMAIN qname : \E r \in nsecs : r.owner = SubSeq(qname, i, Len(qname))}
  IN IF owned = {} THEN NoName ELSE SubSeq(qname, Min(owned), Len(qname))

LacksType(bitmap, qtype) ==
  ~type_bitmap_contains(bitmap, qtype) /\ ~type_bitmap_contains(bitmap, CNAME)

nsec_proves_nodata(r, qname, qtype) == r.owner = qname /\ LacksType(r.types, qtype)

(* The NSEC half of validate_denial. *)
NsecDenial(nsecs, qname, qtype, is_nxdomain) ==
  LET ce == closest_encloser(qname, nsecs)
      star == <<Wildcard>> \o ce
      name_covered == \E r \in nsecs : nsec_covers_name(r.owner, r.next, qname)
      wildcard_denied ==
        ce # NoName => \E r \in nsecs : nsec_covers_name(r.owner, r.next, star) \/ r.owner = star
      proven == IF is_nxdomain THEN name_covered /\ wildcard_denied
                ELSE \E r \in nsecs : nsec_proves_nodata(r, qname, qtype)
  IN IF proven THEN "Secure" ELSE "Bogus"

-----------------------------------------------------------------------------
nsec3_hash_in_range(owner, next, target) ==
  IF owner < next THEN owner < target /\ target < next ELSE target > owner \/ target < next

nsec3_any_covers(nsec3s, target) == \E r \in nsec3s : nsec3_hash_in_range(r.owner, r.next, target)

(* The NSEC3 half: closest encloser matched, next closer name covered,
   wildcard at the closest encloser covered. *)
BugSkipsNextCloser(nsec3s, qname) ==
  \E i \in 2..Len(qname) :
    LET ce == SubSeq(qname, i, Len(qname))
    IN /\ \E r \in nsec3s : r.owner = Hash(ce)
       /\ nsec3_any_covers(nsec3s, Hash(<<Wildcard>> \o ce))

Nsec3NameDenied(nsec3s, qname) ==
  \E i \in 2..Len(qname) :
    LET ce == SubSeq(qname, i, Len(qname))
    IN /\ \E r \in nsec3s : r.owner = Hash(ce)
       /\ nsec3_any_covers(nsec3s, Hash(SubSeq(qname, i - 1, Len(qname))))
       /\ nsec3_any_covers(nsec3s, Hash(<<Wildcard>> \o ce))

Nsec3Denial(nsec3s, qname, qtype, is_nxdomain) ==
  LET proven == IF is_nxdomain THEN Nsec3NameDenied(nsec3s, qname)
                ELSE \E r \in nsec3s : r.owner = Hash(qname) /\ LacksType(r.types, qtype)
  IN IF proven THEN "Secure" ELSE "Bogus"

(* validate_denial; verified says that the records' signatures hold under a
   key of the signer that is in the cache. *)
validate_denial(nsecs, nsec3s, verified, qname, qtype, is_nxdomain) ==
  CASE nsecs # {} -> IF verified THEN NsecDenial(nsecs, qname, qtype, is_nxdomain) ELSE "Indeterminate"
    [] nsecs = {} /\ nsec3s # {} ->
         IF verified THEN Nsec3Denial(nsec3s, qname, qtype, is_nxdomain) ELSE "Indeterminate"
    [] OTHER -> "Indeterminate"
=============================================================================
