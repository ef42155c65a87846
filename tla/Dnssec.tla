------------------------------- MODULE Dnssec -------------------------------
(***************************************************************************)
(* DNSSEC validation (src/src/dnssec.rs): validate_response checks the     *)
(* signature over an answer and walks the chain of keys and DS records up  *)
(* to the root's trust anchors, or checks a denial.                        *)
(*                                                                         *)
(* Names lie on one path: a zone is its number of labels, 0 the root, and  *)
(* parent_zone takes one label off.  Signatures are ideal: a set of records*)
(* carries the keys that signed it.  A forger has a key of its own for     *)
(* every zone and signs whatever it likes with it.                         *)
(***************************************************************************)
EXTENDS DenialOps, FiniteSets

CONSTANTS
  Leaf,            \* number of labels of the signer of answers
  MAX_CHAIN_DEPTH,
  Worlds,          \* the zone cuts, signed zones and DS records to consider
  Modes,           \* subset of {"honest", "lossy", "forged"}
  DenialZones,     \* the zones that denials are about: sets of owner names
  DenialQueries,   \* names asked for in them
  Apex,            \* the apex of these zones
  MaxExpiries      \* bound

ASSUME DnssecConstants == Leaf \in Nat /\ MAX_CHAIN_DEPTH \in Nat

VARIABLES
  mode,
  world,    \* external: the zone cuts, which zones are signed, which have a DS
  keys, ds, \* the cache: answers to DNSKEY and DS queries, NotCached
  pc, zone, records, depth,
  above,    \* DS answers still to be verified, the topmost last
  answer,   \* the response under validation
  status,
  expiries
dnssecVars == <<mode, world, keys, ds, pc, zone, records, depth, above, answer, status, expiries>>

Names == 0..Leaf
KeyKinds == {"ksk", "zsk", "forged"}
Key == [zone : Names, kind : KeyKinds]
Ksk(z) == [zone |-> z, kind |-> "ksk"]
Zsk(z) == [zone |-> z, kind |-> "zsk"]
Rogue(z) == [zone |-> z, kind |-> "forged"]

NotCached == [set |-> {}, sigs |-> {}, cached |-> FALSE]
Answer(set, sigs) == [set |-> set, sigs |-> sigs, cached |-> TRUE]
Empty == Answer({}, {})
TRUST_ANCHORS == {Ksk(0)}
parent_zone(z) == IF z = 0 THEN 0 ELSE z - 1

-----------------------------------------------------------------------------
(* External: what servers answer.  The parent of a zone is the next cut above
   it, which need not be one label away. *)
TrueParent(z) == Max({c \in world.cuts : c < z})

TrueKeys(z) == IF z \in world.cuts /\ z \in world.signed THEN Answer({Ksk(z), Zsk(z)}, {Ksk(z)}) ELSE Empty

TrueDs(z) == IF z \in world.cuts /\ z \in world.ds /\ TrueParent(z) \in world.signed
             THEN Answer({Ksk(z)}, {Zsk(TrueParent(z))}) ELSE Empty

ForgedKeys(z) == {Answer({Rogue(z)}, {Rogue(z)}), Answer({Ksk(z), Rogue(z)}, {Rogue(z)})}
ForgedDs(z) == {Answer({Rogue(z)}, {Rogue(parent_zone(z))}), Answer({Ksk(z), Rogue(z)}, {})}

Response(true, forged) ==
  {true} \cup (IF mode = "forged" THEN forged ELSE {}) \cup (IF mode = "lossy" THEN {NotCached} ELSE {})

(* fetch_dnskeys and fetch_ds: the cache, or an answer that is cached then;
   a query that fails leaves nothing. *)
FetchKeys(z) == IF keys[z].cached THEN {keys[z]} ELSE Response(TrueKeys(z), ForgedKeys(z))
FetchDs(z) == IF ds[z].cached THEN {ds[z]} ELSE Response(TrueDs(z), ForgedDs(z))

-----------------------------------------------------------------------------
FullChain == Names = world.cuts /\ Names = world.signed /\ Names \ {0} = world.ds

Denied(z, q) ==  \* external: q does not exist in z, not even as an empty non-terminal or by a wildcard
  LET exists(n) == \E o \in z : IsSuffix(n, o)
      ce == SubSeq(q, Min({i \in DOMAIN q : exists(SubSeq(q, i, Len(q)))}), Len(q))
  IN ~exists(q) /\ <<Wildcard>> \o ce \notin z

Bitmap == <<0, 1, 64>>  \* type 1 alone

Chain(z) == {[owner |-> o, next |-> n, types |-> Bitmap] : o, n \in z}
Nsecs(z) ==
  LET Less(a, b) == canonical_dns_name_order(a, b) < 0
  IN {r \in Chain(z) : IF \E o \in z : Less(r.owner, o)
                       THEN Less(r.owner, r.next) /\ ~\E o \in z : Less(r.owner, o) /\ Less(o, r.next)
                       ELSE r.next = Apex}

(* Empty non-terminals own NSEC3 records, but no NSEC records. *)
Nsec3s(z) ==
  LET all == UNION {{SubSeq(o, i, Len(o)) : i \in DOMAIN o} : o \in z}
      own == {n \in all : Len(n) >= Len(Apex)}
      hashes == {Hash(n) : n \in own}
      Next3(h) == IF \E k \in hashes : k > h THEN Min({k \in hashes : k > h}) ELSE Min(hashes)
  IN {[owner |-> Hash(n), next |-> Next3(Hash(n)), types |-> IF n \in z THEN Bitmap ELSE <<>>] : n \in own}

-----------------------------------------------------------------------------
Init ==
  /\ mode \in Modes
  /\ world \in Worlds
  /\ keys = [z \in Names |-> NotCached] /\ ds = [z \in Names |-> NotCached]
  /\ pc = "idle" /\ zone = 0 /\ records = Empty /\ depth = 0 /\ above = <<>>
  /\ answer = [kind |-> "none"] /\ status = "none" /\ expiries = 0

Finish(s) == pc' = "done" /\ status' = s

(* A positive answer: true data is signed by the zone, false data only by the
   forger. *)
Receive(true) ==
  /\ pc = "idle" /\ (true \/ mode = "forged")
  /\ answer' = [kind |-> "data", true |-> true, sigs |-> IF true THEN {Zsk(Leaf)} ELSE {Rogue(Leaf)}]
  /\ zone' = Leaf /\ pc' = "signer" /\ depth' = 0 /\ above' = <<>>
  /\ UNCHANGED <<mode, world, keys, ds, records, status, expiries>>

(* prefetch_signer_dnskeys, try_verify_rrsig and try_verify_with_key: the
   signature needs one of the signer's keys, and that key a chain. *)
Signer ==
  /\ pc = "signer"
  /\ \E r \in FetchKeys(zone) :
       /\ keys' = [keys EXCEPT ![zone] = r]
       /\ records' = r
       /\ IF r.set \cap answer.sigs = {} THEN Finish("Bogus") ELSE pc' = "chain" /\ UNCHANGED status
  /\ UNCHANGED <<mode, world, ds, zone, depth, above, answer, expiries>>

(* The verdict of validate_chain goes back to try_verify_with_key: all but
   Secure and Bogus is no match, and no match is Bogus. *)
Verdict(s) == Finish(IF s = "Secure" THEN "Secure" ELSE "Bogus")

(* validate_chain up to the trust anchor. *)
TooDeep == depth > MAX_CHAIN_DEPTH

AtAnchor ==
  /\ pc = "chain"
  /\ \/ TooDeep /\ Verdict("Indeterminate")
     \/ /\ ~TooDeep /\ records.set \cap TRUST_ANCHORS # {}
        /\ IF records.sigs \cap TRUST_ANCHORS # {} THEN pc' = "unwind" /\ UNCHANGED status ELSE Verdict("Bogus")
     \/ ~TooDeep /\ records.set \cap TRUST_ANCHORS = {} /\ zone = 0 /\ Verdict("Indeterminate")
  /\ UNCHANGED <<mode, world, keys, ds, zone, records, depth, above, answer, expiries>>

DsAuthenticates(r) == (records.set \cap r.set) \cap records.sigs # {}

AskDs ==
  /\ pc = "chain" /\ ~TooDeep /\ zone # 0 /\ records.set \cap TRUST_ANCHORS = {}
  /\ \E r \in FetchDs(zone) :
       /\ ds' = [ds EXCEPT ![zone] = r]
       /\ CASE r.set = {} -> Verdict("Insecure") /\ UNCHANGED above
            [] r.set # {} /\ ~DsAuthenticates(r) -> Verdict("Bogus") /\ UNCHANGED above
            [] OTHER -> above' = Append(above, [ds |-> r, keys |-> Empty]) /\ pc' = "parent" /\ UNCHANGED status
  /\ UNCHANGED <<mode, world, keys, zone, records, depth, answer, expiries>>

AskParent ==
  /\ pc = "parent"
  /\ \E r \in FetchKeys(parent_zone(zone)) :
       /\ keys' = [keys EXCEPT ![parent_zone(zone)] = r]
       /\ IF r.set = {} THEN Verdict("Indeterminate") /\ UNCHANGED <<zone, records, depth, above>>
          ELSE /\ zone' = parent_zone(zone) /\ records' = r /\ depth' = depth + 1
               /\ above' = [above EXCEPT ![Len(above)].keys = r]
               /\ pc' = "chain" /\ UNCHANGED status
  /\ UNCHANGED <<mode, world, ds, answer, expiries>>

(* Back down: each DS answer must be signed by the parent just validated. *)
BugTrustsDigest(f) == TRUE
SignedByParent(f) == f.ds.sigs \cap f.keys.set # {}

Unwind ==
  /\ pc = "unwind"
  /\ IF above = <<>> THEN Verdict("Secure") /\ UNCHANGED above
     ELSE IF ~SignedByParent(Last(above)) THEN Verdict("Bogus") /\ UNCHANGED above
     ELSE above' = Front(above) /\ UNCHANGED <<pc, status>>
  /\ UNCHANGED <<mode, world, keys, ds, zone, records, depth, answer, expiries>>

(* A denial: any of the zone's genuine records, all of them when the server is
   complete.  They are verified with the signer's keys from the cache, which
   were fetched before the answer was looked at; the chain above the signer is
   not walked, so one world is enough for them. *)
ReceiveDenial ==
  /\ pc = "idle" /\ mode # "forged" /\ FullChain
  /\ \E z \in DenialZones, q \in DenialQueries, t \in {1, 16}, nx, h \in BOOLEAN :
       \E some \in SUBSET (IF h THEN Nsec3s(z) ELSE Nsecs(z)) :
         answer' = [kind |-> "denial", z |-> z, q |-> q, qtype |-> t, nx |-> nx, hashed |-> h, some |-> some]
  /\ zone' = Leaf /\ pc' = "prefetch" /\ depth' = 0 /\ above' = <<>>
  /\ UNCHANGED <<mode, world, keys, ds, records, status, expiries>>

Prefetch ==
  /\ pc = "prefetch" /\ pc' = "denial"
  /\ \E r \in FetchKeys(zone) : keys' = [keys EXCEPT ![zone] = r]
  /\ UNCHANGED <<mode, world, ds, zone, records, depth, above, answer, status, expiries>>

Deny ==
  /\ pc = "denial"
  /\ Finish(validate_denial(IF answer.hashed THEN {} ELSE answer.some, IF answer.hashed THEN answer.some ELSE {},
                            Zsk(zone) \in keys[zone].set, answer.q, answer.qtype, answer.nx))
  /\ UNCHANGED <<mode, world, keys, ds, zone, records, depth, above, answer, expiries>>

(* Any cached answer may run out between two steps; then another response. *)
Expire(z) ==
  /\ expiries < MaxExpiries /\ expiries' = expiries + 1
  /\ \/ keys[z].cached /\ keys' = [keys EXCEPT ![z] = NotCached] /\ UNCHANGED ds
     \/ ds[z].cached /\ ds' = [ds EXCEPT ![z] = NotCached] /\ UNCHANGED keys
  /\ UNCHANGED <<mode, world, pc, zone, records, depth, above, answer, status>>

Again ==
  /\ pc = "done" /\ pc' = "idle" /\ status' = "none" /\ answer' = [kind |-> "none"]
  /\ records' = Empty /\ depth' = 0 /\ above' = <<>> /\ zone' = 0
  /\ UNCHANGED <<mode, world, keys, ds, expiries>>

Next ==
  \/ \E t \in BOOLEAN : Receive(t)
  \/ Signer \/ AtAnchor \/ AskDs \/ AskParent \/ Unwind
  \/ ReceiveDenial \/ Prefetch \/ Deny \/ Again
  \/ \E z \in Names : Expire(z)

Spec == Init /\ [][Next]_dnssecVars

-----------------------------------------------------------------------------
(* validate_chain: with answers forged, lost and expiring at every step of the
   walk, an answer is found Secure only if its zone signed it. *)
SecureIsSigned == status = "Secure" /\ answer.kind = "data" => answer.true

(* MAX_CHAIN_DEPTH and parent_zone: the answer of a zone whose every ancestor
   is signed and vouched for by its parent is found Secure, whatever part of
   the chain is cached and whatever expires during the walk. *)
FullChainIsSecure ==
  pc = "done" /\ mode = "honest" /\ FullChain /\ answer.kind = "data" => status = "Secure"

(* validate_chain: the verdict on an answer is right, never too good and, over
   a full chain, never too bad (src/src/dnssec.rs). *)
VerdictsAreRight == SecureIsSigned /\ FullChainIsSecure

(* validate_denial: no selection of a zone's genuine records proves away a
   name that owns records, or a type that a name has; with NSEC3 records it
   proves away no empty non-terminal and no name a wildcard matches either. *)
DenialsAreTrue ==
  status = "Secure" /\ answer.kind = "denial" =>
    IF answer.nx THEN answer.q \notin answer.z /\ (answer.hashed => Denied(answer.z, answer.q))
    ELSE answer.q \in answer.z => answer.qtype # 1

(* nsec_covers_name, nsec3_hash_in_range: the complete records of a zone
   always prove an NXDOMAIN for a name that does not exist: the names before
   the first owner and after the last are covered too. *)
TrueDenialsHold ==
  pc = "done" /\ answer.kind = "denial" /\ answer.nx /\ Denied(answer.z, answer.q)
    /\ answer.some = (IF answer.hashed THEN Nsec3s(answer.z) ELSE Nsecs(answer.z)) => status # "Bogus"
=============================================================================
