----------------------------- MODULE TrustProofs -----------------------------
(***************************************************************************)
(* What numa takes from others and relies on afterwards: DNSSEC verdicts,   *)
(* the block and allow lists, and the keys of an ODoH target.               *)
(*                                                                          *)
(* DNSSEC: what a genuine key signed holds no forged key, and each DS       *)
(* answer of a walk vouches for keys that the next one verified; so a walk  *)
(* that ends at the trust anchor makes every key below genuine (SignedInv). *)
(* ChainInv follows the walk over a full chain, where no test can fail.     *)
(* Lists: what was kept is in the file as well as in the list, and a save   *)
(* under way writes what its list holds (ListsInv).                         *)
(* ODoH: one query fetches at a time, and only while no configuration is    *)
(* usable, so a query that took one knows that whatever is fetched by now   *)
(* carries the key of the moment; its second attempt then cannot be refused *)
(* unless the key is rotated once more (OdohInv).                           *)
(***************************************************************************)
EXTENDS Dnssec, Odoh, Blocking, SequenceTheorems, FiniteSetTheorems, TLAPS

(* Signatures are ideal: what a genuine key has signed holds no forged key. *)
Genuine(ks) == \A k \in ks : k.kind # "forged"
Sound(r) == (\E k \in r.sigs : k.kind # "forged") => Genuine(r.set)

(* A DS answer vouches for keys: it names one of them that signed them. *)
Vouches(r, ks) == (ks.set \cap r.set) \cap ks.sigs # {}

(* The keys that a DS answer of the walk vouches for: those that verified the
   answer, then those of each parent. *)
KeysAt(first, a, i) == IF i = 0 THEN first ELSE a[i].keys

(* The walk so far: the DS answers in a, above the keys in first. *)
Walk(first, a) ==
  /\ Sound(first)
  /\ \E S : a \in Seq(S)
  /\ \A i \in 1..Len(a) :
       /\ {"ds", "keys"} \subseteq DOMAIN a[i]
       /\ Sound(a[i].ds) /\ Sound(a[i].keys)
       /\ Vouches(a[i].ds, KeysAt(first, a, i - 1))

(* What is known when the walk is at label at with the records recs. *)
WalkAt(first, a, at, recs) ==
  /\ Walk(first, a)
  /\ at = "chain" => recs = KeysAt(first, a, Len(a))
  /\ at = "parent" => a # <<>>
  /\ at = "unwind" => Genuine(KeysAt(first, a, Len(a)).set)

Walking == {"chain", "parent", "unwind"}

FalseData == answer.kind = "data" /\ ~answer.true

(* The inductive invariant of the verdict Secure. *)
SignedInv ==
  /\ DOMAIN keys = Names /\ DOMAIN ds = Names /\ zone \in Names
  /\ \A z \in Names : Sound(keys[z]) /\ Sound(ds[z])
  /\ pc = "idle" => status # "Secure"
  /\ pc = "signer" => above = <<>>
  /\ FalseData =>
       /\ pc \in {"signer", "done"} \cup Walking /\ status # "Secure"
       /\ \A k \in answer.sigs : k.kind = "forged"
       /\ pc \in Walking =>
            \E first : first.set \cap answer.sigs # {} /\ WalkAt(first, above, pc, records)

-----------------------------------------------------------------------------
(* Every answer that the walk can meet is sound. *)
LEMMA FetchSound ==
  ASSUME SignedInv, NEW z \in Names
  PROVE  /\ \A r \in FetchKeys(z) : Sound(r)
         /\ \A r \in FetchDs(z) : Sound(r)
  <1>1. Sound(NotCached) /\ Sound(Empty)
    BY DEF Sound, Genuine, NotCached, Empty, Answer
  <1>2. Sound(TrueKeys(z)) /\ Sound(TrueDs(z))
    BY <1>1 DEF Sound, Genuine, TrueKeys, TrueDs, Answer, Ksk, Zsk
  <1>3. \A r \in ForgedKeys(z) \cup ForgedDs(z) : Sound(r)
    BY DEF Sound, Genuine, ForgedKeys, ForgedDs, Answer, Rogue
  <1>4. \A r \in Response(TrueKeys(z), ForgedKeys(z)) \cup Response(TrueDs(z), ForgedDs(z)) : Sound(r)
    BY <1>1, <1>2, <1>3 DEF Response
  <1> QED
    BY <1>4 DEF FetchKeys, FetchDs, SignedInv

LEMMA KeysSound ==
  ASSUME NEW first, NEW a, Walk(first, a)
  PROVE  \A i \in 0..Len(a) : Sound(KeysAt(first, a, i))
  <1>1. Len(a) \in Nat
    BY DEF Walk
  <1> QED
    BY <1>1 DEF Walk, KeysAt

(* A step up: a DS answer that vouches for the keys reached, and no keys of
   the parent yet. *)
LEMMA WalkUp ==
  ASSUME NEW first, NEW a, Walk(first, a), NEW r, Sound(r), Vouches(r, KeysAt(first, a, Len(a)))
  PROVE  WalkAt(first, Append(a, [ds |-> r, keys |-> Empty]), "parent", r)
  <1> DEFINE e == [ds |-> r, keys |-> Empty]
             b == Append(a, e)
             n == Len(a)
  <1>1. PICK S : a \in Seq(S)
    BY DEF Walk
  <1>2. a \in Seq(S \cup {e}) /\ e \in S \cup {e}
    BY <1>1, LenProperties, SeqDef
  <1>3. /\ b \in Seq(S \cup {e}) /\ Len(b) = n + 1 /\ b[n + 1] = e
        /\ \A i \in 1..n : b[i] = a[i]
        /\ n \in Nat
    BY <1>2, AppendProperties
  <1>4. Sound(Empty)
    BY DEF Sound, Genuine, Empty, Answer
  <1>5. e.ds = r /\ e.keys = Empty /\ {"ds", "keys"} \subseteq DOMAIN e
    OBVIOUS
  <1> HIDE DEF b, n, e
  <1>6. \A i \in 0..n : KeysAt(first, b, i) = KeysAt(first, a, i)
    BY <1>3 DEF KeysAt
  <1>7. ASSUME NEW i \in 1..Len(b)
        PROVE  /\ {"ds", "keys"} \subseteq DOMAIN b[i]
               /\ Sound(b[i].ds) /\ Sound(b[i].keys)
               /\ Vouches(b[i].ds, KeysAt(first, b, i - 1))
    <2>1. CASE i = n + 1
      <3>1. b[i] = e /\ i - 1 = n /\ n \in 0..n
        BY <1>3, <2>1
      <3> QED
        BY <1>4, <1>5, <1>6, <3>1 DEF n
    <2>2. CASE i # n + 1
      <3>1. i \in 1..n /\ i - 1 \in 0..n /\ b[i] = a[i]
        BY <1>3, <2>2
      <3>2. /\ {"ds", "keys"} \subseteq DOMAIN a[i]
            /\ Sound(a[i].ds) /\ Sound(a[i].keys)
            /\ Vouches(a[i].ds, KeysAt(first, a, i - 1))
        BY <3>1 DEF Walk, n
      <3> QED
        BY <1>6, <3>1, <3>2
    <2> QED
      BY <2>1, <2>2
  <1>8. b # <<>>
    BY <1>3
  <1>9. Walk(first, b)
    BY <1>3, <1>7 DEF Walk
  <1> QED
    BY <1>8, <1>9 DEF WalkAt, b, e

(* The keys of the parent arrive. *)
LEMMA WalkParent ==
  ASSUME NEW first, NEW a, Walk(first, a), a # <<>>, NEW r, Sound(r)
  PROVE  WalkAt(first, [a EXCEPT ![Len(a)].keys = r], "chain", r)
  <1> DEFINE n == Len(a)
             b == [a EXCEPT ![n].keys = r]
             e == [a[n] EXCEPT !.keys = r]
  <1>1. PICK S : a \in Seq(S)
    BY DEF Walk
  <1>2. n \in Nat \ {0} /\ a \in [1..n -> S]
    BY <1>1, LenProperties, EmptySeq
  <1>3. {"ds", "keys"} \subseteq DOMAIN a[n] /\ Sound(a[n].ds) /\ Vouches(a[n].ds, KeysAt(first, a, n - 1))
    BY <1>2 DEF Walk
  <1>4. e.ds = a[n].ds /\ e.keys = r /\ DOMAIN e = DOMAIN a[n]
    BY <1>3
  <1> HIDE DEF e, n
  <1>5. b = [a EXCEPT ![n] = e]
    BY DEF b, e
  <1>6. b \in [1..n -> S \cup {e}]
    BY <1>2, <1>5
  <1>7. b \in Seq(S \cup {e}) /\ Len(b) = n
    BY <1>2, <1>6, SeqDef, LenProperties
  <1>8. b[n] = e /\ \A i \in 1..n : i # n => b[i] = a[i]
    BY <1>2, <1>5
  <1> HIDE DEF b
  <1>9. \A i \in 0..(n - 1) : KeysAt(first, b, i) = KeysAt(first, a, i)
    BY <1>2, <1>8 DEF KeysAt
  <1>10. ASSUME NEW i \in 1..n
         PROVE  /\ {"ds", "keys"} \subseteq DOMAIN b[i]
                /\ Sound(b[i].ds) /\ Sound(b[i].keys)
                /\ Vouches(b[i].ds, KeysAt(first, b, i - 1))
    <2>1. i - 1 \in 0..(n - 1)
      BY <1>2
    <2>2. CASE i = n
      BY <1>3, <1>4, <1>8, <1>9, <2>1, <2>2
    <2>3. CASE i # n
      <3>1. /\ {"ds", "keys"} \subseteq DOMAIN a[i]
            /\ Sound(a[i].ds) /\ Sound(a[i].keys)
            /\ Vouches(a[i].ds, KeysAt(first, a, i - 1))
        BY DEF Walk, n
      <3> QED
        BY <1>8, <1>9, <2>1, <2>3, <3>1
    <2> QED
      BY <2>2, <2>3
  <1>11. Walk(first, b)
    BY <1>7, <1>10 DEF Walk
  <1>12. KeysAt(first, b, Len(b)) = r
    BY <1>2, <1>4, <1>7, <1>8 DEF KeysAt
  <1> QED
    BY <1>11, <1>12 DEF WalkAt, b, n

(* Back down: a DS answer signed by genuine keys is genuine, and so are the
   keys it vouches for. *)
LEMMA WalkDown ==
  ASSUME NEW first, NEW a, WalkAt(first, a, "unwind", a), a # <<>>, SignedByParent(Last(a))
  PROVE  WalkAt(first, Front(a), "unwind", a)
  <1> DEFINE n == Len(a)
             b == SubSeq(a, 1, n - 1)
  <1>1. PICK S : a \in Seq(S)
    BY DEF Walk, WalkAt
  <1>2. n \in Nat \ {0}
    BY <1>1, LenProperties, EmptySeq
  <1>3. n - 1 \in Nat /\ \A i \in 1..(n - 1) : a[i] \in S
    BY <1>1, <1>2, LenProperties
  <1>4. Front(a) = b /\ Last(a) = a[n]
    BY DEF Front, Last
  <1>5. /\ Sound(a[n].ds) /\ Vouches(a[n].ds, KeysAt(first, a, n - 1)) /\ Genuine(a[n].keys.set)
        /\ Sound(KeysAt(first, a, n - 1))
    <2>1. n \in 1..n /\ n - 1 \in 0..n
      BY <1>2
    <2>2. Sound(a[n].ds) /\ Vouches(a[n].ds, KeysAt(first, a, n - 1))
      BY <2>1 DEF WalkAt, Walk
    <2>3. Genuine(a[n].keys.set)
      BY <1>2 DEF WalkAt, KeysAt
    <2>4. Sound(KeysAt(first, a, n - 1))
      BY <2>1, KeysSound DEF WalkAt
    <2> QED
      BY <2>2, <2>3, <2>4
  <1>6. /\ \A i \in 1..Len(a) :
            /\ {"ds", "keys"} \subseteq DOMAIN a[i]
            /\ Sound(a[i].ds) /\ Sound(a[i].keys)
            /\ Vouches(a[i].ds, KeysAt(first, a, i - 1))
        /\ Sound(first)
    BY DEF WalkAt, Walk
  <1> HIDE DEF n
  <1>7. b \in Seq(S) /\ Len(b) = n - 1 /\ \A i \in 1..(n - 1) : b[i] = a[i]
    <2> DEFINE m == n - 1
    <2>1. m \in Nat /\ \A i \in 1..m : a[i] \in S
      BY <1>3
    <2> HIDE DEF m
    <2>2. /\ SubSeq(a, 1, m) \in Seq(S)
          /\ Len(SubSeq(a, 1, m)) = IF 1 <= m THEN m - 1 + 1 ELSE 0
          /\ \A i \in 1..(m - 1 + 1) : SubSeq(a, 1, m)[i] = a[1 + i - 1]
      BY <2>1, SubSeqProperties
    <2>3. Len(SubSeq(a, 1, m)) = m /\ \A i \in 1..m : SubSeq(a, 1, m)[i] = a[i]
      BY <2>1, <2>2
    <2> QED
      BY <2>2, <2>3 DEF m
  <1> HIDE DEF b
  <1>8. \A i \in 0..(n - 1) : KeysAt(first, b, i) = KeysAt(first, a, i)
    BY <1>2, <1>7 DEF KeysAt
  <1>9. ASSUME NEW i \in 1..Len(b)
        PROVE  /\ {"ds", "keys"} \subseteq DOMAIN b[i]
               /\ Sound(b[i].ds) /\ Sound(b[i].keys)
               /\ Vouches(b[i].ds, KeysAt(first, b, i - 1))
    <2>1. i \in 1..Len(a) /\ i - 1 \in 0..(n - 1) /\ b[i] = a[i]
      BY <1>2, <1>7 DEF n
    <2> QED
      BY <1>6, <1>8, <2>1
  <1>10. Walk(first, b)
    BY <1>6, <1>7, <1>9 DEF Walk
  <1>11. Genuine(KeysAt(first, b, Len(b)).set)
    <2>1. PICK k \in a[n].ds.sigs \cap a[n].keys.set : TRUE
      BY <1>4 DEF SignedByParent
    <2>2. Genuine(a[n].ds.set)
      BY <1>5, <2>1 DEF Genuine, Sound
    <2>3. Genuine(KeysAt(first, a, n - 1).set)
      BY <1>5, <2>2 DEF Vouches, Genuine, Sound
    <2>4. n - 1 \in 0..(n - 1)
      BY <1>2
    <2> QED
      BY <1>7, <1>8, <2>3, <2>4
  <1> QED
    BY <1>4, <1>10, <1>11 DEF WalkAt

-----------------------------------------------------------------------------
(* The steps. *)

LEMMA SignedStep ==
  ASSUME SignedInv, [Next]_dnssecVars
  PROVE  SignedInv'
  <1> USE DEF FalseData, Walking
  <1>1. CASE \E t \in BOOLEAN : Receive(t)
    <2>1. PICK t \in BOOLEAN : Receive(t)
      BY <1>1
    <2>2. /\ pc = "idle" /\ pc' = "signer" /\ above' = <<>> /\ status' = status
          /\ keys' = keys /\ ds' = ds /\ zone' = Leaf
          /\ answer'.sigs = IF t THEN {Zsk(Leaf)} ELSE {Rogue(Leaf)}
          /\ answer'.true = t
      BY <2>1 DEF Receive
    <2>3. Leaf \in Names
      BY DnssecConstants DEF Names
    <2>4. ~answer'.true => \A k \in answer'.sigs : k.kind = "forged"
      BY <2>2 DEF Rogue
    <2> QED
      BY <2>2, <2>3, <2>4 DEF SignedInv
  <1>2. CASE Signer
    <2>1. PICK r \in FetchKeys(zone) :
            /\ keys' = [keys EXCEPT ![zone] = r]
            /\ records' = r
            /\ IF r.set \cap answer.sigs = {} THEN Finish("Bogus") ELSE pc' = "chain" /\ UNCHANGED status
      BY <1>2 DEF Signer
    <2>2. zone \in Names /\ Sound(r) /\ pc = "signer" /\ above = <<>>
          /\ above' = above /\ ds' = ds /\ zone' = zone /\ answer' = answer
      BY <1>2, <2>1, FetchSound DEF SignedInv, Signer
    <2>3. DOMAIN keys' = Names /\ \A z \in Names : Sound(keys'[z])
      BY <2>1, <2>2 DEF SignedInv
    <2>4. r.set \cap answer.sigs # {} => WalkAt(r, <<>>, "chain", r)
      <3>1. <<>> \in Seq({}) /\ Len(<<>>) = 0
        OBVIOUS
      <3> QED
        BY <2>2, <3>1 DEF WalkAt, Walk, KeysAt
    <2>5. CASE r.set \cap answer.sigs = {}
      BY <2>1, <2>2, <2>3, <2>5 DEF SignedInv, Finish
    <2>6. CASE r.set \cap answer.sigs # {}
      BY <2>1, <2>2, <2>3, <2>4, <2>6 DEF SignedInv
    <2> QED
      BY <2>5, <2>6
  <1>3. CASE AtAnchor
    <2>1. /\ pc = "chain" /\ keys' = keys /\ ds' = ds /\ zone' = zone /\ answer' = answer
          /\ above' = above /\ records' = records
      BY <1>3 DEF AtAnchor
    <2>2. CASE pc' = "done" /\ status' = "Bogus"
      BY <2>1, <2>2 DEF SignedInv
    <2>3. CASE pc' = "unwind" /\ status' = status /\ records.sigs \cap TRUST_ANCHORS # {}
      <3>1. ASSUME NEW first, WalkAt(first, above, "chain", records)
            PROVE  WalkAt(first, above, "unwind", records)
        <4>1. Len(above) \in 0..Len(above)
          BY <3>1 DEF WalkAt, Walk
        <4>2. Sound(records)
          BY <3>1, <4>1, KeysSound DEF WalkAt
        <4>3. Genuine(records.set)
          BY <2>3, <4>2 DEF Sound, TRUST_ANCHORS, Ksk
        <4> QED
          BY <3>1, <4>3 DEF WalkAt
      <3> QED
        BY <2>1, <2>3, <3>1 DEF SignedInv
    <2> QED
      BY <1>3, <2>2, <2>3 DEF AtAnchor, Verdict, Finish
  <1>4. CASE AskDs
    <2>1. PICK r \in FetchDs(zone) :
            /\ ds' = [ds EXCEPT ![zone] = r]
            /\ \/ pc' = "done" /\ status' = "Bogus"
               \/ /\ DsAuthenticates(r) /\ pc' = "parent" /\ status' = status
                  /\ above' = Append(above, [ds |-> r, keys |-> Empty])
      BY <1>4 DEF AskDs, Verdict, Finish
    <2>2. /\ zone \in Names /\ Sound(r) /\ pc = "chain"
          /\ keys' = keys /\ zone' = zone /\ answer' = answer
      BY <1>4, <2>1, FetchSound DEF SignedInv, AskDs
    <2>3. DOMAIN ds' = Names /\ \A z \in Names : Sound(ds'[z])
      BY <2>1, <2>2 DEF SignedInv
    <2>4. CASE pc' = "done" /\ status' = "Bogus"
      BY <2>2, <2>3, <2>4 DEF SignedInv
    <2>5. CASE /\ DsAuthenticates(r) /\ pc' = "parent" /\ status' = status
               /\ above' = Append(above, [ds |-> r, keys |-> Empty])
      <3>1. ASSUME NEW first, WalkAt(first, above, "chain", records)
            PROVE  WalkAt(first, above', "parent", records')
        <4>1. Walk(first, above) /\ Vouches(r, KeysAt(first, above, Len(above)))
          BY <2>5, <3>1 DEF WalkAt, DsAuthenticates, Vouches
        <4>2. WalkAt(first, above', "parent", r)
          BY <2>2, <2>5, <4>1, WalkUp
        <4> QED
          BY <4>2 DEF WalkAt
      <3> QED
        BY <2>2, <2>3, <2>5, <3>1 DEF SignedInv
    <2> QED
      BY <2>1, <2>4, <2>5
  <1>5. CASE AskParent
    <2> DEFINE z == parent_zone(zone)
    <2>1. zone \in Names /\ z \in Names
      BY DnssecConstants DEF SignedInv, parent_zone, Names
    <2>2. PICK r \in FetchKeys(z) :
            /\ keys' = [keys EXCEPT ![z] = r]
            /\ \/ pc' = "done" /\ status' = "Bogus" /\ zone' = zone
               \/ /\ zone' = z /\ records' = r /\ pc' = "chain" /\ status' = status
                  /\ above' = [above EXCEPT ![Len(above)].keys = r]
      BY <1>5 DEF AskParent, Verdict, Finish
    <2>3. Sound(r) /\ pc = "parent" /\ ds' = ds /\ answer' = answer
      BY <1>5, <2>1, <2>2, FetchSound DEF AskParent
    <2> HIDE DEF z
    <2>4. DOMAIN keys' = Names /\ \A y \in Names : Sound(keys'[y])
      BY <2>1, <2>2, <2>3 DEF SignedInv
    <2>5. CASE pc' = "done" /\ status' = "Bogus" /\ zone' = zone
      BY <2>1, <2>3, <2>4, <2>5 DEF SignedInv
    <2>6. CASE /\ zone' = z /\ records' = r /\ pc' = "chain" /\ status' = status
               /\ above' = [above EXCEPT ![Len(above)].keys = r]
      <3>1. ASSUME NEW first, WalkAt(first, above, "parent", records)
            PROVE  WalkAt(first, above', "chain", records')
        <4>1. Walk(first, above) /\ above # <<>>
          BY <3>1 DEF WalkAt
        <4>2. WalkAt(first, [above EXCEPT ![Len(above)].keys = r], "chain", r)
          BY <2>3, <4>1, WalkParent
        <4> QED
          BY <2>6, <4>2
      <3> QED
        BY <2>1, <2>3, <2>4, <2>6, <3>1 DEF SignedInv
    <2> QED
      BY <2>2, <2>5, <2>6
  <1>6. CASE Unwind
    <2>1. pc = "unwind" /\ keys' = keys /\ ds' = ds /\ zone' = zone /\ answer' = answer
      BY <1>6 DEF Unwind
    <2>2. CASE above = <<>>
      <3>1. pc' = "done"
        BY <1>6, <2>2 DEF Unwind, Verdict, Finish
      <3>2. ASSUME FalseData PROVE FALSE
        <4>1. PICK first : first.set \cap answer.sigs # {} /\ WalkAt(first, above, "unwind", records)
          BY <2>1, <3>2 DEF SignedInv
        <4>2. Genuine(first.set)
          BY <2>2, <4>1 DEF WalkAt, KeysAt
        <4> QED
          BY <3>2, <4>1, <4>2 DEF SignedInv, Genuine
      <3> QED
        BY <2>1, <3>1, <3>2 DEF SignedInv
    <2>3. CASE above # <<>> /\ pc' = "done" /\ status' = "Bogus"
      BY <2>1, <2>3 DEF SignedInv
    <2>4. CASE above # <<>> /\ SignedByParent(Last(above)) /\ above' = Front(above) /\ pc' = pc /\ status' = status
      <3>1. ASSUME NEW first, WalkAt(first, above, "unwind", records)
            PROVE  WalkAt(first, above', "unwind", records')
        <4>1. WalkAt(first, above, "unwind", above)
          BY <3>1 DEF WalkAt
        <4>2. WalkAt(first, above', "unwind", above)
          BY <2>4, <4>1, WalkDown
        <4> QED
          BY <4>2 DEF WalkAt
      <3> QED
        BY <2>1, <2>4, <3>1 DEF SignedInv
    <2> QED
      BY <1>6, <2>2, <2>3, <2>4 DEF Unwind, Verdict, Finish
  <1>7. CASE ReceiveDenial
    <2>1. /\ pc' = "prefetch" /\ keys' = keys /\ ds' = ds /\ zone' = Leaf /\ answer'.kind = "denial"
      BY <1>7 DEF ReceiveDenial
    <2>2. Leaf \in Names
      BY DnssecConstants DEF Names
    <2> QED
      BY <2>1, <2>2 DEF SignedInv
  <1>8. CASE Prefetch
    <2>1. PICK r \in FetchKeys(zone) : keys' = [keys EXCEPT ![zone] = r]
      BY <1>8 DEF Prefetch
    <2>2. /\ zone \in Names /\ Sound(r) /\ pc = "prefetch" /\ pc' = "denial" /\ ds' = ds
          /\ zone' = zone /\ answer' = answer /\ status' = status
      BY <1>8, <2>1, FetchSound DEF SignedInv, Prefetch
    <2>3. DOMAIN keys' = Names /\ \A z \in Names : Sound(keys'[z])
      BY <2>1, <2>2 DEF SignedInv
    <2> QED
      BY <2>2, <2>3 DEF SignedInv
  <1>9. CASE Deny
    <2>1. /\ pc = "denial" /\ pc' = "done" /\ keys' = keys /\ ds' = ds /\ zone' = zone /\ answer' = answer
      BY <1>9 DEF Deny, Finish
    <2> QED
      BY <2>1 DEF SignedInv
  <1>10. CASE Again
    <2>1. /\ pc' = "idle" /\ status' = "none" /\ answer'.kind = "none" /\ zone' = 0
          /\ keys' = keys /\ ds' = ds
      BY <1>10 DEF Again
    <2>2. 0 \in Names
      BY DnssecConstants DEF Names
    <2> QED
      BY <2>1, <2>2 DEF SignedInv
  <1>11. CASE \E z \in Names : Expire(z)
    <2>1. PICK z \in Names :
            \/ keys' = [keys EXCEPT ![z] = NotCached] /\ UNCHANGED ds
            \/ ds' = [ds EXCEPT ![z] = NotCached] /\ UNCHANGED keys
      BY <1>11 DEF Expire
    <2>2. UNCHANGED <<pc, zone, records, above, answer, status>>
      BY <1>11 DEF Expire
    <2>3. Sound(NotCached)
      BY DEF Sound, Genuine, NotCached
    <2>4. /\ DOMAIN keys' = Names /\ DOMAIN ds' = Names
          /\ \A y \in Names : Sound(keys'[y]) /\ Sound(ds'[y])
      BY <2>1, <2>3 DEF SignedInv
    <2> QED
      BY <2>2, <2>4 DEF SignedInv
  <1>12. CASE UNCHANGED dnssecVars
    BY <1>12 DEF dnssecVars, SignedInv
  <1> QED
    BY <1>1, <1>2, <1>3, <1>4, <1>5, <1>6, <1>7, <1>8, <1>9, <1>10, <1>11, <1>12 DEF Next

(* validate_chain, for any number of labels, any depth limit, any zone cuts,
   and answers forged, lost and expiring at every step: an answer is found
   Secure only if its zone signed it (src/src/dnssec.rs). *)
THEOREM SecureAnswersAreSigned == Spec => []SecureIsSigned
  <1>1. Init => SignedInv
    <2> SUFFICES ASSUME Init PROVE SignedInv
      OBVIOUS
    <2>1. Sound(NotCached)
      BY DEF Sound, Genuine, NotCached
    <2>2. 0 \in Names /\ answer.kind = "none"
      BY DnssecConstants DEF Names, Init
    <2> QED
      BY <2>1, <2>2 DEF SignedInv, Init, FalseData
  <1>2. SignedInv /\ [Next]_dnssecVars => SignedInv'
    BY SignedStep
  <1>3. SignedInv => SecureIsSigned
    BY DEF SignedInv, SecureIsSigned, FalseData
  <1> QED
    BY <1>1, <1>2, <1>3, PTL DEF Spec

-----------------------------------------------------------------------------
(* Honest servers and a full chain: what they answer. *)
FullKeys(z) == Answer({Ksk(z), Zsk(z)}, {Ksk(z)})
FullDs(z) == Answer({Ksk(z)}, {Zsk(z - 1)})

OrNot(r) == {NotCached, r}

HonestFull == mode = "honest" /\ FullChain

(* Every DS answer of the walk is signed by the keys above it; the last one's
   are still to come when unfinished. *)
SignedUp(a, unfinished) ==
  /\ \E S : a \in Seq(S)
  /\ \A i \in 1..Len(a) :
       /\ {"ds", "keys"} \subseteq DOMAIN a[i]
       /\ i < Len(a) \/ ~unfinished => SignedByParent(a[i])

(* The inductive invariant: the walk goes up one label at a time and meets
   nothing that could stop it. *)
ChainInv ==
  HonestFull =>
    /\ DOMAIN keys = Names /\ DOMAIN ds = Names /\ zone \in Names
    /\ \A z \in Names : keys[z] \in OrNot(FullKeys(z)) /\ (z # 0 => ds[z] \in OrNot(FullDs(z)))
    /\ answer.kind = "data" =>
         /\ pc \in {"signer", "done"} \cup Walking
         /\ answer.sigs = {Zsk(Leaf)}
         /\ pc = "signer" => zone = Leaf /\ above = <<>> /\ depth = 0
         /\ pc = "done" => status = "Secure"
         /\ pc \in {"chain", "parent"} => depth = Leaf - zone
         /\ pc = "chain" => records = FullKeys(zone)
         /\ pc = "parent" => zone # 0 /\ above # <<>> /\ above[Len(above)].ds = FullDs(zone)
         /\ pc \in Walking => SignedUp(above, pc = "parent")

LEMMA HonestFetch ==
  ASSUME HonestFull, NEW z \in Names
  PROVE  /\ keys[z] \in OrNot(FullKeys(z)) => FetchKeys(z) = {FullKeys(z)}
         /\ z # 0 /\ ds[z] \in OrNot(FullDs(z)) => FetchDs(z) = {FullDs(z)}
  <1>1. TrueKeys(z) = FullKeys(z)
    BY DEF HonestFull, FullChain, TrueKeys, FullKeys
  <1>2. z # 0 => TrueDs(z) = FullDs(z)
    <2> SUFFICES ASSUME z # 0 PROVE TrueDs(z) = FullDs(z)
      OBVIOUS
    <2> DEFINE S == {c \in Names : c < z}
    <2>1. z - 1 \in S /\ \A y \in S : z - 1 >= y
      BY DnssecConstants DEF Names
    <2>2. \A x \in S : (\A y \in S : x >= y) => x = z - 1
      <3> SUFFICES ASSUME NEW x \in S, \A y \in S : x >= y PROVE x = z - 1
        OBVIOUS
      <3>1. x \in Int /\ z \in Int /\ x >= z - 1 /\ z - 1 >= x
        BY <2>1, DnssecConstants DEF Names
      <3> QED
        BY <3>1
    <2> HIDE DEF S
    <2>3. Max(S) = z - 1
      BY <2>1, <2>2 DEF Max
    <2>4. TrueParent(z) = z - 1
      BY <2>3 DEF TrueParent, HonestFull, FullChain, S
    <2>5. z - 1 \in Names
      BY <2>1 DEF S
    <2> QED
      BY <2>4, <2>5 DEF TrueDs, FullDs, HonestFull, FullChain
  <1>3. Response(TrueKeys(z), ForgedKeys(z)) = {TrueKeys(z)} /\ Response(TrueDs(z), ForgedDs(z)) = {TrueDs(z)}
    BY DEF Response, HonestFull
  <1>4. ~NotCached.cached /\ FullKeys(z).cached /\ FullDs(z).cached
    BY DEF NotCached, FullKeys, FullDs, Answer
  <1> QED
    BY <1>1, <1>2, <1>3, <1>4 DEF FetchKeys, FetchDs, OrNot

LEMMA SignedUpAppend ==
  ASSUME NEW a, SignedUp(a, FALSE), NEW r
  PROVE  LET b == Append(a, [ds |-> r, keys |-> Empty])
         IN SignedUp(b, TRUE) /\ b # <<>> /\ b[Len(b)].ds = r
  <1> DEFINE e == [ds |-> r, keys |-> Empty]
             b == Append(a, e)
             n == Len(a)
  <1>1. PICK S : a \in Seq(S)
    BY DEF SignedUp
  <1>2. a \in Seq(S \cup {e}) /\ e \in S \cup {e}
    BY <1>1, LenProperties, SeqDef
  <1>3. /\ b \in Seq(S \cup {e}) /\ Len(b) = n + 1 /\ b[n + 1] = e /\ n \in Nat
        /\ \A i \in 1..n : b[i] = a[i]
    BY <1>2, AppendProperties
  <1>4. e.ds = r /\ {"ds", "keys"} \subseteq DOMAIN e
    OBVIOUS
  <1>5. \A i \in 1..n : {"ds", "keys"} \subseteq DOMAIN a[i] /\ SignedByParent(a[i])
    BY DEF SignedUp
  <1> HIDE DEF b, n, e
  <1>6. \A i \in 1..Len(b) : /\ {"ds", "keys"} \subseteq DOMAIN b[i]
                             /\ i < Len(b) => SignedByParent(b[i])
    BY <1>3, <1>4, <1>5
  <1>7. SignedUp(b, TRUE) /\ b # <<>> /\ b[Len(b)].ds = r
    BY <1>3, <1>4, <1>6 DEF SignedUp
  <1> QED
    BY <1>7 DEF b, e

LEMMA SignedUpParent ==
  ASSUME NEW a, SignedUp(a, TRUE), a # <<>>, NEW r, a[Len(a)].ds.sigs \cap r.set # {}
  PROVE  SignedUp([a EXCEPT ![Len(a)].keys = r], FALSE)
  <1> DEFINE n == Len(a)
             b == [a EXCEPT ![n].keys = r]
             e == [a[n] EXCEPT !.keys = r]
  <1>1. PICK S : a \in Seq(S)
    BY DEF SignedUp
  <1>2. n \in Nat \ {0} /\ a \in [1..n -> S]
    BY <1>1, LenProperties, EmptySeq
  <1>3. {"ds", "keys"} \subseteq DOMAIN a[n]
    BY <1>2 DEF SignedUp
  <1>4. e.ds = a[n].ds /\ e.keys = r /\ DOMAIN e = DOMAIN a[n]
    BY <1>3
  <1>5. \A i \in 1..n : {"ds", "keys"} \subseteq DOMAIN a[i] /\ (i < n => SignedByParent(a[i]))
    BY DEF SignedUp
  <1>6. SignedByParent(e)
    BY <1>4 DEF SignedByParent
  <1> HIDE DEF e, n
  <1>7. b = [a EXCEPT ![n] = e]
    BY DEF b, e
  <1>8. b \in [1..n -> S \cup {e}]
    BY <1>2, <1>7
  <1>9. b \in Seq(S \cup {e}) /\ Len(b) = n
    BY <1>2, <1>8, SeqDef, LenProperties
  <1>10. b[n] = e /\ \A i \in 1..n : i # n => b[i] = a[i]
    BY <1>2, <1>7
  <1> HIDE DEF b
  <1>11. \A i \in 1..n : {"ds", "keys"} \subseteq DOMAIN b[i] /\ SignedByParent(b[i])
    BY <1>2, <1>3, <1>4, <1>5, <1>6, <1>10
  <1>12. SignedUp(b, FALSE)
    BY <1>9, <1>11 DEF SignedUp
  <1> QED
    BY <1>12 DEF b, n

LEMMA SignedUpFront ==
  ASSUME NEW a, SignedUp(a, FALSE), a # <<>>
  PROVE  SignedByParent(Last(a)) /\ SignedUp(Front(a), FALSE)
  <1> DEFINE m == Len(a) - 1
  <1>1. PICK S : a \in Seq(S)
    BY DEF SignedUp
  <1>2. Len(a) \in Nat \ {0} /\ \A i \in 1..Len(a) : a[i] \in S
    BY <1>1, LenProperties, EmptySeq
  <1>3. \A i \in 1..Len(a) : {"ds", "keys"} \subseteq DOMAIN a[i] /\ SignedByParent(a[i])
    BY DEF SignedUp
  <1>4. SignedByParent(Last(a)) /\ Front(a) = SubSeq(a, 1, m)
    BY <1>2, <1>3 DEF Last, Front
  <1>5. m \in Nat /\ \A i \in 1..m : a[i] \in S /\ i \in 1..Len(a)
    BY <1>2
  <1> HIDE DEF m
  <1>6. /\ SubSeq(a, 1, m) \in Seq(S)
        /\ Len(SubSeq(a, 1, m)) = IF 1 <= m THEN m - 1 + 1 ELSE 0
        /\ \A i \in 1..(m - 1 + 1) : SubSeq(a, 1, m)[i] = a[1 + i - 1]
    BY <1>5, SubSeqProperties
  <1>7. Len(SubSeq(a, 1, m)) = m /\ \A i \in 1..m : SubSeq(a, 1, m)[i] = a[i]
    BY <1>5, <1>6
  <1>8. SignedUp(SubSeq(a, 1, m), FALSE)
    BY <1>3, <1>5, <1>6, <1>7 DEF SignedUp
  <1> QED
    BY <1>4, <1>8

LEMMA ChainStep ==
  ASSUME Leaf <= MAX_CHAIN_DEPTH, ChainInv, [Next]_dnssecVars
  PROVE  ChainInv'
  <1> USE DEF Walking
  <1>1. mode' = mode /\ world' = world
    BY DEF Next, dnssecVars, Receive, Signer, AtAnchor, AskDs, AskParent, Unwind,
           ReceiveDenial, Prefetch, Deny, Again, Expire
  <1>2. HonestFull' = HonestFull
    BY <1>1 DEF HonestFull, FullChain
  <1> SUFFICES ASSUME HonestFull
               PROVE  ChainInv'
    BY <1>2 DEF ChainInv
  <1>3. /\ DOMAIN keys = Names /\ DOMAIN ds = Names /\ zone \in Names
        /\ \A z \in Names : keys[z] \in OrNot(FullKeys(z)) /\ (z # 0 => ds[z] \in OrNot(FullDs(z)))
    BY DEF ChainInv
  <1>4. Leaf \in Names /\ 0 \in Names /\ \A z \in Names : z # 0 => z - 1 \in Names
    BY DnssecConstants DEF Names
  <1>5. \A z \in Names : FetchKeys(z) = {FullKeys(z)} /\ (z # 0 => FetchDs(z) = {FullDs(z)})
    BY <1>3, HonestFetch
  <1>6. CASE \E t \in BOOLEAN : Receive(t)
    <2>1. PICK t \in BOOLEAN : Receive(t)
      BY <1>6
    <2>2. t = TRUE
      BY <2>1 DEF Receive, HonestFull
    <2>3. /\ pc' = "signer" /\ above' = <<>> /\ depth' = 0 /\ zone' = Leaf
          /\ keys' = keys /\ ds' = ds /\ answer'.sigs = {Zsk(Leaf)}
      BY <2>1, <2>2 DEF Receive
    <2> QED
      BY <1>3, <1>4, <2>3 DEF ChainInv
  <1>7. CASE Signer
    <2>1. /\ pc = "signer" /\ keys' = [keys EXCEPT ![zone] = FullKeys(zone)]
          /\ records' = FullKeys(zone)
          /\ IF FullKeys(zone).set \cap answer.sigs = {} THEN Finish("Bogus")
             ELSE pc' = "chain" /\ UNCHANGED status
          /\ UNCHANGED <<ds, zone, depth, above, answer>>
      BY <1>3, <1>5, <1>7 DEF Signer
    <2>2. \A z \in Names : keys'[z] \in OrNot(FullKeys(z))
      BY <1>3, <2>1 DEF OrNot
    <2>3. DOMAIN keys' = Names
      BY <1>3, <2>1
    <2>4. ASSUME answer.kind = "data"
          PROVE  pc' = "chain" /\ depth' = Leaf - zone' /\ SignedUp(above', FALSE)
      <3>1. zone = Leaf /\ above = <<>> /\ depth = 0 /\ answer.sigs = {Zsk(Leaf)}
        BY <2>1, <2>4 DEF ChainInv
      <3>2. Zsk(Leaf) \in FullKeys(Leaf).set
        BY DEF FullKeys, Answer
      <3>3. pc' = "chain"
        BY <2>1, <3>1, <3>2
      <3>4. SignedUp(<<>>, FALSE)
        <4>1. <<>> \in Seq({}) /\ Len(<<>>) = 0
          OBVIOUS
        <4> QED
          BY <4>1 DEF SignedUp
      <3>5. depth' = 0 /\ zone' = Leaf /\ above' = <<>>
        BY <2>1, <3>1
      <3>6. Leaf - Leaf = 0
        BY DnssecConstants
      <3>7. depth' = Leaf - zone'
        BY <3>5, <3>6
      <3>8. SignedUp(above', FALSE)
        BY <3>4, <3>5
      <3> QED
        BY <3>3, <3>7, <3>8
    <2> QED
      BY <1>3, <2>1, <2>2, <2>3, <2>4 DEF ChainInv
  <1>8. CASE AtAnchor
    <2>1. pc = "chain" /\ UNCHANGED <<keys, ds, zone, records, depth, above, answer>>
      BY <1>8 DEF AtAnchor
    <2>2. ASSUME answer.kind = "data"
          PROVE  pc' = "unwind" /\ SignedUp(above', FALSE)
      <3>1. depth = Leaf - zone /\ records = FullKeys(zone) /\ SignedUp(above, FALSE)
        BY <2>1, <2>2 DEF ChainInv
      <3>2. ~TooDeep
        BY <1>3, <3>1, DnssecConstants DEF TooDeep, Names
      <3>3. zone = 0 => Ksk(0) \in records.set \cap TRUST_ANCHORS /\ Ksk(0) \in records.sigs \cap TRUST_ANCHORS
        BY <3>1 DEF FullKeys, Answer, TRUST_ANCHORS
      <3>4. records.set \cap TRUST_ANCHORS # {} => zone = 0
        BY <3>1 DEF FullKeys, Answer, TRUST_ANCHORS, Ksk, Zsk
      <3>5. pc' = "unwind"
        BY <1>8, <3>2, <3>3, <3>4 DEF AtAnchor
      <3> QED
        BY <2>1, <3>1, <3>5
    <2> QED
      BY <1>3, <2>1, <2>2 DEF ChainInv
  <1>9. CASE AskDs
    <2>1. zone # 0 /\ pc = "chain" /\ UNCHANGED <<keys, zone, records, depth, answer>>
      BY <1>9 DEF AskDs
    <2> DEFINE r == FullDs(zone)
    <2>2. /\ ds' = [ds EXCEPT ![zone] = r]
          /\ CASE r.set = {} -> Verdict("Insecure") /\ UNCHANGED above
               [] r.set # {} /\ ~DsAuthenticates(r) -> Verdict("Bogus") /\ UNCHANGED above
               [] OTHER -> above' = Append(above, [ds |-> r, keys |-> Empty]) /\ pc' = "parent" /\ UNCHANGED status
      BY <1>3, <1>5, <1>9, <2>1 DEF AskDs
    <2>3. DOMAIN ds' = Names /\ \A z \in Names : z # 0 => ds'[z] \in OrNot(FullDs(z))
      BY <1>3, <2>2 DEF OrNot
    <2>4. ASSUME answer.kind = "data"
          PROVE  /\ pc' = "parent" /\ above' # <<>> /\ above'[Len(above')].ds = r
                 /\ SignedUp(above', TRUE) /\ depth' = Leaf - zone'
      <3>1. records = FullKeys(zone) /\ SignedUp(above, FALSE) /\ depth = Leaf - zone
        BY <2>1, <2>4 DEF ChainInv
      <3>2. Ksk(zone) \in r.set /\ Ksk(zone) \in records.set /\ Ksk(zone) \in records.sigs
        BY <3>1 DEF FullKeys, FullDs, Answer
      <3>3. r.set # {} /\ DsAuthenticates(r)
        BY <3>2 DEF DsAuthenticates
      <3>4. above' = Append(above, [ds |-> r, keys |-> Empty]) /\ pc' = "parent"
        BY <2>2, <3>3
      <3> HIDE DEF r
      <3> QED
        BY <2>1, <3>1, <3>4, SignedUpAppend
    <2> QED
      BY <1>3, <2>1, <2>2, <2>3, <2>4 DEF ChainInv
  <1>10. CASE AskParent
    <2> DEFINE z == parent_zone(zone)
               r == FullKeys(z)
    <2>1. z \in Names
      BY <1>3, <1>4 DEF parent_zone
    <2>2. /\ pc = "parent" /\ UNCHANGED <<ds, answer>>
          /\ keys' = [keys EXCEPT ![z] = r]
          /\ IF r.set = {} THEN Verdict("Indeterminate") /\ UNCHANGED <<zone, records, depth, above>>
             ELSE /\ zone' = z /\ records' = r /\ depth' = depth + 1
                  /\ above' = [above EXCEPT ![Len(above)].keys = r]
                  /\ pc' = "chain" /\ UNCHANGED status
      BY <1>5, <1>10, <2>1 DEF AskParent
    <2>3. Ksk(z) \in r.set /\ Zsk(z) \in r.set
      BY DEF FullKeys, Answer
    <2>4. /\ zone' = z /\ records' = r /\ depth' = depth + 1
          /\ above' = [above EXCEPT ![Len(above)].keys = r] /\ pc' = "chain"
      BY <2>2, <2>3
    <2>5. DOMAIN keys' = Names /\ \A y \in Names : keys'[y] \in OrNot(FullKeys(y))
      BY <1>3, <2>2 DEF OrNot
    <2>6. ASSUME answer.kind = "data"
          PROVE  depth' = Leaf - zone' /\ SignedUp(above', FALSE)
      <3>1. zone # 0 /\ above # <<>> /\ above[Len(above)].ds = FullDs(zone) /\ depth = Leaf - zone
            /\ SignedUp(above, TRUE)
        BY <2>2, <2>6 DEF ChainInv
      <3>2. z = zone - 1
        BY <3>1 DEF parent_zone
      <3>3. depth' = Leaf - zone'
        BY <1>3, <2>4, <3>1, <3>2, DnssecConstants DEF Names
      <3>4. above[Len(above)].ds.sigs \cap r.set # {}
        BY <2>3, <3>1, <3>2 DEF FullDs, Answer
      <3> HIDE DEF r, z
      <3> QED
        BY <2>4, <3>1, <3>3, <3>4, SignedUpParent
    <2> QED
      BY <1>3, <2>1, <2>2, <2>4, <2>5, <2>6 DEF ChainInv
  <1>11. CASE Unwind
    <2>1. pc = "unwind" /\ UNCHANGED <<keys, ds, zone, answer>>
      BY <1>11 DEF Unwind
    <2>2. ASSUME answer.kind = "data"
          PROVE  \/ pc' = "done" /\ status' = "Secure"
                 \/ pc' = "unwind" /\ SignedUp(above', FALSE)
      <3>1. SignedUp(above, FALSE)
        BY <2>1, <2>2 DEF ChainInv
      <3>2. CASE above = <<>>
        BY <1>11, <3>2 DEF Unwind, Verdict, Finish
      <3>3. CASE above # <<>>
        <4>1. SignedByParent(Last(above)) /\ SignedUp(Front(above), FALSE)
          BY <3>1, <3>3, SignedUpFront
        <4> QED
          BY <1>11, <2>1, <3>3, <4>1 DEF Unwind
      <3> QED
        BY <3>2, <3>3
    <2> QED
      BY <1>3, <2>1, <2>2 DEF ChainInv
  <1>12. CASE ReceiveDenial
    <2>1. /\ pc' = "prefetch" /\ keys' = keys /\ ds' = ds /\ zone' = Leaf /\ answer'.kind = "denial"
      BY <1>12 DEF ReceiveDenial
    <2> QED
      BY <1>3, <1>4, <2>1 DEF ChainInv
  <1>13. CASE Prefetch
    <2>1. /\ pc = "prefetch" /\ keys' = [keys EXCEPT ![zone] = FullKeys(zone)]
          /\ UNCHANGED <<ds, zone, answer>>
      BY <1>3, <1>5, <1>13 DEF Prefetch
    <2>2. \A z \in Names : keys'[z] \in OrNot(FullKeys(z))
      BY <1>3, <2>1 DEF OrNot
    <2>3. DOMAIN keys' = Names
      BY <1>3, <2>1
    <2>4. answer.kind # "data"
      BY <2>1 DEF ChainInv
    <2> QED
      BY <1>3, <2>1, <2>2, <2>3, <2>4 DEF ChainInv
  <1>14. CASE Deny
    <2>1. /\ pc = "denial" /\ UNCHANGED <<keys, ds, zone, answer>>
      BY <1>14 DEF Deny
    <2>2. answer.kind # "data"
      BY <2>1 DEF ChainInv
    <2> QED
      BY <1>3, <2>1, <2>2 DEF ChainInv
  <1>15. CASE Again
    <2>1. /\ answer'.kind = "none" /\ zone' = 0 /\ keys' = keys /\ ds' = ds
      BY <1>15 DEF Again
    <2> QED
      BY <1>3, <1>4, <2>1 DEF ChainInv
  <1>16. CASE \E z \in Names : Expire(z)
    <2>1. PICK z \in Names :
            \/ keys' = [keys EXCEPT ![z] = NotCached] /\ UNCHANGED ds
            \/ ds' = [ds EXCEPT ![z] = NotCached] /\ UNCHANGED keys
      BY <1>16 DEF Expire
    <2>2. UNCHANGED <<pc, zone, records, depth, above, answer, status>>
      BY <1>16 DEF Expire
    <2>3. /\ DOMAIN keys' = Names /\ DOMAIN ds' = Names
          /\ \A y \in Names : keys'[y] \in OrNot(FullKeys(y)) /\ (y # 0 => ds'[y] \in OrNot(FullDs(y)))
      BY <1>3, <2>1 DEF OrNot
    <2> QED
      BY <1>3, <2>2, <2>3 DEF ChainInv
  <1>17. CASE UNCHANGED dnssecVars
    BY <1>2, <1>17 DEF dnssecVars, ChainInv
  <1> QED
    BY <1>6, <1>7, <1>8, <1>9, <1>10, <1>11, <1>12, <1>13, <1>14, <1>15, <1>16, <1>17 DEF Next

(* The same walk, when the depth limit leaves room for the labels: besides,
   with honest servers an answer of a zone whose every ancestor is signed and
   vouched for is always found Secure, whatever is cached or expires
   (src/src/dnssec.rs, validate_chain). *)
THEOREM VerdictsAreRightThm ==
  ASSUME Leaf <= MAX_CHAIN_DEPTH
  PROVE  Spec => []VerdictsAreRight
  <1>1. Init => ChainInv
    <2> SUFFICES ASSUME Init PROVE ChainInv
      OBVIOUS
    <2>1. 0 \in Names /\ answer.kind = "none"
      BY DnssecConstants DEF Names, Init
    <2> QED
      BY <2>1 DEF ChainInv, Init, OrNot
  <1>2. ChainInv /\ [Next]_dnssecVars => ChainInv'
    BY ChainStep
  <1>3. ChainInv => FullChainIsSecure
    BY DEF ChainInv, HonestFull, FullChainIsSecure
  <1>4. Spec => []FullChainIsSecure
    BY <1>1, <1>2, <1>3, PTL DEF Spec
  <1> QED
    BY <1>4, SecureAnswersAreSigned, PTL DEF VerdictsAreRight

-----------------------------------------------------------------------------
(* The lists: ListsHold, whatever names, sources, configurations, crashes and
   failed saves there are. *)

(* The list behind a file, in a blocklist store b and a rebind filter r. *)
ListIn(b, r, f) ==
  CASE f = "blocking-allow" -> b.allowlist
    [] f = "blocking-block" -> b.manual
    [] f = "rebind-allow"   -> r.allowlist

StoreOK(b, r) ==
  /\ DOMAIN b = {"domains", "allowlist", "manual", "enabled", "paused_until", "list_sources"}
  /\ DOMAIN r = {"enabled", "allowlist"}
  /\ b.enabled \in BOOLEAN /\ b.paused_until \in Nat

(* A list is a pair of disjoint layers. *)
ListOK(l) == DOMAIN l = {"config", "user"} /\ l.config \cap l.user = {}

(* A save under way in store s writes what the list of its file holds. *)
SaveOK(sv, s, b, r) ==
  sv # NoSave =>
    /\ sv.file \in Files /\ StoreOf(sv.file) = s
    /\ sv.contents = ListIn(b, r, sv.file).user

(* The inductive invariant: what was kept is in the file, from where a restart
   reads it, and in the list; a save that ends makes both equal. *)
ListsInv ==
  /\ StoreOK(blocklist, rebind)
  /\ wall \in Nat
  /\ \A f \in Files : ListOK(ListIn(blocklist, rebind, f))
  /\ DOMAIN files = Files /\ DOMAIN kept = Files
  /\ DOMAIN saving = {"blocking", "rebind"}
  /\ \A f \in Files : kept[f] \subseteq files[f]
  /\ up => \A f \in Files : kept[f] \subseteq entries(ListIn(blocklist, rebind, f))
  /\ \A s \in DOMAIN saving : SaveOK(saving[s], s, blocklist, rebind)
  /\ up \/ \A s \in DOMAIN saving : saving[s] = NoSave

LEMMA ListOfIn == \A f \in Files : ListOf(f) = ListIn(blocklist, rebind, f)
BY DEF ListOf, ListIn

(* PersistedDomainList::new keeps its layers apart. *)
LEMMA NewList ==
  ASSUME NEW c, NEW u
  PROVE  /\ ListOK(List(c, u)) /\ List(c, u).config = c /\ List(c, u).user = u \ c
         /\ entries(List(c, u)) = c \cup u
BY DEF ListOK, List, entries

(* The stores and lists of a start. *)
LEMMA NewStores ==
  ASSUME NEW a, NEW m, NEW l
  PROVE  LET b == NewStore(a, m)
             r == [enabled |-> TRUE, allowlist |-> l]
         IN /\ StoreOK(b, r)
            /\ ListIn(b, r, "blocking-allow") = a
            /\ ListIn(b, r, "blocking-block") = m
            /\ ListIn(b, r, "rebind-allow") = l
BY DEF NewStore, StoreOK, ListIn

(* What an edit of the list behind f does to the other lists: nothing. *)
LEMMA SetListOne ==
  ASSUME StoreOK(blocklist, rebind), NEW f \in Files, NEW l, SetList(f, l)
  PROVE  /\ StoreOK(blocklist', rebind')
         /\ ListIn(blocklist', rebind', f) = l
         /\ \A g \in Files \ {f} : ListIn(blocklist', rebind', g) = ListIn(blocklist, rebind, g)
<1>1. CASE f = "blocking-allow"
  <2>1. blocklist' = [blocklist EXCEPT !.allowlist = l] /\ rebind' = rebind
    BY <1>1 DEF SetList
  <2> QED
    BY <1>1, <2>1 DEF StoreOK, ListIn, Files
<1>2. CASE f = "blocking-block"
  <2>1. blocklist' = [blocklist EXCEPT !.manual = l] /\ rebind' = rebind
    BY <1>2 DEF SetList
  <2> QED
    BY <1>2, <2>1 DEF StoreOK, ListIn, Files
<1>3. CASE f = "rebind-allow"
  <2>1. blocklist' = blocklist /\ rebind' = [rebind EXCEPT !.allowlist = l]
    BY <1>3 DEF SetList
  <2> QED
    BY <1>3, <2>1 DEF StoreOK, ListIn, Files
<1> QED
  BY <1>1, <1>2, <1>3 DEF Files

(* An edit with the lock held: the list changes and its save begins. *)
LEMMA ChangeStep ==
  ASSUME ListsInv, NEW f \in Files, NEW l, NEW gone, ListOK(l), Change(f, l, gone),
         Free(StoreOf(f)), kept[f] \ gone \subseteq entries(l)
  PROVE  ListsInv'
<1>1. /\ SetList(f, l) /\ up' = up /\ files' = files /\ wall' = wall
      /\ saving' = [saving EXCEPT ![StoreOf(f)] = [file |-> f, contents |-> l.user]]
      /\ kept' = [kept EXCEPT ![f] = @ \ gone]
  BY DEF Change
<1>2. /\ StoreOK(blocklist', rebind') /\ ListIn(blocklist', rebind', f) = l
      /\ \A g \in Files \ {f} : ListIn(blocklist', rebind', g) = ListIn(blocklist, rebind, g)
  BY <1>1, SetListOne DEF ListsInv
<1>3. \A g \in Files : ListOK(ListIn(blocklist', rebind', g))
  BY <1>2 DEF ListsInv
<1>4. /\ DOMAIN kept' = Files /\ kept'[f] = kept[f] \ gone
      /\ \A g \in Files \ {f} : kept'[g] = kept[g]
  BY <1>1 DEF ListsInv
<1>5. \A g \in Files : kept'[g] \subseteq files'[g]
  BY <1>1, <1>4 DEF ListsInv
<1>6. up' => \A g \in Files : kept'[g] \subseteq entries(ListIn(blocklist', rebind', g))
  BY <1>1, <1>2, <1>4 DEF ListsInv
<1>7. DOMAIN saving' = {"blocking", "rebind"}
  BY <1>1 DEF ListsInv
<1>8. ASSUME NEW s \in DOMAIN saving'
      PROVE  SaveOK(saving'[s], s, blocklist', rebind')
  <2>1. CASE s = StoreOf(f)
    <3>1. saving'[s] = [file |-> f, contents |-> l.user]
      BY <1>1, <1>7, <1>8, <2>1 DEF ListsInv
    <3> QED
      BY <1>2, <2>1, <3>1 DEF SaveOK
  <2>2. CASE s # StoreOf(f)
    <3>1. saving'[s] = saving[s] /\ s \in DOMAIN saving
      BY <1>1, <1>7, <1>8, <2>2 DEF ListsInv
    <3>2. SaveOK(saving[s], s, blocklist, rebind)
      BY <3>1 DEF ListsInv
    <3> QED
      BY <1>2, <2>2, <3>1, <3>2 DEF SaveOK
  <2> QED
    BY <2>1, <2>2
<1>9. up'
  BY <1>1 DEF Free
<1> QED
  BY <1>1, <1>2, <1>3, <1>4, <1>5, <1>6, <1>7, <1>8, <1>9 DEF ListsInv

(* A step that leaves the lists, their files and their saves alone. *)
LEMMA ListsKept ==
  ASSUME ListsInv, StoreOK(blocklist', rebind'), wall' \in Nat,
         \A f \in Files : ListIn(blocklist', rebind', f) = ListIn(blocklist, rebind, f),
         UNCHANGED <<up, files, kept, saving>>
  PROVE  ListsInv'
<1>1. \A s \in DOMAIN saving : SaveOK(saving[s], s, blocklist', rebind')
  BY DEF ListsInv, SaveOK
<1> QED
  BY <1>1 DEF ListsInv

LEMMA ListsInvInit == ListsInit => ListsInv
<1> SUFFICES ASSUME ListsInit PROVE ListsInv
  OBVIOUS
<1> DEFINE none == List({}, {})
<1>1. ListOK(none)
  BY NewList
<1> HIDE DEF none
<1>2. blocklist = NewStore(none, none) /\ rebind = [enabled |-> TRUE, allowlist |-> none]
  BY DEF ListsInit, none
<1>3. /\ StoreOK(blocklist, rebind)
      /\ \A f \in Files : ListIn(blocklist, rebind, f) = none
  BY <1>2, NewStores DEF Files
<1>4. /\ wall = 0 /\ files = [f \in Files |-> {}] /\ kept = [f \in Files |-> {}]
      /\ saving = [s \in {"blocking", "rebind"} |-> NoSave]
  BY DEF ListsInit
<1> QED
  BY <1>1, <1>3, <1>4 DEF ListsInv, SaveOK

LEMMA ListsInvStep == ListsInv /\ [ListsNext]_blockVars => ListsInv'
<1> SUFFICES ASSUME ListsInv, [ListsNext]_blockVars PROVE ListsInv'
  OBVIOUS
<1>1. StoreOK(blocklist, rebind) /\ wall \in Nat
  BY DEF ListsInv
<1>2. ASSUME NEW f \in Files, NEW d \in ListNames, AddEntry(f, d)
      PROVE  ListsInv'
  <2> DEFINE l == ListIn(blocklist, rebind, f)
  <2>1. ListOK(l) /\ kept[f] \subseteq entries(l)
    BY <1>2 DEF ListsInv, AddEntry, Free
  <2>2. ListOf(f) = l
    BY ListOfIn
  <2>3. Inserts(l, d) /\ Free(StoreOf(f)) /\ Change(f, insert(l, d), {})
    BY <1>2, <2>2 DEF AddEntry
  <2> HIDE DEF l
  <2>4. ListOK(insert(l, d)) /\ kept[f] \ {} \subseteq entries(insert(l, d))
    BY <2>1, <2>3 DEF ListOK, insert, Inserts, entries
  <2> QED
    BY <2>3, <2>4, ChangeStep
<1>3. ASSUME NEW f \in Files, NEW d \in ListNames, RemoveEntry(f, d)
      PROVE  ListsInv'
  <2> DEFINE l == ListIn(blocklist, rebind, f)
  <2>1. ListOK(l) /\ kept[f] \subseteq entries(l)
    BY <1>3 DEF ListsInv, RemoveEntry, Free
  <2>2. ListOf(f) = l
    BY ListOfIn
  <2>3. Free(StoreOf(f)) /\ Change(f, remove(l, d), {d})
    BY <1>3, <2>2 DEF RemoveEntry
  <2> HIDE DEF l
  <2>4. ListOK(remove(l, d)) /\ kept[f] \ {d} \subseteq entries(remove(l, d))
    BY <2>1 DEF ListOK, remove, entries
  <2> QED
    BY <2>3, <2>4, ChangeStep
<1>4. ASSUME NEW s \in DOMAIN saving, Rename(s)
      PROVE  ListsInv'
  <2> DEFINE sv == saving[s]
  <2>1. /\ sv # NoSave /\ up /\ UNCHANGED <<up, blocklist, rebind, wall>>
        /\ files' = [files EXCEPT ![sv.file] = sv.contents]
        /\ kept' = [kept EXCEPT ![sv.file] = sv.contents]
        /\ saving' = [saving EXCEPT ![s] = NoSave]
    BY <1>4 DEF Rename
  <2>2. sv.file \in Files /\ sv.contents = ListIn(blocklist, rebind, sv.file).user
    BY <2>1 DEF ListsInv, SaveOK
  <2> HIDE DEF sv
  <2>3. /\ DOMAIN kept' = Files /\ DOMAIN files' = Files
        /\ kept'[sv.file] = sv.contents /\ files'[sv.file] = sv.contents
        /\ \A g \in Files \ {sv.file} : kept'[g] = kept[g] /\ files'[g] = files[g]
    BY <2>1, <2>2 DEF ListsInv
  <2>4. \A g \in Files : kept'[g] \subseteq files'[g]
    BY <2>3 DEF ListsInv
  <2>5. up' => \A g \in Files : kept'[g] \subseteq entries(ListIn(blocklist', rebind', g))
    BY <2>1, <2>2, <2>3 DEF ListsInv, entries
  <2>6. /\ DOMAIN saving' = {"blocking", "rebind"}
        /\ \A t \in DOMAIN saving' : SaveOK(saving'[t], t, blocklist', rebind')
    BY <2>1 DEF ListsInv, SaveOK
  <2> QED
    BY <2>1, <2>3, <2>4, <2>5, <2>6 DEF ListsInv
<1>5. ASSUME NEW s \in DOMAIN saving, SaveFails(s)
      PROVE  ListsInv'
  <2>1. /\ UNCHANGED <<up, blocklist, rebind, files, wall, kept>> /\ up
        /\ saving' = [saving EXCEPT ![s] = NoSave]
    BY <1>5 DEF SaveFails
  <2>2. /\ DOMAIN saving' = {"blocking", "rebind"}
        /\ \A t \in DOMAIN saving' : SaveOK(saving'[t], t, blocklist', rebind')
    BY <2>1 DEF ListsInv, SaveOK
  <2> QED
    BY <2>1, <2>2 DEF ListsInv
<1>6. ASSUME NEW e \in BOOLEAN, Toggle(e)
      PROVE  ListsInv'
  <2>1. /\ blocklist' = [blocklist EXCEPT !.enabled = e]
        /\ UNCHANGED <<up, rebind, files, saving, wall, kept>>
    BY <1>6 DEF Toggle
  <2>2. /\ StoreOK(blocklist', rebind')
        /\ \A f \in Files : ListIn(blocklist', rebind', f) = ListIn(blocklist, rebind, f)
    BY <1>1, <2>1 DEF StoreOK, ListIn, Files
  <2> QED
    BY <1>1, <2>1, <2>2, ListsKept
<1>7. ASSUME NEW e \in BOOLEAN, RebindToggle(e)
      PROVE  ListsInv'
  <2>1. /\ rebind' = [rebind EXCEPT !.enabled = e]
        /\ UNCHANGED <<up, blocklist, files, saving, wall, kept>>
    BY <1>7 DEF RebindToggle
  <2>2. /\ StoreOK(blocklist', rebind')
        /\ \A f \in Files : ListIn(blocklist', rebind', f) = ListIn(blocklist, rebind, f)
    BY <1>1, <2>1 DEF StoreOK, ListIn, Files
  <2> QED
    BY <1>1, <2>1, <2>2, ListsKept
<1>8. CASE Pause(1) \/ Unpause
  <2>1. PICK t \in Nat : blocklist' = [blocklist EXCEPT !.paused_until = t]
    BY <1>1, <1>8 DEF Pause, Unpause
  <2>2. UNCHANGED <<up, rebind, files, saving, wall, kept>>
    BY <1>8 DEF Pause, Unpause
  <2>3. /\ StoreOK(blocklist', rebind')
        /\ \A f \in Files : ListIn(blocklist', rebind', f) = ListIn(blocklist, rebind, f)
    BY <1>1, <2>1, <2>2 DEF StoreOK, ListIn, Files
  <2> QED
    BY <1>1, <2>2, <2>3, ListsKept
<1>9. CASE \/ RefreshStart
           \/ \E s \in Sources : AttemptFails(s) \/ Downloaded(s, Lines(s)) \/ Downloaded(s, {})
           \/ UNCHANGED blockVars
  <2>1. UNCHANGED <<up, blocklist, rebind, files, saving, wall, kept>>
    BY <1>9 DEF RefreshStart, AttemptFails, Downloaded, blockVars
  <2> QED
    BY <1>1, <2>1, ListsKept
<1>10. CASE Swap
  <2>1. PICK ds0, ss : blocklist' = [blocklist EXCEPT !.domains = ds0, !.list_sources = ss]
    BY <1>10 DEF Swap, swap_domains
  <2>2. UNCHANGED <<up, rebind, files, saving, wall, kept>>
    BY <1>10 DEF Swap
  <2>3. /\ StoreOK(blocklist', rebind')
        /\ \A f \in Files : ListIn(blocklist', rebind', f) = ListIn(blocklist, rebind, f)
    BY <1>1, <2>1, <2>2 DEF StoreOK, ListIn, Files
  <2> QED
    BY <1>1, <2>2, <2>3, ListsKept
<1>11. CASE Crash
  <2>1. /\ UNCHANGED <<blocklist, rebind, files, wall, kept>> /\ up' = FALSE
        /\ saving' = [s \in DOMAIN saving |-> NoSave]
    BY <1>11 DEF Crash
  <2>2. /\ DOMAIN saving' = {"blocking", "rebind"}
        /\ \A s \in DOMAIN saving' : saving'[s] = NoSave
        /\ \A s \in DOMAIN saving' : SaveOK(saving'[s], s, blocklist', rebind')
    BY <2>1 DEF ListsInv, SaveOK
  <2> QED
    BY <2>1, <2>2 DEF ListsInv
<1>12. CASE Tick
  <2>1. UNCHANGED <<up, blocklist, rebind, files, saving, kept>> /\ wall' \in Nat
    BY <1>1, <1>12 DEF Tick
  <2> QED
    BY <1>1, <2>1, ListsKept
<1>13. ASSUME NEW c \in Configs, Restart(c)
       PROVE  ListsInv'
  <2>1. UNCHANGED <<files, saving, wall, kept>> /\ up' = TRUE /\ Boot(c)
    BY <1>13 DEF Restart
  <2> DEFINE In(f) == List(IF f = "blocking-allow" THEN c.allowlist
                           ELSE IF f = "blocking-block" THEN {} ELSE c.rebind, files[f])
  <2>2. /\ StoreOK(blocklist', rebind')
        /\ \A f \in Files : ListIn(blocklist', rebind', f) = In(f)
    <3> DEFINE a == List(c.allowlist, files["blocking-allow"])
               m == List({}, files["blocking-block"])
               l == List(c.rebind, files["rebind-allow"])
    <3>1. blocklist' = NewStore(a, m) /\ rebind' = [enabled |-> TRUE, allowlist |-> l]
      BY <2>1 DEF Boot
    <3>2. In("blocking-allow") = a /\ In("blocking-block") = m /\ In("rebind-allow") = l
      OBVIOUS
    <3> HIDE DEF a, m, l, In
    <3> QED
      BY <3>1, <3>2, NewStores DEF Files
  <2>3. \A f \in Files : ListOK(In(f)) /\ files[f] \subseteq entries(In(f))
    BY NewList
  <2> HIDE DEF In
  <2>4. \A s \in DOMAIN saving : saving[s] = NoSave
    BY <1>13 DEF Restart, ListsInv
  <2>5. \A s \in DOMAIN saving : SaveOK(saving[s], s, blocklist', rebind')
    BY <2>4 DEF SaveOK
  <2>6. \A f \in Files : kept[f] \subseteq entries(ListIn(blocklist', rebind', f))
    BY <2>2, <2>3 DEF ListsInv
  <2> QED
    BY <2>1, <2>2, <2>3, <2>5, <2>6 DEF ListsInv
<1> QED
  BY <1>2, <1>3, <1>4, <1>5, <1>6, <1>7, <1>8, <1>9, <1>10, <1>11, <1>12, <1>13 DEF ListsNext

(* is_blocked and check decide alike (src/src/blocklist.rs). *)
LEMMA ChecksAgree ==
  ASSUME NEW b, NEW d, NEW t \in Nat, b.enabled \in BOOLEAN, b.paused_until \in Nat
  PROVE  is_blocked(b, d, t) = check(b, d, t).blocked
<1> DEFINE allow == find_normalized(b.allowlist, d)
           block == find_normalized(b.manual, d)
           lists == find_in_set(d, b.domains)
<1>1. is_blocked(b, d, t) = (/\ b.enabled /\ t >= b.paused_until /\ allow = {}
                             /\ (block # {} \/ lists # {}))
  BY DEF is_blocked
<1>2. check(b, d, t) = IF ~b.enabled \/ t < b.paused_until THEN BlockCheckResult(FALSE, {})
                       ELSE IF allow # {} THEN BlockCheckResult(FALSE, allow)
                       ELSE IF block # {} THEN BlockCheckResult(TRUE, block)
                       ELSE BlockCheckResult(lists # {}, lists)
  BY DEF check
<1> HIDE DEF allow, block, lists
<1>3. \A x \in BOOLEAN : \A m : BlockCheckResult(x, m).blocked = x
  BY DEF BlockCheckResult
<1>4. check(b, d, t).blocked = IF ~b.enabled \/ t < b.paused_until THEN FALSE
                               ELSE IF allow # {} THEN FALSE
                               ELSE IF block # {} THEN TRUE ELSE lists # {}
  BY <1>2, <1>3
<1>5. t >= b.paused_until <=> ~(t < b.paused_until)
  OBVIOUS
<1> QED
  BY <1>1, <1>4, <1>5

(* Whatever names, sources and configurations there are, and wherever crashes
   and failed saves come: an entry that a handler saved and nobody removed is
   still in force, the layers of a list are disjoint, and the API's verdict on
   a name is the one queries get (src/src/api.rs, src/src/persist.rs,
   src/src/domain_list.rs, src/src/blocklist.rs). *)
THEOREM ListsHoldThm == ListsSpec => []ListsHold
<1>1. ListsInit => ListsInv
  BY ListsInvInit
<1>2. ListsInv /\ [ListsNext]_blockVars => ListsInv'
  BY ListsInvStep
<1>3. ListsInv => ListsHold
  <2> SUFFICES ASSUME ListsInv PROVE ListsHold
    OBVIOUS
  <2>1. SavedEntriesSurvive
    BY ListOfIn DEF ListsInv, SavedEntriesSurvive
  <2>2. LayersDisjoint
    BY ListOfIn DEF ListsInv, LayersDisjoint, ListOK
  <2>3. CheckMatchesBlocking
    BY ChecksAgree DEF ListsInv, StoreOK, CheckMatchesBlocking
  <2> QED
    BY <2>1, <2>2, <2>3 DEF ListsHold
<1> QED
  BY <1>1, <1>2, <1>3, PTL DEF ListsSpec

-----------------------------------------------------------------------------
(* Oblivious DoH: OdohFailsForCause and OdohKeysAreFresh, for any number of
   queries, rotations and bootstrap servers. *)

QueryFields == {"pc", "attempt", "cfg", "reply", "outcome", "excused"}
Fetching == {"fetch", "fetched"}

(* What is known of a query r when the target's key is k and the cached
   configuration is c: a failure has its cause, and only a first attempt is
   refused without one; the second then finds the key of the moment. *)
Settled(r, k, c) ==
  /\ DOMAIN r = QueryFields /\ r.excused \in BOOLEAN /\ r.attempt \in {1, 2}
  /\ r.outcome = "error" => r.excused
  /\ r.attempt = 2 => r.pc \notin {"idle", "done"}
  /\ ~r.excused /\ r.pc = "answered" =>
       r.reply = "200" \/ (r.reply \in {"401", "garbled"} /\ r.attempt = 1)
  /\ ~r.excused /\ r.attempt = 2 =>
       /\ c = None \/ c.key = k
       /\ r.pc \in {"seal", "sent", "relayed"} => r.cfg.key = k

(* Since this query took its configuration, or gave one up, the key was not
   rotated; so whatever is fetched by now was published after the rotation. *)
Sealed(r) == ~r.excused /\ (r.attempt = 2 \/ r.pc \in {"seal", "sent", "relayed", "answered"})
Latest(s, k) == \A o \in Queries : s[o].pc = "fetched" => s[o].cfg.key = k

(* At most one query fetches, and only while no configuration is usable. *)
FreshAt(c, t) == c # None /\ t < c.expires
OneFetches(s, lock, c, t) ==
  \A p \in Queries : s[p].pc \in Fetching => lock = p /\ ~FreshAt(c, t)

(* No configuration is kept for longer than MAX_CONFIG_TTL. *)
ConfigOK(c) == c.expires \in Nat /\ c.at \in Nat /\ c.expires - c.at <= MAX_CONFIG_TTL

(* The inductive invariant. *)
OdohInv ==
  /\ now \in Nat /\ key \in Nat /\ DOMAIN q = Queries /\ ConfigOK(current)
  /\ last_failure # Never => lastFault = last_failure
  /\ \A i \in DOMAIN bootstrap : nets[bootstrap[i]] \in {"up", "tcp only", "down"}
  /\ \A p \in Queries : Settled(q[p], key, current)
  /\ (\E p \in Queries : Sealed(q[p])) => Latest(q, key)
  /\ OneFetches(q, refresh_lock, current, now)

LEMMA OdohTypes ==
  ASSUME OdohInv
  PROVE  now \in Nat /\ key \in Nat /\ DOMAIN q = Queries /\ ConfigOK(current)
BY Zenon DEF OdohInv

(* A query that failed for a cause. *)
Failed == [NoQuery EXCEPT !.pc = "done", !.outcome = "error", !.excused = TRUE]

LEMMA FailedIsSettled ==
  ASSUME NEW k, NEW c
  PROVE  Settled(Failed, k, c) /\ ~Sealed(Failed) /\ Failed.pc \notin Fetching
<1>1. /\ DOMAIN Failed = QueryFields /\ Failed.pc = "done" /\ Failed.attempt = 1
      /\ Failed.excused /\ Failed.excused \in BOOLEAN
  BY DEF Failed, NoQuery, QueryFields
<1> QED
  BY <1>1 DEF Settled, Sealed, Fetching

LEMMA EndsFailed ==
  ASSUME NEW p \in Queries, NEW cause, cause, Ends(p, "error", cause)
  PROVE  q' = [q EXCEPT ![p] = Failed]
BY DEF Ends, Failed

(* A step of one query that neither fetches nor changes the configuration. *)
LEMMA QueryMoves ==
  ASSUME OdohInv, NEW p \in Queries, NEW r, q' = [q EXCEPT ![p] = r],
         Settled(r, key, current), r.pc \notin Fetching,
         Sealed(r) => Sealed(q[p]) \/ Latest(q, key),
         refresh_lock' = refresh_lock \/ q[p].pc \in Fetching,
         last_failure' # Never => lastFault' = last_failure',
         UNCHANGED <<now, key, current, bootstrap, nets>>
  PROVE  OdohInv'
<1>1. /\ DOMAIN q' = Queries /\ q'[p] = r
      /\ \A o \in Queries \ {p} : q'[o] = q[o]
  BY DEF OdohInv
<1>2. \A o \in Queries : Settled(q'[o], key, current)
  BY <1>1 DEF OdohInv
<1>3. Latest(q, key) => Latest(q', key)
  BY <1>1 DEF Latest, Fetching
<1>4. (\E o \in Queries : Sealed(q'[o])) => Latest(q', key)
  BY <1>1, <1>3 DEF OdohInv
<1>5. OneFetches(q', refresh_lock', current, now)
  <2> SUFFICES ASSUME NEW o \in Queries, q'[o].pc \in Fetching
               PROVE  refresh_lock' = o /\ ~FreshAt(current, now)
    BY DEF OneFetches
  <2>1. o # p /\ q[o].pc \in Fetching
    BY <1>1
  <2>2. refresh_lock = o /\ ~FreshAt(current, now)
    BY <2>1 DEF OdohInv, OneFetches
  <2>3. q[p].pc \in Fetching => refresh_lock = p
    BY DEF OdohInv, OneFetches
  <2> QED
    BY <2>1, <2>2, <2>3
<1> QED
  BY <1>1, <1>2, <1>4, <1>5 DEF OdohInv

(* The early returns of get: a usable configuration is taken, a recent failure
   ends the query. *)
Hit(p) ==
  /\ UNCHANGED refresh_lock
  /\ \/ Fresh(current) /\ q' = [q EXCEPT ![p].pc = "seal", ![p].cfg = current]
     \/ /\ backoff_error
        /\ Ends(p, "error", lastFault # Never /\ now - lastFault < REFRESH_BACKOFF)

LEMMA HitStep ==
  ASSUME OdohInv, NEW p \in Queries, q[p].pc \in {"get", "wait"}, Hit(p),
         UNCHANGED <<now, key, current, last_failure, lastFault, bootstrap, nets>>
  PROVE  OdohInv'
<1>1. Settled(q[p], key, current) /\ q[p].excused \in BOOLEAN
  BY DEF OdohInv, Settled
<1>2. UNCHANGED refresh_lock
  BY DEF Hit
<1>3. CASE Fresh(current) /\ q' = [q EXCEPT ![p].pc = "seal", ![p].cfg = current]
  <2> DEFINE r == [q[p] EXCEPT !.pc = "seal", !.cfg = current]
  <2>1. q' = [q EXCEPT ![p] = r]
    BY <1>3
  <2>2. /\ DOMAIN r = QueryFields /\ r.pc = "seal" /\ r.cfg = current /\ r.attempt = q[p].attempt
        /\ r.excused = q[p].excused /\ r.outcome = q[p].outcome
    BY <1>1 DEF Settled, QueryFields
  <2> HIDE DEF r
  <2>3. current # None
    BY <1>3 DEF Fresh
  <2>4. Settled(r, key, current)
    BY <1>1, <2>2, <2>3 DEF Settled
  <2>5. Latest(q, key)
    BY <1>3 DEF OdohInv, OneFetches, Latest, Fetching, Fresh, FreshAt
  <2>6. r.pc \notin Fetching
    BY <2>2 DEF Fetching
  <2> QED
    BY <1>2, <2>1, <2>4, <2>5, <2>6, QueryMoves DEF OdohInv
<1>4. CASE backoff_error /\ Ends(p, "error", lastFault # Never /\ now - lastFault < REFRESH_BACKOFF)
  <2>1. lastFault # Never /\ now - lastFault < REFRESH_BACKOFF
    BY <1>4 DEF OdohInv, backoff_error
  <2>2. q' = [q EXCEPT ![p] = Failed]
    BY <1>4, <2>1, EndsFailed
  <2> QED
    BY <1>2, <2>2, FailedIsSettled, QueryMoves DEF OdohInv
<1> QED
  BY <1>3, <1>4 DEF Hit

LEMMA OdohInvInit == OdohInit => OdohInv
<1> SUFFICES ASSUME OdohInit PROVE OdohInv
  OBVIOUS
<1>1. /\ now = 0 /\ key = 0 /\ current = None /\ last_failure = Never
      /\ q = [p \in Queries |-> NoQuery]
      /\ nets \in [ToSet(bootstrap) -> {"up", "tcp only", "down"}]
  BY DEF OdohInit
<1>2. /\ DOMAIN NoQuery = QueryFields /\ NoQuery.pc = "idle" /\ NoQuery.attempt = 1
      /\ NoQuery.outcome = "none" /\ ~NoQuery.excused /\ NoQuery.excused \in BOOLEAN
  BY DEF NoQuery, QueryFields
<1>3. \A p \in Queries : q[p] = NoQuery
  BY <1>1
<1>4. Settled(NoQuery, key, current) /\ ~Sealed(NoQuery) /\ NoQuery.pc \notin Fetching
  BY <1>2 DEF Settled, Sealed, Fetching
<1>5. ConfigOK(current)
  <2>1. current.expires = 0 /\ current.at = 0
    BY <1>1 DEF None
  <2> QED
    BY <2>1, OdohConstants DEF ConfigOK
<1>6. \A i \in DOMAIN bootstrap : nets[bootstrap[i]] \in {"up", "tcp only", "down"}
  BY <1>1 DEF ToSet
<1>7. (\E p \in Queries : Sealed(q[p])) => Latest(q, key)
  BY <1>3, <1>4
<1>8. OneFetches(q, refresh_lock, current, now)
  BY <1>3, <1>4 DEF OneFetches
<1> QED
  BY <1>1, <1>3, <1>4, <1>5, <1>6, <1>7, <1>8 DEF OdohInv

(* No name resolves only when no bootstrap server can be asked. *)
LEMMA UnresolvedIsUnreachable ==
  ASSUME OdohInv, NEW h, ~Resolves(h)
  PROVE  Unreachable
BY DEF OdohInv, Resolves, query_with_tcp_fallback, Unreachable

(* get and its second look under the lock. *)
LEMMA GetLockStep ==
  ASSUME OdohInv, NEW p \in Queries, Get(p) \/ Lock(p)
  PROVE  OdohInv'
<1>1. /\ q[p].pc \in {"get", "wait"}
      /\ UNCHANGED <<now, key, current, last_failure, lastFault, bootstrap, nets>>
  BY DEF Get, Lock, Fixed
<1>2. Settled(q[p], key, current)
  BY DEF OdohInv
<1>3. CASE Hit(p)
  BY <1>1, <1>3, HitStep
<1>4. CASE q' = [q EXCEPT ![p].pc = "wait"] /\ UNCHANGED refresh_lock
  <2> DEFINE r == [q[p] EXCEPT !.pc = "wait"]
  <2>1. q' = [q EXCEPT ![p] = r]
    BY <1>4
  <2>2. /\ DOMAIN r = QueryFields /\ r.pc = "wait" /\ r.attempt = q[p].attempt
        /\ r.excused = q[p].excused /\ r.outcome = q[p].outcome
    BY <1>2 DEF Settled, QueryFields
  <2> HIDE DEF r
  <2>3. Settled(r, key, current) /\ r.pc \notin Fetching /\ (Sealed(r) => Sealed(q[p]))
    BY <1>2, <2>2 DEF Settled, Sealed, Fetching
  <2> QED
    BY <1>1, <1>4, <2>1, <2>3, QueryMoves DEF OdohInv
<1>5. CASE /\ refresh_lock = Nobody /\ ~Fresh(current)
           /\ q' = [q EXCEPT ![p].pc = "fetch"] /\ refresh_lock' = p
  <2> DEFINE r == [q[p] EXCEPT !.pc = "fetch"]
  <2>1. /\ DOMAIN q' = Queries /\ q'[p] = r
        /\ \A o \in Queries \ {p} : q'[o] = q[o]
    BY <1>5 DEF OdohInv
  <2>2. /\ DOMAIN r = QueryFields /\ r.pc = "fetch" /\ r.attempt = q[p].attempt
        /\ r.excused = q[p].excused /\ r.outcome = q[p].outcome
    BY <1>2 DEF Settled, QueryFields
  <2> HIDE DEF r
  <2>3. Settled(r, key, current) /\ (Sealed(r) => Sealed(q[p]))
    BY <1>2, <2>2 DEF Settled, Sealed
  <2>4. \A o \in Queries : q[o].pc \notin Fetching
    BY <1>5, OdohConstants DEF OdohInv, OneFetches
  <2>5. OneFetches(q', refresh_lock', current, now)
    BY <1>5, <2>1, <2>4 DEF OneFetches, Fresh, FreshAt
  <2>6. Latest(q', key)
    BY <2>1, <2>2, <2>4 DEF Latest, Fetching
  <2>7. \A o \in Queries : Settled(q'[o], key, current)
    BY <2>1, <2>3 DEF OdohInv
  <2> QED
    BY <1>1, <2>1, <2>5, <2>6, <2>7 DEF OdohInv
<1> QED
  BY <1>3, <1>4, <1>5 DEF Get, Lock, Cached, Hit

(* A fetch: what arrives carries the key of the moment, and is stored by the
   one query that fetches. *)
LEMMA FetchStep ==
  ASSUME OdohInv, NEW p \in Queries,
         Published(p) \/ \E age \in MaxAges : Store(p, age)
  PROVE  OdohInv'
<1>1. Settled(q[p], key, current)
  BY DEF OdohInv
<1>2. CASE Published(p)
  <2> DEFINE r == [q[p] EXCEPT !.pc = "fetched", !.cfg = [None EXCEPT !.key = key]]
  <2>1. /\ q[p].pc = "fetch" /\ q' = [q EXCEPT ![p] = r]
        /\ UNCHANGED <<now, key, current, last_failure, refresh_lock, lastFault, bootstrap, nets>>
    BY <1>2 DEF Published, Fixed
  <2>2. /\ DOMAIN q' = Queries /\ q'[p] = r
        /\ \A o \in Queries \ {p} : q'[o] = q[o]
    BY <2>1 DEF OdohInv
  <2>3. /\ DOMAIN r = QueryFields /\ r.pc = "fetched" /\ r.attempt = q[p].attempt
        /\ r.excused = q[p].excused /\ r.outcome = q[p].outcome /\ r.cfg.key = key
    BY <1>1 DEF Settled, QueryFields, None
  <2> HIDE DEF r
  <2>4. Settled(r, key, current) /\ (Sealed(r) => Sealed(q[p]))
    BY <1>1, <2>1, <2>3 DEF Settled, Sealed
  <2>5. Latest(q, key) => Latest(q', key)
    BY <2>2, <2>3 DEF Latest
  <2>6. (\E o \in Queries : Sealed(q'[o])) => Latest(q', key)
    BY <2>2, <2>4, <2>5 DEF OdohInv
  <2>7. OneFetches(q', refresh_lock, current, now)
    BY <2>1, <2>2, <2>3 DEF OdohInv, OneFetches, Fetching
  <2>8. \A o \in Queries : Settled(q'[o], key, current)
    BY <2>2, <2>4 DEF OdohInv
  <2> QED
    BY <2>1, <2>2, <2>6, <2>7, <2>8 DEF OdohInv
<1>3. ASSUME NEW age \in MaxAges, Store(p, age)
      PROVE  OdohInv'
  <2> DEFINE c == [key |-> q[p].cfg.key, expires |-> now + ConfigTtl(age), at |-> now]
             r == [q[p] EXCEPT !.pc = "seal", !.cfg = c]
  <2>1. /\ q[p].pc = "fetched" /\ q' = [q EXCEPT ![p] = r] /\ current' = c
        /\ last_failure' = Never /\ UNCHANGED <<now, key, bootstrap, nets>>
    BY <1>3 DEF Store, Fixed
  <2>2. /\ DOMAIN q' = Queries /\ q'[p] = r
        /\ \A o \in Queries \ {p} : q'[o] = q[o]
    BY <2>1 DEF OdohInv
  <2>3. /\ DOMAIN r = QueryFields /\ r.pc = "seal" /\ r.attempt = q[p].attempt
        /\ r.excused = q[p].excused /\ r.outcome = q[p].outcome /\ r.cfg = c
    BY <1>1 DEF Settled, QueryFields
  <2> HIDE DEF r
  <2>4. ConfigOK(c) /\ c.key = q[p].cfg.key
    <3>1. ConfigTtl(age) \in Nat /\ ConfigTtl(age) <= MAX_CONFIG_TTL
      <4> DEFINE ttl == cache_control_ttl(age)
      <4>1. ttl \in Nat
        BY <1>3, OdohConstants DEF cache_control_ttl
      <4>2. ConfigTtl(age) = IF ttl < MAX_CONFIG_TTL THEN ttl ELSE MAX_CONFIG_TTL
        BY DEF ConfigTtl
      <4> HIDE DEF ttl
      <4> QED
        BY <4>1, <4>2, OdohConstants
    <3>2. c.expires = now + ConfigTtl(age) /\ c.at = now /\ c.key = q[p].cfg.key
      OBVIOUS
    <3> QED
      <4>1. now \in Nat
        BY DEF OdohInv
      <4>2. c.expires \in Nat /\ c.at \in Nat
        BY <3>1, <3>2, <4>1
      <4>3. c.expires - c.at = ConfigTtl(age)
        BY <3>1, <3>2, <4>1
      <4> HIDE DEF c
      <4> QED
        BY <3>1, <3>2, <4>2, <4>3 DEF ConfigOK
  <2> HIDE DEF c
  <2>5. ASSUME NEW o \in Queries, Sealed(q[o]) PROVE c.key = key
    BY <2>1, <2>4, <2>5 DEF OdohInv, Latest
  <2>6. Sealed(r) /\ r.attempt = 2 => Sealed(q[p])
    BY <2>3 DEF Sealed
  <2>7. Settled(r, key, c)
    BY <1>1, <2>3, <2>5, <2>6 DEF Settled, Sealed
  <2>8. \A o \in Queries : Settled(q'[o], key, c)
    <3> SUFFICES ASSUME NEW o \in Queries \ {p} PROVE Settled(q[o], key, c)
      BY <2>2, <2>7
    <3>1. Settled(q[o], key, current)
      BY DEF OdohInv
    <3>2. ~q[o].excused /\ q[o].attempt = 2 => c.key = key
      BY <2>5 DEF Sealed
    <3> QED
      BY <3>1, <3>2 DEF Settled
  <2>9. \A o \in Queries : q'[o].pc \notin Fetching
    <3> SUFFICES ASSUME NEW o \in Queries \ {p} PROVE q[o].pc \notin Fetching
      BY <2>2, <2>3 DEF Fetching
    <3> QED
      BY <2>1 DEF OdohInv, OneFetches, Fetching
  <2>10. Latest(q', key) /\ OneFetches(q', refresh_lock', c, now)
    BY <2>9 DEF Latest, OneFetches, Fetching
  <2> QED
    BY <2>1, <2>2, <2>4, <2>8, <2>10 DEF OdohInv
<1> QED
  BY <1>2, <1>3

(* The other steps of a query. *)
LEMMA AskStep ==
  ASSUME OdohInv, NEW p \in Queries,
         \/ Begin(p) \/ Post(p) \/ Take(p) \/ Refuse(p) \/ TargetFails(p) \/ Timeout(p)
         \/ \E target \in {"200", "401", "garbled"} : Forward(p, target)
         \/ \E fault \in BOOLEAN : FetchFails(p, fault)
  PROVE  OdohInv'
<1>1. Settled(q[p], key, current)
  BY DEF OdohInv
<1>2. UNCHANGED <<now, key, current, bootstrap, nets>>
  BY DEF Begin, Post, Take, Refuse, TargetFails, Timeout, Forward, FetchFails, Fixed
<1>3. CASE Begin(p)
  <2> DEFINE r == [NoQuery EXCEPT !.pc = "get"]
  <2>1. q' = [q EXCEPT ![p] = r] /\ UNCHANGED <<last_failure, lastFault, refresh_lock>>
    BY <1>3 DEF Begin
  <2>2. /\ DOMAIN r = QueryFields /\ r.pc = "get" /\ r.attempt = 1
        /\ ~r.excused /\ r.excused \in BOOLEAN /\ r.outcome = "none"
    BY DEF NoQuery, QueryFields
  <2> HIDE DEF r
  <2>3. Settled(r, key, current) /\ ~Sealed(r) /\ r.pc \notin Fetching
    BY <2>2 DEF Settled, Sealed, Fetching
  <2> QED
    BY <1>2, <2>1, <2>3, QueryMoves DEF OdohInv
<1>4. CASE (Post(p) /\ Resolves("relay")) \/ Take(p)
  <2> DEFINE at == IF q[p].pc = "seal" THEN "sent" ELSE "relayed"
             r == [q[p] EXCEPT !.pc = at]
  <2>1. /\ q[p].pc \in {"seal", "sent"} /\ q' = [q EXCEPT ![p] = r]
        /\ UNCHANGED <<last_failure, lastFault, refresh_lock>>
    BY <1>4 DEF Post, Take
  <2>2. /\ DOMAIN r = QueryFields /\ r.pc \in {"sent", "relayed"} /\ r.attempt = q[p].attempt
        /\ r.excused = q[p].excused /\ r.outcome = q[p].outcome /\ r.cfg = q[p].cfg
    BY <1>1 DEF Settled, QueryFields
  <2> HIDE DEF r
  <2>3. Settled(r, key, current) /\ (Sealed(r) => Sealed(q[p])) /\ r.pc \notin Fetching
    BY <1>1, <2>1, <2>2 DEF Settled, Sealed, Fetching
  <2> QED
    BY <1>2, <2>1, <2>3, QueryMoves DEF OdohInv
<1>5. CASE Refuse(p) \/ TargetFails(p)
  <2>1. PICK code : q' = [q EXCEPT ![p] = [q[p] EXCEPT !.pc = "answered", !.reply = code,
                                                     !.excused = TRUE]]
    BY <1>5 DEF Refuse, TargetFails
  <2> DEFINE r == [q[p] EXCEPT !.pc = "answered", !.reply = code, !.excused = TRUE]
  <2>2. q' = [q EXCEPT ![p] = r] /\ UNCHANGED <<last_failure, lastFault, refresh_lock>>
    BY <1>5, <2>1 DEF Refuse, TargetFails
  <2>3. /\ DOMAIN r = QueryFields /\ r.pc = "answered" /\ r.attempt = q[p].attempt
        /\ r.excused /\ r.excused \in BOOLEAN
    BY <1>1 DEF Settled, QueryFields
  <2> HIDE DEF r
  <2>4. Settled(r, key, current) /\ ~Sealed(r) /\ r.pc \notin Fetching
    BY <1>1, <2>3 DEF Settled, Sealed, Fetching
  <2> QED
    BY <1>2, <2>2, <2>4, QueryMoves DEF OdohInv
<1>6. ASSUME NEW target \in {"200", "401", "garbled"}, Forward(p, target)
      PROVE  OdohInv'
  <2> DEFINE r == [q[p] EXCEPT !.pc = "answered", !.reply = target]
  <2>1. /\ q[p].pc = "relayed" /\ (target = "200" <=> q[p].cfg.key = key)
        /\ q' = [q EXCEPT ![p] = r] /\ UNCHANGED <<last_failure, lastFault, refresh_lock>>
    BY <1>6 DEF Forward, Passed
  <2>2. /\ DOMAIN r = QueryFields /\ r.pc = "answered" /\ r.attempt = q[p].attempt
        /\ r.excused = q[p].excused /\ r.outcome = q[p].outcome /\ r.reply = target
    BY <1>1 DEF Settled, QueryFields
  <2> HIDE DEF r
  <2>3. Settled(r, key, current) /\ (Sealed(r) => Sealed(q[p])) /\ r.pc \notin Fetching
    BY <1>1, <1>6, <2>1, <2>2 DEF Settled, Sealed, Fetching
  <2> QED
    BY <1>2, <2>1, <2>3, QueryMoves DEF OdohInv
<1>7. CASE (Post(p) /\ ~Resolves("relay")) \/ Timeout(p)
  <2>1. q' = [q EXCEPT ![p] = Failed]
    <3>1. ~Resolves("relay") => Unreachable
      BY UnresolvedIsUnreachable
    <3>2. (Ends(p, "error", Unreachable) /\ Unreachable) \/ Ends(p, "error", TRUE)
      BY <1>7, <3>1 DEF Post, Timeout
    <3> QED
      BY <3>2, EndsFailed
  <2>2. UNCHANGED <<last_failure, lastFault, refresh_lock>>
    BY <1>7 DEF Post, Timeout
  <2> QED
    BY <1>2, <2>1, <2>2, FailedIsSettled, QueryMoves DEF OdohInv
<1>8. ASSUME NEW fault \in BOOLEAN, FetchFails(p, fault)
      PROVE  OdohInv'
  <2>1. fault \/ Unreachable
    BY <1>8, UnresolvedIsUnreachable DEF FetchFails
  <2>2. q' = [q EXCEPT ![p] = Failed]
    BY <1>8, <2>1, EndsFailed DEF FetchFails
  <2>3. last_failure' = now /\ lastFault' = now /\ q[p].pc \in Fetching
    BY <1>8, <2>1 DEF FetchFails, Fetching
  <2> QED
    BY <1>2, <2>2, <2>3, FailedIsSettled, QueryMoves
<1> QED
  BY <1>3, <1>4, <1>5, <1>6, <1>7, <1>8

(* The end of an attempt: a refused key drops the configuration. *)
LEMMA AnsweredStep ==
  ASSUME OdohInv, NEW p \in Queries, Answered(p)
  PROVE  OdohInv'
<1>1. Settled(q[p], key, current) /\ q[p].excused \in BOOLEAN
  BY DEF OdohInv, Settled
<1>2. /\ q[p].pc = "answered"
      /\ UNCHANGED <<now, key, bootstrap, nets, last_failure, lastFault, refresh_lock>>
  BY DEF Answered, Fixed
<1>3. CASE q[p].reply \in {"401", "garbled"} /\ q[p].attempt = 1
  <2> DEFINE r == [NoQuery EXCEPT !.pc = "get", !.attempt = 2, !.excused = q[p].excused]
  <2>1. q' = [q EXCEPT ![p] = r] /\ current' = None
    BY <1>3 DEF Answered
  <2>2. /\ DOMAIN q' = Queries /\ q'[p] = r
        /\ \A o \in Queries \ {p} : q'[o] = q[o]
    BY <2>1 DEF OdohInv
  <2>3. /\ DOMAIN r = QueryFields /\ r.pc = "get" /\ r.attempt = 2
        /\ r.excused = q[p].excused /\ r.outcome = "none"
    BY DEF NoQuery, QueryFields
  <2> HIDE DEF r
  <2>4. Settled(r, key, None) /\ (Sealed(r) => Sealed(q[p])) /\ r.pc \notin Fetching
    <3>1. Settled(r, key, None)
      BY <1>1, <2>3 DEF Settled
    <3>2. Sealed(r) => Sealed(q[p])
      BY <1>2, <2>3 DEF Sealed
    <3>3. r.pc \notin Fetching
      BY <2>3 DEF Fetching
    <3> QED
      BY <3>1, <3>2, <3>3
  <2>5. \A o \in Queries : Settled(q'[o], key, None)
    <3> SUFFICES ASSUME NEW o \in Queries \ {p} PROVE Settled(q[o], key, None)
      BY <2>2, <2>4
    <3>1. Settled(q[o], key, current)
      BY DEF OdohInv
    <3> QED
      BY <3>1 DEF Settled
  <2>6. Latest(q, key) => Latest(q', key)
    BY <2>2, <2>4 DEF Latest, Fetching
  <2>7. (\E o \in Queries : Sealed(q'[o])) => Latest(q', key)
    BY <2>2, <2>4, <2>6 DEF OdohInv
  <2>8. OneFetches(q', refresh_lock, None, now)
    BY <2>2, <2>4 DEF OdohInv, OneFetches, FreshAt
  <2>9. ConfigOK(None)
    <3>1. None.expires = 0 /\ None.at = 0
      BY DEF None
    <3> QED
      BY <3>1, OdohConstants DEF ConfigOK
  <2> QED
    BY <1>2, <2>1, <2>2, <2>5, <2>7, <2>8, <2>9 DEF OdohInv
<1>4. CASE ~(q[p].reply \in {"401", "garbled"} /\ q[p].attempt = 1)
  <2> DEFINE outcome == IF q[p].reply = "200" THEN "ok" ELSE "error"
             x == q[p].excused \/ FALSE
             r == [NoQuery EXCEPT !.pc = "done", !.outcome = outcome, !.excused = x]
  <2>1. q' = [q EXCEPT ![p] = r] /\ current' = current
    BY <1>4 DEF Answered, Ends
  <2>2. x = q[p].excused
    BY <1>1
  <2> HIDE DEF x
  <2>3. /\ DOMAIN r = QueryFields /\ r.pc = "done" /\ r.attempt = 1
        /\ r.excused = q[p].excused /\ r.outcome = outcome
    BY <2>2 DEF NoQuery, QueryFields
  <2> HIDE DEF r
  <2>4. q[p].excused \/ q[p].reply = "200"
    BY <1>1, <1>2, <1>4 DEF Settled
  <2>5. Settled(r, key, current) /\ ~Sealed(r) /\ r.pc \notin Fetching
    BY <1>1, <2>3, <2>4 DEF Settled, Sealed, Fetching
  <2> QED
    BY <1>2, <2>1, <2>5, QueryMoves DEF OdohInv
<1> QED
  BY <1>3, <1>4

(* A rotation, which is a cause for every query under way, and the clock. *)
LEMMA RotateStep ==
  ASSUME OdohInv, Rotate
  PROVE  OdohInv'
<1>1. /\ UNCHANGED <<now, current, bootstrap, nets, last_failure, lastFault, refresh_lock>>
      /\ key' \in Nat /\ DOMAIN q' = Queries
      /\ \A p \in Queries : q'[p] = IF q[p].pc \in {"idle", "done"} THEN q[p]
                                    ELSE [q[p] EXCEPT !.excused = TRUE]
  <2>1. key \in Nat /\ key' = key + 1
    BY OdohTypes DEF Rotate
  <2>2. key' \in Nat
    BY <2>1
  <2> QED
    BY <2>2 DEF Rotate, Fixed
<1>2. ASSUME NEW p \in Queries
      PROVE  Settled(q'[p], key', current) /\ ~Sealed(q'[p]) /\ q'[p].pc = q[p].pc
  <2>1. Settled(q[p], key, current)
    BY DEF OdohInv
  <2>2. CASE q[p].pc \in {"idle", "done"}
    <3>1. q'[p] = q[p]
      BY <1>1, <2>2
    <3> QED
      BY <2>1, <2>2, <3>1 DEF Settled, Sealed
  <2>3. CASE q[p].pc \notin {"idle", "done"}
    <3> DEFINE r == [q[p] EXCEPT !.excused = TRUE]
    <3>1. q'[p] = r
      BY <1>1, <2>3
    <3>2. /\ DOMAIN r = QueryFields /\ r.pc = q[p].pc /\ r.attempt = q[p].attempt
          /\ r.excused /\ r.excused \in BOOLEAN
      BY <2>1 DEF Settled, QueryFields
    <3> HIDE DEF r
    <3> QED
      BY <2>1, <2>3, <3>1, <3>2 DEF Settled, Sealed
  <2> QED
    BY <2>2, <2>3
<1>3. OneFetches(q', refresh_lock, current, now)
  BY <1>2 DEF OdohInv, OneFetches
<1> QED
  BY <1>1, <1>2, <1>3 DEF OdohInv

LEMMA OdohInvStep == OdohInv /\ [OdohNext]_odohVars => OdohInv'
<1> SUFFICES ASSUME OdohInv, [OdohNext]_odohVars PROVE OdohInv'
  OBVIOUS
<1>1. CASE Stranger \/ UNCHANGED odohVars
  <2>1. UNCHANGED <<now, key, current, last_failure, refresh_lock, q, lastFault, bootstrap, nets>>
    BY <1>1 DEF Stranger, Fixed, odohVars
  <2> QED
    BY <2>1 DEF OdohInv
<1>2. CASE OdohTick
  <2>1. /\ UNCHANGED <<key, current, last_failure, refresh_lock, q, lastFault, bootstrap, nets>>
        /\ now' = now + 1
    BY <1>2 DEF OdohTick, Fixed
  <2>2. now' \in Nat /\ now < now' /\ now \in Nat /\ current.expires \in Nat
    <3>1. now \in Nat /\ current.expires \in Nat
      BY OdohTypes DEF ConfigOK
    <3> QED
      BY <2>1, <3>1
  <2>3. ~FreshAt(current, now) => ~FreshAt(current, now')
    BY <2>2 DEF FreshAt
  <2>4. OneFetches(q, refresh_lock, current, now')
    BY <2>3 DEF OdohInv, OneFetches
  <2> QED
    BY <2>1, <2>2, <2>4 DEF OdohInv
<1> QED
  BY <1>1, <1>2, RotateStep, AskStep, AnsweredStep, FetchStep, GetLockStep DEF OdohNext, Step

(* The requests that the relay holds. *)
Held(s) == {p \in Queries : s[p].pc = "relayed"}

RelayInv ==
  /\ DOMAIN q = Queries /\ DOMAIN relay = {"open", "abandoned"}
  /\ relay.open \in Int /\ relay.abandoned \in Int
  /\ relay.open = relay.abandoned + Cardinality(Held(q))

LEMMA HeldFinite ==
  ASSUME NEW s
  PROVE  IsFiniteSet(Held(s)) /\ Cardinality(Held(s)) \in Nat
<1>1. IsFiniteSet(Queries) /\ Held(s) \subseteq Queries
  BY OdohConstants DEF Held
<1>2. IsFiniteSet(Held(s))
  BY <1>1, FS_Subset
<1> QED
  BY <1>2, FS_CardinalityType

(* A query that is neither taken nor let go leaves the relay's requests alone;
   otherwise they are one more or one fewer. *)
LEMMA HeldSame ==
  ASSUME DOMAIN q = Queries, NEW p \in Queries, NEW r, q' = [q EXCEPT ![p] = r],
         r.pc = "relayed" <=> q[p].pc = "relayed"
  PROVE  Held(q') = Held(q)
<1>1. \A o \in Queries : q'[o].pc = "relayed" <=> q[o].pc = "relayed"
  OBVIOUS
<1> QED
  BY <1>1 DEF Held

LEMMA HeldMore ==
  ASSUME DOMAIN q = Queries, NEW p \in Queries, NEW r, q' = [q EXCEPT ![p] = r],
         r.pc = "relayed", q[p].pc # "relayed"
  PROVE  Cardinality(Held(q')) = Cardinality(Held(q)) + 1
<1>1. Held(q') = Held(q) \cup {p} /\ p \notin Held(q)
  BY DEF Held
<1> QED
  BY <1>1, HeldFinite, FS_AddElement

LEMMA HeldFewer ==
  ASSUME DOMAIN q = Queries, NEW p \in Queries, NEW r, q' = [q EXCEPT ![p] = r],
         r.pc # "relayed", q[p].pc = "relayed"
  PROVE  Cardinality(Held(q')) = Cardinality(Held(q)) - 1
<1>1. Held(q') = Held(q) \ {p} /\ p \in Held(q)
  BY DEF Held
<1> QED
  BY <1>1, HeldFinite, FS_RemoveElement

LEMMA RelayInvStep == OdohInv /\ RelayInv /\ [OdohNext]_odohVars => RelayInv'
<1> SUFFICES ASSUME OdohInv, RelayInv, [OdohNext]_odohVars PROVE RelayInv'
  OBVIOUS
<1> DEFINE n == Cardinality(Held(q))
<1>1. /\ DOMAIN q = Queries /\ DOMAIN relay = {"open", "abandoned"}
      /\ relay.open \in Int /\ relay.abandoned \in Int /\ relay.open = relay.abandoned + n
      /\ n \in Nat
  BY HeldFinite DEF RelayInv
<1>2. \A p \in Queries : DOMAIN q[p] = QueryFields
  BY DEF OdohInv, Settled
<1>3. ASSUME relay' = relay, Held(q') = Held(q), DOMAIN q' = Queries
      PROVE  RelayInv'
  BY <1>1, <1>3 DEF RelayInv
<1>4. ASSUME DOMAIN relay' = {"open", "abandoned"}, DOMAIN q' = Queries,
             relay'.open = relay'.abandoned + Cardinality(Held(q')), relay'.abandoned \in Int
      PROVE  RelayInv'
  BY <1>4, HeldFinite DEF RelayInv
<1>5. ASSUME NEW p \in Queries, NEW r, q' = [q EXCEPT ![p] = r], relay' = relay,
             r.pc = "relayed" <=> q[p].pc = "relayed"
      PROVE  RelayInv'
  BY <1>1, <1>3, <1>5, HeldSame
<1>6. ASSUME NEW p \in Queries, NEW outcome, NEW cause, Ends(p, outcome, cause),
             q[p].pc # "relayed", relay' = relay
      PROVE  RelayInv'
  <2> DEFINE r == [NoQuery EXCEPT !.pc = "done", !.outcome = outcome,
                                  !.excused = q[p].excused \/ cause]
  <2>1. q' = [q EXCEPT ![p] = r] /\ r.pc = "done"
    BY <1>6 DEF Ends, NoQuery
  <2> HIDE DEF r
  <2> QED
    BY <1>5, <1>6, <2>1
<1>7. ASSUME NEW p \in Queries, Get(p) \/ Lock(p)
      PROVE  RelayInv'
  <2>1. q[p].pc \in {"get", "wait"} /\ relay' = relay
    BY <1>7 DEF Get, Lock
  <2>2. \/ Ends(p, "error", lastFault # Never /\ now - lastFault < REFRESH_BACKOFF)
        \/ q' = [q EXCEPT ![p] = [q[p] EXCEPT !.pc = "seal", !.cfg = current]]
        \/ q' = [q EXCEPT ![p] = [q[p] EXCEPT !.pc = "wait"]]
        \/ q' = [q EXCEPT ![p] = [q[p] EXCEPT !.pc = "fetch"]]
    BY <1>7 DEF Get, Lock, Cached
  <2>3. CASE Ends(p, "error", lastFault # Never /\ now - lastFault < REFRESH_BACKOFF)
    BY <1>6, <2>1, <2>3
  <2>4. /\ [q[p] EXCEPT !.pc = "seal", !.cfg = current].pc = "seal"
        /\ [q[p] EXCEPT !.pc = "wait"].pc = "wait" /\ [q[p] EXCEPT !.pc = "fetch"].pc = "fetch"
    BY <1>2 DEF QueryFields
  <2> QED
    BY <1>5, <2>1, <2>2, <2>3, <2>4
<1>8. ASSUME NEW p \in Queries, Published(p) \/ \E age \in MaxAges : Store(p, age)
      PROVE  RelayInv'
  <2>1. /\ q[p].pc \in Fetching /\ relay' = relay
        /\ \E at \in {"fetched", "seal"} : \E c : q' = [q EXCEPT ![p] = [q[p] EXCEPT !.pc = at, !.cfg = c]]
    BY <1>8 DEF Published, Store, Fetching
  <2>2. PICK at \in {"fetched", "seal"} :
          \E c : q' = [q EXCEPT ![p] = [q[p] EXCEPT !.pc = at, !.cfg = c]]
    BY <2>1
  <2> PICK c : q' = [q EXCEPT ![p] = [q[p] EXCEPT !.pc = at, !.cfg = c]]
    BY <2>2
  <2>3. [q[p] EXCEPT !.pc = at, !.cfg = c].pc = at
    BY <1>2 DEF QueryFields
  <2> QED
    BY <1>5, <2>1, <2>2, <2>3 DEF Fetching
<1>9. ASSUME NEW p \in Queries, Begin(p)
      PROVE  RelayInv'
  <2>1. q[p].pc # "relayed" /\ relay' = relay /\ q' = [q EXCEPT ![p] = [NoQuery EXCEPT !.pc = "get"]]
    BY <1>9 DEF Begin
  <2>2. [NoQuery EXCEPT !.pc = "get"].pc = "get"
    BY DEF NoQuery
  <2> QED
    BY <1>5, <2>1, <2>2
<1>10. ASSUME NEW p \in Queries, Post(p) \/ \E fault \in BOOLEAN : FetchFails(p, fault)
       PROVE  RelayInv'
  <2>1. q[p].pc \in {"seal", "fetch"} /\ relay' = relay
    BY <1>10 DEF Post, FetchFails
  <2>2. \/ \E cause : Ends(p, "error", cause)
        \/ q' = [q EXCEPT ![p] = [q[p] EXCEPT !.pc = "sent"]]
    BY <1>10 DEF Post, FetchFails
  <2>3. [q[p] EXCEPT !.pc = "sent"].pc = "sent"
    BY <1>2 DEF QueryFields
  <2> QED
    BY <1>5, <1>6, <2>1, <2>2, <2>3
<1>11. ASSUME NEW p \in Queries, Answered(p)
       PROVE  RelayInv'
  <2>1. q[p].pc = "answered" /\ relay' = relay
    BY <1>11 DEF Answered
  <2>2. \/ \E outcome : Ends(p, outcome, FALSE)
        \/ q' = [q EXCEPT ![p] = [NoQuery EXCEPT !.pc = "get", !.attempt = 2, !.excused = q[p].excused]]
    BY <1>11 DEF Answered
  <2>3. [NoQuery EXCEPT !.pc = "get", !.attempt = 2, !.excused = q[p].excused].pc = "get"
    BY DEF NoQuery
  <2> QED
    BY <1>5, <1>6, <2>1, <2>2, <2>3
<1>12. ASSUME NEW p \in Queries, Take(p)
       PROVE  RelayInv'
  <2> DEFINE r == [q[p] EXCEPT !.pc = "relayed"]
  <2>1. /\ q[p].pc = "sent" /\ q' = [q EXCEPT ![p] = r] /\ relay' = [relay EXCEPT !.open = @ + 1]
    BY <1>12 DEF Take, Total
  <2>2. r.pc = "relayed"
    BY <1>2 DEF QueryFields
  <2> HIDE DEF r
  <2>3. Cardinality(Held(q')) = n + 1 /\ DOMAIN q' = Queries
    BY <1>1, <2>1, <2>2, HeldMore
  <2>4. /\ DOMAIN relay' = {"open", "abandoned"} /\ relay'.open = relay.open + 1
        /\ relay'.abandoned = relay.abandoned
    BY <1>1, <2>1
  <2> HIDE DEF n
  <2>5. relay'.open = relay'.abandoned + Cardinality(Held(q'))
    BY <1>1, <2>3, <2>4
  <2> QED
    BY <1>1, <1>4, <2>3, <2>4, <2>5
<1>13. ASSUME NEW p \in Queries, NEW r, q[p].pc = "relayed", r.pc = "answered",
              q' = [q EXCEPT ![p] = r], relay' = Outcome(relay)
       PROVE  RelayInv'
  <2>1. relay' = [relay EXCEPT !.open = @ - 1]
    BY <1>13 DEF Outcome
  <2>2. Cardinality(Held(q')) = n - 1 /\ DOMAIN q' = Queries
    BY <1>1, <1>13, HeldFewer
  <2>3. /\ DOMAIN relay' = {"open", "abandoned"} /\ relay'.open = relay.open - 1
        /\ relay'.abandoned = relay.abandoned
    BY <1>1, <2>1
  <2> HIDE DEF n
  <2>4. relay'.open = relay'.abandoned + Cardinality(Held(q'))
    BY <1>1, <2>2, <2>3
  <2> QED
    BY <1>1, <1>4, <2>2, <2>3, <2>4
<1>14. ASSUME NEW p \in Queries,
              \/ Refuse(p) \/ TargetFails(p)
              \/ \E target \in {"200", "401", "garbled"} : Forward(p, target)
       PROVE  RelayInv'
  <2>1. /\ q[p].pc = "relayed" /\ relay' = Outcome(relay)
        /\ \/ \E code : q' = [q EXCEPT ![p] = [q[p] EXCEPT !.pc = "answered", !.reply = code]]
           \/ \E code : q' = [q EXCEPT ![p] = [q[p] EXCEPT !.pc = "answered", !.reply = code,
                                                           !.excused = TRUE]]
    BY <1>14 DEF Refuse, TargetFails, Forward, Passed
  <2>2. \A code : /\ [q[p] EXCEPT !.pc = "answered", !.reply = code].pc = "answered"
                  /\ [q[p] EXCEPT !.pc = "answered", !.reply = code, !.excused = TRUE].pc = "answered"
    BY <1>2 DEF QueryFields
  <2> QED
    BY <1>13, <2>1, <2>2
<1>15. ASSUME NEW p \in Queries, Timeout(p)
       PROVE  RelayInv'
  <2>1. CASE q[p].pc # "relayed"
    BY <1>6, <1>15, <2>1 DEF Timeout
  <2>2. CASE q[p].pc = "relayed"
    <3>1. q' = [q EXCEPT ![p] = Failed] /\ relay' = [relay EXCEPT !.abandoned = @ + 1]
      BY <1>15, <2>2, EndsFailed DEF Timeout
    <3>2. Failed.pc = "done"
      BY DEF Failed, NoQuery
    <3>3. Cardinality(Held(q')) = n - 1 /\ DOMAIN q' = Queries
      BY <1>1, <2>2, <3>1, <3>2, HeldFewer
    <3>4. /\ DOMAIN relay' = {"open", "abandoned"} /\ relay'.open = relay.open
          /\ relay'.abandoned = relay.abandoned + 1
      BY <1>1, <3>1
    <3> HIDE DEF n
    <3>5. relay'.open = relay'.abandoned + Cardinality(Held(q')) /\ relay'.abandoned \in Int
      BY <1>1, <3>3, <3>4
    <3> QED
      BY <1>4, <3>3, <3>4, <3>5
  <2> QED
    BY <2>1, <2>2
<1>16. CASE Stranger
  <2>1. q' = q /\ relay' = [[relay EXCEPT !.open = @ + 1] EXCEPT !.open = @ - 1]
    BY <1>16 DEF Stranger, Rejected, Total, Outcome
  <2>2. /\ DOMAIN relay' = {"open", "abandoned"} /\ relay'.open = (relay.open + 1) - 1
        /\ relay'.abandoned = relay.abandoned
    BY <1>1, <2>1
  <2>3. relay'.open = relay.open
    BY <1>1, <2>2
  <2> QED
    BY <1>1, <1>4, <2>1, <2>2, <2>3
<1>17. CASE Rotate
  <2>1. relay' = relay /\ DOMAIN q' = Queries
    BY <1>17 DEF Rotate
  <2>2. \A p \in Queries : q'[p].pc = q[p].pc
    BY <1>2, <1>17 DEF Rotate, QueryFields
  <2>3. Held(q') = Held(q)
    BY <2>2 DEF Held
  <2> QED
    BY <1>3, <2>1, <2>3
<1>18. CASE OdohTick \/ UNCHANGED odohVars
  <2>1. q' = q /\ relay' = relay
    BY <1>18 DEF OdohTick, odohVars
  <2> QED
    BY <1>1, <1>3, <2>1
<1> QED
  BY <1>7, <1>8, <1>9, <1>10, <1>11, <1>12, <1>14, <1>15, <1>16, <1>17, <1>18 DEF OdohNext, Step

(* For any number of queries, rotations, bootstrap servers and clock readings:
   a query fails only for a cause of its own time, since its second attempt
   seals to the key of the moment unless that was rotated meanwhile; and the
   relay has an outcome for every request that it does not hold and that was
   not given up (src/src/odoh.rs, query_through_relay; src/src/relay.rs). *)
THEOREM OdohFailsForCauseThm == OdohSpec => []OdohFailsForCause
<1>1. OdohInit => OdohInv /\ RelayInv
  <2> SUFFICES ASSUME OdohInit PROVE RelayInv
    BY OdohInvInit
  <2>1. q = [p \in Queries |-> NoQuery] /\ relay = [open |-> 0, abandoned |-> 0]
    BY DEF OdohInit
  <2>2. Held(q) = {}
    BY <2>1 DEF Held, NoQuery
  <2>3. Cardinality(Held(q)) = 0
    BY <2>2, FS_EmptySet
  <2> QED
    BY <2>1, <2>3 DEF RelayInv
<1>2. OdohInv /\ RelayInv /\ [OdohNext]_odohVars => (OdohInv /\ RelayInv)'
  BY OdohInvStep, RelayInvStep
<1>3. OdohInv /\ RelayInv => OdohFailsForCause
  <2> SUFFICES ASSUME OdohInv, RelayInv PROVE OdohFailsForCause
    OBVIOUS
  <2>1. FailsOnlyForCause
    BY DEF OdohInv, Settled, FailsOnlyForCause
  <2>2. RelayAccounts
    BY DEF RelayInv, RelayAccounts, Held
  <2> QED
    BY <2>1, <2>2 DEF OdohFailsForCause
<1> QED
  BY <1>1, <1>2, <1>3, PTL DEF OdohSpec

(* A step into "fetch" is the lock's; one into "seal" takes the configuration
   that is cached or stores a new one; the others are of no concern here. *)
LEMMA FreshStep ==
  ASSUME OdohInv, [OdohNext]_odohVars
  PROVE  FetchesAreNeeded /\ KeysAgeOut
<1> DEFINE Goal == FetchesAreNeeded /\ KeysAgeOut
<1>1. DOMAIN q = Queries /\ \A p \in Queries : DOMAIN q[p] = QueryFields
  BY DEF OdohInv, Settled
<1>2. ASSUME NEW p \in Queries, NEW r, q' = [q EXCEPT ![p] = r], r.pc \notin {"fetch", "seal"}
      PROVE  Goal
  <2>1. \A o \in Queries : q'[o].pc \in {"fetch", "seal"} => q'[o] = q[o]
    BY <1>1, <1>2
  <2> QED
    BY <2>1 DEF FetchesAreNeeded, KeysAgeOut
<1>3. ASSUME NEW p \in Queries, NEW outcome, NEW cause, Ends(p, outcome, cause)
      PROVE  Goal
  <2> DEFINE r == [NoQuery EXCEPT !.pc = "done", !.outcome = outcome,
                                  !.excused = q[p].excused \/ cause]
  <2>1. q' = [q EXCEPT ![p] = r] /\ r.pc = "done"
    BY <1>3 DEF Ends, NoQuery
  <2> HIDE DEF r, Goal
  <2> QED
    BY <1>2, <2>1
<1>4. ASSUME NEW p \in Queries, NEW c, q' = [q EXCEPT ![p] = [q[p] EXCEPT !.pc = "seal", !.cfg = c]],
             now - c.at < MAX_CONFIG_TTL
      PROVE  Goal
  <2>1. /\ q'[p].pc = "seal" /\ q'[p].cfg = c
        /\ \A o \in Queries \ {p} : q'[o] = q[o]
    BY <1>1, <1>4 DEF QueryFields
  <2>2. FetchesAreNeeded
    BY <2>1 DEF FetchesAreNeeded
  <2>3. KeysAgeOut
    BY <1>4, <2>1 DEF KeysAgeOut
  <2> QED
    BY <2>2, <2>3
<1>5. ASSUME Fresh(current)
      PROVE  now - current.at < MAX_CONFIG_TTL
  <2>1. now < current.expires
    BY <1>5 DEF Fresh
  <2>2. ConfigOK(current) /\ now \in Nat
    BY OdohTypes
  <2> QED
    BY <2>1, <2>2, OdohConstants DEF ConfigOK
<1>6. ASSUME NEW p \in Queries, refresh_lock = Nobody, ~Fresh(current), ~backoff_error,
             q' = [q EXCEPT ![p] = [q[p] EXCEPT !.pc = "fetch"]]
      PROVE  Goal
  <2>1. /\ q'[p].pc = "fetch"
        /\ \A o \in Queries \ {p} : q'[o] = q[o]
    BY <1>1, <1>6 DEF QueryFields
  <2>2. \A o \in Queries : q[o].pc \notin {"fetch", "fetched"}
    BY <1>6, OdohConstants DEF OdohInv, OneFetches, Fetching
  <2>3. FetchesAreNeeded
    BY <1>6, <2>1, <2>2 DEF FetchesAreNeeded
  <2>4. KeysAgeOut
    BY <2>1 DEF KeysAgeOut
  <2> QED
    BY <2>3, <2>4
<1> HIDE DEF Goal
<1>7. ASSUME NEW p \in Queries, Get(p) \/ Lock(p)
      PROVE  Goal
  <2>1. \/ Ends(p, "error", lastFault # Never /\ now - lastFault < REFRESH_BACKOFF)
        \/ Fresh(current) /\ q' = [q EXCEPT ![p] = [q[p] EXCEPT !.pc = "seal", !.cfg = current]]
        \/ q' = [q EXCEPT ![p] = [q[p] EXCEPT !.pc = "wait"]]
        \/ /\ refresh_lock = Nobody /\ ~Fresh(current) /\ ~backoff_error
           /\ q' = [q EXCEPT ![p] = [q[p] EXCEPT !.pc = "fetch"]]
    BY <1>7 DEF Get, Lock, Cached
  <2>2. [q[p] EXCEPT !.pc = "wait"].pc = "wait"
    BY <1>1 DEF QueryFields
  <2>3. CASE q' = [q EXCEPT ![p] = [q[p] EXCEPT !.pc = "wait"]]
    BY <1>2, <2>2, <2>3
  <2>4. CASE Fresh(current) /\ q' = [q EXCEPT ![p] = [q[p] EXCEPT !.pc = "seal", !.cfg = current]]
    BY <1>4, <1>5, <2>4
  <2> QED
    BY <1>3, <1>6, <2>1, <2>3, <2>4
<1>8. ASSUME NEW p \in Queries, NEW age \in MaxAges, Store(p, age)
      PROVE  Goal
  <2> DEFINE c == [key |-> q[p].cfg.key, expires |-> now + ConfigTtl(age), at |-> now]
  <2>1. q' = [q EXCEPT ![p] = [q[p] EXCEPT !.pc = "seal", !.cfg = c]]
    BY <1>8 DEF Store
  <2>2. c.at = now /\ now \in Nat
    BY OdohTypes
  <2> HIDE DEF c
  <2>3. now - c.at < MAX_CONFIG_TTL
    BY <2>2, OdohConstants
  <2> QED
    BY <1>4, <2>1, <2>3
<1>9. ASSUME NEW p \in Queries, Begin(p) \/ Answered(p)
      PROVE  Goal
  <2>1. \/ \E outcome : Ends(p, outcome, FALSE)
        \/ q' = [q EXCEPT ![p] = [NoQuery EXCEPT !.pc = "get"]]
        \/ q' = [q EXCEPT ![p] = [NoQuery EXCEPT !.pc = "get", !.attempt = 2, !.excused = q[p].excused]]
    BY <1>9 DEF Begin, Answered
  <2>2. /\ [NoQuery EXCEPT !.pc = "get"].pc = "get"
        /\ [NoQuery EXCEPT !.pc = "get", !.attempt = 2, !.excused = q[p].excused].pc = "get"
    BY DEF NoQuery
  <2> QED
    BY <1>2, <1>3, <2>1, <2>2
<1>10. ASSUME NEW p \in Queries,
              Post(p) \/ Timeout(p) \/ \E fault \in BOOLEAN : FetchFails(p, fault)
       PROVE  Goal
  <2>1. \/ \E cause : Ends(p, "error", cause)
        \/ q' = [q EXCEPT ![p] = [q[p] EXCEPT !.pc = "sent"]]
    BY <1>10 DEF Post, Timeout, FetchFails
  <2>2. [q[p] EXCEPT !.pc = "sent"].pc = "sent"
    BY <1>1 DEF QueryFields
  <2> QED
    BY <1>2, <1>3, <2>1, <2>2
<1>11. ASSUME NEW p \in Queries, Published(p) \/ Take(p)
       PROVE  Goal
  <2>1. \/ q' = [q EXCEPT ![p] = [q[p] EXCEPT !.pc = "relayed"]]
        \/ \E c : q' = [q EXCEPT ![p] = [q[p] EXCEPT !.pc = "fetched", !.cfg = c]]
    BY <1>11 DEF Published, Take
  <2>2. /\ [q[p] EXCEPT !.pc = "relayed"].pc = "relayed"
        /\ \A c : [q[p] EXCEPT !.pc = "fetched", !.cfg = c].pc = "fetched"
    BY <1>1 DEF QueryFields
  <2> QED
    BY <1>2, <2>1, <2>2
<1>12. ASSUME NEW p \in Queries,
              \/ Refuse(p) \/ TargetFails(p)
              \/ \E target \in {"200", "401", "garbled"} : Forward(p, target)
       PROVE  Goal
  <2>1. \/ \E code : q' = [q EXCEPT ![p] = [q[p] EXCEPT !.pc = "answered", !.reply = code]]
        \/ \E code : q' = [q EXCEPT ![p] = [q[p] EXCEPT !.pc = "answered", !.reply = code,
                                                        !.excused = TRUE]]
    BY <1>12 DEF Refuse, TargetFails, Forward, Passed
  <2>2. \A code : /\ [q[p] EXCEPT !.pc = "answered", !.reply = code].pc = "answered"
                  /\ [q[p] EXCEPT !.pc = "answered", !.reply = code, !.excused = TRUE].pc = "answered"
    BY <1>1 DEF QueryFields
  <2> QED
    BY <1>2, <2>1, <2>2
<1>13. CASE Rotate
  <2>1. \A p \in Queries : q'[p].pc = q[p].pc
    BY <1>1, <1>13 DEF Rotate, QueryFields
  <2> QED
    BY <2>1 DEF Goal, FetchesAreNeeded, KeysAgeOut
<1>14. CASE Stranger \/ OdohTick \/ UNCHANGED odohVars
  <2>1. q' = q
    BY <1>14 DEF Stranger, OdohTick, odohVars
  <2> QED
    BY <2>1 DEF Goal, FetchesAreNeeded, KeysAgeOut
<1>15. ASSUME NEW p \in Queries, Begin(p) \/ Step(p) \/ Refuse(p)
       PROVE  Goal
  BY <1>7, <1>8, <1>9, <1>10, <1>11, <1>12, <1>15 DEF Step
<1>16. \/ \E p \in Queries : Begin(p) \/ Step(p) \/ Refuse(p)
       \/ Rotate \/ Stranger \/ OdohTick \/ UNCHANGED odohVars
  BY DEF OdohNext
<1> QED
  BY <1>13, <1>14, <1>15, <1>16 DEF Goal

(* For any number of queries, whatever is done while a query waits for the
   lock: a fetch starts only when no configuration is usable, no other fetch
   is under way and none failed within the backoff, and no query is sealed to
   a key learnt MAX_CONFIG_TTL ago (src/src/odoh.rs, OdohConfigCache::get). *)
THEOREM OdohKeysAreFreshThm == OdohSpec => OdohKeysAreFresh
<1>1. OdohInit => OdohInv
  BY OdohInvInit
<1>2. OdohInv /\ [OdohNext]_odohVars => OdohInv'
  BY OdohInvStep
<1>3. OdohInv /\ [OdohNext]_odohVars => [FetchesAreNeeded /\ KeysAgeOut]_odohVars
  BY FreshStep
<1> QED
  BY <1>1, <1>2, <1>3, PTL DEF OdohSpec, OdohKeysAreFresh
=============================================================================
