--------------------------- MODULE RecursionProofs ---------------------------
(***************************************************************************)
(* resolve_iterative nests at most (MAX_CNAME_DEPTH + 1) *                   *)
(* (MAX_REFERRAL_DEPTH + 1) deep whatever servers answer.  The argument: a   *)
(* pending call's rank orders the pairs (cname_depth, referral_depth); each  *)
(* nested call has a higher rank than its caller, so the i-th call has rank  *)
(* at least i - 1, and ranks are bounded.                                   *)
(*                                                                          *)
(* Over a tree of zones with honest servers its answers and the cache are   *)
(* true.  TruthInv says that the calls on the stack ask what they were       *)
(* called for, one that waits for a CNAME's target having called for that   *)
(* target, and that every returned or cached message tells what the tree    *)
(* says of its key.                                                         *)
(***************************************************************************)
EXTENDS HonestRecursion, SequenceTheorems, FiniteSetTheorems,
        WellFoundedInduction, TLAPS

Own(s) == {s[i] : i \in 1..Len(s)}

Rank(f) == f.cname_depth * (MAX_REFERRAL_DEPTH + 1) + f.referral_depth

(* The i-th pending call's depths are within the limits, and no fewer than
   i - 1 pairs of depths come before its own.  A call with name servers left
   to look up is not at the limit of referrals. *)
FrameOK(f, i) ==
  /\ {"referral_depth", "cname_depth", "todo"} \subseteq DOMAIN f
  /\ f.todo # <<>> => f.referral_depth < MAX_REFERRAL_DEPTH
  /\ f.referral_depth \in 0..MAX_REFERRAL_DEPTH
  /\ f.cname_depth \in 0..MAX_CNAME_DEPTH
  /\ i <= Rank(f) + 1

(* The inductive invariant. *)
DepthInv ==
  /\ stack \in Seq(Own(stack))
  /\ \A i \in 1..Len(stack) : FrameOK(stack[i], i)

-----------------------------------------------------------------------------
(* What the three ways of changing the stack do to it. *)

LEMMA OwnSeq ==
  ASSUME NEW S, NEW s \in Seq(S)
  PROVE  s \in Seq(Own(s))
  <1>1. Len(s) \in Nat /\ s \in [1..Len(s) -> S]
    BY LenProperties
  <1>2. s \in [1..Len(s) -> Own(s)]
    BY <1>1 DEF Own
  <1> QED
    BY <1>1, <1>2, SeqDef

LEMMA ReplaceTop ==
  ASSUME NEW s, s \in Seq(Own(s)), s # <<>>, NEW f
  PROVE  LET t == [s EXCEPT ![Len(s)] = f]
         IN /\ t \in Seq(Own(t)) /\ Len(t) = Len(s)
            /\ t[Len(s)] = f
            /\ \A i \in 1..Len(s) : i # Len(s) => t[i] = s[i]
  <1> DEFINE t == [s EXCEPT ![Len(s)] = f]
  <1>1. Len(s) \in Nat \ {0} /\ s \in [1..Len(s) -> Own(s)]
    BY LenProperties, EmptySeq
  <1>2. t \in [1..Len(s) -> Own(s) \cup {f}]
    BY <1>1
  <1>3. t \in Seq(Own(s) \cup {f}) /\ Len(t) = Len(s)
    BY <1>1, <1>2, SeqDef, LenProperties
  <1>4. t \in Seq(Own(t))
    BY <1>3, OwnSeq
  <1> QED
    BY <1>1, <1>3, <1>4

LEMMA PushChild ==
  ASSUME NEW s, s \in Seq(Own(s)), NEW child
  PROVE  LET t == Append(s, child)
         IN /\ t \in Seq(Own(t)) /\ Len(t) = Len(s) + 1
            /\ t[Len(s) + 1] = child
            /\ \A i \in 1..Len(s) : t[i] = s[i]
  <1> DEFINE t == Append(s, child)
             S == Own(s) \cup {child}
  <1>1. s \in Seq(S) /\ child \in S
    BY LenProperties, SeqDef
  <1>2. /\ t \in Seq(S) /\ Len(t) = Len(s) + 1
        /\ t[Len(s) + 1] = child
        /\ \A i \in 1..Len(s) : t[i] = s[i]
    BY <1>1, AppendProperties
  <1>3. t \in Seq(Own(t))
    BY <1>2, OwnSeq
  <1> QED
    BY <1>2, <1>3

LEMMA PopTop ==
  ASSUME NEW s, s \in Seq(Own(s)), s # <<>>
  PROVE  LET t == SubSeq(s, 1, Len(s) - 1)
         IN /\ t \in Seq(Own(t)) /\ Len(t) = Len(s) - 1
            /\ \A i \in 1..Len(t) : t[i] = s[i]
  <1> DEFINE t == SubSeq(s, 1, Len(s) - 1)
  <1>1. Len(s) \in Nat \ {0}
    BY LenProperties, EmptySeq
  <1>2. /\ t \in Seq(Own(s)) /\ Len(t) = Len(s) - 1
        /\ \A i \in 1..Len(t) : t[i] = s[i]
    <2> DEFINE S == Own(s)
               n == Len(s) - 1
    <2>1. n \in Nat /\ \A i \in 1..n : s[i] \in S
      BY <1>1, LenProperties DEF Own
    <2> HIDE DEF S, n
    <2>2. /\ SubSeq(s, 1, n) \in Seq(S)
          /\ Len(SubSeq(s, 1, n)) = IF 1 <= n THEN n - 1 + 1 ELSE 0
          /\ \A i \in 1..(n - 1 + 1) : SubSeq(s, 1, n)[i] = s[1 + i - 1]
      BY <2>1, SubSeqProperties
    <2>3. \A i \in 1..n : SubSeq(s, 1, n)[i] = s[i]
      BY <2>1, <2>2
    <2>4. Len(SubSeq(s, 1, n)) = n
      BY <2>1, <2>2
    <2> QED
      BY <2>2, <2>3, <2>4 DEF S, n
  <1>3. t \in Seq(Own(t))
    BY <1>2, OwnSeq
  <1> QED
    BY <1>2, <1>3

-----------------------------------------------------------------------------
(* Frames. *)

(* A frame that goes on with the same depths. *)
LEMMA SameDepths ==
  ASSUME NEW f, NEW g, NEW i, FrameOK(f, i),
         DOMAIN g = DOMAIN f,
         g.referral_depth = f.referral_depth, g.cname_depth = f.cname_depth,
         g.todo # <<>> => f.referral_depth < MAX_REFERRAL_DEPTH
  PROVE  FrameOK(g, i)
  BY DEF FrameOK, Rank

(* The call for a name server without glue has a higher rank. *)
LEMMA ReferralChild ==
  ASSUME NEW f, NEW n \in Nat, FrameOK(f, n), f.referral_depth < MAX_REFERRAL_DEPTH,
         NEW qname, NEW qtype
  PROVE  FrameOK(Frame(qname, qtype, f.referral_depth + 1, f.cname_depth), n + 1)
  <1> DEFINE child == Frame(qname, qtype, f.referral_depth + 1, f.cname_depth)
             M == MAX_REFERRAL_DEPTH + 1
             product == f.cname_depth * M
  <1>1. /\ child.referral_depth = f.referral_depth + 1
        /\ child.cname_depth = f.cname_depth
        /\ child.todo = <<>>
        /\ {"referral_depth", "cname_depth", "todo"} \subseteq DOMAIN child
    BY DEF Frame
  <1>2. f.referral_depth \in Nat /\ f.cname_depth \in Nat /\ MAX_REFERRAL_DEPTH \in Nat
    BY RecursionConstants DEF FrameOK
  <1>3. product \in Nat
    BY <1>2
  <1>4. n <= product + f.referral_depth + 1
    BY DEF FrameOK, Rank
  <1>5. Rank(child) = product + (f.referral_depth + 1)
    BY <1>1 DEF Rank
  <1> HIDE DEF product, child
  <1>6. n + 1 <= Rank(child) + 1
    BY <1>2, <1>3, <1>4, <1>5
  <1>7. child.referral_depth \in 0..MAX_REFERRAL_DEPTH
    BY <1>1, <1>2
  <1>8. child.cname_depth \in 0..MAX_CNAME_DEPTH
    BY <1>1 DEF FrameOK
  <1>9. FrameOK(child, n + 1)
    BY <1>1, <1>6, <1>7, <1>8 DEF FrameOK
  <1> QED
    BY <1>9 DEF child

(* So has the call for the target of a CNAME, although its count of referrals
   starts again: the caller's is within the limit. *)
LEMMA CnameChild ==
  ASSUME NEW f, NEW n \in Nat, FrameOK(f, n), f.cname_depth < MAX_CNAME_DEPTH,
         NEW qname, NEW qtype
  PROVE  FrameOK(Frame(qname, qtype, 0, f.cname_depth + 1), n + 1)
  <1> DEFINE child == Frame(qname, qtype, 0, f.cname_depth + 1)
             M == MAX_REFERRAL_DEPTH + 1
             product == f.cname_depth * M
  <1>1. /\ child.referral_depth = 0
        /\ child.cname_depth = f.cname_depth + 1
        /\ child.todo = <<>>
        /\ {"referral_depth", "cname_depth", "todo"} \subseteq DOMAIN child
    BY DEF Frame
  <1>2. /\ f.referral_depth \in 0..MAX_REFERRAL_DEPTH /\ f.cname_depth \in Nat
        /\ MAX_REFERRAL_DEPTH \in Nat /\ MAX_CNAME_DEPTH \in Nat
    BY RecursionConstants DEF FrameOK
  <1>3. product \in Nat /\ (f.cname_depth + 1) * M = product + M
    BY <1>2
  <1>4. n <= product + f.referral_depth + 1
    BY DEF FrameOK, Rank
  <1>5. Rank(child) = product + M
    BY <1>1, <1>2, <1>3 DEF Rank
  <1> HIDE DEF product, child
  <1>6. n + 1 <= Rank(child) + 1
    BY <1>2, <1>3, <1>4, <1>5
  <1>7. child.referral_depth \in 0..MAX_REFERRAL_DEPTH
    BY <1>1, <1>2
  <1>8. child.cname_depth \in 0..MAX_CNAME_DEPTH
    BY <1>1, <1>2
  <1>9. FrameOK(child, n + 1)
    BY <1>1, <1>6, <1>7, <1>8 DEF FrameOK
  <1> QED
    BY <1>9 DEF child

-----------------------------------------------------------------------------
(* The three ways of changing the stack preserve the invariant. *)

LEMMA TopOK ==
  ASSUME DepthInv, stack # <<>>
  PROVE  Len(stack) \in Nat \ {0} /\ FrameOK(top, Len(stack))
  <1>1. Len(stack) \in Nat \ {0}
    BY LenProperties, EmptySeq DEF DepthInv
  <1> QED
    BY <1>1 DEF DepthInv, top

LEMMA ContinueOK ==
  ASSUME DepthInv, stack # <<>>, NEW f, FrameOK(f, Len(stack)), Continue(f)
  PROVE  DepthInv'
  <1> DEFINE s == [stack EXCEPT ![Len(stack)] = f]
  <1>1. /\ s \in Seq(Own(s)) /\ Len(s) = Len(stack)
        /\ s[Len(stack)] = f
        /\ \A i \in 1..Len(stack) : i # Len(stack) => s[i] = stack[i]
    BY ReplaceTop DEF DepthInv
  <1>2. stack' = s
    BY DEF Continue
  <1> HIDE DEF s
  <1>3. \A i \in 1..Len(stack') : FrameOK(stack'[i], i)
    BY <1>1, <1>2 DEF DepthInv
  <1> QED
    BY <1>1, <1>2, <1>3 DEF DepthInv, Own, FrameOK, Rank

LEMMA RecurseOK ==
  ASSUME DepthInv, stack # <<>>, NEW f, FrameOK(f, Len(stack)),
         NEW child, FrameOK(child, Len(stack) + 1), Recurse(f, child)
  PROVE  DepthInv'
  <1> DEFINE s == [stack EXCEPT ![Len(stack)] = f]
  <1>1. /\ s \in Seq(Own(s)) /\ Len(s) = Len(stack)
        /\ s[Len(stack)] = f
        /\ \A i \in 1..Len(stack) : i # Len(stack) => s[i] = stack[i]
    BY ReplaceTop DEF DepthInv
  <1>2. stack' = Append(s, child)
    BY DEF Recurse
  <1> HIDE DEF s
  <1>3. /\ stack' \in Seq(Own(stack')) /\ Len(stack') = Len(s) + 1
        /\ stack'[Len(s) + 1] = child
        /\ \A i \in 1..Len(s) : stack'[i] = s[i]
    BY <1>1, <1>2, PushChild
  <1>4. Len(stack) \in Nat
    BY TopOK
  <1>5. \A i \in 1..Len(stack') : FrameOK(stack'[i], i)
    BY <1>1, <1>3, <1>4 DEF DepthInv
  <1> QED
    BY <1>3, <1>5 DEF DepthInv, Own, FrameOK, Rank

LEMMA ReturnOK ==
  ASSUME DepthInv, stack # <<>>, NEW p, Return(p)
  PROVE  DepthInv'
  <1>1. /\ stack' \in Seq(Own(stack')) /\ Len(stack') = Len(stack) - 1
        /\ \A i \in 1..Len(stack') : stack'[i] = stack[i]
    BY PopTop DEF Return, DepthInv
  <1>2. Len(stack) \in Nat \ {0}
    BY TopOK
  <1>3. \A i \in 1..Len(stack') : FrameOK(stack'[i], i)
    BY <1>1, <1>2 DEF DepthInv
  <1> QED
    BY <1>1, <1>3 DEF DepthInv, Own, FrameOK, Rank

-----------------------------------------------------------------------------
(* Frames made by the operators of the model. *)

LEMMA MovedFrames ==
  ASSUME NEW f, NEW i, FrameOK(f, i), NEW zone, NEW order, NEW n
  PROVE  FrameOK(NextServers(f, zone, order), i) /\ FrameOK(SkipServers(f, n), i)
  <1>1. FrameOK(NextServers(f, zone, order), i)
    <2> DEFINE g == NextServers(f, zone, order)
    <2>1. DOMAIN g = DOMAIN f
      BY DEF NextServers
    <2>2. g.referral_depth = f.referral_depth /\ g.cname_depth = f.cname_depth /\ g.todo = <<>>
      BY DEF NextServers, FrameOK
    <2> QED
      BY <2>1, <2>2, SameDepths
  <1>2. FrameOK(SkipServers(f, n), i)
    <2> DEFINE g == SkipServers(f, n)
    <2>1. DOMAIN g = DOMAIN f
      BY DEF SkipServers
    <2>2. g.referral_depth = f.referral_depth /\ g.cname_depth = f.cname_depth /\ g.todo = f.todo
      BY DEF SkipServers, FrameOK
    <2> QED
      BY <2>1, <2>2, SameDepths DEF FrameOK
  <1> QED
    BY <1>1, <1>2

(* Looking up name servers keeps the invariant as long as there are none left
   to look up at the limit of referrals. *)
LEMMA ResolveNsOK ==
  ASSUME DepthInv, stack # <<>>, NEW f, FrameOK(f, Len(stack)),
         NEW todo, todo # <<>> => f.referral_depth < MAX_REFERRAL_DEPTH,
         ResolveNs(f, todo)
  PROVE  DepthInv'
  <1>1. CASE todo = <<>>
    BY <1>1, ReturnOK DEF ResolveNs
  <1>2. CASE todo # <<>>
    <2> DEFINE g == [f EXCEPT !.at = "glueless", !.todo = Tail(todo), !.ns_addrs = <<>>,
                              !.ns_idx = 1, !.legs = {}, !.hedge = FALSE]
               child == Frame(Head(todo)[1], Head(todo)[2], f.referral_depth + 1, f.cname_depth)
    <2>1. Recurse(g, child)
      BY <1>2 DEF ResolveNs
    <2>2. DOMAIN g = DOMAIN f
      OBVIOUS
    <2>3. g.referral_depth = f.referral_depth /\ g.cname_depth = f.cname_depth
      BY DEF FrameOK
    <2>4. FrameOK(g, Len(stack))
      BY <1>2, <2>2, <2>3, SameDepths
    <2>5. FrameOK(child, Len(stack) + 1)
      BY <1>2, ReferralChild, TopOK
    <2> HIDE DEF g, child
    <2> QED
      BY <2>1, <2>4, <2>5, RecurseOK
  <1> QED
    BY <1>1, <1>2

-----------------------------------------------------------------------------
(* Every way the loop can take a response. *)
LEMMA ResponseOK ==
  ASSUME DepthInv, NEW i, Response(i)
  PROVE  DepthInv'
  <1>1. stack # <<>> /\ Len(stack) \in Nat /\ FrameOK(top, Len(stack))
    BY TopOK DEF Response, Running
  <1>2. PICK p : \/ TldReferral(p) \/ FinalAnswer(p) \/ ChaseCname(p)
                 \/ Negative(p) \/ NoData(p) \/ Referral(p)
    BY DEF Response
  <1>3. CASE TldReferral(p)
    <2>1. PICK zone, order :
            \/ Continue([SkipServers(top, 1) EXCEPT !.zone = zone])
            \/ Continue(NextServers(top, zone, order))
      BY <1>3 DEF TldReferral
    <2> DEFINE g == [SkipServers(top, 1) EXCEPT !.zone = zone]
    <2>2. FrameOK(SkipServers(top, 1), Len(stack)) /\ FrameOK(NextServers(top, zone, order), Len(stack))
      BY <1>1, MovedFrames
    <2>3. FrameOK(g, Len(stack))
      <3>1. DOMAIN g = DOMAIN SkipServers(top, 1)
        OBVIOUS
      <3>2. /\ g.referral_depth = SkipServers(top, 1).referral_depth
            /\ g.cname_depth = SkipServers(top, 1).cname_depth
            /\ g.todo = SkipServers(top, 1).todo
        BY <2>2 DEF FrameOK
      <3> QED
        BY <2>2, <3>1, <3>2, SameDepths DEF FrameOK
    <2> HIDE DEF g
    <2>4. Continue(g) \/ Continue(NextServers(top, zone, order))
      BY <2>1 DEF g
    <2> QED
      BY <1>1, <2>2, <2>3, <2>4, ContinueOK
  <1>4. CASE FinalAnswer(p)
    BY <1>1, <1>4, ReturnOK DEF FinalAnswer
  <1>5. CASE ChaseCname(p)
    <2>1. PICK target :
            IF top.cname_depth >= MAX_CNAME_DEPTH THEN Return(Err)
            ELSE Recurse([Frame(top.qname, top.qtype, top.referral_depth, top.cname_depth)
                            EXCEPT !.at = "cname", !.response = p],
                         Frame(target, top.qtype, 0, top.cname_depth + 1))
      BY <1>5 DEF ChaseCname
    <2>2. CASE top.cname_depth >= MAX_CNAME_DEPTH
      BY <1>1, <2>1, <2>2, ReturnOK
    <2>3. CASE ~(top.cname_depth >= MAX_CNAME_DEPTH)
      <3> DEFINE g == [Frame(top.qname, top.qtype, top.referral_depth, top.cname_depth)
                         EXCEPT !.at = "cname", !.response = p]
                 child == Frame(target, top.qtype, 0, top.cname_depth + 1)
      <3>1. Recurse(g, child)
        BY <2>1, <2>3
      <3>2. /\ {"referral_depth", "cname_depth", "todo"} \subseteq DOMAIN g
            /\ g.referral_depth = top.referral_depth
            /\ g.cname_depth = top.cname_depth /\ g.todo = <<>>
        BY DEF Frame
      <3>3. top.cname_depth < MAX_CNAME_DEPTH
        BY <1>1, <2>3, RecursionConstants DEF FrameOK
      <3>4. FrameOK(child, Len(stack) + 1)
        BY <1>1, <3>3, CnameChild
      <3> HIDE DEF g, child
      <3>5. FrameOK(g, Len(stack))
        BY <1>1, <3>2 DEF FrameOK, Rank
      <3> QED
        BY <1>1, <3>1, <3>4, <3>5, RecurseOK
    <2> QED
      BY <2>2, <2>3
  <1>6. CASE Negative(p)
    BY <1>1, <1>6, ReturnOK DEF Negative
  <1>7. CASE NoData(p)
    BY <1>1, <1>7, ReturnOK DEF NoData
  <1>8. CASE Referral(p)
    <2>1. PICK zone, order, names :
            \/ Continue(NextServers(top, zone, order))
            \/ ResolveNs([top EXCEPT !.zone = zone],
                         IF top.referral_depth < MAX_REFERRAL_DEPTH
                         THEN NsQueries(names) ELSE <<>>)
      BY <1>8 DEF Referral
    <2> DEFINE g == [top EXCEPT !.zone = zone]
               todo == IF top.referral_depth < MAX_REFERRAL_DEPTH
                       THEN NsQueries(names) ELSE <<>>
    <2>2. DOMAIN g = DOMAIN top
      OBVIOUS
    <2>3. /\ g.referral_depth = top.referral_depth
          /\ g.cname_depth = top.cname_depth /\ g.todo = top.todo
      BY <1>1 DEF FrameOK
    <2>4. FrameOK(g, Len(stack))
      BY <1>1, <2>2, <2>3, SameDepths DEF FrameOK
    <2>5. todo # <<>> => g.referral_depth < MAX_REFERRAL_DEPTH
      BY <2>3
    <2>6. FrameOK(NextServers(top, zone, order), Len(stack))
      BY <1>1, MovedFrames
    <2>7. Continue(NextServers(top, zone, order)) \/ ResolveNs(g, todo)
      BY <2>1
    <2> HIDE DEF g, todo
    <2>8. CASE Continue(NextServers(top, zone, order))
      BY <1>1, <2>6, <2>8, ContinueOK
    <2>9. CASE ResolveNs(g, todo)
      BY <1>1, <2>4, <2>5, <2>9, ResolveNsOK
    <2> QED
      BY <2>7, <2>8, <2>9
  <1> QED
    BY <1>2, <1>3, <1>4, <1>5, <1>6, <1>7, <1>8

-----------------------------------------------------------------------------
(* The invariant bounds the nesting. *)
LEMMA DepthBounds ==
  ASSUME DepthInv
  PROVE  StackBounded
  <1>1. CASE stack = <<>>
    <2>1. Len(stack) = 0
      BY <1>1
    <2>2. (MAX_CNAME_DEPTH + 1) * (MAX_REFERRAL_DEPTH + 1) \in Nat
      BY RecursionConstants
    <2> QED
      BY <2>1, <2>2 DEF StackBounded
  <1>2. CASE stack # <<>>
    <2> DEFINE M == MAX_REFERRAL_DEPTH + 1
               c == top.cname_depth
               r == top.referral_depth
    <2>1. Len(stack) \in Nat /\ FrameOK(top, Len(stack))
      BY <1>2, TopOK
    <2>2. c \in Nat /\ c <= MAX_CNAME_DEPTH /\ r \in Nat /\ r + 1 <= M /\ M \in Nat
      BY <2>1, RecursionConstants DEF FrameOK
    <2>3. Len(stack) <= c * M + r + 1
      BY <2>1 DEF FrameOK, Rank
    <2> HIDE DEF M, c, r
    <2>4. c * M <= MAX_CNAME_DEPTH * M
      BY <2>2, RecursionConstants
    <2>5. (MAX_CNAME_DEPTH + 1) * M = MAX_CNAME_DEPTH * M + M
      BY <2>2, RecursionConstants
    <2>6. c * M \in Nat /\ MAX_CNAME_DEPTH * M \in Nat
      BY <2>2, RecursionConstants
    <2>7. Len(stack) <= MAX_CNAME_DEPTH * M + M
      BY <2>1, <2>2, <2>3, <2>4, <2>6
    <2> QED
      BY <2>5, <2>7 DEF StackBounded, M
  <1> QED
    BY <1>1, <1>2

LEMMA DepthStep ==
  ASSUME DepthInv, [Next]_vars
  PROVE  DepthInv'
  <1>1. CASE stack' = stack
    BY <1>1 DEF DepthInv, Own, FrameOK, Rank
  <1>2. CASE \E q \in Queries : Call(q)
    <2>1. PICK q : stack' = <<Frame(q[1], q[2], 0, 0)>>
      BY <1>2 DEF Call
    <2> DEFINE f == Frame(q[1], q[2], 0, 0)
    <2>2. FrameOK(f, 1)
      BY RecursionConstants DEF FrameOK, Rank, Frame
    <2> HIDE DEF f
    <2>3. stack' = <<f>>
      BY <2>1 DEF f
    <2>4. stack' \in Seq({f}) /\ Len(stack') = 1 /\ stack'[1] = f
      BY <2>3
    <2>5. stack' \in Seq(Own(stack'))
      BY <2>4, OwnSeq
    <2> QED
      BY <2>2, <2>4, <2>5 DEF DepthInv, Own, FrameOK, Rank
  <1>3. CASE Enter
    <2>1. stack # <<>> /\ FrameOK(top, Len(stack))
      BY <1>3, TopOK DEF Enter, Running
    <2>2. PICK p, zone, order :
            Return(p) \/ Continue([top EXCEPT !.at = "loop", !.zone = zone, !.ns_addrs = order])
      BY <1>3 DEF Enter
    <2> DEFINE g == [top EXCEPT !.at = "loop", !.zone = zone, !.ns_addrs = order]
    <2>3. DOMAIN g = DOMAIN top
      OBVIOUS
    <2>4. g.referral_depth = top.referral_depth /\ g.cname_depth = top.cname_depth /\ g.todo = top.todo
      BY <2>1 DEF FrameOK
    <2>5. FrameOK(g, Len(stack))
      BY <2>1, <2>3, <2>4, SameDepths DEF FrameOK
    <2>6. Return(p) \/ Continue(g)
      BY <2>2
    <2> HIDE DEF g
    <2> QED
      BY <2>1, <2>5, <2>6, ReturnOK, ContinueOK
  <1>4. CASE \E known \in BOOLEAN : Ask(known)
    <2>1. stack # <<>> /\ FrameOK(top, Len(stack))
      BY <1>4, TopOK DEF Ask, Running
    <2>2. PICK legs, hedge :
            Return(Err) \/ Continue([top EXCEPT !.at = "asking", !.legs = legs, !.hedge = hedge])
      BY <1>4 DEF Ask
    <2> DEFINE g == [top EXCEPT !.at = "asking", !.legs = legs, !.hedge = hedge]
    <2>3. DOMAIN g = DOMAIN top
      OBVIOUS
    <2>4. g.referral_depth = top.referral_depth /\ g.cname_depth = top.cname_depth /\ g.todo = top.todo
      BY <2>1 DEF FrameOK
    <2>5. FrameOK(g, Len(stack))
      BY <2>1, <2>3, <2>4, SameDepths DEF FrameOK
    <2>6. Return(Err) \/ Continue(g)
      BY <2>2
    <2> HIDE DEF g
    <2> QED
      BY <2>1, <2>5, <2>6, ReturnOK, ContinueOK
  <1>5. CASE Hedge
    <2>1. stack # <<>> /\ FrameOK(top, Len(stack))
      BY <1>5, TopOK DEF Hedge, Running
    <2>2. PICK legs : Continue([top EXCEPT !.legs = legs, !.hedge = FALSE])
      BY <1>5 DEF Hedge
    <2> DEFINE g == [top EXCEPT !.legs = legs, !.hedge = FALSE]
    <2>3. DOMAIN g = DOMAIN top
      OBVIOUS
    <2>4. g.referral_depth = top.referral_depth /\ g.cname_depth = top.cname_depth /\ g.todo = top.todo
      BY <2>1 DEF FrameOK
    <2>5. FrameOK(g, Len(stack))
      BY <2>1, <2>3, <2>4, SameDepths DEF FrameOK
    <2>6. Continue(g)
      BY <2>2
    <2> HIDE DEF g
    <2> QED
      BY <2>1, <2>5, <2>6, ContinueOK
  <1>6. CASE \E i \in top.legs : RequestFails(i)
    <2>1. stack # <<>> /\ FrameOK(top, Len(stack))
      BY <1>6, TopOK DEF RequestFails, Running
    <2>2. PICK n, legs : Continue(SkipServers(top, n)) \/ Continue([top EXCEPT !.legs = legs])
      BY <1>6 DEF RequestFails
    <2> DEFINE g == [top EXCEPT !.legs = legs]
    <2>3. DOMAIN g = DOMAIN top
      OBVIOUS
    <2>4. g.referral_depth = top.referral_depth /\ g.cname_depth = top.cname_depth /\ g.todo = top.todo
      BY <2>1 DEF FrameOK
    <2>5. FrameOK(g, Len(stack))
      BY <2>1, <2>3, <2>4, SameDepths DEF FrameOK
    <2>6. FrameOK(SkipServers(top, n), Len(stack))
      BY <2>1, MovedFrames
    <2>7. Continue(SkipServers(top, n)) \/ Continue(g)
      BY <2>2
    <2> HIDE DEF g
    <2> QED
      BY <2>1, <2>5, <2>6, <2>7, ContinueOK
  <1>7. CASE \E i \in top.legs : Response(i)
    BY <1>7, ResponseOK
  <1>8. CASE ResumeCname
    <2>1. stack # <<>> /\ \E p : Return(p)
      BY <1>8 DEF ResumeCname, Resuming
    <2> QED
      BY <2>1, ReturnOK
  <1>9. CASE ResumeGlueless
    <2>1. stack # <<>> /\ FrameOK(top, Len(stack))
      BY <1>9, TopOK DEF ResumeGlueless, Resuming
    <2>2. PICK order : ResolveNs(top, top.todo) \/ Continue(NextServers(top, top.zone, order))
      BY <1>9 DEF ResumeGlueless
    <2>3. FrameOK(NextServers(top, top.zone, order), Len(stack))
      BY <2>1, MovedFrames
    <2>4. CASE ResolveNs(top, top.todo)
      BY <2>1, <2>4, ResolveNsOK DEF FrameOK
    <2>5. CASE Continue(NextServers(top, top.zone, order))
      BY <2>1, <2>3, <2>5, ContinueOK
    <2> QED
      BY <2>2, <2>4, <2>5
  <1>10. CASE \/ \E stores \in BOOLEAN : Finish(stores)
              \/ \E tld \in PrimeTlds, server \in RootHints : PrimeTld(tld, server)
              \/ \E k \in DOMAIN cache : Expire(k)
    BY <1>1, <1>10 DEF Finish, PrimeTld, Expire
  <1>11. CASE UNCHANGED vars
    BY <1>1, <1>11 DEF vars
  <1> QED
    BY <1>2, <1>3, <1>4, <1>5, <1>6, <1>7, <1>8, <1>9, <1>10, <1>11 DEF Next, Step

(* For any servers, root hints, questions and limits: the pending calls of
   resolve_iterative never exceed the product of its two limits, each plus
   one (src/src/recursive.rs, resolve_iterative). *)
THEOREM NestingBounded == Spec => []StackBounded
  <1>1. Init => DepthInv
    <2> SUFFICES ASSUME Init PROVE DepthInv
      OBVIOUS
    <2>1. stack = <<>> /\ Len(stack) = 0
      BY DEF Init
    <2>2. stack \in Seq(Own(stack))
      BY <2>1
    <2> QED
      BY <2>1, <2>2 DEF DepthInv
  <1>2. DepthInv /\ [Next]_vars => DepthInv'
    BY DepthStep
  <1>3. DepthInv => StackBounded
    BY DepthBounds
  <1> QED
    BY <1>1, <1>2, <1>3, PTL DEF Spec

-----------------------------------------------------------------------------
(* Over servers that answer honestly, everything resolve_iterative returns    *)
(* and stores is true.  First, what an honest answer can be. *)

LEMMA Least ==
  ASSUME NEW T \in SUBSET Nat, T # {}
  PROVE  \E x \in T : \A y \in T : x <= y
  <1>1. PICK x \in T : \A y \in T : ~(<<y, x>> \in OpToRel(<, Nat))
    BY NatLessThanWellFounded, WFMin, Zenon
  <1>2. \A y \in T : ~(y < x)
    BY <1>1 DEF OpToRel
  <1> QED
    BY <1>2

LEMMA Shortest ==
  ASSUME NEW S \in SUBSET Name, S # {}
  PROVE  \E z \in S : \A y \in S : Len(z) <= Len(y)
  <1>1. \A z \in S : Len(z) \in Nat
    BY DEF Name
  <1>2. PICK x \in {Len(z) : z \in S} : \A y \in {Len(z) : z \in S} : x <= y
    BY <1>1, Least
  <1> QED
    BY <1>2

LEMMA Longest ==
  ASSUME NEW S \in SUBSET Name, S # {}, NEW b \in Nat, \A z \in S : Len(z) <= b
  PROVE  \E z \in S : \A y \in S : Len(y) <= Len(z)
  <1>1. \A z \in S : Len(z) \in Nat
    BY DEF Name
  <1>2. \A z \in S : b - Len(z) \in Nat
    BY <1>1
  <1>3. PICK x \in {b - Len(z) : z \in S} : \A y \in {b - Len(z) : z \in S} : x <= y
    BY <1>2, Least
  <1>4. PICK z \in S : x = b - Len(z)
    BY <1>3
  <1>5. \A y \in S : b - Len(z) <= b - Len(y)
    BY <1>3, <1>4
  <1> QED
    BY <1>1, <1>5

(* A name is under itself. *)
LEMMA UnderSelf ==
  ASSUME NEW n \in Name
  PROVE  Under(n, n)
  <1>1. Len(n) \in Nat /\ Len(n) - Len(n) + 1 = 1
    BY DEF Name
  <1>2. SubSeq(n, 1, Len(n)) = n
    BY SubSeqFull DEF Name
  <1> QED
    BY <1>1, <1>2 DEF Under

(* What a zone's server says of a question that is not about DS. *)
Said(p, n, t) ==
  \/ p = Refused
  \/ \E z \in Apexes : z # <<>> /\ Under(n, z) /\ p = ReferralTo(z)
  \/ \E z : p = Authoritative(z, n, t)

LEMMA HonestAnswers ==
  ASSUME NEW s, NEW n \in Name, NEW t, t # "DS", NEW p \in Honest(s, n, t)
  PROVE  Said(p, n, t)
  <1> DEFINE serves == {z \in Apexes : s \in Zones[z].servers /\ Under(n, z)}
             home == Deepest(serves)
             cuts == {z \in Apexes : Under(n, z) /\ Under(z, home) /\ z # home}
             cut  == CHOOSE z \in cuts : \A y \in cuts : Len(z) <= Len(y)
  <1>1. p = IF serves = {} THEN Refused
            ELSE IF cuts # {} THEN ReferralTo(cut) ELSE Authoritative(home, n, t)
    BY DEF Honest
  <1>2. CASE serves # {} /\ cuts # {}
    <2>1. serves \in SUBSET Name /\ cuts \in SUBSET Name
      BY TreeConstants
    <2>2. \A z \in serves : Len(z) <= Len(n)
      BY DEF Under
    <2>3. Len(n) \in Nat
      BY DEF Name
    <2>4. \E z \in serves : \A y \in serves : Len(y) <= Len(z)
      <3> HIDE DEF serves
      <3> QED BY <1>2, <2>1, <2>2, <2>3, Longest
    <2>5. home \in serves
      <3> HIDE DEF serves
      <3> QED BY <2>4 DEF Deepest
    <2>6. \E z \in cuts : \A y \in cuts : Len(z) <= Len(y)
      <3> HIDE DEF cuts
      <3> QED BY <1>2, <2>1, Shortest
    <2>7. cut \in cuts
      <3> HIDE DEF cuts
      <3> QED BY <2>6
    <2>8. cut # <<>>
      <3>1. Under(cut, home) /\ cut # home /\ home \in Name /\ Len(home) <= Len(cut)
        BY <2>1, <2>5, <2>7 DEF Under
      <3> HIDE DEF home, cut
      <3>2. cut = <<>> => Len(home) = 0
        BY <3>1, EmptySeq, LenProperties DEF Name
      <3> QED
        BY <3>1, <3>2, EmptySeq DEF Name
    <2>9. cut \in Apexes /\ Under(n, cut)
      BY <2>7
    <2>10. p = ReferralTo(cut)
      BY <1>1, <1>2
    <2> HIDE DEF serves, home, cuts, cut
    <2> QED
      BY <2>8, <2>9, <2>10 DEF Said
  <1>3. CASE serves = {} \/ cuts = {}
    <2> HIDE DEF serves, home, cuts, cut
    <2> QED
      BY <1>1, <1>3 DEF Said
  <1> QED
    BY <1>2, <1>3

-----------------------------------------------------------------------------
(* The records at a name. *)

LEMMA ZoneRecords ==
  ASSUME NEW z \in Apexes
  PROVE  /\ Matching(z, {"NS"}) = NsRecords(z)
         /\ Matching(z, {"DS"}) = DsRecords(z)
  <1>1. \A r \in NsRecords(z) : r \in AllRecords /\ r.domain = z /\ r.type = "NS"
    BY DEF NsRecords, AllRecords
  <1>2. \A r \in DsRecords(z) : r \in AllRecords /\ r.domain = z /\ r.type = "DS"
    BY DEF DsRecords, AllRecords
  <1>3. \A r \in AllRecords : r \in Records \/ \E y \in Apexes : r \in NsRecords(y) \/ r \in DsRecords(y)
    BY DEF AllRecords
  <1>4. \A y \in Apexes : \A r \in NsRecords(y) : r.domain = y /\ r.type = "NS"
    BY DEF NsRecords
  <1>5. \A y \in Apexes : \A r \in DsRecords(y) : r.domain = y /\ r.type = "DS"
    BY DEF DsRecords
  <1>6. \A r \in Records : r.type # "NS" /\ r.type # "DS"
    BY TreeConstants
  <1> QED
    BY <1>1, <1>2, <1>3, <1>4, <1>5, <1>6 DEF Matching

LEMMA PlainRecords ==
  ASSUME NEW n, NEW t, t \notin {"NS", "DS"}
  PROVE  Matching(n, {t}) = {r \in Records : r.domain = n /\ r.type = t}
  <1>1. \A r \in AllRecords :
          r \in Records \/ \E y \in Apexes : r \in NsRecords(y) \/ r \in DsRecords(y)
    BY DEF AllRecords
  <1>2. \A y \in Apexes : \A r \in NsRecords(y) : r.type = "NS"
    BY DEF NsRecords
  <1>3. \A y \in Apexes : \A r \in DsRecords(y) : r.type = "DS"
    BY DEF DsRecords
  <1>4. Records \subseteq AllRecords
    BY DEF AllRecords
  <1> QED
    BY <1>1, <1>2, <1>3, <1>4 DEF Matching

(* A name owns a CNAME exactly when the tree has one there, and then nothing
   else is there. *)
LEMMA Aliases ==
  ASSUME NEW n
  PROVE  /\ n \in Owners <=> Matching(n, {"CNAME"}) # {}
         /\ n \in Owners => \A r, x \in AllRecords : r.domain = n /\ x.domain = n => r = x
         /\ \A m \in AliasOf(n) : m \in Name
         /\ \A m, l \in AliasOf(n) : m = l
  <1>1. Matching(n, {"CNAME"}) = {r \in Records : r.domain = n /\ r.type = "CNAME"}
    BY PlainRecords
  <1>2. n \in Owners <=> Matching(n, {"CNAME"}) # {}
    BY <1>1 DEF Owners
  <1>3. n \in Owners => \A r, x \in AllRecords : r.domain = n /\ x.domain = n => r = x
    <2> SUFFICES ASSUME n \in Owners PROVE \A r, x \in AllRecords : r.domain = n /\ x.domain = n => r = x
      OBVIOUS
    <2>1. PICK c \in Records : c.type = "CNAME" /\ c.domain = n
      BY DEF Owners
    <2>2. \A x \in AllRecords : x.domain = c.domain => x = c
      BY <2>1, TreeConstants
    <2> QED
      BY <2>1, <2>2
  <1>4. \A m \in AliasOf(n) : m \in Name
    BY <1>1, TreeConstants DEF AliasOf
  <1>5. \A m, l \in AliasOf(n) : m = l
    <2> SUFFICES ASSUME NEW m \in AliasOf(n), NEW l \in AliasOf(n) PROVE m = l
      OBVIOUS
    <2>1. PICK r \in Matching(n, {"CNAME"}), x \in Matching(n, {"CNAME"}) : r.data = m /\ x.data = l
      BY DEF AliasOf
    <2>2. n \in Owners /\ r \in AllRecords /\ x \in AllRecords /\ r.domain = n /\ x.domain = n
      BY <1>2, <2>1 DEF Matching
    <2> QED
      BY <1>3, <2>1, <2>2
  <1> QED
    BY <1>2, <1>3, <1>4, <1>5

LEMMA OwnerExists ==
  ASSUME NEW r \in AllRecords
  PROVE  Exists(r.domain)
  <1>1. r.domain \in Name
    <2>1. CASE r \in Records
      BY <2>1, TreeConstants
    <2>2. CASE \E z \in Apexes : r \in NsRecords(z) \cup DsRecords(z)
      BY <2>2, TreeConstants DEF NsRecords, DsRecords
    <2> QED
      BY <2>1, <2>2 DEF AllRecords
  <1> QED
    BY <1>1, UnderSelf DEF Exists

(* A record that is no CNAME shows that its name has none. *)
LEMMA NotAliased ==
  ASSUME NEW r \in AllRecords, r.type # "CNAME"
  PROVE  r.domain \notin Owners
  <1> SUFFICES ASSUME r.domain \in Owners PROVE FALSE
    OBVIOUS
  <1>1. PICK c \in Records : c.type = "CNAME" /\ c.domain = r.domain
    BY DEF Owners
  <1>2. r = c
    BY <1>1, TreeConstants
  <1> QED
    BY <1>1, <1>2

(* Where the target of a CNAME ends, its owner ends too. *)
LEMMA EndsFollow ==
  ASSUME NEW n \in Owners, NEW m \in AliasOf(n)
  PROVE  Ends(m) \subseteq Ends(n)
  <1> SUFFICES ASSUME NEW e \in Ends(m) PROVE e \in Ends(n)
    OBVIOUS
  <1>1. AliasOf(n) = {m}
    BY Aliases
  <1>2. m \in Aliased
    BY DEF Aliased
  <1>3. e \in Aliased \ Owners /\ (m = e \/ m \in LeadingTo(e))
    BY <1>2 DEF Ends, EndsOf
  <1>4. n \in LeadingTo(e)
    <2> SUFFICES ASSUME NEW S \in SUBSET Owners,
                        \A x \in Owners : AliasOf(x) \subseteq S \cup {e} => x \in S
                 PROVE  n \in S
      BY DEF LeadingTo
    <2>1. m \in S \cup {e}
      BY <1>3 DEF LeadingTo
    <2> QED
      BY <1>1, <2>1
  <1> QED
    BY <1>3, <1>4 DEF Ends, EndsOf

-----------------------------------------------------------------------------
(* What it takes for a packet to tell the truth. *)

(* A server may refuse; anything else it says has to be true. *)
Truthful(k, p) == p.rcode # "REFUSED" => Tells(k, p)

LEMMA Direct ==
  ASSUME NEW k, k[1] \notin Owners \/ k[2] = "CNAME", NEW p,
         p.rcode = IF Exists(k[1]) THEN "NOERROR" ELSE "NXDOMAIN",
         OfType(p.answers \cup OfType(p.authorities, {"NS"}), {k[2]}) = Matching(k[1], {k[2]})
  PROVE  Truthful(k, p)
  <1>1. Ends(k[1]) = {k[1]} \/ k[2] = "CNAME"
    BY DEF Ends
  <1>2. [rcode |-> IF Exists(k[1]) THEN "NOERROR" ELSE "NXDOMAIN",
         records |-> Matching(k[1], {k[2]})] \in Truths(k)
    BY <1>1 DEF Truths
  <1> QED
    BY <1>2 DEF Truthful, Tells

(* The records of one name and type, as cache_glue, cache_ns_delegation and
   cache_ds_from_authority store them. *)
LEMMA StoredRecords ==
  ASSUME NEW k, k[2] # "CNAME", NEW recs, recs # {}, recs = Matching(k[1], {k[2]})
  PROVE  Truthful(k, GluePacket(recs))
  <1>1. PICK r \in recs : TRUE
    OBVIOUS
  <1>2. r \in AllRecords /\ r.domain = k[1] /\ r.type # "CNAME"
    BY <1>1 DEF Matching
  <1>3. k[1] \notin Owners /\ Exists(k[1])
    BY <1>2, NotAliased, OwnerExists
  <1> DEFINE p == GluePacket(recs)
  <1>4. p.rcode = "NOERROR" /\ p.answers = recs /\ p.authorities = {}
    BY DEF GluePacket
  <1>5. OfType(recs \cup OfType({}, {"NS"}), {k[2]}) = recs
    BY DEF OfType, Matching
  <1> HIDE DEF p
  <1>6. Truthful(k, p)
    BY <1>3, <1>4, <1>5, Direct
  <1> QED
    BY <1>6 DEF p

(* A zone's own word, when it is not an alias to follow. *)
LEMMA OwnWord ==
  ASSUME NEW z, NEW n, NEW t, t # "NS", n \notin Owners \/ t = "CNAME"
  PROVE  Truthful(<<n, t>>, Authoritative(z, n, t))
  <1> DEFINE p == Authoritative(z, n, t)
  <1>1. /\ p.rcode = IF Exists(n) THEN "NOERROR" ELSE "NXDOMAIN"
        /\ p.answers = IF Matching(n, {"CNAME"}) # {} THEN Matching(n, {"CNAME"}) ELSE Matching(n, {t})
    BY DEF Authoritative
  <1>2. p.answers = Matching(n, {t})
    <2>1. CASE t = "CNAME"
      BY <1>1, <2>1
    <2>2. CASE t # "CNAME"
      BY <1>1, <2>2, Aliases
    <2> QED
      BY <2>1, <2>2
  <1> HIDE DEF p
  <1>3. OfType(p.answers \cup OfType(p.authorities, {"NS"}), {t}) = Matching(n, {t})
    BY <1>2 DEF OfType, Matching
  <1>4. Truthful(<<n, t>>, p)
    BY <1>1, <1>3, Direct
  <1> QED
    BY <1>4 DEF p

(* A CNAME followed by what is true of its target is true of its owner. *)
LEMMA Followed ==
  ASSUME NEW n \in Owners, NEW m \in AliasOf(n), NEW t, t \notin {"CNAME", "NS"},
         NEW p, Truthful(<<m, t>>, p), NEW c,
         c.rcode = p.rcode, c.answers = Matching(n, {"CNAME"}) \cup p.answers, c.authorities = {}
  PROVE  Truthful(<<n, t>>, c)
  <1> SUFFICES ASSUME c.rcode # "REFUSED" PROVE Tells(<<n, t>>, c)
    BY DEF Truthful
  <1>1. Tells(<<m, t>>, p)
    BY DEF Truthful
  <1>2. OfType(c.answers \cup OfType(c.authorities, {"NS"}), {t})
          = OfType(p.answers \cup OfType(p.authorities, {"NS"}), {t})
    BY DEF OfType, Matching
  <1>3. Truths(<<m, t>>) \subseteq Truths(<<n, t>>)
    BY EndsFollow DEF Truths
  <1> QED
    BY <1>1, <1>2, <1>3 DEF Tells

-----------------------------------------------------------------------------
(* The cache. *)

CacheTrue(c) == \A k \in DOMAIN c : Truthful(k, c[k])

LEMMA StoreAllTrue ==
  ASSUME NEW c, CacheTrue(c), NEW new, CacheTrue(new)
  PROVE  CacheTrue(StoreAll(c, new))
  BY DEF CacheTrue, StoreAll

LEMMA StoreTrue ==
  ASSUME NEW c, CacheTrue(c), NEW k, NEW p, Truthful(k, p)
  PROVE  CacheTrue(Store(c, k, p))
  <1>1. CacheTrue([x \in {k} |-> p])
    BY DEF CacheTrue
  <1> QED
    BY <1>1, StoreAllTrue DEF Store

(* The records split by name and type, when all of each kind are there. *)
LEMMA SplitTrue ==
  ASSUME NEW recs,
         \A r \in recs :
            r.type # "CNAME" /\ Matching(r.domain, {r.type})
                                  = {x \in recs : <<x.domain, x.type>> = <<r.domain, r.type>>}
  PROVE  CacheTrue(Split(recs))
  <1> SUFFICES ASSUME NEW r \in recs
               PROVE  Truthful(<<r.domain, r.type>>,
                           GluePacket({x \in recs : <<x.domain, x.type>> = <<r.domain, r.type>>}))
    BY DEF CacheTrue, Split
  <1> DEFINE mine == {x \in recs : <<x.domain, x.type>> = <<r.domain, r.type>>}
             k == <<r.domain, r.type>>
  <1>1. r \in mine /\ k[2] # "CNAME" /\ mine = Matching(k[1], {k[2]})
    OBVIOUS
  <1> HIDE DEF mine, k
  <1>2. Truthful(k, GluePacket(mine))
    BY <1>1, StoredRecords
  <1> QED
    BY <1>2 DEF mine, k

(* The parts of a referral. *)
LEMMA ReferralParts ==
  ASSUME NEW z \in Apexes, z # <<>>
  PROVE  LET p == ReferralTo(z)
         IN /\ OfType(p.authorities, {"NS"}) = NsRecords(z) /\ NsRecords(z) # {}
            /\ OfType(p.authorities, {"DS"}) = DsRecords(z)
            /\ referral_zones(p) = {z}
            /\ extract_ns_names(p) = Zones[z].ns
            /\ p.rcode = "NOERROR" /\ p.answers = {} /\ p.authorities # {}
  <1> DEFINE p == ReferralTo(z)
  <1>1. /\ p.rcode = "NOERROR" /\ p.answers = {}
        /\ p.authorities = NsRecords(z) \cup DsRecords(z)
    BY DEF ReferralTo
  <1>2. \A r \in NsRecords(z) : r.type = "NS" /\ r.domain = z
    BY DEF NsRecords
  <1>3. \A r \in DsRecords(z) : r.type = "DS"
    BY DEF DsRecords
  <1>4. Zones[z].ns # {}
    BY TreeConstants
  <1>5. NsRecords(z) # {}
    BY <1>4 DEF NsRecords
  <1>6. /\ OfType(p.authorities, {"NS"}) = NsRecords(z)
        /\ OfType(p.authorities, {"DS"}) = DsRecords(z)
    BY <1>1, <1>2, <1>3 DEF OfType
  <1>7. referral_zones(p) = {z}
    BY <1>2, <1>5, <1>6 DEF referral_zones, DomainsOf
  <1>8. extract_ns_names(p) = Zones[z].ns
    <2>1. \A h \in Zones[z].ns : \E r \in NsRecords(z) : r.data = h
      <3> SUFFICES ASSUME NEW h \in Zones[z].ns PROVE \E r \in NsRecords(z) : r.data = h
        OBVIOUS
      <3> DEFINE r == [domain |-> z, type |-> "NS", data |-> h]
      <3>1. r \in NsRecords(z)
        BY DEF NsRecords
      <3>2. r.data = h
        OBVIOUS
      <3> QED
        BY <3>1, <3>2
    <2>2. \A r \in NsRecords(z) : r.data \in Zones[z].ns
      BY DEF NsRecords
    <2>3. DataOf(NsRecords(z)) = Zones[z].ns
      BY <2>1, <2>2 DEF DataOf
    <2>4. extract_ns_names(p) = DataOf(OfType(p.authorities, {"NS"}))
      BY DEF extract_ns_names, extract_ns_from_records
    <2> QED
      BY <1>6, <2>3, <2>4
  <1> QED
    BY <1>1, <1>5, <1>6, <1>7, <1>8

(* What a referral leaves in the cache is true. *)
LEMMA ReferralStored ==
  ASSUME NEW z \in Apexes, z # <<>>, NEW c, CacheTrue(c), NEW hosts
  PROVE  LET p == ReferralTo(z)
         IN /\ CacheTrue(cache_ns_delegation(c, z, p))
            /\ CacheTrue(cache_ds_from_authority(c, p))
            /\ CacheTrue(cache_glue(c, p, hosts))
  <1> DEFINE p == ReferralTo(z)
  <1>1. CacheTrue(cache_ns_delegation(c, z, p))
    <2>1. cache_ns_delegation(c, z, p) = Store(c, <<z, "NS">>, GluePacket(NsRecords(z)))
      BY ReferralParts DEF cache_ns_delegation
    <2>2. Truthful(<<z, "NS">>, GluePacket(NsRecords(z)))
      <3> DEFINE k == <<z, "NS">>
      <3>1. k[2] # "CNAME" /\ NsRecords(z) # {} /\ NsRecords(z) = Matching(k[1], {k[2]})
        BY ReferralParts, ZoneRecords
      <3> HIDE DEF k
      <3>2. Truthful(k, GluePacket(NsRecords(z)))
        BY <3>1, StoredRecords
      <3> QED
        BY <3>2 DEF k
    <2> QED
      BY <2>1, <2>2, StoreTrue
  <1>2. CacheTrue(cache_ds_from_authority(c, p))
    <2>1. \A r \in DsRecords(z) : r.type = "DS" /\ r.domain = z
      BY DEF DsRecords
    <2>2. CacheTrue(Split(DsRecords(z)))
      <3> DEFINE recs == DsRecords(z)
      <3>1. \A r \in recs : r.type # "CNAME"
               /\ Matching(r.domain, {r.type}) = {x \in recs : <<x.domain, x.type>> = <<r.domain, r.type>>}
        <4> SUFFICES ASSUME NEW r \in recs
                     PROVE  Matching(z, {"DS"}) = {x \in recs : <<x.domain, x.type>> = <<z, "DS">>}
          BY <2>1
        <4> QED
          BY <2>1, ZoneRecords
      <3> HIDE DEF recs
      <3>2. CacheTrue(Split(recs))
        BY <3>1, SplitTrue
      <3> QED
        BY <3>2 DEF recs
    <2> QED
      BY <2>2, ReferralParts, StoreAllTrue DEF cache_ds_from_authority
  <1>3. CacheTrue(cache_glue(c, p, hosts))
    <2> DEFINE recs == {r \in OfType(p.resources, AddrTypes) : r.domain \in hosts}
    <2>1. p.resources = {r \in Records : r.domain \in Zones[z].glue /\ r.type \in {"A", "AAAA"}}
      BY DEF ReferralTo
    <2>2. recs = {r \in Records : r.domain \in Zones[z].glue \cap hosts /\ r.type \in {"A", "AAAA"}}
      BY <2>1 DEF OfType, AddrTypes
    <2>3. ASSUME NEW r \in recs
          PROVE  r.type # "CNAME"
                 /\ Matching(r.domain, {r.type}) = {x \in recs : <<x.domain, x.type>> = <<r.domain, r.type>>}
      <3>1. r.type \in {"A", "AAAA"} /\ r.type # "CNAME" /\ r.domain \in Zones[z].glue \cap hosts
        BY <2>2
      <3>2. Matching(r.domain, {r.type}) = {x \in Records : x.domain = r.domain /\ x.type = r.type}
        BY <3>1, PlainRecords
      <3>3. {x \in Records : x.domain = r.domain /\ x.type = r.type}
              = {x \in recs : <<x.domain, x.type>> = <<r.domain, r.type>>}
        BY <2>2, <3>1
      <3> QED
        BY <3>1, <3>2, <3>3
    <2>4. cache_glue(c, p, hosts) = StoreAll(c, Split(recs))
      BY DEF cache_glue
    <2> HIDE DEF recs, p
    <2>5. CacheTrue(Split(recs))
      BY <2>3, SplitTrue
    <2> QED
      BY <2>4, <2>5, StoreAllTrue
  <1> QED
    BY <1>1, <1>2, <1>3

(* A zone's own word leaves nothing in the cache besides the answer. *)
LEMMA OwnWordStored ==
  ASSUME NEW z, NEW n, NEW t, NEW c, CacheTrue(c), NEW zone, NEW hosts
  PROVE  LET p == Authoritative(z, n, t)
         IN /\ OfType(p.authorities, {"NS"}) = {}
            /\ cache_ns_delegation(c, zone, p) = c
            /\ CacheTrue(cache_glue(c, p, hosts))
  <1> DEFINE p == Authoritative(z, n, t)
  <1>1. p.authorities \subseteq Soa(z) /\ p.resources = {}
    BY DEF Authoritative
  <1> HIDE DEF p
  <1>2. OfType(p.authorities, {"NS"}) = {}
    BY <1>1 DEF OfType, Soa
  <1>3. cache_ns_delegation(c, zone, p) = c
    BY <1>2 DEF cache_ns_delegation
  <1>4. CacheTrue(cache_glue(c, p, hosts))
    <2>1. {r \in OfType(p.resources, AddrTypes) : r.domain \in hosts} = {}
      BY <1>1 DEF OfType
    <2>2. CacheTrue(Split({}))
      BY SplitTrue
    <2> QED
      BY <2>1, <2>2, StoreAllTrue DEF cache_glue
  <1> QED
    BY <1>2, <1>3, <1>4 DEF p

-----------------------------------------------------------------------------
(* The pending calls. *)

CnameAnswer(n) ==
  [rcode |-> "NOERROR", answers |-> Matching(n, {"CNAME"}), authorities |-> {}, resources |-> {}]

(* A call asks neither for NS nor for DS; one that waits for the target of a
   CNAME holds the answer with that CNAME. *)
FrameTrue(f) ==
  /\ {"qname", "qtype", "at", "todo", "zone"} \subseteq DOMAIN f
  /\ f.qname \in Name /\ f.qtype \notin {"NS", "DS"}
  /\ f.todo \in Seq(Name \X AddrTypes)
  /\ f.at = "cname" =>
       f.qname \in Owners /\ f.qtype # "CNAME" /\ f.response = CnameAnswer(f.qname)

(* The call made by one that waits for a CNAME's target asks for that target. *)
Linked(f, child) ==
  f.at = "cname" => child.qname \in AliasOf(f.qname) /\ child.qtype = f.qtype

CallsTrue(s, q) ==
  /\ s \in Seq(Own(s))
  /\ \A i \in 1..Len(s) : FrameTrue(s[i])
  /\ \A i \in 1..Len(s) : i + 1 <= Len(s) => Linked(s[i], s[i + 1])
  /\ s # <<>> => s[1].qname = q[1] /\ s[1].qtype = q[2]

StackTrue == CallsTrue(stack, query)

(* What a call has just returned is true of the question its caller asked. *)
RetTrue ==
  ret \notin {NoPacket, Err} =>
    IF stack = <<>> THEN Truthful(query, ret)
    ELSE top.at = "cname" => \A m \in AliasOf(top.qname) : Truthful(<<m, top.qtype>>, ret)

(* The inductive invariant. *)
TruthInv == StackTrue /\ RetTrue /\ CacheTrue(cache)

LEMMA TopTrue ==
  ASSUME StackTrue, stack # <<>>
  PROVE  Len(stack) \in Nat \ {0} /\ FrameTrue(top)
  <1>1. Len(stack) \in Nat \ {0}
    BY LenProperties, EmptySeq DEF StackTrue, CallsTrue
  <1> QED
    BY <1>1 DEF StackTrue, CallsTrue, top

(* The same question, at another place. *)
Moves(f, g) ==
  /\ DOMAIN g = DOMAIN f
  /\ g.qname = f.qname /\ g.qtype = f.qtype
  /\ g.at # "cname" /\ g.todo \in {f.todo, <<>>}

LEMMA ContinueTrue ==
  ASSUME StackTrue, stack # <<>>, NEW f, Moves(top, f), Continue(f), query' = query
  PROVE  StackTrue' /\ RetTrue'
  <1> DEFINE s == [stack EXCEPT ![Len(stack)] = f]
  <1>1. /\ s \in Seq(Own(s)) /\ Len(s) = Len(stack)
        /\ s[Len(stack)] = f
        /\ \A i \in 1..Len(stack) : i # Len(stack) => s[i] = stack[i]
    BY ReplaceTop DEF StackTrue, CallsTrue
  <1>2. stack' = s /\ ret' = NoPacket
    BY DEF Continue
  <1>3. Len(stack) \in Nat \ {0} /\ FrameTrue(top) /\ top = stack[Len(stack)]
    BY TopTrue DEF top
  <1>4. FrameTrue(f)
    <2>1. f.todo \in Seq(Name \X AddrTypes)
      BY <1>3, EmptySeq DEF FrameTrue, Moves
    <2> QED
      BY <1>3, <2>1 DEF FrameTrue, Moves
  <1> HIDE DEF s
  <1>5. \A i \in 1..Len(s) : FrameTrue(s[i])
    BY <1>1, <1>4 DEF StackTrue, CallsTrue
  <1>6. ASSUME NEW i \in 1..Len(s), i + 1 <= Len(s)
        PROVE  Linked(s[i], s[i + 1])
    <2>1. i \in 1..Len(stack) /\ i + 1 \in 1..Len(stack) /\ i # Len(stack)
      BY <1>1, <1>3, <1>6
    <2>2. Linked(stack[i], stack[i + 1]) /\ s[i] = stack[i]
      BY <1>1, <1>6, <2>1 DEF StackTrue, CallsTrue
    <2>3. s[i + 1].qname = stack[i + 1].qname /\ s[i + 1].qtype = stack[i + 1].qtype
      BY <1>1, <1>3, <2>1 DEF Moves
    <2> QED
      BY <2>2, <2>3 DEF Linked
  <1>7. s[1].qname = query[1] /\ s[1].qtype = query[2]
    <2>1. s[1].qname = stack[1].qname /\ s[1].qtype = stack[1].qtype
      BY <1>1, <1>3 DEF Moves
    <2> QED
      BY <2>1 DEF StackTrue, CallsTrue
  <1>8. CallsTrue(s, query)
    BY <1>1, <1>5, <1>6, <1>7 DEF CallsTrue
  <1>9. StackTrue'
    BY <1>2, <1>8 DEF StackTrue
  <1> QED
    BY <1>2, <1>9 DEF RetTrue

LEMMA RecurseTrue ==
  ASSUME StackTrue, stack # <<>>, NEW f, FrameTrue(f), f.qname = top.qname, f.qtype = top.qtype,
         NEW child, FrameTrue(child), Linked(f, child), Recurse(f, child), query' = query
  PROVE  StackTrue' /\ RetTrue'
  <1> DEFINE s == [stack EXCEPT ![Len(stack)] = f]
             n == Len(stack)
  <1>1. /\ s \in Seq(Own(s)) /\ Len(s) = n
        /\ s[n] = f
        /\ \A i \in 1..n : i # n => s[i] = stack[i]
    BY ReplaceTop DEF StackTrue, CallsTrue
  <1>2. stack' = Append(s, child) /\ ret' = NoPacket
    BY DEF Recurse
  <1>3. n \in Nat \ {0} /\ top = stack[n]
    BY TopTrue DEF top
  <1>4. /\ \A i \in 1..n : FrameTrue(stack[i])
        /\ \A i \in 1..n : i + 1 <= n => Linked(stack[i], stack[i + 1])
        /\ stack[1].qname = query[1] /\ stack[1].qtype = query[2]
    BY DEF StackTrue, CallsTrue
  <1> HIDE DEF s, n
  <1> DEFINE t == Append(s, child)
  <1>5. /\ t \in Seq(Own(t)) /\ Len(t) = n + 1
        /\ t[n + 1] = child
        /\ \A i \in 1..n : t[i] = s[i]
    BY <1>1, PushChild
  <1>6. stack' = t
    BY <1>2
  <1> HIDE DEF t
  <1>7. ASSUME NEW i \in 1..Len(t)
        PROVE  FrameTrue(t[i])
    BY <1>1, <1>3, <1>4, <1>5
  <1>8. ASSUME NEW i \in 1..Len(t), i + 1 <= Len(t)
        PROVE  Linked(t[i], t[i + 1])
    <2>1. CASE i = n
      BY <1>1, <1>3, <1>5, <2>1
    <2>2. CASE i # n
      <3>1. i \in 1..n /\ i + 1 \in 1..n
        BY <1>3, <1>5, <1>8, <2>2
      <3>2. t[i] = stack[i] /\ t[i + 1] = s[i + 1]
        BY <1>1, <1>5, <2>2, <3>1
      <3>3. s[i + 1].qname = stack[i + 1].qname /\ s[i + 1].qtype = stack[i + 1].qtype
        BY <1>1, <1>3, <3>1
      <3>4. Linked(stack[i], stack[i + 1])
        BY <1>4, <3>1
      <3> QED
        BY <3>2, <3>3, <3>4 DEF Linked
    <2> QED
      BY <2>1, <2>2
  <1>9. t[1].qname = query[1] /\ t[1].qtype = query[2]
    <2>1. 1 \in 1..n /\ t[1] = s[1]
      BY <1>3, <1>5
    <2>2. s[1].qname = stack[1].qname /\ s[1].qtype = stack[1].qtype
      BY <1>1, <1>3, <2>1
    <2> QED
      BY <1>4, <2>1, <2>2
  <1>10. CallsTrue(t, query)
    BY <1>5, <1>7, <1>8, <1>9 DEF CallsTrue
  <1>11. StackTrue'
    BY <1>6, <1>10 DEF StackTrue
  <1> QED
    BY <1>2, <1>11 DEF RetTrue

LEMMA ReturnTrue ==
  ASSUME StackTrue, stack # <<>>, NEW p, Return(p), query' = query,
         p \notin {NoPacket, Err} => Truthful(<<top.qname, top.qtype>>, p)
  PROVE  StackTrue' /\ RetTrue'
  <1> DEFINE t == SubSeq(stack, 1, Len(stack) - 1)
             n == Len(stack)
  <1>1. t \in Seq(Own(t)) /\ Len(t) = n - 1 /\ \A i \in 1..Len(t) : t[i] = stack[i]
    BY PopTop DEF StackTrue, CallsTrue
  <1>2. n \in Nat \ {0} /\ top = stack[n]
    BY TopTrue DEF top
  <1>3. stack' = t /\ ret' = p
    BY DEF Return
  <1>4. /\ \A i \in 1..n : FrameTrue(stack[i])
        /\ \A i \in 1..n : i + 1 <= n => Linked(stack[i], stack[i + 1])
        /\ stack[1].qname = query[1] /\ stack[1].qtype = query[2]
    BY DEF StackTrue, CallsTrue
  <1> HIDE DEF t, n
  <1>5. \A i \in 1..Len(t) : FrameTrue(t[i])
    BY <1>1, <1>2, <1>4
  <1>6. ASSUME NEW i \in 1..Len(t), i + 1 <= Len(t)
        PROVE  Linked(t[i], t[i + 1])
    <2>1. i \in 1..n /\ i + 1 <= n /\ i + 1 \in 1..Len(t)
      BY <1>1, <1>2, <1>6
    <2> QED
      BY <1>1, <1>4, <2>1
  <1>7. t # <<>> => 1 \in 1..Len(t) /\ n - 1 \in 1..n /\ Len(t) \in 1..Len(t)
    <2>1. t # <<>> => Len(t) # 0
      BY <1>1, EmptySeq
    <2> QED
      BY <1>1, <1>2, <2>1
  <1>8. t # <<>> => t[1].qname = query[1] /\ t[1].qtype = query[2]
    BY <1>1, <1>4, <1>7
  <1>9. StackTrue'
    <2>1. CallsTrue(t, query)
      BY <1>1, <1>5, <1>6, <1>8 DEF CallsTrue
    <2> QED
      BY <1>3, <2>1 DEF StackTrue
  <1>10. RetTrue'
    <2> SUFFICES ASSUME p \notin {NoPacket, Err}
                 PROVE  IF t = <<>> THEN Truthful(query, p)
                        ELSE t[Len(t)].at = "cname" =>
                               \A m \in AliasOf(t[Len(t)].qname) : Truthful(<<m, t[Len(t)].qtype>>, p)
      BY <1>3 DEF RetTrue, top
    <2>1. Truthful(<<top.qname, top.qtype>>, p)
      OBVIOUS
    <2>2. CASE t = <<>>
      <3>1. n = 1
        BY <1>1, <1>2, <2>2
      <3>2. top.qname = query[1] /\ top.qtype = query[2]
        BY <1>2, <1>4, <3>1
      <3> QED
        BY <2>1, <2>2, <3>2 DEF Truthful, Tells, Truths
    <2>3. CASE t # <<>>
      <3>1. t[Len(t)] = stack[n - 1] /\ n - 1 + 1 = n
        BY <1>1, <1>2, <1>7, <2>3
      <3>2. Linked(stack[n - 1], top)
        BY <1>2, <1>4, <1>7, <2>3
      <3> SUFFICES ASSUME stack[n - 1].at = "cname", NEW m \in AliasOf(stack[n - 1].qname)
                   PROVE  Truthful(<<m, stack[n - 1].qtype>>, p)
        BY <2>3, <3>1
      <3>3. m = top.qname /\ top.qtype = stack[n - 1].qtype
        BY <3>2, Aliases DEF Linked
      <3> QED
        BY <2>1, <3>3
    <2> QED
      BY <2>2, <2>3
  <1> QED
    BY <1>9, <1>10

LEMMA NewFrame ==
  ASSUME NEW n \in Name, NEW t, t \notin {"NS", "DS"}, NEW r, NEW c
  PROVE  FrameTrue(Frame(n, t, r, c)) /\ Frame(n, t, r, c).qname = n /\ Frame(n, t, r, c).qtype = t
  <1> DEFINE f == Frame(n, t, r, c)
  <1>1. /\ {"qname", "qtype", "at", "todo", "zone"} \subseteq DOMAIN f
        /\ f.qname = n /\ f.qtype = t /\ f.at = "enter" /\ f.todo = <<>>
    BY DEF Frame
  <1> HIDE DEF f
  <1>2. f.todo \in Seq(Name \X AddrTypes)
    BY <1>1, EmptySeq
  <1>3. FrameTrue(f)
    BY <1>1, <1>2 DEF FrameTrue
  <1> QED
    BY <1>1, <1>3 DEF f

LEMMA MovesOn ==
  ASSUME NEW f, FrameTrue(f), NEW zone, NEW order, NEW n
  PROVE  Moves(f, NextServers(f, zone, order)) /\ Moves(f, SkipServers(f, n))
  <1>1. Moves(f, NextServers(f, zone, order))
    <2> DEFINE g == NextServers(f, zone, order)
    <2>1. DOMAIN g = DOMAIN f
      BY DEF NextServers
    <2>2. g.qname = f.qname /\ g.qtype = f.qtype /\ g.at = "loop" /\ g.todo = <<>>
      BY DEF NextServers, FrameTrue
    <2> QED
      BY <2>1, <2>2 DEF Moves
  <1>2. Moves(f, SkipServers(f, n))
    <2> DEFINE g == SkipServers(f, n)
    <2>1. DOMAIN g = DOMAIN f
      BY DEF SkipServers
    <2>2. g.qname = f.qname /\ g.qtype = f.qtype /\ g.at = "loop" /\ g.todo = f.todo
      BY DEF SkipServers, FrameTrue
    <2> QED
      BY <2>1, <2>2 DEF Moves
  <1> QED
    BY <1>1, <1>2

(* The name servers without glue are asked for by address type. *)
LEMMA NsQueriesOK ==
  ASSUME NEW z \in Apexes, NEW names \in Orders(Zones[z].ns)
  PROVE  NsQueries(names) \in Seq(Name \X AddrTypes)
  <1> DEFINE S == Zones[z].ns
             n == Cardinality(S)
  <1>1. S \subseteq Name /\ IsFiniteSet(S)
    BY TreeConstants
  <1>2. n \in Nat
    <2> HIDE DEF S
    <2> QED BY <1>1, FS_CardinalityType
  <1>3. names \in [1..n -> S]
    BY DEF Orders
  <1> HIDE DEF S, n
  <1>4. names \in Seq(S) /\ Len(names) = n
    BY <1>2, <1>3, SeqDef, LenProperties
  <1>5. ASSUME NEW i \in 1..(2 * n)
        PROVE  <<names[(i + 1) \div 2], IF i % 2 = 1 THEN "A" ELSE "AAAA">> \in Name \X AddrTypes
    <2>1. (i + 1) \div 2 \in 1..n
      BY <1>2
    <2>2. names[(i + 1) \div 2] \in Name
      BY <1>1, <1>3, <2>1
    <2> QED
      BY <2>2 DEF AddrTypes
  <1>6. 2 * n \in Nat
    BY <1>2
  <1>7. NsQueries(names) \in [1..(2 * n) -> Name \X AddrTypes]
    BY <1>4, <1>5 DEF NsQueries
  <1> QED
    BY <1>6, <1>7, SeqDef

LEMMA ResolveNsTrue ==
  ASSUME StackTrue, stack # <<>>, NEW f, FrameTrue(f), f.qname = top.qname, f.qtype = top.qtype,
         NEW todo \in Seq(Name \X AddrTypes), ResolveNs(f, todo), query' = query
  PROVE  StackTrue' /\ RetTrue'
  <1>1. CASE todo = <<>>
    BY <1>1, ReturnTrue DEF ResolveNs
  <1>2. CASE todo # <<>>
    <2> DEFINE g == [f EXCEPT !.at = "glueless", !.todo = Tail(todo), !.ns_addrs = <<>>,
                              !.ns_idx = 1, !.legs = {}, !.hedge = FALSE]
               child == Frame(Head(todo)[1], Head(todo)[2], f.referral_depth + 1, f.cname_depth)
    <2>1. Recurse(g, child)
      BY <1>2 DEF ResolveNs
    <2>2. Tail(todo) \in Seq(Name \X AddrTypes) /\ Head(todo) \in Name \X AddrTypes
      BY <1>2, HeadTailProperties
    <2>3. FrameTrue(child)
      BY <2>2, NewFrame DEF AddrTypes
    <2>4. DOMAIN g = DOMAIN f
      OBVIOUS
    <2>5. g.qname = f.qname /\ g.qtype = f.qtype /\ g.at = "glueless" /\ g.todo = Tail(todo)
      BY DEF FrameTrue
    <2> HIDE DEF g, child
    <2>6. FrameTrue(g) /\ Linked(g, child)
      BY <2>2, <2>4, <2>5 DEF FrameTrue, Linked
    <2> QED
      BY <2>1, <2>3, <2>5, <2>6, RecurseTrue
  <1> QED
    BY <1>1, <1>2

-----------------------------------------------------------------------------
(* The hypotheses: servers answer honestly; the questions from outside are for
   neither NS nor DS (the loop asks for NS by itself, and the DS of a zone is
   asked of its own servers once they are cached); the primed names are
   single labels. *)
HonestServers == \A s, n, t : Answers(s, n, t) \subseteq Honest(s, n, t)
PlainQuestions == \A q \in Queries : q[1] \in Name /\ q[2] \notin {"NS", "DS"}
PrimedAreTlds == \A tld \in PrimeTlds : tld \in Name /\ Len(tld) = 1

(* What is asked for a frame: its own question or the NS of a TLD. *)
LEMMA Asked ==
  ASSUME NEW f, FrameTrue(f)
  PROVE  LET q == minimize_query(f)
         IN /\ q[1] \in Name /\ q[2] # "DS"
            /\ q # <<f.qname, f.qtype>> => q[2] = "NS"
  <1>1. CASE f.zone = <<>> /\ Len(f.qname) > 1
    <2> DEFINE l == Len(f.qname)
    <2>1. f.qname \in Seq(STRING) /\ l \in Nat /\ l > 1
      BY <1>1 DEF FrameTrue, Name
    <2>2. \A i \in l..l : f.qname[i] \in STRING
      BY <2>1, LenProperties
    <2> HIDE DEF l
    <2>3. SubSeq(f.qname, l, l) \in Name
      BY <2>1, <2>2, SubSeqProperties DEF Name
    <2> QED
      BY <1>1, <2>3 DEF minimize_query, l
  <1>2. CASE ~(f.zone = <<>> /\ Len(f.qname) > 1)
    BY <1>2 DEF minimize_query, FrameTrue
  <1> QED
    BY <1>1, <1>2

(* The answer to a minimised query: only delegations and glue are kept. *)
LEMMA TldReferralTrue ==
  ASSUME TruthInv, stack # <<>>, query' = query, NEW n, NEW p, Said(p, n, "NS"), TldReferral(p)
  PROVE  TruthInv'
  <1>1. PICK zone, hosts, order :
          /\ zone \in IF referral_zones(p) = {} THEN {top.zone} ELSE referral_zones(p)
          /\ cache' = cache_glue(cache_ns_delegation(cache, zone, p), p, hosts)
          /\ \/ Continue([SkipServers(top, 1) EXCEPT !.zone = zone])
             \/ Continue(NextServers(top, zone, order))
    BY DEF TldReferral
  <1>2. CacheTrue(cache')
    <2>1. p # Refused
      BY DEF TldReferral, Minimised, Refused
    <2>2. CASE \E z \in Apexes : z # <<>> /\ p = ReferralTo(z)
      <3>1. PICK z \in Apexes : z # <<>> /\ p = ReferralTo(z)
        BY <2>2
      <3>2. zone = z
        BY <1>1, <3>1, ReferralParts
      <3>3. CacheTrue(cache_ns_delegation(cache, z, p))
        BY <3>1, ReferralStored DEF TruthInv
      <3> QED
        BY <1>1, <3>1, <3>2, <3>3, ReferralStored
    <2>3. CASE \E z : p = Authoritative(z, n, "NS")
      <3>1. PICK z : p = Authoritative(z, n, "NS")
        BY <2>3
      <3>2. cache_ns_delegation(cache, zone, p) = cache
        BY <3>1, OwnWordStored DEF TruthInv
      <3> QED
        BY <1>1, <3>1, <3>2, OwnWordStored DEF TruthInv
    <2> QED
      BY <2>1, <2>2, <2>3 DEF Said
  <1>3. FrameTrue(top) /\ StackTrue
    BY TopTrue DEF TruthInv
  <1> DEFINE g == [SkipServers(top, 1) EXCEPT !.zone = zone]
             h == SkipServers(top, 1)
  <1>4. Moves(top, h) /\ Moves(top, NextServers(top, zone, order))
    BY <1>3, MovesOn
  <1>5. Moves(top, g)
    <2>1. DOMAIN g = DOMAIN h /\ {"qname", "qtype", "at", "todo", "zone"} \subseteq DOMAIN h
      BY <1>3, <1>4 DEF FrameTrue, Moves
    <2>2. g.qname = h.qname /\ g.qtype = h.qtype /\ g.at = h.at /\ g.todo = h.todo
      BY <2>1
    <2> QED
      BY <1>4, <2>1, <2>2 DEF Moves
  <1>6. Continue(g) \/ Continue(NextServers(top, zone, order))
    BY <1>1
  <1> HIDE DEF g, h
  <1>7. StackTrue' /\ RetTrue'
    BY <1>3, <1>4, <1>5, <1>6, ContinueTrue
  <1> QED
    BY <1>2, <1>7 DEF TruthInv

(* A referral: the next servers, or a name server to look up. *)
LEMMA ReferralTrue ==
  ASSUME TruthInv, stack # <<>>, top.at # "cname", query' = query,
         NEW z \in Apexes, z # <<>>, Referral(ReferralTo(z))
  PROVE  TruthInv'
  <1> DEFINE p == ReferralTo(z)
             Todo(names) == IF top.referral_depth < MAX_REFERRAL_DEPTH THEN NsQueries(names) ELSE <<>>
  <1>1. PICK zone \in referral_zones(p) :
          /\ cache' = cache_glue(cache_ds_from_authority(
                        cache_ns_delegation(cache, zone, p), p), p, extract_ns_names(p))
          /\ \/ \E order : Continue(NextServers(top, zone, order))
             \/ \E names \in Orders(extract_ns_names(p)) :
                  ResolveNs([top EXCEPT !.zone = zone], Todo(names))
    BY DEF Referral
  <1>2. zone = z /\ extract_ns_names(p) = Zones[z].ns
    BY <1>1, ReferralParts
  <1>3. CacheTrue(cache')
    <2>1. CacheTrue(cache_ns_delegation(cache, z, p))
      BY ReferralStored DEF TruthInv
    <2>2. CacheTrue(cache_ds_from_authority(cache_ns_delegation(cache, z, p), p))
      BY <2>1, ReferralStored
    <2> QED
      BY <1>1, <1>2, <2>2, ReferralStored
  <1>4. FrameTrue(top) /\ StackTrue
    BY TopTrue DEF TruthInv
  <1>5. CASE \E order : Continue(NextServers(top, zone, order))
    <2>1. PICK order : Continue(NextServers(top, zone, order))
      BY <1>5
    <2>2. Moves(top, NextServers(top, zone, order))
      BY <1>4, MovesOn
    <2> QED
      BY <1>3, <1>4, <2>1, <2>2, ContinueTrue DEF TruthInv
  <1>6. CASE \E names \in Orders(extract_ns_names(p)) :
               ResolveNs([top EXCEPT !.zone = zone], Todo(names))
    <2>1. PICK names \in Orders(Zones[z].ns) : ResolveNs([top EXCEPT !.zone = zone], Todo(names))
      BY <1>2, <1>6
    <2> DEFINE g == [top EXCEPT !.zone = zone]
               todo == Todo(names)
    <2>2. todo \in Seq(Name \X AddrTypes)
      BY NsQueriesOK, EmptySeq
    <2>3. DOMAIN g = DOMAIN top
      OBVIOUS
    <2>4. g.qname = top.qname /\ g.qtype = top.qtype /\ g.at = top.at /\ g.todo = top.todo
      BY <1>4 DEF FrameTrue
    <2>5. ResolveNs(g, todo)
      BY <2>1
    <2> HIDE DEF g, todo
    <2>6. FrameTrue(g)
      BY <1>4, <2>3, <2>4 DEF FrameTrue
    <2>7. StackTrue' /\ RetTrue'
      BY <1>4, <2>2, <2>4, <2>5, <2>6, ResolveNsTrue
    <2> QED
      BY <1>3, <2>7 DEF TruthInv
  <1> QED
    BY <1>1, <1>5, <1>6

(* A zone's own word is returned as it is, unless it is an alias to follow. *)
LEMMA OwnWordTrue ==
  ASSUME TruthInv, stack # <<>>, query' = query,
         NEW z, NEW p, p = Authoritative(z, top.qname, top.qtype),
         FinalAnswer(p) \/ ChaseCname(p) \/ Negative(p) \/ NoData(p)
  PROVE  TruthInv'
  <1> DEFINE n == top.qname
             t == top.qtype
  <1>1. FrameTrue(top) /\ StackTrue /\ CacheTrue(cache)
    BY TopTrue DEF TruthInv
  <1>2. n \in Name /\ t # "NS" /\ t # "DS"
    BY <1>1 DEF FrameTrue
  <1>3. /\ p.rcode = IF Exists(n) THEN "NOERROR" ELSE "NXDOMAIN"
        /\ p.answers = IF n \in Owners THEN Matching(n, {"CNAME"}) ELSE Matching(n, {t})
        /\ p.answers # {} => p.authorities = {}
        /\ p.resources = {}
    BY Aliases DEF Authoritative
  <1>4. n \notin Owners \/ t = "CNAME" => Truthful(<<n, t>>, p)
    BY <1>2, OwnWord
  <1>5. n \in Owners => p.answers = Matching(n, {"CNAME"}) /\ p.answers # {}
    BY <1>3, Aliases
  <1>6. CASE FinalAnswer(p)
    <2>1. n \notin Owners \/ t = "CNAME"
      <3> SUFFICES ASSUME n \in Owners, t # "CNAME" PROVE FALSE
        OBVIOUS
      <3>1. OfType(p.answers, {t}) = {}
        BY <1>5 DEF OfType, Matching
      <3>2. extract_cname_targets(p, n) # {}
        <4>1. PICK r \in p.answers : TRUE
          BY <1>5
        <4>2. r.domain = n /\ r.type = "CNAME"
          BY <1>5 DEF Matching
        <4>3. r.data \in extract_cname_targets(p, n)
          BY <4>2 DEF extract_cname_targets, DataOf, OfType
        <4> QED
          BY <4>3
      <3> QED
        BY <1>6, <3>1, <3>2 DEF FinalAnswer, HasTarget
    <2>2. CacheTrue(cache')
      BY <1>1, <1>4, <1>6, <2>1, StoreTrue DEF FinalAnswer
    <2>3. StackTrue' /\ RetTrue'
      BY <1>1, <1>4, <1>6, <2>1, ReturnTrue DEF FinalAnswer
    <2> QED
      BY <2>2, <2>3 DEF TruthInv
  <1>7. CASE Negative(p) \/ NoData(p)
    <2>1. n \notin Owners
      BY <1>5, <1>7 DEF Negative, NoData
    <2>2. cache' = cache \/ cache' = Store(cache, <<n, t>>, p)
      BY <1>7 DEF Negative, NoData
    <2>3. CacheTrue(cache')
      BY <1>1, <1>4, <2>1, <2>2, StoreTrue
    <2>4. StackTrue' /\ RetTrue'
      BY <1>1, <1>4, <1>7, <2>1, ReturnTrue DEF Negative, NoData
    <2> QED
      BY <2>3, <2>4 DEF TruthInv
  <1>8. CASE ChaseCname(p)
    <2>1. PICK target \in extract_cname_targets(p, n) :
            IF top.cname_depth >= MAX_CNAME_DEPTH THEN Return(Err)
            ELSE Recurse([Frame(n, t, top.referral_depth, top.cname_depth)
                            EXCEPT !.at = "cname", !.response = p],
                         Frame(target, t, 0, top.cname_depth + 1))
      BY <1>8 DEF ChaseCname
    <2>2. CacheTrue(cache')
      BY <1>1, <1>8 DEF ChaseCname
    <2>3. n \in Owners /\ t # "CNAME" /\ p.answers # {}
      <3>1. p.answers # {} /\ ~HasTarget(top, p)
        BY <1>8 DEF ChaseCname
      <3>2. n \notin Owners => OfType(p.answers, {t}) = p.answers
        BY <1>3 DEF OfType, Matching
      <3> QED
        BY <3>1, <3>2 DEF HasTarget
    <2>4. target \in AliasOf(n) /\ target \in Name
      <3>1. target \in AliasOf(n)
        BY <1>5, <2>1, <2>3 DEF extract_cname_targets, DataOf, OfType, Matching, AliasOf
      <3> QED
        BY <3>1, Aliases
    <2>5. p = CnameAnswer(n)
      <3>1. Exists(n)
        <4>1. PICK r \in p.answers : TRUE
          BY <2>3
        <4>2. r \in AllRecords /\ r.domain = n
          BY <1>5, <2>3, <4>1 DEF Matching
        <4> QED
          BY <4>2, OwnerExists
      <3>2. /\ p.rcode = "NOERROR" /\ p.answers = Matching(n, {"CNAME"})
            /\ p.authorities = {} /\ p.resources = {}
        BY <1>3, <2>3, <3>1
      <3>3. p = [rcode |-> p.rcode, answers |-> p.answers,
                 authorities |-> p.authorities, resources |-> p.resources]
        BY DEF Authoritative
      <3> QED
        BY <3>2, <3>3 DEF CnameAnswer
    <2>6. CASE top.cname_depth >= MAX_CNAME_DEPTH
      <3>1. Return(Err)
        BY <2>1, <2>6
      <3>2. StackTrue' /\ RetTrue'
        BY <1>1, <3>1, ReturnTrue
      <3> QED
        BY <2>2, <3>2 DEF TruthInv
    <2>7. CASE ~(top.cname_depth >= MAX_CNAME_DEPTH)
      <3> DEFINE f == Frame(n, t, top.referral_depth, top.cname_depth)
                 g == [f EXCEPT !.at = "cname", !.response = p]
                 child == Frame(target, t, 0, top.cname_depth + 1)
      <3>1. Recurse(g, child)
        BY <2>1, <2>7
      <3>2. FrameTrue(child) /\ child.qname = target /\ child.qtype = t
        BY <1>2, <2>4, NewFrame
      <3>3. FrameTrue(f) /\ f.qname = n /\ f.qtype = t
        BY <1>2, NewFrame
      <3>4. "response" \in DOMAIN f
        BY DEF Frame
      <3> HIDE DEF f, child
      <3>5. DOMAIN g = DOMAIN f
        OBVIOUS
      <3>6. g.qname = n /\ g.qtype = t /\ g.todo = f.todo /\ g.at = "cname" /\ g.response = p
        BY <3>3, <3>4 DEF FrameTrue
      <3> HIDE DEF g
      <3>7. FrameTrue(g)
        BY <2>3, <2>5, <3>3, <3>5, <3>6 DEF FrameTrue
      <3>8. Linked(g, child)
        BY <2>4, <3>2, <3>6 DEF Linked
      <3>9. StackTrue' /\ RetTrue'
        BY <1>1, <3>1, <3>2, <3>6, <3>7, <3>8, RecurseTrue
      <3> QED
        BY <2>2, <3>9 DEF TruthInv
    <2> QED
      BY <2>6, <2>7
  <1> QED
    BY <1>6, <1>7, <1>8

(* Every way the loop can take an honest response. *)
LEMMA ResponseTrue ==
  ASSUME HonestServers, TruthInv, NEW i, Response(i)
  PROVE  TruthInv'
  <1> DEFINE q == minimize_query(top)
             n == top.qname
             t == top.qtype
  <1>1. stack # <<>> /\ FrameTrue(top) /\ top.at = "asking" /\ query' = query
    BY TopTrue DEF Response, Running, TruthInv
  <1>2. PICK p \in Answers(top.ns_addrs[i], q[1], q[2]) :
          \/ TldReferral(p) \/ FinalAnswer(p) \/ ChaseCname(p)
          \/ Negative(p) \/ NoData(p) \/ Referral(p)
    BY DEF Response
  <1>3. q[1] \in Name /\ q[2] # "DS" /\ (q # <<n, t>> => q[2] = "NS")
    BY <1>1, Asked
  <1>4. Said(p, q[1], q[2])
    BY <1>2, <1>3, HonestAnswers DEF HonestServers
  <1>5. Minimised(top, p) <=> q # <<n, t>> /\ (p.authorities # {} \/ p.answers # {})
    BY DEF Minimised
  <1> HIDE DEF q
  <1>6. CASE TldReferral(p)
    <2>1. Said(p, q[1], "NS")
      BY <1>3, <1>4, <1>5, <1>6 DEF TldReferral
    <2> QED
      BY <1>1, <1>6, <2>1, TldReferralTrue
  <1>7. CASE ~TldReferral(p)
    <2>1. ~Minimised(top, p)
      BY <1>2, <1>7 DEF FinalAnswer, ChaseCname, Negative, NoData, Referral
    <2>2. CASE p = Refused
      <3>1. p.answers = {} /\ p.rcode = "REFUSED"
        BY <2>2 DEF Refused
      <3>2. Negative(p)
        BY <1>2, <1>7, <3>1 DEF FinalAnswer, ChaseCname, NoData, Referral
      <3>3. Truthful(<<n, t>>, p)
        BY <3>1 DEF Truthful
      <3>4. CacheTrue(cache')
        BY <3>2, <3>3, StoreTrue DEF Negative, TruthInv
      <3>5. StackTrue' /\ RetTrue'
        BY <1>1, <3>2, <3>3, ReturnTrue DEF Negative, TruthInv
      <3> QED
        BY <3>4, <3>5 DEF TruthInv
    <2>3. ASSUME NEW z \in Apexes, z # <<>>, p = ReferralTo(z)
          PROVE  TruthInv'
      <3>1. p.answers = {} /\ p.rcode = "NOERROR" /\ extract_ns_names(p) # {}
        <4>1. Zones[z].ns # {}
          BY <2>3, TreeConstants
        <4> QED
          BY <2>3, <4>1, ReferralParts
      <3>2. Referral(p)
        BY <1>2, <1>7, <3>1 DEF FinalAnswer, ChaseCname, Negative, NoData
      <3> QED
        BY <1>1, <2>3, <3>2, ReferralTrue
    <2>4. ASSUME NEW z, p = Authoritative(z, q[1], q[2])
          PROVE  TruthInv'
      <3>1. p.authorities # {} \/ p.answers # {}
        BY <2>4 DEF Authoritative, Soa
      <3>2. q = <<n, t>>
        BY <1>5, <2>1, <3>1
      <3>3. p = Authoritative(z, top.qname, top.qtype)
        BY <2>4, <3>2
      <3>4. extract_ns_names(p) = {} /\ referral_zones(p) = {}
        <4>1. OfType(p.authorities, {"NS"}) = {}
          BY <2>4, OwnWordStored DEF TruthInv
        <4> QED
          BY <4>1 DEF extract_ns_names, extract_ns_from_records, referral_zones, DataOf, DomainsOf
      <3>5. FinalAnswer(p) \/ ChaseCname(p) \/ Negative(p) \/ NoData(p)
        BY <1>2, <1>7, <3>4 DEF Referral
      <3> QED
        BY <1>1, <3>3, <3>5, OwnWordTrue
    <2> QED
      BY <1>4, <2>2, <2>3, <2>4 DEF Said
  <1> QED
    BY <1>6, <1>7

(* The target's answer, with the CNAME before it. *)
LEMMA ResumeCnameTrue ==
  ASSUME TruthInv, ResumeCname
  PROVE  TruthInv'
  <1> DEFINE n == top.qname
             t == top.qtype
             combined == [top.response EXCEPT !.answers = @ \cup ret.answers, !.rcode = ret.rcode]
  <1>1. stack # <<>> /\ ret # NoPacket /\ top.at = "cname" /\ FrameTrue(top) /\ StackTrue /\ query' = query
    BY TopTrue DEF ResumeCname, Resuming, TruthInv
  <1>2. CASE ret = Err
    <2>1. Return(Err) /\ cache' = cache
      BY <1>2 DEF ResumeCname
    <2>2. StackTrue' /\ RetTrue'
      BY <1>1, <2>1, ReturnTrue
    <2> QED
      BY <2>1, <2>2 DEF TruthInv
  <1>3. CASE ret # Err
    <2>1. Return(combined) /\ cache' = Store(cache, <<n, t>>, combined)
      BY <1>3 DEF ResumeCname
    <2>2. n \in Owners /\ t \notin {"CNAME", "NS"} /\ top.response = CnameAnswer(n)
      BY <1>1 DEF FrameTrue
    <2>3. /\ combined.rcode = ret.rcode /\ combined.authorities = {}
          /\ combined.answers = Matching(n, {"CNAME"}) \cup ret.answers
      BY <2>2 DEF CnameAnswer
    <2> HIDE DEF combined
    <2>4. AliasOf(n) # {}
      BY <2>2, Aliases DEF AliasOf
    <2>5. PICK m \in AliasOf(n) : Truthful(<<m, t>>, ret)
      BY <1>1, <1>3, <2>4 DEF TruthInv, RetTrue
    <2>6. Truthful(<<n, t>>, combined)
      BY <2>2, <2>3, <2>5, Followed
    <2>7. CacheTrue(cache')
      BY <2>1, <2>6, StoreTrue DEF TruthInv
    <2>8. StackTrue' /\ RetTrue'
      BY <1>1, <2>1, <2>6, ReturnTrue
    <2> QED
      BY <2>7, <2>8 DEF TruthInv
  <1> QED
    BY <1>2, <1>3

(* A primed TLD: the referral is for that very name. *)
LEMMA PrimeTldTrue ==
  ASSUME HonestServers, PrimedAreTlds, TruthInv,
         NEW tld \in PrimeTlds, NEW server, PrimeTld(tld, server)
  PROVE  TruthInv'
  <1>1. PICK p \in Answers(server, tld, "NS") :
          /\ extract_ns_names(p) # {}
          /\ cache' = cache_ds_from_authority(
                        cache_glue(Store(cache, <<tld, "NS">>, p), p, extract_ns_names(p)), p)
    BY DEF PrimeTld
  <1>2. tld \in Name /\ Len(tld) = 1
    BY DEF PrimedAreTlds
  <1>3. Said(p, tld, "NS")
    BY <1>1, <1>2, HonestAnswers DEF HonestServers
  <1>4. p # Refused
    BY <1>1 DEF Refused, extract_ns_names, extract_ns_from_records, DataOf, OfType
  <1>5. ASSUME NEW z, p = Authoritative(z, tld, "NS") PROVE FALSE
    <2>1. OfType(p.authorities, {"NS"}) = {}
      BY <1>5, OwnWordStored DEF TruthInv
    <2> QED
      BY <1>1, <2>1 DEF extract_ns_names, extract_ns_from_records, DataOf
  <1>6. PICK z \in Apexes : z # <<>> /\ Under(tld, z) /\ p = ReferralTo(z)
    BY <1>3, <1>4, <1>5 DEF Said
  <1>7. z = tld
    <2>1. z \in Name /\ Len(z) \in Nat
      BY TreeConstants DEF Name
    <2>2. Len(z) # 0
      BY <1>6, <2>1, EmptySeq DEF Name
    <2>3. Len(z) = 1 /\ Len(tld) - Len(z) + 1 = 1
      BY <1>2, <1>6, <2>1, <2>2 DEF Under
    <2>4. SubSeq(tld, 1, Len(tld)) = z
      BY <1>6, <2>3 DEF Under
    <2> QED
      BY <1>2, <2>4, SubSeqFull DEF Name
  <1>8. Truthful(<<tld, "NS">>, p)
    <2> DEFINE k == <<tld, "NS">>
    <2>1. /\ OfType(p.authorities, {"NS"}) = NsRecords(z) /\ NsRecords(z) # {}
          /\ p.rcode = "NOERROR" /\ p.answers = {}
      BY <1>6, ReferralParts
    <2>2. NsRecords(z) = Matching(tld, {"NS"})
      BY <1>6, <1>7, ZoneRecords
    <2>3. PICK r \in NsRecords(z) : TRUE
      BY <2>1
    <2>4. r \in AllRecords /\ r.domain = tld /\ r.type # "CNAME"
      BY <2>2, <2>3 DEF Matching
    <2>5. tld \notin Owners /\ Exists(tld)
      BY <2>4, NotAliased, OwnerExists
    <2>6. OfType(p.answers \cup OfType(p.authorities, {"NS"}), {"NS"}) = Matching(tld, {"NS"})
      BY <2>1, <2>2 DEF OfType
    <2>7. k[1] = tld /\ k[2] = "NS"
      OBVIOUS
    <2> HIDE DEF k
    <2>8. Truthful(k, p)
      BY <2>1, <2>5, <2>6, <2>7, Direct
    <2> QED
      BY <2>8 DEF k
  <1>9. CacheTrue(cache')
    <2>1. CacheTrue(Store(cache, <<tld, "NS">>, p))
      BY <1>8, StoreTrue DEF TruthInv
    <2>2. CacheTrue(cache_glue(Store(cache, <<tld, "NS">>, p), p, extract_ns_names(p)))
      BY <1>6, <2>1, ReferralStored
    <2> QED
      BY <1>1, <1>6, <2>2, ReferralStored
  <1>10. stack' = stack /\ ret' = ret /\ query' = query
    BY DEF PrimeTld
  <1> QED
    BY <1>9, <1>10 DEF TruthInv, StackTrue, RetTrue, top

(* A step that leaves the calls and their result alone. *)
LEMMA OnlyTheCache ==
  ASSUME TruthInv, UNCHANGED <<stack, ret, query>>, CacheTrue(cache')
  PROVE  TruthInv'
  BY DEF TruthInv, StackTrue, RetTrue, top

LEMMA TruthStep ==
  ASSUME HonestServers, PlainQuestions, PrimedAreTlds, TruthInv, [Next]_vars
  PROVE  TruthInv'
  <1>1. CASE \E q \in Queries : Call(q)
    <2>1. PICK q \in Queries : Call(q)
      BY <1>1
    <2> DEFINE f == Frame(q[1], q[2], 0, 0)
               s == <<f>>
    <2>2. stack' = s /\ query' = q /\ ret' = NoPacket /\ cache' = cache
      BY <2>1 DEF Call
    <2>3. FrameTrue(f) /\ f.qname = q[1] /\ f.qtype = q[2]
      BY NewFrame DEF PlainQuestions
    <2> HIDE DEF f
    <2>4. s \in Seq({f}) /\ Len(s) = 1 /\ s[1] = f
      OBVIOUS
    <2>5. s \in Seq(Own(s))
      BY <2>4, OwnSeq
    <2> HIDE DEF s
    <2>6. \A i \in 1..Len(s) : i = 1
      BY <2>4
    <2>7. CallsTrue(s, q)
      BY <2>3, <2>4, <2>5, <2>6 DEF CallsTrue
    <2> QED
      BY <2>2, <2>7 DEF TruthInv, StackTrue, RetTrue
  <1>2. CASE Enter
    <2>1. stack # <<>> /\ FrameTrue(top) /\ StackTrue /\ CacheTrue(cache)
      BY <1>2, TopTrue DEF Enter, Running, TruthInv
    <2>2. cache' = cache /\ query' = query
      BY <1>2 DEF Enter
    <2> DEFINE k == <<top.qname, top.qtype>>
               g(zone, order) == [top EXCEPT !.at = "loop", !.zone = zone, !.ns_addrs = order]
    <2>3. \/ Return(Err)
          \/ k \in DOMAIN cache /\ Return(cache[k])
          \/ \E zone, order : Continue(g(zone, order))
      BY <1>2 DEF Enter, Lookup
    <2>4. CASE Return(Err)
      BY <2>1, <2>2, <2>4, ReturnTrue DEF TruthInv
    <2>5. CASE k \in DOMAIN cache /\ Return(cache[k])
      <3>1. Truthful(k, cache[k])
        BY <2>1, <2>5 DEF CacheTrue
      <3> QED
        BY <2>1, <2>2, <2>5, <3>1, ReturnTrue DEF TruthInv
    <2>6. ASSUME NEW zone, NEW order, Continue(g(zone, order)) PROVE TruthInv'
      <3>1. Moves(top, g(zone, order))
        <4>1. DOMAIN g(zone, order) = DOMAIN top
          OBVIOUS
        <4>2. /\ g(zone, order).qname = top.qname /\ g(zone, order).qtype = top.qtype
              /\ g(zone, order).at = "loop" /\ g(zone, order).todo = top.todo
          BY <2>1 DEF FrameTrue
        <4> QED
          BY <4>1, <4>2 DEF Moves
      <3> HIDE DEF g
      <3> QED
        BY <2>1, <2>2, <2>6, <3>1, ContinueTrue DEF TruthInv
    <2> QED
      BY <2>3, <2>4, <2>5, <2>6
  <1>3. CASE \E known \in BOOLEAN : Ask(known)
    <2>1. stack # <<>> /\ FrameTrue(top) /\ StackTrue /\ cache' = cache /\ query' = query
      BY <1>3, TopTrue DEF Ask, Running, TruthInv
    <2> DEFINE g(legs, hedge) == [top EXCEPT !.at = "asking", !.legs = legs, !.hedge = hedge]
    <2>2. Return(Err) \/ \E legs, hedge : Continue(g(legs, hedge))
      BY <1>3 DEF Ask
    <2>3. CASE Return(Err)
      BY <2>1, <2>3, ReturnTrue DEF TruthInv
    <2>4. ASSUME NEW legs, NEW hedge, Continue(g(legs, hedge)) PROVE TruthInv'
      <3>1. Moves(top, g(legs, hedge))
        <4>1. DOMAIN g(legs, hedge) = DOMAIN top
          OBVIOUS
        <4>2. /\ g(legs, hedge).qname = top.qname /\ g(legs, hedge).qtype = top.qtype
              /\ g(legs, hedge).at = "asking" /\ g(legs, hedge).todo = top.todo
          BY <2>1 DEF FrameTrue
        <4> QED
          BY <4>1, <4>2 DEF Moves
      <3> HIDE DEF g
      <3> QED
        BY <2>1, <2>4, <3>1, ContinueTrue DEF TruthInv
    <2> QED
      BY <2>2, <2>3, <2>4
  <1>4. CASE Hedge
    <2>1. stack # <<>> /\ FrameTrue(top) /\ StackTrue /\ cache' = cache /\ query' = query /\ top.at = "asking"
      BY <1>4, TopTrue DEF Hedge, Running, TruthInv
    <2>2. PICK legs : Continue([top EXCEPT !.legs = legs, !.hedge = FALSE])
      BY <1>4 DEF Hedge
    <2> DEFINE g == [top EXCEPT !.legs = legs, !.hedge = FALSE]
    <2>3. DOMAIN g = DOMAIN top
      OBVIOUS
    <2>4. g.qname = top.qname /\ g.qtype = top.qtype /\ g.at = top.at /\ g.todo = top.todo
      BY <2>1 DEF FrameTrue
    <2>5. Moves(top, g) /\ Continue(g)
      BY <2>1, <2>2, <2>3, <2>4 DEF Moves
    <2> HIDE DEF g
    <2> QED
      BY <2>1, <2>5, ContinueTrue DEF TruthInv
  <1>5. CASE \E i \in top.legs : RequestFails(i)
    <2>1. stack # <<>> /\ FrameTrue(top) /\ StackTrue /\ cache' = cache /\ query' = query /\ top.at = "asking"
      BY <1>5, TopTrue DEF RequestFails, Running, TruthInv
    <2>2. PICK n, legs : Continue(SkipServers(top, n)) \/ Continue([top EXCEPT !.legs = legs])
      BY <1>5 DEF RequestFails
    <2> DEFINE g == [top EXCEPT !.legs = legs]
    <2>3. DOMAIN g = DOMAIN top
      OBVIOUS
    <2>4. g.qname = top.qname /\ g.qtype = top.qtype /\ g.at = top.at /\ g.todo = top.todo
      BY <2>1 DEF FrameTrue
    <2>5. Moves(top, g) /\ Moves(top, SkipServers(top, n))
      BY <2>1, <2>3, <2>4, MovesOn DEF Moves
    <2>6. Continue(SkipServers(top, n)) \/ Continue(g)
      BY <2>2
    <2> HIDE DEF g
    <2> QED
      BY <2>1, <2>5, <2>6, ContinueTrue DEF TruthInv
  <1>6. CASE \E i \in top.legs : Response(i)
    BY <1>6, ResponseTrue
  <1>7. CASE ResumeCname
    BY <1>7, ResumeCnameTrue
  <1>8. CASE ResumeGlueless
    <2>1. stack # <<>> /\ FrameTrue(top) /\ StackTrue /\ cache' = cache /\ query' = query
      BY <1>8, TopTrue DEF ResumeGlueless, Resuming, TruthInv
    <2>2. PICK order : ResolveNs(top, top.todo) \/ Continue(NextServers(top, top.zone, order))
      BY <1>8 DEF ResumeGlueless
    <2>3. CASE ResolveNs(top, top.todo)
      <3>1. top.todo \in Seq(Name \X AddrTypes)
        BY <2>1 DEF FrameTrue
      <3> QED
        BY <2>1, <2>3, <3>1, ResolveNsTrue DEF TruthInv
    <2>4. CASE Continue(NextServers(top, top.zone, order))
      BY <2>1, <2>4, MovesOn, ContinueTrue DEF TruthInv
    <2> QED
      BY <2>2, <2>3, <2>4
  <1>9. CASE \E stores \in BOOLEAN : Finish(stores)
    <2>1. /\ stack = <<>> /\ ret # NoPacket /\ stack' = stack /\ query' = query /\ ret' = NoPacket
          /\ cache' = cache \/ (ret # Err /\ cache' = Store(cache, query, ret))
      BY <1>9 DEF Finish
    <2>2. CacheTrue(cache')
      BY <2>1, StoreTrue DEF TruthInv, RetTrue
    <2> QED
      BY <2>1, <2>2 DEF TruthInv, StackTrue, RetTrue
  <1>10. CASE \E tld \in PrimeTlds, server \in RootHints : PrimeTld(tld, server)
    BY <1>10, PrimeTldTrue
  <1>11. CASE \E k \in DOMAIN cache : Expire(k)
    <2>1. PICK k : cache' = [x \in DOMAIN cache \ {k} |-> cache[x]] /\ UNCHANGED <<stack, ret, query>>
      BY <1>11 DEF Expire
    <2>2. CacheTrue(cache')
      BY <2>1 DEF TruthInv, CacheTrue
    <2> QED
      BY <2>1, <2>2, OnlyTheCache
  <1>12. CASE UNCHANGED vars
    BY <1>12, OnlyTheCache DEF vars, TruthInv
  <1> QED
    BY <1>1, <1>2, <1>3, <1>4, <1>5, <1>6, <1>7, <1>8, <1>9, <1>10, <1>11, <1>12 DEF Next, Step

(* Over any tree of zones with honest servers, whatever requests fail, cache
   entries expire and TLDs are primed meanwhile: an answer of
   resolve_iterative is the tree's answer, CNAMEs followed, and everything the
   walks leave in the cache is true (src/src/recursive.rs,
   resolve_iterative). *)
THEOREM RecursionTellsTheTruth ==
  ASSUME HonestServers, PlainQuestions, PrimedAreTlds
  PROVE  Spec => []TellsTheTruth
  <1>1. Init => TruthInv
    <2> SUFFICES ASSUME Init PROVE TruthInv
      OBVIOUS
    <2>1. stack = <<>> /\ Len(stack) = 0 /\ ret = NoPacket /\ DOMAIN cache = {}
      BY DEF Init
    <2>2. stack \in Seq(Own(stack))
      BY <2>1
    <2> QED
      BY <2>1, <2>2 DEF TruthInv, StackTrue, CallsTrue, RetTrue, CacheTrue
  <1>2. TruthInv /\ [Next]_vars => TruthInv'
    BY TruthStep
  <1>3. TruthInv => TellsTheTruth
    BY DEF TruthInv, RetTrue, CacheTrue, Truthful, TellsTheTruth, AnswersAreTrue, CacheIsTrue, Returned
  <1> QED
    BY <1>1, <1>2, <1>3, PTL DEF Spec
=============================================================================
