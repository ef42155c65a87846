---------------------------- MODULE MCAnswering -----------------------------
(***************************************************************************)
(* TLC instance of how a query is answered: the connections it comes in on  *)
(* (Listeners), the pipeline it goes through (Pipeline) and the messages on *)
(* the wire (Codec).  The initial state chooses which of them runs; the     *)
(* others rest in an initial state.                                         *)
(***************************************************************************)
EXTENDS Pipeline, Listeners

CONSTANTS
  BUF_SIZE, MAX_LABEL, MAX_JUMPS, Pool, QName, Shapes, Ttls, Rcodes, MaxEdits

VARIABLES
  part,
  msg, wire, packet, stage, cut, meta, stuck, edits

messageVars == <<msg, wire, packet, stage, cut, meta, stuck, edits>>
answeringVars == <<part, pipeVars, messageVars, listenVars>>

-----------------------------------------------------------------------------
(* Aliases into a loop, a zone, the proxy's TLD, a special-use name and the
   blocklist; private addresses from upstream; two clients. *)
Ads == <<"ads", "com">>
N1 == <<"a", "com">>
N2 == <<"b", "com">>
N3 == <<"c", "com">>
Zone == <<"z", "lan">>
Outcome(p, r, a) == [path |-> p, resp |-> Response(r, a)]
Truncated(outcome) == [outcome EXCEPT !.resp.tc = TRUE]
MCRemote(n, t) ==
  {Outcome("UpstreamError", "SERVFAIL", <<>>)} \cup
  CASE n = N1 /\ t = "A" ->
         {Outcome("Upstream", "NOERROR", <<Rec(N1, "CNAME", N2), Rec(N1, "RRSIG", "s")>>),
          Outcome("Recursive", "NOERROR", <<Rec(N1, "A", "10.1"), Rec(N1, "RRSIG", "s")>>)}
    [] n = N1 /\ t = "HTTPS" ->
         {Outcome("Upstream", "NOERROR", <<Rec(N1, "HTTPS", {"10.1", "fc00", "pub"})>>),
          Truncated(Outcome("Upstream", "NOERROR", <<Rec(N1, "HTTPS", {"10.1"})>>))}
    [] n = N2 /\ t = "A" ->
         {Outcome("Upstream", "NOERROR", <<Rec(N2, "CNAME", x)>>) :
            x \in {N1, N3, Zone, <<"p", "local">>, <<"nas", "numa">>, Ads}}
    [] n = N3 -> {Outcome("Cached", "NOERROR", <<>>),
                  Outcome("Cached", "NOERROR", <<Rec(N3, "A", "10.1")>>)}
    [] OTHER -> {}
Question(n, t, d) == [name |-> n, type |-> t, do |-> d, edns |-> d]
MCQuestions == {Question(N1, "A", TRUE), Question(N2, "A", FALSE), Question(N1, "HTTPS", FALSE)}
MCClients == [c \in {"c1", "lo"} |-> [loopback |-> c = "lo"]]
MCOverrides == {[name |-> N3, family |-> 0, target |-> N2],
                [name |-> N2, family |-> 4, target |-> "10.7"]}
MCZones == << [name |-> Zone, wildcard |-> FALSE, type |-> "CNAME", value |-> N3],
              [name |-> <<"w", "lan">>, wildcard |-> TRUE, type |-> "A", value |-> "10.9"] >>
MCNames == [services |-> {<<"nas">>}, peers |-> [n \in {<<"tv">>} |-> <<"10.5", "::ffff:10.5">>]]
MCPolicy == <<Rule({"c1"}, {}, {N3}, {}, {TRUE})>>
MCBlocked == {Ads}

-----------------------------------------------------------------------------
(* A record of every layout the reader knows, with names that need escapes,
   bytes above 127 and service parameters with private hints; messages of one
   and two records in each section, compressed or not. *)
MCQName == <<<<46, 65>>, <<97>>>>
BelowQName == <<<<7>>>> \o MCQName
OtherName == <<<<98>>>>
MCPool ==
  << [owner |-> MCQName, type |-> 1, data |-> <<<<10>>>>],
     [owner |-> BelowQName, type |-> 6, data |-> <<MCQName, BelowQName, <<1>>,<<2>>,<<3>>,<<4>>,<<5>>>>],
     [owner |-> MCQName, type |-> 46, data |-> <<<<1>>,<<8>>,<<2>>,<<300>>,<<9>>,<<1>>,<<77>>, MCQName, <<200, 0, 5>>>>],
     [owner |-> OtherName, type |-> 50, data |-> <<<<1>>,<<0>>,<<5>>, <<200>>, <<65, 0>>, <<0, 1, 64>>>>],
     [owner |-> MCQName, type |-> 65, data |-> << <<1, 1, 97, 0, 1, 1, 2, 4, 2, 10, 9, 6, 4, 0, 10, 1, 9>> >>],
     [owner |-> MCQName, type |-> 15, data |-> <<<<5>>, OtherName>>],
     [owner |-> MCQName, type |-> 28, data |-> <<<<1>>,<<2>>,<<3>>,<<4>>>>],
     [owner |-> OtherName, type |-> 47, data |-> <<MCQName, <<0, 1, 64>>>>],
     [owner |-> <<>>, type |-> 48, data |-> <<<<257>>, <<3>>, <<8>>, <<3, 192, 0>>>>],
     [owner |-> BelowQName, type |-> 16, data |-> <<<<2, 104, 105>>>>],
     [owner |-> MCQName, type |-> 5, data |-> <<BelowQName>>],
     [owner |-> MCQName, type |-> 65, data |-> << <<1, 0, 6, 2, 0, 10>> >>] >>
PrivateHint(a) == a[Len(a)] = 10
Following(i) == (i % Len(MCPool)) + 1
MCShapes == {<<<<i>>, <<>>, <<>>>> : i \in DOMAIN MCPool}
            \cup {<<<<i, Following(i)>>, <<>>, <<>>>> : i \in DOMAIN MCPool}
            \cup {<<<<>>, <<i>>, <<Following(i)>>>> : i \in DOMAIN MCPool}
            \cup {<<<<>>, <<>>, <<>>>>}

Message == INSTANCE Codec WITH Private <- PrivateHint

-----------------------------------------------------------------------------
AnsweringInit ==
  /\ part \in {"pipeline", "message", "listen"}
  /\ Init /\ Message!Init
  /\ part # "message" => /\ msg.answers = <<>> /\ msg.authorities = <<>>
                         /\ ~msg.compress /\ ~msg.edns /\ msg.ttl = 0
  /\ ListenInit
  /\ part # "listen" => ~pp /\ allow = {}

AnsweringNext ==
  /\ UNCHANGED part
  /\ \/ part = "pipeline" /\ Next /\ UNCHANGED <<messageVars, listenVars>>
     \/ part = "message" /\ Message!Next /\ UNCHANGED <<pipeVars, listenVars>>
     \/ part = "listen" /\ ListenNext /\ UNCHANGED <<pipeVars, messageVars>>

AnsweringSpec == AnsweringInit /\ [][AnsweringNext]_answeringVars

-----------------------------------------------------------------------------
(* However a response was compressed, patched, edited and written, it reads as
   the message the server sent with these edits and nothing else; rebind
   protection leaves no private hint and every other parameter; and what was
   parsed can be written again unless it is too long, which the buffer reports
   (src/src/packet.rs, src/src/record.rs, src/src/buffer.rs, src/src/svcb.rs). *)
MessagesKeepMeaning ==
  part = "message" =>
    Message!ReadsAsMeant /\ Message!HintsArePublic /\ Message!WritesUnlessTooLong

(* The scanner that patches cached responses finds exactly the records that
   the parser finds, so that every TTL and no EDNS flag is overwritten, and
   rejects a response that was cut anywhere, although the parser reads the
   missing part as zeros (src/src/wire.rs, scan_ttl_offsets). *)
ScanIsExact == part = "message" => Message!ScanMatchesParse /\ Message!CutIsRejected
=============================================================================
