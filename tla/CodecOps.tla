----------------------------- MODULE CodecOps -----------------------------
(***************************************************************************)
(* The DNS message codec: src/src/buffer.rs, src/src/header.rs,            *)
(* src/src/question.rs, src/src/packet.rs, src/src/record.rs, the scanner  *)
(* of src/src/wire.rs and the SVCB editor of src/src/svcb.rs.              *)
(*                                                                         *)
(* A message is a sequence of cells.  Octets of names, lengths and opaque  *)
(* data are one cell each; an integer field of two or four octets and an   *)
(* IPv4 address are one cell too, so RDLENGTH counts cells.  Positions     *)
(* start at 0.  A name in a packet is text, with the escapes of RFC 1035;  *)
(* a record is [name, type, ttl, data], data a sequence of fields and a    *)
(* field a sequence of numbers.                                            *)
(***************************************************************************)
EXTENDS Integers, SequencesExt

CONSTANTS
  BUF_SIZE,   \* cells of a BytePacketBuffer
  MAX_LABEL,  \* longest label write_qname accepts
  MAX_JUMPS,  \* compression pointers read_qname follows
  Private(_)  \* the addresses that rebind protection hides

Fail == [ok |-> FALSE]

(* The ? operator: what comes next needs what was read before. *)
Then(r, Op(_)) == IF r.ok THEN Op(r) ELSE Fail
Dot == 46
Backslash == 92

(* BytePacketBuffer is zero-initialised: cells behind the message read as 0. *)
Get(w, p) == IF p < Len(w) THEN w[p + 1] ELSE 0
get_range(w, p, n) == [i \in 1..n |-> Get(w, p + i - 1)]

(* How read_qname prints one octet of a label. *)
escape(b) ==
  LET c == IF b \in 65..90 THEN b + 32 ELSE b
  IN IF c \in {Dot, Backslash} THEN <<Backslash, c>>
     ELSE IF c \in 33..126 THEN <<c>>
     ELSE <<Backslash, 48 + c \div 100, 48 + ((c \div 10) % 10), 48 + (c % 10)>>

Text(label) == FlattenSeq([i \in 1..Len(label) |-> escape(label[i])])
Join(label, rest) == IF rest = <<>> THEN Text(label) ELSE Text(label) \o <<Dot>> \o rest

read_qname(w, start) ==
  LET at[p \in Nat, jumps \in Nat] ==
        IF jumps > MAX_JUMPS \/ p >= BUF_SIZE THEN Fail
        ELSE IF Get(w, p) >= 192
        THEN IF p + 1 >= BUF_SIZE THEN Fail
             ELSE Then(at[Get(w, p + 1), jumps + 1], LAMBDA r : [r EXCEPT !.end = p + 2])
        ELSE IF Get(w, p) >= 64 \/ p + 1 + Get(w, p) > BUF_SIZE THEN Fail
        ELSE IF Get(w, p) = 0 THEN [ok |-> TRUE, name |-> <<>>, end |-> p + 1]
        ELSE Then(at[p + 1 + Get(w, p), jumps],
                  LAMBDA r : [r EXCEPT !.name = Join(get_range(w, p + 1, Get(w, p)), @)])
  IN at[start, 0]

-----------------------------------------------------------------------------
(* write_qname reads the text back into labels. *)
Digit(c) == c \in 48..57

Unescape(s, c) ==
  CASE s.mode = "bad" -> s
    [] s.mode = "text" /\ c = Backslash -> [s EXCEPT !.mode = "escape"]
    [] s.mode = "text" /\ c = Dot ->
         [s EXCEPT !.labels = IF s.label = <<>> THEN @ ELSE Append(@, s.label), !.label = <<>>]
    [] s.mode = "text" -> [s EXCEPT !.label = Append(@, c)]
    [] s.mode = "escape" /\ Digit(c) -> [s EXCEPT !.mode = "digit2", !.n = c - 48]
    [] s.mode = "escape" -> [s EXCEPT !.mode = "text", !.label = Append(@, c)]
    [] s.mode = "digit2" /\ Digit(c) -> [s EXCEPT !.mode = "digit3", !.n = 10 * @ + c - 48]
    [] s.mode = "digit3" /\ Digit(c) /\ 10 * s.n + c - 48 <= 255 ->
         [s EXCEPT !.mode = "text", !.label = Append(@, 10 * s.n + c - 48)]
    [] OTHER -> [s EXCEPT !.mode = "bad"]

LabelsOf(s) ==
  IF s.mode # "text" THEN Fail
  ELSE [ok |-> TRUE, labels |-> IF s.label = <<>> THEN s.labels ELSE Append(s.labels, s.label)]

Labels(text) ==
  LabelsOf(FoldLeft(Unescape, [mode |-> "text", labels |-> <<>>, label |-> <<>>, n |-> 0], text))

(* A buffer being written: what does not fit fails and sets the overflow flag. *)
NewBuffer == [ok |-> TRUE, overflow |-> FALSE, cells |-> <<>>]

write_bytes(b, cells) ==
  IF ~b.ok THEN b
  ELSE IF Len(b.cells) + Len(cells) > BUF_SIZE THEN [b EXCEPT !.ok = FALSE, !.overflow = TRUE]
  ELSE [b EXCEPT !.cells = @ \o cells]

WriteLabel(b, label) ==
  IF Len(label) > MAX_LABEL /\ b.ok /\ Len(b.cells) + MAX_LABEL + 2 <= BUF_SIZE
  THEN [b EXCEPT !.ok = FALSE]
  ELSE write_bytes(b, <<Len(label)>> \o label)

WriteLabels(b, l) ==
  IF ~l.ok THEN [b EXCEPT !.ok = FALSE]
  ELSE write_bytes(FoldLeft(WriteLabel, b, l.labels), <<0>>)

write_qname(b, text) == WriteLabels(b, Labels(text))

-----------------------------------------------------------------------------
(* The fields of a record's data in the order they are read and written:
   "u" a number, "name", "counted" a length and as many octets, "rest" what
   RDLENGTH leaves. *)
AddressLayout(t) == [i \in 1..(IF t = 1 THEN 1 ELSE 4) |-> "u"]

NameLayout(t) == IF t = 15 THEN <<"u", "name">> ELSE <<"name">>

BugSoaOpaque == <<"rest">>
SoaLayout == <<"name", "name", "u", "u", "u", "u", "u">>

DnssecLayout(t) ==
  CASE t \in {43, 48} -> <<"u", "u", "u", "rest">>
    [] t = 46 -> <<"u", "u", "u", "u", "u", "u", "u", "name", "rest">>
    [] t = 47 -> <<"name", "rest">>
    [] t = 50 -> <<"u", "u", "u", "counted", "counted", "rest">>

Layout(t) ==
  CASE t \in {1, 28} -> AddressLayout(t)
    [] t \in {2, 5, 12, 15} -> NameLayout(t)
    [] t = 6 -> SoaLayout
    [] t \in {43, 46, 47, 48, 50} -> DnssecLayout(t)
    [] OTHER -> <<"rest">>

(* One field at s.pos, for data that RDLENGTH says ends at `end`. *)
ReadField(w, end, s, kind) ==
  LET More(n, v) == [s EXCEPT !.pos = n, !.data = Append(@, v)]
      n == Get(w, s.pos)
  IN CASE ~s.ok -> s
       [] kind = "u" -> IF s.pos >= BUF_SIZE THEN Fail ELSE More(s.pos + 1, <<n>>)
       [] kind = "name" -> Then(read_qname(w, s.pos), LAMBDA q : More(q.end, q.name))
       [] kind = "counted" -> IF s.pos + 1 + n > BUF_SIZE THEN Fail
                              ELSE More(s.pos + 1 + n, get_range(w, s.pos + 1, n))
       [] kind = "rest" -> IF end < s.pos \/ end > BUF_SIZE THEN Fail
                           ELSE More(end, get_range(w, s.pos, end - s.pos))

(* DnsRecord::read: only the fields that need it look at RDLENGTH. *)
ReadData(w, q) ==
  LET start == q.end + 4
  IN IF start > BUF_SIZE THEN Fail
     ELSE Then(FoldLeft(LAMBDA s, k : ReadField(w, start + Get(w, start - 1), s, k),
                        [ok |-> TRUE, pos |-> start, data |-> <<>>], Layout(Get(w, q.end))),
               LAMBDA d : [ok |-> TRUE, pos |-> d.pos,
                           rec |-> [name |-> q.name, type |-> Get(w, q.end), ttl |-> Get(w, q.end + 2),
                                    data |-> d.data]])

read_record(w, p) == Then(read_qname(w, p), LAMBDA q : ReadData(w, q))

(* The arms of DnsRecord::write that compute RDLENGTH; the others write the
   data first and fill it in. *)
ComputedLength(t, data) ==
  IF t = 50 THEN 3 + 1 + Len(data[4]) + 1 + Len(data[5]) + Len(data[6])
  ELSE IF t \in {43, 48} THEN 3 + Len(data[4]) ELSE Len(FlattenSeq(data))

write_header(b, r) == write_bytes(write_qname(b, r.name), <<r.type, 1, r.ttl>>)

WriteField(b, kind, v) ==
  CASE kind = "name" -> write_qname(b, v)
    [] kind = "counted" -> write_bytes(b, <<Len(v)>> \o v)
    [] OTHER -> write_bytes(b, v)

(* full: the buffer with the data behind the room for RDLENGTH at `at`. *)
SetLength(full, at, r) ==
  IF ~full.ok THEN full
  ELSE [full EXCEPT !.cells[at] = IF Contains(Layout(r.type), "name") THEN Len(full.cells) - at
                                  ELSE ComputedLength(r.type, r.data)]

WriteData(b, r) ==
  SetLength(FoldLeft(LAMBDA o, i : WriteField(o, Layout(r.type)[i], r.data[i]), b, [i \in DOMAIN r.data |-> i]),
            Len(b.cells), r)

write_record(b, r) == WriteData(write_bytes(write_header(b, r), <<0>>), r)

-----------------------------------------------------------------------------
(* DnsHeader: id, flags with the response code in the low bits, four counts.
   Codes above 5 are read as NOERROR. *)
ReadRcode(flags) == IF flags % 16 > 5 THEN 0 ELSE flags % 16

ReadQuestion(w, s) ==
  Then(read_qname(w, s.pos), LAMBDA q :
    IF q.end + 2 > BUF_SIZE THEN Fail
    ELSE [s EXCEPT !.pos = q.end + 2, !.p.questions = Append(@, [name |-> q.name, type |-> Get(w, q.end)])])

(* In the additional section an OPT record becomes the packet's edns. *)
IsOpt(w, p) == Get(w, p) = 0 /\ Get(w, p + 1) = 41

ReadOpt(w, s) ==
  LET n == Get(w, s.pos + 4) IN
  IF s.pos + 5 + n > BUF_SIZE THEN Fail
  ELSE [s EXCEPT !.pos = s.pos + 5 + n,
                 !.p.edns = <<[size |-> Get(w, s.pos + 2), flags |-> Get(w, s.pos + 3),
                               options |-> get_range(w, s.pos + 5, n)]>>]

ReadItem(w, s, section) ==
  CASE ~s.ok \/ s.pos >= BUF_SIZE -> Fail
    [] section = "questions" -> ReadQuestion(w, s)
    [] section = "resources" /\ IsOpt(w, s.pos) -> ReadOpt(w, s)
    [] OTHER -> Then(read_record(w, s.pos),
                     LAMBDA r : [s EXCEPT !.pos = r.pos, !.p[section] = Append(@, r.rec)])

(* As many items of each section as the header counts. *)
Items(w) ==
  FlattenSeq([k \in 1..4 |-> [i \in 1..Get(w, k + 1) |-> <<"questions", "answers", "authorities", "resources">>[k]]])

from_buffer(w) ==
  Then(FoldLeft(LAMBDA s, section : ReadItem(w, s, section),
                [ok |-> TRUE, pos |-> 6,
                 p |-> [id |-> Get(w, 0), flags |-> Get(w, 1) \div 16, rcode |-> ReadRcode(Get(w, 1)),
                        questions |-> <<>>, answers |-> <<>>, authorities |-> <<>>, resources |-> <<>>,
                        edns |-> <<>>]], Items(w)),
       LAMBDA s : [ok |-> TRUE, packet |-> s.p])

WriteOpt(b, e) == write_bytes(b, <<0, 41, e.size, e.flags, Len(e.options)>> \o e.options)

write_packet(p) ==
  LET counts == <<Len(p.questions), Len(p.answers), Len(p.authorities), Len(p.resources) + Len(p.edns)>>
      h == write_bytes(NewBuffer, <<p.id, 16 * p.flags + p.rcode>> \o counts)
      qs == FoldLeft(LAMBDA b, q : write_bytes(write_qname(b, q.name), <<q.type, 1>>), h, p.questions)
  IN FoldLeft(WriteOpt, FoldLeft(write_record, qs, p.answers \o p.authorities \o p.resources), p.edns)

-----------------------------------------------------------------------------
(* src/src/wire.rs: TTL positions straight from the wire, which ends at its
   length. *)
skip_wire_name(w, start) ==
  LET at[p \in Nat] == IF p >= Len(w) THEN Fail
                       ELSE IF w[p + 1] >= 192 THEN [ok |-> TRUE, end |-> p + 2]
                       ELSE IF w[p + 1] = 0 THEN [ok |-> TRUE, end |-> p + 1]
                       ELSE at[p + 1 + w[p + 1]]
  IN at[start]

(* A record whose name ends at q.end. *)
Scanned(w, s, q, section, counts) ==
  [s EXCEPT !.pos = q.end + 4 + Get(w, q.end + 3),
            !.ttls = IF counts THEN Append(@, q.end + 2) ELSE @,
            !.answers = IF counts /\ section = "answers" THEN @ + 1 ELSE @]

InWire(w, q) == q.end + 4 <= Len(w) /\ q.end + 4 + Get(w, q.end + 3) <= Len(w)

BugTrustsCounts(w, s, section) ==
  Then(skip_wire_name(w, s.pos), LAMBDA q : Scanned(w, s, q, section, ~IsOpt(w, s.pos)))

ScanRecord(w, s, section) ==
  Then(skip_wire_name(w, s.pos), LAMBDA q :
    IF InWire(w, q) THEN Scanned(w, s, q, section, ~IsOpt(w, s.pos)) ELSE Fail)

ScanQuestion(w, s) ==
  Then(skip_wire_name(w, s.pos), LAMBDA q :
    IF q.end + 2 > Len(w) THEN Fail ELSE [s EXCEPT !.pos = q.end + 2])

ScanItem(w, s, section) ==
  IF ~s.ok THEN Fail
  ELSE IF section = "questions" THEN ScanQuestion(w, s) ELSE ScanRecord(w, s, section)

scan_ttl_offsets(w) ==
  IF Len(w) < 6 THEN Fail
  ELSE FoldLeft(LAMBDA s, section : ScanItem(w, s, section),
                [ok |-> TRUE, pos |-> 6, ttls |-> <<>>, answers |-> 0], Items(w))

patch_ttls(w, offsets, ttl) == [i \in DOMAIN w |-> IF Contains(offsets, i - 1) THEN ttl ELSE w[i]]
patch_id(w, id) == [w EXCEPT ![1] = id]

-----------------------------------------------------------------------------
(* src/src/svcb.rs on the opaque data of an HTTPS record: priority, target,
   then parameters of key, length and value.  An IPv6 address is two cells. *)
skip_target_name(d) ==
  LET at[p \in Nat] == IF p >= Len(d) \/ d[p + 1] >= 64 THEN Fail
                       ELSE IF d[p + 1] = 0 THEN [ok |-> TRUE, end |-> p + 1]
                       ELSE IF p + 1 + d[p + 1] > Len(d) THEN Fail ELSE at[p + 1 + d[p + 1]]
  IN at[1]

read_params(d, start) ==
  LET at[p \in Nat] ==
        IF p >= Len(d) THEN [ok |-> TRUE, params |-> <<>>]
        ELSE IF p + 2 > Len(d) \/ p + 2 + Get(d, p + 1) > Len(d) THEN Fail
        ELSE Then(at[p + 2 + d[p + 2]], LAMBDA r :
               [r EXCEPT !.params = <<[key |-> d[p + 1], value |-> SubSeq(d, p + 3, p + 2 + d[p + 2])]>> \o @])
  IN at[start]

hint_stride(key) == IF key = 4 THEN 1 ELSE 2

filter_hint(value, stride) ==
  LET chunk(i) == SubSeq(value, (i - 1) * stride + 1, i * stride)
  IN FlattenSeq([i \in 1..(Len(value) \div stride) |->
                   IF Private(chunk(i)) THEN <<>> ELSE chunk(i)])

(* edit_svcparams: Edit gives the parameters that replace one, none to drop
   it; the data stays as it was when it does not parse or a value is Bad. *)
edit_svcparams(d, Bad(_), Edit(_)) ==
  LET Cells(ps) == FlattenSeq([i \in DOMAIN ps |-> <<ps[i].key, Len(ps[i].value)>> \o ps[i].value])
      All(end, params) ==
        IF \E i \in DOMAIN params : Bad(params[i]) THEN d
        ELSE SubSeq(d, 1, end) \o Cells(FlattenSeq([i \in DOMAIN params |-> Edit(params[i])]))
      After(name) == Then(read_params(d, name.end), LAMBDA r : [ok |-> TRUE, d |-> All(name.end, r.params)])
      edited == IF Len(d) < 1 THEN Fail ELSE Then(skip_target_name(d), After)
  IN IF edited.ok THEN edited.d ELSE d

Filtered(p) ==
  LET kept == filter_hint(p.value, hint_stride(p.key))
  IN IF kept = <<>> /\ p.value # <<>> THEN <<>> ELSE <<[p EXCEPT !.value = kept]>>

strip_private_hints(d) ==
  edit_svcparams(d, LAMBDA p : p.key \in {4, 6} /\ Len(p.value) % hint_stride(p.key) # 0,
                 LAMBDA p : IF p.key \in {4, 6} THEN Filtered(p) ELSE <<p>>)

strip_ipv6hint(d) ==
  edit_svcparams(d, LAMBDA p : FALSE, LAMBDA p : IF p.key = 6 THEN <<>> ELSE <<p>>)
=============================================================================
