------------------------------- MODULE Codec -------------------------------
(***************************************************************************)
(* A response on its way through numa: it arrives as another server wrote  *)
(* it (names compressed or not), is patched on the wire for the cache and  *)
(* the client (src/src/wire.rs), parsed, edited (src/src/rebind.rs and     *)
(* filter_aaaa of src/src/ctx.rs) and written again (src/src/packet.rs).   *)
(***************************************************************************)
EXTENDS CodecOps, FiniteSets

CONSTANTS
  Pool,      \* sequence of records: [owner, type, data], names as label sequences
  QName,     \* the question's name, a sequence of labels
  Shapes,    \* the messages: sections as sequences of indices into Pool
  Ttls, Rcodes,
  MaxEdits   \* bound

VARIABLES
  msg,     \* what the message says, external
  wire, packet,
  stage,   \* "wire", "read" or "edited"
  cut,     \* the wire was cut short on its way
  meta,    \* what the scanner found in the wire
  stuck,   \* the buffer of a write that failed
  edits
codecVars == <<msg, wire, packet, stage, cut, meta, stuck, edits>>

None == [ok |-> FALSE]

-----------------------------------------------------------------------------
(* External: another server's message.  It may compress the question's name
   in owners and in the types of RFC 1035. *)
Plain(name) == FlattenSeq([i \in DOMAIN name |-> <<Len(name[i])>> \o name[i]]) \o <<0>>

Compressed(name) ==
  IF Len(name) >= Len(QName) /\ SubSeq(name, Len(name) - Len(QName) + 1, Len(name)) = QName
  THEN LET head == SubSeq(name, 1, Len(name) - Len(QName))
       IN FlattenSeq([i \in DOMAIN head |-> <<Len(head[i])>> \o head[i]]) \o <<192, 6>>
  ELSE Plain(name)

Name(m, t, name) == IF m.compress /\ t \notin {46, 47} THEN Compressed(name) ELSE Plain(name)

FieldCells(m, t, kind, v) ==
  CASE kind = "name" -> Name(m, t, v)
    [] kind = "counted" -> <<Len(v)>> \o v
    [] OTHER -> v

True(t) == IF t = 6 THEN <<"name", "name", "u", "u", "u", "u", "u">> ELSE Layout(t)

RecordCells(m, i) ==
  LET r == Pool[i]
      data == FlattenSeq([k \in DOMAIN r.data |-> FieldCells(m, r.type, True(r.type)[k], r.data[k])])
  IN Name(m, 0, r.owner) \o <<r.type, 1, m.ttl, Len(data)>> \o data

OptCells(m) == IF m.edns THEN <<0, 41, 1232, 1, 0>> ELSE <<>>

Sent(m) ==
  LET all == m.answers \o m.authorities \o m.resources
  IN <<m.id, 16 + m.rcode, 1, Len(m.answers), Len(m.authorities), Len(m.resources) + IF m.edns THEN 1 ELSE 0>>
       \o Plain(QName) \o <<1, 1>> \o FlattenSeq([k \in DOMAIN all |-> RecordCells(m, all[k])]) \o OptCells(m)

(* The packet that message m is: what parsing it must give. *)
NameText(name) == IF name = <<>> THEN <<>> ELSE FoldRight(Join, name, <<>>)

HintsLeft(stripped, d) ==
  LET public == IF "private" \in stripped THEN strip_private_hints(d) ELSE d
  IN IF "ipv6" \in stripped THEN strip_ipv6hint(public) ELSE public

Meant(m) ==
  LET Rec(i) == [name |-> NameText(Pool[i].owner), type |-> Pool[i].type, ttl |-> m.ttl,
                 data |-> [k \in DOMAIN Pool[i].data |->
                             IF True(Pool[i].type)[k] = "name" THEN NameText(Pool[i].data[k])
                             ELSE IF Pool[i].type = 65 THEN HintsLeft(m.stripped, Pool[i].data[k])
                             ELSE Pool[i].data[k]]]
      Section(s) == [k \in DOMAIN s |-> Rec(s[k])]
  IN [id |-> m.id, flags |-> 1, rcode |-> m.rcode, questions |-> <<[name |-> NameText(QName), type |-> 1]>>,
      answers |-> Section(m.answers), authorities |-> Section(m.authorities), resources |-> Section(m.resources),
      edns |-> IF m.edns THEN <<[size |-> 1232, flags |-> 1, options |-> <<>>]>> ELSE <<>>]

-----------------------------------------------------------------------------
Init ==
  /\ \E s \in Shapes, c, e \in BOOLEAN, rc \in Rcodes, t \in Ttls :
       msg = [id |-> 1, answers |-> s[1], authorities |-> s[2], resources |-> s[3], edns |-> e,
              compress |-> c, rcode |-> rc, ttl |-> t, stripped |-> {}]
  /\ wire = Sent(msg) /\ Len(wire) <= BUF_SIZE
  /\ packet = None /\ meta = None /\ stage = "wire"
  /\ cut = FALSE /\ stuck = None /\ edits = 0

(* The wire is scanned for the cache and parsed. *)
Read ==
  /\ stage = "wire" /\ stage' = "read"
  /\ packet' = from_buffer(wire)
  /\ meta' = scan_ttl_offsets(wire)
  /\ UNCHANGED <<msg, wire, cut, stuck, edits>>

Edit == ~cut /\ edits < MaxEdits /\ edits' = edits + 1

(* A cached response is served: the client's id, the time the entry has left. *)
Serve(id, ttl) ==
  /\ Edit /\ stage = "read" /\ meta.ok
  /\ wire' = patch_id(patch_ttls(wire, meta.ttls, ttl), id)
  /\ msg' = [msg EXCEPT !.id = id, !.ttl = ttl]
  /\ stage' = "wire" /\ packet' = None /\ meta' = None
  /\ UNCHANGED <<cut, stuck>>

EditRecords(Op(_)) ==
  /\ stage \in {"read", "edited"} /\ packet.ok /\ stage' = "edited"
  /\ LET All(s) == [i \in DOMAIN s |-> Op(s[i])]
     IN packet' = [packet EXCEPT !.packet.answers = All(@), !.packet.authorities = All(@),
                                 !.packet.resources = All(@)]
  /\ UNCHANGED <<wire, cut, meta, stuck>>

(* set_ttl on every record. *)
SetTtls(ttl) ==
  /\ Edit /\ EditRecords(LAMBDA r : [r EXCEPT !.ttl = ttl])
  /\ msg' = [msg EXCEPT !.ttl = ttl]

(* Rebind protection removes private hints; the last pass over a response
   removes the IPv6 hints where AAAA records are filtered. *)
Strip(what) ==
  /\ Edit /\ msg.stripped \cap {what, "ipv6"} = {}
  /\ EditRecords(LAMBDA r : IF r.type = 65 THEN [r EXCEPT !.data = <<HintsLeft({what}, @[1])>>] ELSE r)
  /\ msg' = [msg EXCEPT !.stripped = @ \cup {what}]

(* The packet is written; what does not fit is answered otherwise. *)
Written(b) ==
  IF b.ok THEN wire' = b.cells /\ packet' = None /\ meta' = None /\ stage' = "wire" /\ UNCHANGED stuck
  ELSE stuck' = [ok |-> TRUE, buffer |-> b] /\ UNCHANGED <<wire, packet, meta, stage>>

Write ==
  /\ stage \in {"read", "edited"} /\ packet.ok /\ ~cut /\ ~stuck.ok
  /\ Written(write_packet(packet.packet))
  /\ UNCHANGED <<msg, cut, edits>>

Cut(n) ==
  /\ stage = "wire" /\ ~cut /\ n < Len(wire)
  /\ wire' = SubSeq(wire, 1, n) /\ cut' = TRUE
  /\ UNCHANGED <<msg, packet, stage, meta, stuck, edits>>

Next ==
  \/ Read \/ Write
  \/ \E what \in {"private", "ipv6"} : Strip(what)
  \/ \E t \in Ttls : SetTtls(t) \/ \E id \in {1, 2} : Serve(id, t)
  \/ \E n \in DOMAIN wire : Cut(n)

Spec == Init /\ [][Next]_codecVars

-----------------------------------------------------------------------------
(* However a response was patched, edited and written, it reads as the
   message the server sent with these edits and nothing else: compressed names
   are expanded, the escapes of odd labels undone, lengths and counts right
   (src/src/packet.rs, from_buffer and write; src/src/record.rs). *)
ReadsAsMeant == (stage # "wire" /\ ~cut) => packet.ok /\ packet.packet = Meant(msg)

(* The scanner that patches cached responses finds exactly the records that
   the parser finds: every TTL and no EDNS flag is overwritten (src/src/wire.rs,
   scan_ttl_offsets). *)
ScanMatchesParse ==
  (stage = "read" /\ ~cut) =>
    LET Ttl(s) == [k \in DOMAIN s |-> s[k].ttl]
    IN /\ meta.ok
       /\ meta.answers = Len(packet.packet.answers)
       /\ [k \in DOMAIN meta.ttls |-> Get(wire, meta.ttls[k])]
            = Ttl(packet.packet.answers) \o Ttl(packet.packet.authorities) \o Ttl(packet.packet.resources)

(* A response that was cut anywhere is not scanned, and so never cached,
   although the parser reads the missing part as zeros (src/src/wire.rs,
   scan_ttl_offsets; src/src/buffer.rs, new). *)
CutIsRejected == (stage = "read" /\ cut) => ~meta.ok

(* After rebind protection no address hint of either family is private, after
   the AAAA filter there is no IPv6 hint, every other parameter is as the
   server sent it, and the data still parses (src/src/svcb.rs,
   strip_private_hints and strip_ipv6hint). *)
HintsArePublic ==
  (stage # "wire" /\ packet.ok /\ ~cut) =>
    \A i \in {k \in DOMAIN msg.answers : Pool[msg.answers[k]].type = 65} :
      LET Params(d) == read_params(d, skip_target_name(d).end).params
          now == Params(packet.packet.answers[i].data[1])
          was == Params(Pool[msg.answers[i]].data[1])
          Others(ps) == SelectSeq(ps, LAMBDA p : p.key \notin {4, 6})
          Chunks(p) == {SubSeq(p.value, (n - 1) * hint_stride(p.key) + 1, n * hint_stride(p.key)) :
                          n \in 1..(Len(p.value) \div hint_stride(p.key))}
      IN /\ Others(now) = Others(was)
         /\ "private" \in msg.stripped =>
              \A k \in DOMAIN now : now[k].key \in {4, 6} => \A a \in Chunks(now[k]) : ~Private(a)
         /\ "ipv6" \in msg.stripped => \A k \in DOMAIN now : now[k].key # 6

(* A packet that was parsed can be written again unless it is too long
   without compression, and then the buffer says so: numa answers with TC set
   instead of an error (src/src/buffer.rs, overflowed; src/src/ctx.rs,
   serialize_with_fallback). *)
WritesUnlessTooLong == stuck.ok => stuck.buffer.overflow
=============================================================================
