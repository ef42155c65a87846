----------------------------- MODULE MCRecursion -----------------------------
EXTENDS HonestRecursion, TLC

com == <<"com">>
net == <<"net">>
ex == <<"ex", "com">>      \* glue in its parent
out == <<"out", "com">>    \* served by a host of another TLD, IPv6 only
ring1 == <<"r1", "com">>   \* two zones served by hosts of each other
ring2 == <<"r2", "net">>
lame == <<"lame", "com">>  \* delegated to servers that do not serve it

In(label, z) == <<label>> \o z

Zone(servers, ns, glue, ds) == [servers |-> servers, ns |-> ns, glue |-> glue, ds |-> ds]

MCZones ==
  (<<>> :> Zone({"root1", "root2"}, {}, {}, FALSE))
  @@ (com :> Zone({"com1", "com2"}, {In("a", com), In("b", com)}, {In("a", com), In("b", com)}, TRUE))
  @@ (net :> Zone({"net1"}, {In("a", net)}, {In("a", net)}, FALSE))
  @@ (ex :> Zone({"ex1"}, {In("a", ex)}, {In("a", ex)}, TRUE))
  @@ (out :> Zone({"out1"}, {In("dns", net)}, {}, FALSE))
  @@ (ring1 :> Zone({}, {In("a", ring2)}, {}, FALSE))
  @@ (ring2 :> Zone({}, {In("a", ring1)}, {}, FALSE))
  @@ (lame :> Zone({}, {In("a", com)}, {}, FALSE))

Rec(d, t, x) == [domain |-> d, type |-> t, data |-> x]

MCRecords ==
  {Rec(In("a", com), "A", "com1"), Rec(In("b", com), "A", "com2"),
   Rec(In("a", net), "A", "net1"), Rec(In("dns", net), "AAAA", "out1"),
   Rec(In("a", ex), "A", "ex1"),
   Rec(In("www", ex), "A", "h1"), Rec(In("www", out), "A", "h2"),
   Rec(In("to", ex), "CNAME", In("www", out)),
   Rec(In("gone", ex), "CNAME", In("no", out)),
   Rec(In("x", ex), "CNAME", In("y", ex)), Rec(In("y", ex), "CNAME", In("x", ex))}

MCBroken == {ring1, ring2, lame}

MCQueries ==
  {<<In("to", ex), "A">>, <<In("gone", ex), "A">>, <<In("x", ex), "A">>,
   <<In("www", ring1), "A">>, <<In("www", lame), "A">>}

MCPrimeTlds == {com}
MCRootHints == {"root1", "root2"}

(* The DS record of a TLD, which the validator asks for. *)
DsQueries == {<<In("www", ex), "A">>, <<com, "DS">>}

(* A name under a TLD that does not exist. *)
TldQueries == {<<In("www", ex), "A">>, <<<<"www", "nope">>, "A">>}

(* Honest as a table over the names the runs can ask for, computed once. *)
Names ==
  {r.domain : r \in MCRecords} \cup {r.data : r \in {x \in MCRecords : x.type = "CNAME"}}
  \cup (DOMAIN MCZones \ {<<>>}) \cup UNION {z.ns : z \in {MCZones[a] : a \in DOMAIN MCZones}}
  \cup {q[1] : q \in MCQueries \cup DsQueries \cup TldQueries} \cup {<<"nope">>}
Sent ==
  [s \in UNION {MCZones[z].servers : z \in DOMAIN MCZones} |->
     [n \in Names |-> [t \in {"A", "AAAA", "NS", "DS"} |-> Honest(s, n, t)]]]
MCAnswers(s, n, t) == Sent[s][n][t]
=============================================================================
