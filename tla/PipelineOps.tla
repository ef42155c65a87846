----------------------------- MODULE PipelineOps -----------------------------
(***************************************************************************)
(* The decisions of the query pipeline as operators on values: address      *)
(* filters (src/src/rebind.rs), overrides                                   *)
(* (src/src/override_store.rs), local zones (src/src/config.rs), special    *)
(* names and the final shape of a response (src/src/ctx.rs).                *)
(*                                                                          *)
(* A name is a sequence of labels, the TLD last.  A record is [name, type,  *)
(* data]: data is an address, a name, or for HTTPS the set of its address   *)
(* hints.  A response is [rcode, answers, ad, edns, tc].                    *)
(***************************************************************************)
EXTENDS BlockOps, SequencesExt

Rec(n, t, d) == [name |-> n, type |-> t, data |-> d]
Response(rcode, answers) ==
  [rcode |-> rcode, answers |-> answers, ad |-> FALSE, edns |-> FALSE, tc |-> FALSE]
Ends(n, suffix) == IsSuffix(suffix, n)

(* SelectSeq for a set of values, prefix by prefix: what is kept of the first
   i elements is a function of i, about which one can reason by induction. *)
OnlyUpTo(s, S) ==
  LET kept[i \in 0..Len(s)] ==
        IF i = 0 THEN <<>> ELSE IF s[i] \in S THEN Append(kept[i - 1], s[i]) ELSE kept[i - 1]
  IN kept
Only(s, S) == OnlyUpTo(s, S)[Len(s)]

-----------------------------------------------------------------------------
(* QueryPath::returns_trusted_local_data *)
returns_trusted_local_data(path) == path \in {"Local", "Overridden", "Blocked"}

-----------------------------------------------------------------------------
(* OverrideStore: name -> [record, expires], expires 0 for never. *)

is_expired(o, now) == o.expires # 0 /\ now >= o.expires

BugDropsExpiringToo(store, n, record, expires, now) ==
  [m \in {x \in DOMAIN store : store[x].expires = 0} \cup {n} |->
     IF m = n THEN [record |-> record, expires |-> expires] ELSE store[m]]

(* insert first drops what has expired. *)
InsertOverride(store, n, record, expires, now) ==
  [m \in {x \in DOMAIN store : ~is_expired(store[x], now)} \cup {n} |->
     IF m = n THEN [record |-> record, expires |-> expires] ELSE store[m]]

LookupOverride(store, n, now) ==
  IF n \in DOMAIN store /\ ~is_expired(store[n], now) THEN {store[n].record} ELSE {}

(* parse_target: an IPv4 or IPv6 address, else a name to go on with. *)
parse_target(n, family, target) ==
  Rec(n, CASE family = 4 -> "A" [] family = 6 -> "AAAA" [] OTHER -> "CNAME", target)

-----------------------------------------------------------------------------
(* ZoneMap: owner -> type -> data of its records, exact names and parents of
   wildcards.  A configured zone record is [name, wildcard, type, value]. *)
build_zone_map(zones) ==
  LET With(w) == {z \in ToSet(zones) : z.wildcard = w}
      Of(w, n) == {z \in With(w) : z.name = n}
      Values(w, n, t) == LET rrs == Only(zones, {z \in Of(w, n) : z.type = t})
                         IN [i \in DOMAIN rrs |-> rrs[i].value]
      Bucket(w) == [n \in {z.name : z \in With(w)} |->
                      [t \in {z.type : z \in Of(w, n)} |-> Values(w, n, t)]]
  IN [exact |-> Bucket(FALSE), wildcard |-> Bucket(TRUE)]

Choose(types, n, t) ==
  LET Records(u) == [i \in DOMAIN types[u] |-> Rec(n, u, types[u][i])]
  IN IF t \in DOMAIN types THEN Records(t)
     ELSE IF t # "CNAME" /\ "CNAME" \in DOMAIN types THEN Records("CNAME")
     ELSE <<>>

(* {} when no zone owns the name; an owned name without the type is NODATA. *)
ZoneLookup(exact, wildcard, n, t) ==
  LET parents == {i \in 2..Len(n) : SubSeq(n, i, Len(n)) \in DOMAIN wildcard}
      closest == {i \in parents : \A j \in parents : i <= j}
  IN IF n \in DOMAIN exact THEN {Choose(exact[n], n, t)}
     ELSE {Choose(wildcard[SubSeq(n, i, Len(n))], n, t) : i \in closest}

-----------------------------------------------------------------------------
Rfc1918Octets == {"16", "17", "18", "19", "20", "21", "22", "23", "24", "25", "26", "27", "28",
                  "29", "30", "31"}
PrivateReverse == {<<"10">>, <<"168", "192">>, <<"127">>, <<"254", "169">>, <<"0">>}

(* Reverse names of private networks, DDR, NAT64 discovery and mDNS. *)
is_special_use_domain(n) ==
  LET l == Len(n)
      below == SubSeq(n, 1, l - 2)     \* what precedes in-addr.arpa
  IN IF l > 2 /\ Ends(n, <<"in-addr", "arpa">>)
     THEN \/ \E p \in PrivateReverse : Len(below) > Len(p) /\ Ends(below, p)
          \/ "_dns-sd" \in {n[i] : i \in {j \in 1..(l - 1) : n[j + 1] = "_udp"}}
          \/ Last(below) = "172" /\ Len(below) > 1 /\ below[Len(below) - 1] \in Rfc1918Octets
     ELSE \/ Ends(n, <<"_dns", "resolver", "arpa">>)
          \/ n = <<"ipv4only", "arpa">>
          \/ Ends(n, <<"local">>)

special_use_response(n, t) ==
  IF n = <<"ipv4only", "arpa">>
  THEN Response("NOERROR", IF t = "A" THEN <<Rec(n, t, "nat64-170"), Rec(n, t, "nat64-171")>>
                           ELSE IF t = "AAAA" THEN <<Rec(n, t, "nat64-aa")>> ELSE <<>>)
  ELSE Response("NXDOMAIN", <<>>)

(* A synthesized address of the family that was asked for, if there is one. *)
answer_record(n, t, v4, v6) ==
  CASE t = "A" /\ v4 # "" -> <<Rec(n, t, v4)>>
    [] t = "AAAA" /\ v6 # "" -> <<Rec(n, t, v6)>>
    [] OTHER -> <<>>

match_forwarding_rule(suffixes, n) == \E s \in suffixes : Ends(n, s)

(* The first CNAME of a name in a response. *)
extract_cname_target(answers, n) ==
  LET at == {i \in DOMAIN answers : answers[i].type = "CNAME" /\ answers[i].name = n}
  IN {answers[i].data : i \in {j \in at : \A k \in at : j <= k}}

-----------------------------------------------------------------------------

(* scrub_section: private addresses go, and private hints of HTTPS records. *)
scrub_section(answers, private) ==
  LET Rebinds(r) == r.type \in {"A", "AAAA"} /\ r.data \in private
      kept == Only(answers, {r \in ToSet(answers) : ~Rebinds(r)})
  IN [i \in DOMAIN kept |->
        IF kept[i].type = "HTTPS" THEN [kept[i] EXCEPT !.data = @ \ private] ELSE kept[i]]

DnssecTypes == {"RRSIG", "DNSKEY", "DS", "NSEC", "NSEC3"}

(* shape_response_for_client; v6 are the hints that are IPv6 addresses. *)
shape_response_for_client(resp, query, filter_aaaa, v6) ==
  LET plain == Only(resp.answers, {r \in ToSet(resp.answers) : r.type \notin DnssecTypes})
      hints == [i \in DOMAIN plain |->
                  IF plain[i].type = "HTTPS" THEN [plain[i] EXCEPT !.data = @ \ v6] ELSE plain[i]]
  IN [resp EXCEPT !.edns = query.edns,
        !.answers = IF query.do THEN @ ELSE IF filter_aaaa THEN hints ELSE plain]
=============================================================================
