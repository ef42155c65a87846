----------------------------- MODULE ServiceOps -----------------------------
(***************************************************************************)
(* Services, LAN peers and their wire format as operators on values: the    *)
(* store of src/src/service_store.rs, the peer table and the announcements  *)
(* of src/src/lan.rs, the certificate choices of src/src/tls.rs and the     *)
(* routing of src/src/proxy.rs.                                             *)
(*                                                                          *)
(* A path is the sequence of its segments: "/" is <<"">>, "/a/" is          *)
(* <<"a", "">>.  A store is [entries, config]: a function from names to     *)
(* services, and the names that numa.toml defines.                          *)
(***************************************************************************)
EXTENDS Integers, Sequences, FiniteSets, SequencesExt

Service(port, host, routes) == [target_port |-> port, target_host |-> host, routes |-> routes]

With(f, k, v) == [x \in DOMAIN f \cup {k} |-> IF x = k THEN v ELSE f[x]]
Without(f, ks) == [x \in DOMAIN f \ ks |-> f[x]]

-----------------------------------------------------------------------------
(* resolve_route *)

EndsInSlash(path) == Last(path) = ""

(* The request path equals the route's or continues it at a slash. *)
Covers(path, request) ==
  \/ request = path
  \/ IF EndsInSlash(path) THEN Len(request) >= Len(path) /\ IsPrefix(Front(path), request)
     ELSE IsStrictPrefix(path, request)

(* Length in characters orders the prefixes of one request like this. *)
PathLen(path) == 2 * Len(path) - (IF EndsInSlash(path) THEN 1 ELSE 0)

(* The index of the longest match, the last one of equals, if any. *)
MatchedRoute(routes, request) ==
  LET match == {i \in DOMAIN routes : Covers(routes[i].path, request)}
      Less(i, j) == \/ PathLen(routes[i].path) < PathLen(routes[j].path)
                    \/ PathLen(routes[i].path) = PathLen(routes[j].path) /\ i < j
  IN {i \in match : \A j \in match : j = i \/ Less(j, i)}

(* What is left of the request behind the route's path. *)
Stripped(path, request) ==
  LET used == IF EndsInSlash(path) THEN Len(path) - 1 ELSE Len(path)
      rest == SubSeq(request, used + 1, Len(request))
  IN IF rest = <<>> THEN <<"">>
     ELSE IF EndsInSlash(path) /\ Len(rest) > 1 /\ Head(rest) = "" THEN Tail(rest)
     ELSE rest

resolve_route(service, request) ==
  LET m == MatchedRoute(service.routes, request)
  IN IF m = {} THEN [port |-> service.target_port, path |-> request]
     ELSE LET r == service.routes[CHOOSE i \in m : TRUE]
          IN [port |-> r.port, path |-> IF r.strip THEN Stripped(r.path, request) ELSE request]

-----------------------------------------------------------------------------
(* ServiceStore *)

(* insert_from_config for each service of a section *)
insert_from_config(s, section) ==
  [entries |-> [n \in DOMAIN s.entries \cup DOMAIN section |->
                  IF n \in DOMAIN section THEN section[n] ELSE s.entries[n]],
   config |-> s.config \cup DOMAIN section]

(* A user's service; one that exists loses its routes. *)
insert(s, name, port, host) ==
  [s EXCEPT !.entries = With(@, name, Service(port, host, <<>>))]

add_route(s, name, route) ==
  [s EXCEPT !.entries[name].routes =
     Append(SelectSeq(@, LAMBDA r : r.path # route.path), route)]

remove_route(s, name, path) ==
  [s EXCEPT !.entries[name].routes = SelectSeq(@, LAMBDA r : r.path # path)]

remove(s, name) == [s EXCEPT !.entries = Without(@, {name})]

BugLoadsOverConfig(s, file) ==
  [s EXCEPT !.entries = [n \in DOMAIN s.entries \cup DOMAIN file |->
                           IF n \in DOMAIN file THEN file[n] ELSE s.entries[n]]]

(* Services of the file that the configuration does not define. *)
load_persisted(s, file) ==
  LET new == DOMAIN file \ s.config
  IN [s EXCEPT !.entries = [n \in DOMAIN s.entries \cup new |->
                              IF n \in new THEN file[n] ELSE s.entries[n]]]

(* What save writes: the services that are not the configuration's. *)
UserServices(s) == Without(s.entries, s.config)

-----------------------------------------------------------------------------
(* PeerStore: name -> [host, port, seen]. *)

Changes(peers, names) == \E n \in names : n \notin DOMAIN peers

(* ports is a function from names to ports *)
update(peers, host, ports, now) ==
  [n \in DOMAIN peers \cup DOMAIN ports |->
     IF n \in DOMAIN ports THEN [host |-> host, port |-> ports[n], seen |-> now] ELSE peers[n]]

(* lookup drops an entry that is older than the timeout, list and names one
   that is not younger. *)
Expired(peers, n, now, timeout) == n \in DOMAIN peers /\ now - peers[n].seen > timeout
AfterLookup(peers, n, now, timeout) ==
  IF Expired(peers, n, now, timeout) THEN Without(peers, {n}) ELSE peers
AfterNames(peers, now, timeout) ==
  Without(peers, {n \in DOMAIN peers : now - peers[n].seen >= timeout})

-----------------------------------------------------------------------------
(* Announcements.  The services of an instance are a sequence of [name, len,
   port, digits]: len the characters of the name, digits those of the port.
   write_txt_string cuts "services=name:port,..." every TxtMax characters,
   and the receiver reads each piece on its own: the ones without the prefix
   are skipped, and a number that was cut is another number. *)

EntryLen(e) == e.len + 1 + e.digits
Offset(list, i) == FoldLeft(LAMBDA n, e : n + EntryLen(e) + 1, 9, SubSeq(list, 1, i - 1))
Kept(list, i, TxtMax) == TxtMax - Offset(list, i)

(* parse_mdns_response: the services that the first piece still shows. *)
Parsed(list, TxtMax) ==
  {[name |-> list[i].name,
    port |-> LET lost == EntryLen(list[i]) - Kept(list, i, TxtMax)
             IN list[i].port \div (IF lost > 0 THEN 10^lost ELSE 1)] :
     i \in {j \in DOMAIN list : Kept(list, j, TxtMax) > list[j].len + 1}}

(* The last of two entries with one name wins in update. *)
ParsedPorts(list, TxtMax) ==
  LET got == Parsed(list, TxtMax)
  IN [n \in {g.name : g \in got} |-> (CHOOSE g \in got : g.name = n).port]
=============================================================================
