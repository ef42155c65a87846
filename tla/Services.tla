------------------------------ MODULE Services ------------------------------
(***************************************************************************)
(* The service store, the LAN peers and the certificate of the HTTPS proxy  *)
(* under concurrent API handlers (src/src/api.rs), mDNS announcements       *)
(* (src/src/lan.rs), proxied requests (src/src/proxy.rs), network changes   *)
(* and restarts.                                                            *)
(*                                                                          *)
(* A handler and regenerate_tls (src/src/tls.rs) are several critical       *)
(* sections, so a task is a small state machine; saving the store happens   *)
(* within its lock and a crash may come before the rename.  CA keys and     *)
(* certificates on disk are numbers, 0 when absent: a pair fits when the    *)
(* numbers are equal.                                                       *)
(***************************************************************************)
EXTENDS ServiceOps

CONSTANTS
  Handlers,          \* handlers that may run at the same time, and "lan"
  UserNames,      \* names that requests use
  Ports, Paths,   \* ports and paths of requests and routes
  ServiceConfigs, \* possible [services]: functions from names to services
  ProxyConfigs,   \* possible [proxy]: [enabled, cert_path, key_path, loads]
  Announcements,  \* what peers may send: [id, ip, services]
  OurId,          \* our instance id
  TxtMax,         \* 255
  PeerTimeout, MaxClock, MaxRequests, MaxBoots, MaxCa  \* the last four are bounds

(* Announcements reach this host too; names in one are the keys of a map, and
   the sum of the lengths before an entry is a number. *)
ASSUME HandlersAssumption == "lan" \in Handlers
ASSUME AnnouncementsAssumption ==
  /\ TxtMax \in Nat
  /\ \A a \in Announcements : \A i \in DOMAIN a.services :
       /\ a.services[i].len \in Nat /\ a.services[i].port \in Nat
       /\ a.services[i].digits \in Nat \ {0} /\ Offset(a.services, i) \in Nat
       /\ \A j \in DOMAIN a.services : a.services[j].name = a.services[i].name => j = i

VARIABLES
  running, services, svcFile, svcSaving, peers, clock,
  tls,            \* [on, byo, cert]: cert the names the served certificate has
  task,           \* task -> [at, name, port, new, got], and whether it ran alone
  ca,             \* [key, cert] on disk
  proxy,          \* the [proxy] section of this run
  told,           \* history: the port announced last, by name
  svcKept,        \* history: services whose save was completed
  missed,         \* history: regenerations that overlapped or failed since
                  \* the last one that ran alone and succeeded
  requests, boots

svcVars == <<running, services, svcFile, svcSaving, peers, clock, tls, task, ca, proxy,
             told, svcKept, missed, requests, boots>>

IdleTask == [at |-> "idle", name |-> "", port |-> 0, new |-> FALSE, got |-> {}, alone |-> FALSE]
Busy == {t \in Handlers : task[t].at # "idle"}
NoSaving == [pending |-> FALSE, file |-> <<>>]
NoEntries == [x \in {} |-> x]

(* build_proxy_tls: off, the user's certificate, or one of our own for the
   services that are known (built by GenerateCert below). *)
OwnCert(p) == p.enabled /\ ~p.cert_path /\ ~p.key_path
build_proxy_tls(p, names) ==
  [on |-> OwnCert(p) \/ (p.enabled /\ p.cert_path /\ p.key_path /\ p.loads),
   byo |-> p.cert_path /\ p.key_path,
   cert |-> IF OwnCert(p) THEN names ELSE {}]

Configured(c) ==
  LET with == [n \in DOMAIN c \cup {"numa"} |->
                 IF n \in DOMAIN c THEN c[n] ELSE Service(5380, "localhost", <<>>)]
  IN insert_from_config([entries |-> NoEntries, config |-> {}], with)

(* ensure_ca: load the pair that is there, or make a new one. *)
ensure_ca_loads == ca.key # 0 /\ ca.cert # 0

ServicesInit ==
  /\ running = TRUE /\ clock = 0 /\ requests = 0 /\ boots = 0
  /\ services \in {Configured(c) : c \in ServiceConfigs}
  /\ svcFile = NoEntries /\ svcSaving = NoSaving /\ peers = NoEntries
  /\ proxy \in ProxyConfigs
  /\ tls = build_proxy_tls(proxy, DOMAIN services.entries)
  /\ ca = IF OwnCert(proxy) THEN [key |-> 1, cert |-> 1] ELSE [key |-> 0, cert |-> 0]
  /\ task = [t \in Handlers |-> IdleTask]
  /\ told = NoEntries /\ svcKept = NoEntries /\ missed = FALSE

Locked == svcSaving.pending
StoreFree == running /\ ~Locked
bounded == <<clock, boots>>
disk == <<svcFile, ca>>

(* Store s and begin to save it. *)
SaveStore(s) ==
  /\ services' = s
  /\ svcSaving' = [pending |-> TRUE, file |-> UserServices(s)]

(* A task starts while another is under way: their regenerations may overlap. *)
BeginTask(t, r) ==
  /\ task' = [x \in Handlers |-> IF x = t THEN [r EXCEPT !.alone = Busy = {} /\ r.at # "idle"]
                               ELSE [task[x] EXCEPT !.alone = FALSE]]
  /\ missed' = (missed \/ Busy # {})

-----------------------------------------------------------------------------
(* create_service: the name is looked up under one lock ... *)
CreateService(t, n, p) ==
  /\ StoreFree /\ task[t].at = "idle" /\ t # "lan" /\ requests < MaxRequests
  /\ BeginTask(t, [IdleTask EXCEPT !.at = "insert", !.name = n, !.port = p,
                               !.new = n \notin DOMAIN services.entries])
  /\ requests' = requests + 1
  /\ UNCHANGED <<running, services, svcSaving, peers, tls, proxy, told, svcKept, disk, bounded>>

(* ... and inserted under another; the certificate follows if it was new. *)
InsertService(t) ==
  /\ StoreFree /\ task[t].at = "insert"
  /\ SaveStore(insert(services, task[t].name, task[t].port, "localhost"))
  /\ task' = [task EXCEPT ![t] = IF @.new THEN [@ EXCEPT !.at = "services"] ELSE IdleTask]
  /\ UNCHANGED <<running, peers, tls, proxy, told, svcKept, missed, requests, disk, bounded>>

(* remove_service: "numa" is refused, an unknown name not found. *)
RemoveService(t, n) ==
  /\ StoreFree /\ task[t].at = "idle" /\ t # "lan" /\ requests < MaxRequests
  /\ n # "numa" /\ n \in DOMAIN services.entries
  /\ SaveStore(remove(services, n))
  /\ BeginTask(t, [IdleTask EXCEPT !.at = "services"])
  /\ requests' = requests + 1
  /\ UNCHANGED <<running, peers, tls, proxy, told, svcKept, disk, bounded>>

(* The route handlers are one critical section. *)
AddRoute(n, path, p, strip) ==
  /\ StoreFree /\ requests < MaxRequests
  /\ n \in DOMAIN services.entries
  /\ SaveStore(add_route(services, n, [path |-> path, port |-> p, strip |-> strip]))
  /\ requests' = requests + 1
  /\ UNCHANGED <<running, peers, tls, task, proxy, told, svcKept, missed, disk, bounded>>

RemoveRoute(n, path) ==
  /\ StoreFree /\ requests < MaxRequests
  /\ n \in DOMAIN services.entries
  /\ \E i \in DOMAIN services.entries[n].routes : services.entries[n].routes[i].path = path
  /\ SaveStore(remove_route(services, n, path))
  /\ requests' = requests + 1
  /\ UNCHANGED <<running, peers, tls, task, proxy, told, svcKept, missed, disk, bounded>>

(* persist.rs: the rename puts the whole new contents in place, or fails. *)
SaveEnds(ok) ==
  /\ running /\ Locked
  /\ svcFile' = IF ok THEN svcSaving.file ELSE svcFile
  /\ svcKept' = IF ok THEN svcSaving.file ELSE svcKept
  /\ svcSaving' = NoSaving
  /\ UNCHANGED <<running, services, peers, tls, task, ca, proxy, told, missed, requests, bounded>>

-----------------------------------------------------------------------------
(* regenerate_tls, first lock: nothing to do without TLS or with a
   certificate of the user's. *)
CollectServices(t) ==
  /\ StoreFree /\ task[t].at = "services"
  /\ task' = [task EXCEPT ![t] = IF tls.on /\ ~tls.byo
                THEN [@ EXCEPT !.at = "peers", !.got = DOMAIN services.entries] ELSE IdleTask]
  /\ UNCHANGED <<running, services, svcSaving, peers, tls, proxy, told, svcKept, missed,
                 requests, disk, bounded>>

BugKeepsStalePeers(t) ==
  /\ running /\ task[t].at = "peers"
  /\ task' = [task EXCEPT ![t].at = "build",
                ![t].got = @ \cup DOMAIN AfterNames(peers, clock, PeerTimeout)]
  /\ UNCHANGED <<running, services, svcSaving, peers, tls, proxy, told, svcKept, missed,
                 requests, disk, bounded>>

(* Second lock: names drops the peers that timed out. *)
CollectPeers(t) ==
  /\ running /\ task[t].at = "peers"
  /\ peers' = AfterNames(peers, clock, PeerTimeout)
  /\ task' = [task EXCEPT ![t].at = "build", ![t].got = @ \cup DOMAIN peers']
  /\ UNCHANGED <<running, services, svcSaving, tls, proxy, told, svcKept, missed, requests,
                 disk, bounded>>

(* build_tls_config with the CA on disk; a failure keeps the old one. *)
BuildCert(t, ok) ==
  /\ running /\ task[t].at = "build"
  /\ tls' = IF ok /\ ensure_ca_loads THEN [tls EXCEPT !.cert = task[t].got] ELSE tls
  /\ missed' = IF ~ok THEN TRUE ELSE IF task[t].alone THEN FALSE ELSE missed
  /\ task' = [task EXCEPT ![t] = IdleTask]
  /\ UNCHANGED <<running, services, svcSaving, peers, proxy, told, svcKept, requests, disk, bounded>>

-----------------------------------------------------------------------------
(* start_lan_discovery, the receiver: our own announcements and empty ones
   are skipped, the others refresh the table; an unseen name renews the
   certificate before the next packet is read. *)
ReceiveAnnouncement(a) ==
  LET ports == ParsedPorts(a.services, TxtMax)
  IN /\ running /\ task["lan"].at = "idle" /\ requests < MaxRequests
     /\ a.id # OurId /\ DOMAIN ports # {}
     /\ peers' = update(peers, a.ip, ports, clock)
     /\ BeginTask("lan", IF Changes(peers, DOMAIN ports)
                     THEN [IdleTask EXCEPT !.at = "services"] ELSE IdleTask)
     /\ told' = [n \in DOMAIN told \cup {e.name : e \in Range(a.services)} |->
                   IF \E e \in Range(a.services) : e.name = n
                   THEN (CHOOSE e \in Range(a.services) : e.name = n).port ELSE told[n]]
     /\ requests' = requests + 1
     /\ UNCHANGED <<running, services, svcSaving, tls, proxy, svcKept, disk, bounded>>

(* Somebody looks a peer up (proxy_handler, resolve_proxy_tld) or lists the
   peers (the API): entries that timed out go. *)
LookupPeer(n) ==
  /\ running /\ Expired(peers, n, clock, PeerTimeout)
  /\ peers' = AfterLookup(peers, n, clock, PeerTimeout)
  /\ UNCHANGED <<running, services, svcSaving, tls, task, proxy, told, svcKept, missed,
                 requests, disk, bounded>>

ListPeers ==
  /\ running /\ peers # AfterNames(peers, clock, PeerTimeout)
  /\ peers' = AfterNames(peers, clock, PeerTimeout)
  /\ UNCHANGED <<running, services, svcSaving, tls, task, proxy, told, svcKept, missed,
                 requests, disk, bounded>>

(* network_watch_loop on a change of address *)
NetworkChange ==
  /\ running /\ peers # NoEntries
  /\ peers' = NoEntries
  /\ UNCHANGED <<running, services, svcSaving, tls, task, proxy, told, svcKept, missed,
                 requests, disk, bounded>>

(* proxy_handler's choice of a backend: our services before the peers. *)
proxy_target(n, request) ==
  IF n \in DOMAIN services.entries
  THEN LET r == resolve_route(services.entries[n], request)
       IN {[host |-> services.entries[n].target_host, port |-> r.port, path |-> r.path]}
  ELSE IF n \in DOMAIN peers /\ ~Expired(peers, n, clock, PeerTimeout)
       THEN {[host |-> peers[n].host, port |-> peers[n].port, path |-> request]}
       ELSE {}

-----------------------------------------------------------------------------
Crash ==
  /\ running /\ boots < MaxBoots
  /\ running' = FALSE
  /\ svcSaving' = NoSaving /\ peers' = NoEntries /\ told' = NoEntries
  /\ task' = [t \in Handlers |-> IdleTask] /\ missed' = FALSE
  /\ UNCHANGED <<services, tls, proxy, svcKept, requests, disk, bounded>>

(* serve: stores first, then the certificate.  A new CA is two files, the
   key first; the process may die between the two (died). *)
Boot(c, p, died) ==
  /\ ~running /\ boots' = boots + 1
  /\ services' = load_persisted(Configured(c), svcFile)
  /\ proxy' = p
  /\ tls' = build_proxy_tls(p, DOMAIN services'.entries)
  /\ IF OwnCert(p) /\ ~ensure_ca_loads
     THEN /\ Max({ca.key, ca.cert}) < MaxCa
          /\ ca' = LET new == Max({ca.key, ca.cert}) + 1
                   IN IF died THEN [ca EXCEPT !.key = new] ELSE [key |-> new, cert |-> new]
          /\ running' = ~died
     ELSE ~died /\ ca' = ca /\ running' = TRUE
  /\ UNCHANGED <<svcFile, svcSaving, peers, clock, task, told, svcKept, missed, requests>>

Tick ==
  /\ clock < MaxClock /\ clock' = clock + 1
  /\ UNCHANGED <<running, services, svcSaving, peers, tls, task, proxy, told, svcKept, missed,
                 requests, boots, disk>>

ServicesNext ==
  \/ \E t \in Handlers : \/ InsertService(t) \/ CollectServices(t) \/ CollectPeers(t)
                      \/ BuildCert(t, TRUE) \/ BuildCert(t, FALSE)
                      \/ \E n \in UserNames : \/ RemoveService(t, n)
                                              \/ \E p \in Ports : CreateService(t, n, p)
  \/ \E n \in UserNames, path \in Paths :
       RemoveRoute(n, path) \/ \E p \in Ports, s \in BOOLEAN : AddRoute(n, path, p, s)
  \/ \E ok \in BOOLEAN : SaveEnds(ok)
  \/ \E a \in Announcements : ReceiveAnnouncement(a)
  \/ \E n \in DOMAIN peers : LookupPeer(n)
  \/ ListPeers \/ NetworkChange \/ Crash \/ Tick
  \/ \E c \in ServiceConfigs, p \in ProxyConfigs, died \in BOOLEAN : Boot(c, p, died)

ServicesSpec == ServicesInit /\ [][ServicesNext]_svcVars

-----------------------------------------------------------------------------
(* When no handler is under way and no regeneration has overlapped another or
   failed, the served certificate names every service and every peer in the
   table, although peers time out, come back and are dropped by three
   different operations (src/src/tls.rs, regenerate_tls; src/src/lan.rs). *)
CertCoversNames ==
  running /\ tls.on /\ ~tls.byo /\ Busy = {} /\ ~missed /\ ensure_ca_loads =>
    DOMAIN services.entries \cup DOMAIN peers \subseteq tls.cert

(* A restart brings back every service whose save was completed, as it was
   saved, and the configuration's own definition of the names it defines
   (src/src/service_store.rs, save and load_persisted). *)
RestartRestores ==
  [][~running /\ running' =>
       /\ \A n \in DOMAIN svcKept \ services'.config :
            n \in DOMAIN services'.entries /\ services'.entries[n] = svcKept[n]
       /\ \E c \in ServiceConfigs :
            /\ services'.config = DOMAIN c \cup {"numa"}
            /\ \A n \in DOMAIN c : services'.entries[n] = c[n]]_svcVars

(* Key and certificate of the CA on disk fit, wherever a start was cut off
   (src/src/tls.rs, ensure_ca). *)
CaPairFits == ensure_ca_loads => ca.key = ca.cert

(* A request is routed by whole path segments to the most specific route, as
   if routes were a tree of segments (src/src/service_store.rs,
   resolve_route): "/api" covers "/api/x" and never "/apix". *)
RoutesByWholeSegments ==
  \A n \in DOMAIN services.entries, q \in Paths :
    LET routes == services.entries[n].routes
        Segs(p) == IF EndsInSlash(p) THEN Front(p) ELSE p
        above == {i \in DOMAIN routes :
                    IsPrefix(Segs(routes[i].path), q) /\ Len(routes[i].path) <= Len(q)}
        Deeper(i, j) == Len(Segs(routes[i].path)) > Len(Segs(routes[j].path))
        best == {i \in above : \A j \in above : Deeper(i, j) \/ j = i
                                 \/ (~Deeper(j, i) /\ EndsInSlash(routes[i].path))}
    IN \A x \in proxy_target(n, q) :
         x.port = IF above = {} THEN services.entries[n].target_port
                  ELSE routes[CHOOSE i \in best : TRUE].port

(* Names of entries that do not fit into the first string. *)
Whole(a, i) == Offset(a.services, i) + EntryLen(a.services[i]) <= TxtMax
CutNames ==
  UNION {{a.services[i].name : i \in {j \in DOMAIN a.services : ~Whole(a, j)}} :
           a \in Announcements}

(* A peer's service is known at the port it announced last, unless the list
   was too long for one string and the port was cut (src/src/lan.rs,
   write_txt_string, parse_mdns_response). *)
PeerPortsAreTrue ==
  \A n \in DOMAIN peers \ CutNames : n \in DOMAIN told /\ peers[n].port = told[n]

(* A service or peer is reachable by its name, although peers time out and
   come back and services change while certificates are made: the certificate
   names it once the handlers are at rest and no regeneration overlapped
   another or failed (src/src/tls.rs, src/src/lan.rs), the CA's key fits its
   certificate wherever a start was cut off, and a peer's port is the one it
   announced last. *)
NamesAreReachable == CertCoversNames /\ CaPairFits /\ PeerPortsAreTrue
=============================================================================
