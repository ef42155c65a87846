----------------------------- MODULE Discovery -----------------------------
(***************************************************************************)
(* How the system's own resolvers become an upstream and forwarding rules  *)
(* (system_dns.rs, discover_* and detect_dhcp_dns; config.rs,              *)
(* merge_forwarding_rules).  macOS: the lines of `scutil --dns` go through *)
(* ScutilState one at a time.  Linux: resolv.conf, `resolvectl`, the       *)
(* backup of an earlier install, then `resolvectl` once more for the       *)
(* search domains, while the network manager may rewrite any of them in    *)
(* between.  Windows: the first usable server of `ipconfig /all`.          *)
(*                                                                         *)
(* A server is a name; Loopback says which ones are a loopback or stub     *)
(* address, NotAnAddress which texts do not parse as the IPv4 address the  *)
(* readers of command output look for (a line with several servers, what   *)
(* is left of an IPv6 address behind its last colon).  A domain is a       *)
(* sequence of labels.                                                     *)
(***************************************************************************)
EXTENDS Naturals, Sequences, SequencesExt

CONSTANTS
    Platforms,            \* the builds checked
    Blocks,               \* the resolver blocks scutil may list
    MaxBlocks,
    ResolvConfs,          \* contents of resolv.conf: [servers, search]
    Links,                \* the servers resolvectl or ipconfig report, in order
    NoServer,
    Loopback, NotAnAddress,
    CLOUD_VPC_RESOLVER,
    ConfigRules,          \* the rules of the configuration: [suffixes, upstream]
    MaxRewrites

VARIABLES
    platform,
    listed,               \* the blocks scutil printed
    lines,                \* macOS: the lines still to handle
    scutil,               \* macOS: ScutilState
    resolvConf, backupConf, link,   \* what a read of the files and commands would return
    step,                 \* the next step of the discovery
    default_upstream, forwarding_rules,
    search,               \* Linux: the search domains read
    rewrites

discoveryVars == <<platform, listed, lines, scutil, resolvConf, backupConf, link, step,
                   default_upstream, forwarding_rules, search, rewrites>>

is_loopback_or_stub(ns) == ns \in Loopback

-----------------------------------------------------------------------------
(* The parser of scutil. *)

make_rule(domain, ns) == IF ns \in NotAnAddress THEN <<>>
                         ELSE <<[suffix |-> domain, upstream |-> ns]>>

Fresh == [rules |-> <<>>, default |-> NoServer, domain |-> <<>>,
          nameserver |-> NoServer, supplemental |-> FALSE]

BugFlushKeepsServer(st) ==
    [st EXCEPT !.rules = IF st.domain # <<>> /\ st.nameserver # NoServer /\ st.supplemental
                         THEN @ \o make_rule(st.domain, st.nameserver) ELSE @,
               !.domain = <<>>, !.supplemental = FALSE]
flush(st) ==
    [st EXCEPT !.rules = IF st.domain # <<>> /\ st.nameserver # NoServer /\ st.supplemental
                         THEN @ \o make_rule(st.domain, st.nameserver) ELSE @,
               !.domain = <<>>, !.nameserver = NoServer, !.supplemental = FALSE]

(* Domains no rule is made for: the empty one, mDNS and reverse lookups.   *)
Ruleless(domain) == \/ domain \in {<<>>, <<"local">>}
                    \/ IsSuffix(<<"in-addr", "arpa">>, domain)
                    \/ IsSuffix(<<"ip6", "arpa">>, domain)

set_domain(st, domain) == IF Ruleless(domain) THEN st ELSE [st EXCEPT !.domain = domain]

set_nameserver(st, ns) ==
    IF ns \in NotAnAddress THEN st
    ELSE [st EXCEPT !.default = IF /\ ~st.supplemental /\ @ = NoServer
                                   /\ ~is_loopback_or_stub(ns)
                                THEN ns ELSE @,
                    !.nameserver = ns]

handle_line(st, line) ==
    CASE line.kind \in {"resolver", "scoped"} -> flush(st)
      [] line.kind = "domain" -> set_domain(st, line.domain)
      [] line.kind = "nameserver" -> set_nameserver(st, line.server)
      [] line.kind = "flags" -> [st EXCEPT !.supplemental = @ \/ line.supplemental]

(* What scutil prints of one resolver (external).                          *)
LinesOf(b) == <<[kind |-> "resolver"]>>
              \o (IF b.domain = <<>> THEN <<>> ELSE <<[kind |-> "domain", domain |-> b.domain]>>)
              \o (IF b.server = NoServer THEN <<>>
                  ELSE <<[kind |-> "nameserver", server |-> b.server]>>)
              \o <<[kind |-> "flags", supplemental |-> b.supplemental]>>

(* The scoped part of the output repeats the first block and is not read.  *)
Text(bs) == FlattenSeq([k \in DOMAIN bs |-> LinesOf(bs[k])])
            \o <<[kind |-> "scoped"]>> \o (IF bs = <<>> THEN <<>> ELSE LinesOf(bs[1]))

(* A stable sort, longest suffix first.                                    *)
sort_by_suffix(rules) ==
    LET lens == {Len(rules[k].suffix) : k \in DOMAIN rules}
        pick(n) == SelectSeq(rules, LAMBDA r : Len(r.suffix) = n)
        ordered == SetToSortSeq(lens, LAMBDA a, b : a > b)
    IN  FlattenSeq([k \in DOMAIN ordered |-> pick(ordered[k])])

-----------------------------------------------------------------------------
(* Linux, Windows and the DHCP leases of macOS. *)

FirstReal(servers) ==
    LET real == SelectSeq(servers, LAMBDA s : s \notin NotAnAddress /\ ~is_loopback_or_stub(s))
    IN  IF real = <<>> THEN NoServer ELSE Head(real)

(* The first server that is not loopback, and the search domains without   *)
(* the root domain.                                                        *)
parse_resolv_conf(conf) ==
    LET real == SelectSeq(conf.servers, LAMBDA s : ~is_loopback_or_stub(s))
    IN  [upstream |-> IF real = <<>> THEN NoServer ELSE Head(real),
         search |-> SelectSeq(conf.search, LAMBDA d : d # <<>>)]

resolvectl_dns_server == FirstReal(link)

-----------------------------------------------------------------------------
(* The configuration's rules come first and keep their order.              *)
merge_forwarding_rules(config, discovered) ==
    FlattenSeq([k \in DOMAIN config |->
        [i \in DOMAIN config[k].suffixes |->
            [suffix |-> config[k].suffixes[i], upstream |-> config[k].upstream]]])
    \o discovered

(* match_forwarding_rule: the first rule whose suffix the name ends in.    *)
FirstMatch(rules, name) ==
    LET hits == SelectSeq(rules, LAMBDA r : IsSuffix(r.suffix, name))
    IN  IF hits = <<>> THEN NoServer ELSE Head(hits).upstream

-----------------------------------------------------------------------------
Init == /\ platform \in Platforms
        /\ listed \in IF platform = "macos"
                      THEN UNION {[1 .. n -> Blocks] : n \in 0 .. MaxBlocks} ELSE {<<>>}
        /\ lines = Text(listed)
        /\ scutil = Fresh
        /\ resolvConf \in IF platform = "linux" THEN ResolvConfs ELSE {[servers |-> <<>>, search |-> <<>>]}
        /\ backupConf \in IF platform = "linux" THEN ResolvConfs ELSE {[servers |-> <<>>, search |-> <<>>]}
        /\ link \in Links
        /\ step = platform
        /\ default_upstream = NoServer
        /\ forwarding_rules = <<>> /\ search = <<>>
        /\ rewrites = 0

Mac == /\ step = "macos"
       /\ UNCHANGED <<platform, listed, resolvConf, backupConf, link, search, rewrites>>

(* One line of scutil; the scoped part ends the loop.                      *)
HandleLine == /\ Mac /\ lines # <<>>
              /\ scutil' = handle_line(scutil, Head(lines))
              /\ lines' = IF Head(lines).kind = "scoped" THEN <<>> ELSE Tail(lines)
              /\ UNCHANGED <<step, default_upstream, forwarding_rules>>

DiscoverMacos == /\ Mac /\ lines = <<>>
                 /\ default_upstream' = scutil.default
                 /\ forwarding_rules' = sort_by_suffix(flush(scutil).rules)
                 /\ step' = "dhcp"
                 /\ UNCHANGED <<lines, scutil>>

(* resolve_upstream_pool asks the DHCP leases when the discovery found no  *)
(* upstream.                                                               *)
detect_dhcp_dns == /\ step = "dhcp" /\ step' = "merge"
                   /\ default_upstream' = IF default_upstream = NoServer
                                          THEN FirstReal(link) ELSE default_upstream
                   /\ UNCHANGED <<platform, listed, lines, scutil, resolvConf, backupConf, link,
                                  forwarding_rules, search, rewrites>>

DiscoverWindows == /\ step = "windows"
                   /\ default_upstream' = FirstReal(link)
                   /\ step' = "merge"
                   /\ UNCHANGED <<platform, listed, lines, scutil, resolvConf, backupConf, link,
                                  forwarding_rules, search, rewrites>>

LinuxStep(at, to) == /\ step = at /\ step' = to
                     /\ UNCHANGED <<platform, listed, lines, scutil, resolvConf, backupConf,
                                    link, rewrites>>

ReadResolvConf == /\ LinuxStep("linux", "resolvectl")
                  /\ default_upstream' = parse_resolv_conf(resolvConf).upstream
                  /\ search' = parse_resolv_conf(resolvConf).search
                  /\ UNCHANGED forwarding_rules

AskResolvectl == /\ LinuxStep("resolvectl", "backup")
                 /\ default_upstream' = IF default_upstream = NoServer
                                        THEN resolvectl_dns_server ELSE default_upstream
                 /\ UNCHANGED <<forwarding_rules, search>>

ReadBackup == /\ LinuxStep("backup", "search")
              /\ default_upstream' = IF default_upstream = NoServer
                                     THEN parse_resolv_conf(backupConf).upstream
                                     ELSE default_upstream
              /\ UNCHANGED <<forwarding_rules, search>>

SearchRules == /\ LinuxStep("search", "merge")
               /\ LET forwarder == IF resolvectl_dns_server = NoServer
                                   THEN CLOUD_VPC_RESOLVER ELSE resolvectl_dns_server
                  IN  forwarding_rules' = FlattenSeq([k \in DOMAIN search |->
                                                         make_rule(search[k], forwarder)])
               /\ UNCHANGED <<default_upstream, search>>

(* run: the rules of the configuration and the discovered ones.            *)
Merge == /\ step = "merge" /\ step' = "done"
         /\ forwarding_rules' = merge_forwarding_rules(ConfigRules, forwarding_rules)
         /\ UNCHANGED <<platform, listed, lines, scutil, resolvConf, backupConf, link,
                        default_upstream, search, rewrites>>

(* The network manager rewrites resolv.conf or the link's servers.         *)
Rewrite == /\ platform = "linux" /\ step # "done" /\ rewrites < MaxRewrites
           /\ \/ resolvConf' \in ResolvConfs /\ UNCHANGED link
              \/ link' \in Links /\ UNCHANGED resolvConf
           /\ rewrites' = rewrites + 1
           /\ UNCHANGED <<platform, listed, lines, scutil, backupConf, step,
                          default_upstream, forwarding_rules, search>>

Next == \/ HandleLine \/ DiscoverMacos \/ detect_dhcp_dns \/ DiscoverWindows
        \/ ReadResolvConf \/ AskResolvectl \/ ReadBackup \/ SearchRules
        \/ Merge \/ Rewrite

Spec == Init /\ [][Next]_discoveryVars

-----------------------------------------------------------------------------
(* The resolvers a name may be forwarded to by rule: the configuration's   *)
(* first match, else on macOS the supplemental resolver with the longest   *)
(* matching domain, the first of those listed, with the server of its own  *)
(* block.                                                                  *)
Supplemental(name) ==
    {k \in DOMAIN listed :
        /\ listed[k].supplemental /\ ~Ruleless(listed[k].domain)
        /\ listed[k].server \notin NotAnAddress \cup {NoServer}
        /\ IsSuffix(listed[k].domain, name)}

Configured(name) ==
    {k \in DOMAIN ConfigRules :
        \E i \in DOMAIN ConfigRules[k].suffixes : IsSuffix(ConfigRules[k].suffixes[i], name)}

(* Split DNS on macOS sends a name to the resolver responsible for it: a   *)
(* rule of the configuration wins; otherwise the most specific             *)
(* supplemental resolver does, and the rule pairs a domain with the server *)
(* of the same block, however blocks without a server, without a domain    *)
(* or with an address the parser skips follow each other.                  *)
RoutesToOwnResolver ==
    (platform = "macos" /\ step = "done") =>
        \A name \in {listed[k].domain : k \in DOMAIN listed} :
            LET own == Supplemental(name)
                best == CHOOSE k \in own :
                            \A j \in own : \/ Len(listed[j].domain) < Len(listed[k].domain)
                                           \/ /\ Len(listed[j].domain) = Len(listed[k].domain)
                                              /\ k <= j
            IN  FirstMatch(forwarding_rules, name) =
                    IF Configured(name) # {}
                    THEN ConfigRules[CHOOSE k \in Configured(name) :
                                        \A j \in Configured(name) : k <= j].upstream
                    ELSE IF own = {} THEN NoServer ELSE listed[best].server

(* The upstream handed to the pool is never a loopback or stub address,    *)
(* under which numa would ask itself, on any platform and however          *)
(* resolv.conf, the link and the backup change between the reads; and on   *)
(* macOS it is the primary resolver's when that one is usable.             *)
UpstreamIsReal ==
    /\ default_upstream \notin Loopback
    /\ (/\ platform = "macos" /\ step = "done" /\ listed # <<>>
        /\ listed[1].server \notin Loopback \cup NotAnAddress \cup {NoServer})
          => default_upstream = listed[1].server

=============================================================================
