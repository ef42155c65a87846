------------------------------- MODULE MCHost -------------------------------
(***************************************************************************)
(* TLC instance of what numa believes, keeps and changes on its host:       *)
(* DNSSEC validation (Dnssec), the keys of an ODoH target (Odoh), the local *)
(* services with the proxy's certificates and the LAN peers (Services), the *)
(* configuration file (Startup), the redirection of the host's DNS to numa  *)
(* and back (SystemDns), and the discovery of the resolver that was there   *)
(* before (Discovery).  The initial state chooses which of them runs; the   *)
(* others rest in an initial state.                                         *)
(***************************************************************************)
EXTENDS Dnssec, Odoh, Startup, SystemDns, Services

VARIABLES
  part,
  platform, listed, lines, scutil, resolvConf, backupConf, link, step, default_upstream,
  forwarding_rules, search, rewrites

discoveryVars == <<platform, listed, lines, scutil, resolvConf, backupConf, link, step,
                   default_upstream, forwarding_rules, search, rewrites>>
hostVars == <<part, dnssecVars, odohVars, bootVars, svcVars, sysVars, discoveryVars>>

-----------------------------------------------------------------------------
(* A chain of zones with every choice of cuts, signatures and DS records; and
   three small zones whose NSEC and NSEC3 records are asked about names inside,
   between, before and behind their owners. *)
MCHash(n) == (FoldLeft(LAMBDA a, l : 5 * a + l + 1, 0, n) * 37) % 4001
MCApex == <<9>>
MCDenialZones == {{MCApex, <<1>> \o MCApex, <<2, 1>> \o MCApex},
                  {MCApex, <<0>> \o MCApex, <<2>> \o MCApex},
                  {MCApex, <<1, 2>> \o MCApex}}
MCDenialQueries == {MCApex, <<1>> \o MCApex, <<2>> \o MCApex, <<3>> \o MCApex,
                    <<2, 2>> \o MCApex, <<0, 1>> \o MCApex}
MCWorlds ==
  {w \in {[cuts |-> {0, Leaf} \cup c, signed |-> {0, Leaf} \cup s, ds |-> d] :
             c, s \in SUBSET (1..Leaf - 1), d \in SUBSET (1..Leaf)} :
     w.ds \subseteq w.signed /\ w.signed \subseteq w.cuts}

-----------------------------------------------------------------------------
(* Odoh: a bootstrap list with a name in it and one address. *)
OneFallback == {<<"s2", "h">>}
OneDefault == <<"s1">>

-----------------------------------------------------------------------------
(* Two API requests and the LAN task at once; a peer that changes a port and
   one announcement that is too long for a TXT string; our own echo. *)
Entry(n, l, p) == [name |-> n, len |-> l, port |-> p, digits |-> 2]
PeerMessages ==
  {[id |-> "them", ip |-> "ip1", services |-> <<Entry("nas", 3, 80), Entry("tv", 2, 81)>>],
   [id |-> "them", ip |-> "ip1", services |-> <<Entry("nas", 3, 82)>>],
   [id |-> "us", ip |-> "ip0", services |-> <<Entry("web", 3, 80)>>]}
ProxySections ==
  {[enabled |-> TRUE, cert_path |-> own, key_path |-> own, loads |-> own] : own \in BOOLEAN}
WebService == [n \in {"web"} |-> [target_port |-> 3, target_host |-> "localhost", routes |-> <<>>]]
RequestPaths == {<<"">>, <<"api">>, <<"api", "">>, <<"api", "x">>}
ServiceSections == {NoEntries, WebService}

-----------------------------------------------------------------------------
Section(m, addr, fallback, strict) ==
  [mode |-> m, address |-> addr, fallback |-> fallback, strict |-> strict]
Router(n) == "router"
Address == {"isp", "router", "quad9", "quad9url", "relay"}

(* Files without the section, with it once, with a key before any section,
   and with a key twice, which does not parse. *)
TomlFiles ==
  {[p \in {} |-> <<>>],
   [p \in {"config_dir"} |-> <<Header("server"), Enabled(TRUE), Other, Header("lan"), Enabled(FALSE),
                               Header("blocking"), Other>>],
   [p \in {"given", "data_dir"} |->
      IF p = "given" THEN <<Other, Enabled(TRUE), Header("lan"), Other, Enabled(FALSE)>>
      ELSE <<Header("blocking")>>],
   [p \in {"data_dir"} |-> <<Header("lan"), Enabled(FALSE), Enabled(TRUE)>>]}
AutoSection == {Section("auto", <<>>, <<>>, TRUE)}

-----------------------------------------------------------------------------
(* Resolver blocks of a VPN, of nested suffixes, of numa itself, of multicast
   DNS and of the Internet; configuration files that name the stub, a real
   server, both or nothing usable. *)
Block(d, s, f) == [domain |-> d, server |-> s, supplemental |-> f]
ScutilBlocks ==
  {Block(<<>>, "lo", FALSE), Block(<<>>, "isp", FALSE), Block(<<"lan">>, "none", FALSE),
   Block(<<"corp">>, "vpn", TRUE), Block(<<"eu", "corp">>, "vpn2", TRUE),
   Block(<<"eu", "corp">>, "none", TRUE), Block(<<"local">>, "isp", TRUE),
   Block(<<>>, "v6", TRUE), Block(<<"home", "lan">>, "isp", TRUE)}
ResolvFiles ==
  {[servers |-> s, search |-> d] : s \in {<<>>, <<"lo">>, <<"lo", "isp">>, <<"v6">>},
                                   d \in {<<>>, <<<<>>, <<"corp">>>>}}

Found == INSTANCE Discovery WITH
  Platforms <- {"macos", "linux", "windows"}, Blocks <- ScutilBlocks, MaxBlocks <- 3,
  ResolvConfs <- ResolvFiles, Links <- {<<>>, <<"lo">>, <<"isp">>, <<"v6", "vpn">>},
  NoServer <- "none", Loopback <- {"lo"}, NotAnAddress <- {"v6"},
  CLOUD_VPC_RESOLVER <- "vpc",
  ConfigRules <- <<[suffixes |-> <<<<"lan">>, <<"test">>>>, upstream |-> "cfg"]>>,
  MaxRewrites <- 1

-----------------------------------------------------------------------------
HostInit ==
  /\ part \in {"dnssec", "odoh", "services", "toggling", "system", "discovery"}
  /\ Init
  /\ part # "dnssec" => /\ mode = "honest"
                        /\ world = [cuts |-> {0, Leaf}, signed |-> {0, Leaf}, ds |-> {}]
  /\ OdohInit
  /\ part # "odoh" => nets["s2"] = "up"
  /\ ServicesInit
  /\ part # "services" => DOMAIN services.entries = {"numa"} /\ ~proxy.loads
  /\ BootInit
  /\ part # "toggling" => \A f \in DOMAIN tomls : tomls[f] = NoFile
  /\ SysInit
  /\ part # "system" => os = "linux" /\ ~resolved /\ hadReal["resolv.conf"]
  /\ Found!Init
  /\ part # "discovery" => platform = "windows" /\ link = <<>>

HostNext ==
  /\ UNCHANGED part
  /\ \/ /\ part = "dnssec" /\ Next
        /\ UNCHANGED <<odohVars, svcVars, bootVars, sysVars, discoveryVars>>
     \/ /\ part = "odoh" /\ OdohNext
        /\ UNCHANGED <<dnssecVars, svcVars, bootVars, sysVars, discoveryVars>>
     \/ /\ part = "services" /\ ServicesNext
        /\ UNCHANGED <<dnssecVars, odohVars, bootVars, sysVars, discoveryVars>>
     \/ /\ part = "toggling" /\ BootNext
        /\ UNCHANGED <<dnssecVars, odohVars, svcVars, sysVars, discoveryVars>>
     \/ /\ part = "system" /\ SysNext
        /\ UNCHANGED <<dnssecVars, odohVars, svcVars, bootVars, discoveryVars>>
     \/ /\ part = "discovery" /\ Found!Next
        /\ UNCHANGED <<dnssecVars, odohVars, svcVars, bootVars, sysVars>>

HostSpec == HostInit /\ [][HostNext]_hostVars

-----------------------------------------------------------------------------
(* validate_denial: no selection of a zone's genuine records proves away a
   name that owns records or a type that a name has, and the complete records
   always prove the NXDOMAIN of a name that does not exist, the names before
   the first owner and after the last too (src/src/dnssec.rs). *)
DenialsAreExact == DenialsAreTrue /\ TrueDenialsHold

(* Names and requests go where they belong.  Names are sent to the resolvers
   responsible for them and never back to numa: a rule of the configuration
   wins, otherwise the most specific supplemental resolver of macOS with the
   server of its own block; and the default upstream is never a loopback or
   stub address, however resolv.conf, the link and the backup change between
   the reads (src/src/system_dns.rs, discover_macos, discover_linux).  Proxied
   requests go by whole path segments to the most specific route, of the ones
   that a sequence of additions and removals left
   (src/src/service_store.rs, resolve_route). *)
GoesWhereItBelongs ==
  /\ part = "discovery" => Found!RoutesToOwnResolver /\ Found!UpstreamIsReal
  /\ part = "services" => RoutesByWholeSegments
=============================================================================
