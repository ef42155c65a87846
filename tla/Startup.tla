------------------------------ MODULE Startup ------------------------------
(***************************************************************************)
(* From the configuration file to a running server and its upstreams: the  *)
(* toggles of the command line (src/src/main.rs), the search for numa.toml *)
(* (src/src/config.rs, src/src/lib.rs), the boot sequence with the choice  *)
(* of the upstream pool and the network watch loop (src/src/serve.rs), and *)
(* the Windows service wrapper (src/src/windows_service.rs).               *)
(*                                                                         *)
(* A file is a sequence of lines: [is |-> "header", of |-> section],       *)
(* [is |-> "enabled", to |-> v] or [is |-> "other"] (any other setting,    *)
(* comment or blank line).  The rest of the configuration is a record      *)
(* chosen at the start.                                                    *)
(***************************************************************************)
EXTENDS Upstreams

CONSTANTS
  Settings,   \* the [upstream] sections considered
  Contents,   \* the numa.toml files considered
  Toggles,    \* sections with a command-line toggle
  Nets,       \* networks the host may be on
  Detected(_),\* network -> the upstream address detected there, or NoAddr
  NoAddr, NoFile,
  QUAD9_IP, DOH_FALLBACK,
  REDETECT_TICKS, \* ticks between two detections (6)
  MaxMoves, MaxToggles, MaxStarts  \* bounds

(* A file is a sequence of lines. *)
ASSUME ContentsAssumption == \A c \in Contents : \A p \in DOMAIN c : c[p] \in Seq(ToSet(c[p]))

VARIABLES
  tomls,     \* path -> contents of numa.toml there
  upstreamConf, \* the [upstream] section
  net,       \* the network of the host (environment)
  server,    \* the serving process
  lan_ip,    \* ctx.lan_ip, as the network it was detected on
  peersOn,   \* networks on which the stored LAN peers announced themselves
  udpOffOn,  \* networks on which the UDP breaker of the process tripped
  tick,      \* watch loop ticks modulo REDETECT_TICKS
  scm,       \* what the Windows service control manager was told
  unseen,    \* history: networks entered and left between two ticks
  moves, toggles, starts

bootVars == <<tomls, upstreamConf, net, server, lan_ip, peersOn, udpOffOn, tick, scm, unseen, moves, toggles, starts>>

TomlPaths == {"given", "config_dir", "data_dir", "suggested"}

-----------------------------------------------------------------------------
(* numa.toml *)

Header(s) == [is |-> "header", of |-> s]
Enabled(v) == [is |-> "enabled", to |-> v]
Other == [is |-> "other"]

(* The section that line i belongs to. *)
SectionAt(lines, i) ==
  LET heads == {j \in 1..i : lines[j].is = "header"}
  IN IF heads = {} THEN "" ELSE lines[CHOOSE j \in heads : \A k \in heads : k <= j].of

(* The lines at which TOML finds the key "enabled" of a section. *)
EnabledLines(lines, s) == {i \in DOMAIN lines : lines[i].is = "enabled" /\ SectionAt(lines, i) = s}

(* TOML rejects a section or a key given twice. *)
Parses(lines) ==
  /\ \A i, j \in DOMAIN lines : lines[i].is = "header" /\ lines[i] = lines[j] => i = j
  /\ \A i \in DOMAIN lines : lines[i].is = "enabled" =>
       EnabledLines(lines, SectionAt(lines, i)) = {i}

Loads(f) == IF f = NoFile THEN TRUE ELSE Parses(f)

ValueOf(lines, s) == {lines[i].to : i \in EnabledLines(lines, s)}

BugAppends(lines, s, v) == lines \o <<Header(s), Enabled(v)>>

(* The first "enabled" in the section is rewritten; else one is put right
   after the header; else the section is appended, after a blank line unless
   the file is empty or ends with one. *)
update_config_content(lines, s, v) ==
  LET found == EnabledLines(lines, s)
      heads == {i \in DOMAIN lines : lines[i] = Header(s)}
  IN IF found # {} THEN [lines EXCEPT ![CHOOSE i \in found : \A j \in found : i <= j] = Enabled(v)]
     ELSE IF heads # {}
          THEN InsertAt(lines, (CHOOSE i \in heads : \A j \in heads : i <= j) + 1, Enabled(v))
          ELSE lines \o (IF lines = <<>> \/ Last(lines) = Other THEN <<>> ELSE <<Other>>)
                     \o <<Header(s), Enabled(v)>>

(* set_config_bool: numa lan|block|dnssec on|off [path]; a missing file is
   created. *)
set_config_bool(p, s, v) ==
  /\ toggles < MaxToggles /\ toggles' = toggles + 1
  /\ tomls' = [tomls EXCEPT ![p] =
                 update_config_content(IF @ = NoFile THEN <<>> ELSE @, s, v)]
  /\ UNCHANGED <<upstreamConf, net, server, lan_ip, peersOn, udpOffOn, tick, scm, unseen, moves, starts>>

(* load_config: the path given, then for a relative one the well-known
   places in order; the first file found counts, even if it does not parse. *)
Candidates(relative) ==
  IF relative THEN <<"given", "config_dir", "data_dir", "suggested">> ELSE <<"given">>

load_config(relative) ==
  LET found == SelectSeq(Candidates(relative), LAMBDA p : tomls[p] # NoFile)
  IN IF found = <<>> THEN NoFile ELSE tomls[found[1]]

-----------------------------------------------------------------------------
(* The upstream pool *)

DohFallback == [kind |-> "Doh", at |-> DOH_FALLBACK]

(* What discovery, DHCP included, finds: nothing when only numa's own address
   is there to be found. *)
Discovered == Detected(net)

(* Auto: recursive if the root answers, else Quad9 over DoH.  Forward: the
   configured addresses or the detected one, with TCP siblings.  ODoH: the
   fallback only when not strict. *)
resolve_upstream_pool(c, probe) ==
  CASE c.mode = "auto" /\ ~probe ->
         [mode |-> "forward", auto |-> FALSE, pool |-> [primary |-> <<DohFallback>>, fallback |-> <<>>]]
    [] c.mode = "recursive" \/ (c.mode = "auto" /\ probe) ->
         [mode |-> "recursive", auto |-> FALSE, pool |-> [primary |-> <<Udp(NoAddr)>>, fallback |-> <<>>]]
    [] c.mode = "forward" ->
         [mode |-> "forward", auto |-> c.address = <<>>,
          pool |-> Paired(IF c.address # <<>> THEN c.address
                          ELSE IF Discovered = NoAddr THEN <<DohFallback>> ELSE <<Udp(Discovered)>>,
                          c.fallback)]
    [] c.mode = "odoh" ->
         [mode |-> "odoh", auto |-> FALSE,
          pool |-> [primary |-> c.address, fallback |-> IF c.strict THEN <<>> ELSE c.fallback]]

-----------------------------------------------------------------------------
Off == [at |-> "off", auto |-> FALSE, mode |-> "none", features |-> {},
        pool |-> [primary |-> <<>>, fallback |-> <<>>]]

BootInit ==
  /\ tomls \in {[p \in TomlPaths |-> IF p \in DOMAIN f THEN f[p] ELSE NoFile] : f \in Contents}
  /\ upstreamConf \in Settings
  /\ net \in Nets /\ lan_ip = net
  /\ server = Off /\ peersOn = {} /\ udpOffOn = {} /\ tick = 0 /\ scm = "none"
  /\ unseen = {} /\ moves = 0 /\ toggles = 0 /\ starts = 0

(* numa [path], or the service control manager starting numa --service, which
   reports Running before the server is up. *)
Launch(service) ==
  /\ server.at = "off" /\ scm # "running" /\ starts < MaxStarts
  /\ server' = [Off EXCEPT !.at = "booting"]
  /\ scm' = IF service THEN "running" ELSE "none"
  /\ starts' = starts + 1
  /\ UNCHANGED <<tomls, upstreamConf, net, lan_ip, peersOn, udpOffOn, tick, unseen, moves, toggles>>

(* serve::run up to the spawned tasks; process state starts afresh. *)
RunServer(relative, probe) ==
  /\ server.at = "booting"
  /\ LET f == load_config(relative)
         r == resolve_upstream_pool(upstreamConf, probe)
     IN /\ Loads(f)
        /\ server' = [at |-> "running", auto |-> r.auto, mode |-> r.mode, pool |-> r.pool,
                      features |-> IF f = NoFile THEN {} ELSE {s \in Toggles : ValueOf(f, s) = {TRUE}}]
  /\ lan_ip' = net /\ peersOn' = {} /\ udpOffOn' = {} /\ tick' = 0
  /\ UNCHANGED <<tomls, upstreamConf, net, scm, unseen, moves, toggles, starts>>

(* The file does not parse, an address is invalid or busy, or later a UDP
   listener fails: run returns and the process ends. *)
ServerEnds ==
  /\ server.at \in {"booting", "running"}
  /\ server' = [server EXCEPT !.at = "ended"]
  /\ UNCHANGED <<tomls, upstreamConf, net, lan_ip, peersOn, udpOffOn, tick, scm, unseen, moves, toggles, starts>>

(* An interactive process is gone; run_service notices within 500 ms. *)
ProcessExits ==
  /\ server.at = "ended"
  /\ server' = Off /\ scm' = IF scm = "running" THEN "stopped" ELSE scm
  /\ UNCHANGED <<tomls, upstreamConf, net, lan_ip, peersOn, udpOffOn, tick, unseen, moves, toggles, starts>>

(* The control manager asks the service to stop, whatever the server does. *)
ServiceStop ==
  /\ scm = "running" /\ server.at # "off"
  /\ scm' = "stopped" /\ server' = Off
  /\ UNCHANGED <<tomls, upstreamConf, net, lan_ip, peersOn, udpOffOn, tick, unseen, moves, toggles, starts>>

-----------------------------------------------------------------------------
(* One round of network_watch_loop.  Where nothing is detected the loop takes
   Quad9's address, which as a primary is plain UDP. *)
BugRedetectsOnMoveOnly ==
  LET moved  == lan_ip # net
      pool2  == IF server.auto /\ moved
                THEN maybe_update_primary(server.pool, IF Discovered = NoAddr THEN QUAD9_IP ELSE Discovered)
                ELSE server.pool
      changed == moved \/ pool2 # server.pool
  IN /\ server.at = "running"
     /\ lan_ip' = net
     /\ tick' = (tick + 1) % REDETECT_TICKS
     /\ udpOffOn' = IF moved THEN {} ELSE udpOffOn
     /\ server' = [server EXCEPT !.pool = pool2]
     /\ peersOn' = IF changed THEN {} ELSE peersOn
     /\ UNCHANGED <<tomls, upstreamConf, net, scm, unseen, moves, toggles, starts>>

BugForgetsPeers ==
  LET moved  == lan_ip # net
      pool2  == IF server.auto /\ (moved \/ (tick + 1) % REDETECT_TICKS = 0)
                THEN maybe_update_primary(server.pool, IF Discovered = NoAddr THEN QUAD9_IP ELSE Discovered)
                ELSE server.pool
  IN /\ server.at = "running"
     /\ lan_ip' = net
     /\ tick' = (tick + 1) % REDETECT_TICKS
     /\ udpOffOn' = IF moved THEN {} ELSE udpOffOn
     /\ server' = [server EXCEPT !.pool = pool2]
     /\ peersOn' = IF pool2 # server.pool THEN {} ELSE peersOn
     /\ UNCHANGED <<tomls, upstreamConf, net, scm, unseen, moves, toggles, starts>>

WatchTick ==
  LET moved  == lan_ip # net
      pool2  == IF server.auto /\ (moved \/ (tick + 1) % REDETECT_TICKS = 0)
                THEN maybe_update_primary(server.pool, IF Discovered = NoAddr THEN QUAD9_IP ELSE Discovered)
                ELSE server.pool
      changed == moved \/ pool2 # server.pool
  IN /\ server.at = "running"
     /\ lan_ip' = net
     /\ tick' = (tick + 1) % REDETECT_TICKS
     /\ udpOffOn' = IF moved THEN {} ELSE udpOffOn
     /\ server' = [server EXCEPT !.pool = pool2]
     /\ peersOn' = IF changed THEN {} ELSE peersOn
     /\ UNCHANGED <<tomls, upstreamConf, net, scm, unseen, moves, toggles, starts>>

(* Every 60th tick probe_udp clears the breaker if the root answers. *)
UdpProbed ==
  /\ server.at = "running" /\ tick = 0 /\ udpOffOn # {}
  /\ udpOffOn' = {}
  /\ UNCHANGED <<tomls, upstreamConf, net, server, lan_ip, peersOn, tick, scm, unseen, moves, toggles, starts>>

(* Between ticks: the host moves, a peer announces itself, UDP fails. *)
Move(n) ==
  /\ moves < MaxMoves /\ n # net
  /\ net' = n /\ moves' = moves + 1
  /\ unseen' = IF net = lan_ip THEN unseen ELSE unseen \cup {net}
  /\ UNCHANGED <<tomls, upstreamConf, server, lan_ip, peersOn, udpOffOn, tick, scm, toggles, starts>>

PeerHeard ==
  /\ server.at = "running" /\ peersOn' = peersOn \cup {net}
  /\ UNCHANGED <<tomls, upstreamConf, net, server, lan_ip, udpOffOn, tick, scm, unseen, moves, toggles, starts>>

UdpTripped ==
  /\ server.at = "running" /\ udpOffOn' = udpOffOn \cup {net}
  /\ UNCHANGED <<tomls, upstreamConf, net, server, lan_ip, peersOn, tick, scm, unseen, moves, toggles, starts>>

BootNext ==
  \/ \E p \in TomlPaths, s \in Toggles, v \in BOOLEAN : set_config_bool(p, s, v)
  \/ \E b \in BOOLEAN : Launch(b)
  \/ \E r \in BOOLEAN, probe \in BOOLEAN : RunServer(r, probe)
  \/ ServerEnds \/ ProcessExits \/ ServiceStop \/ WatchTick \/ UdpProbed \/ PeerHeard \/ UdpTripped
  \/ \E n \in Nets : Move(n)

BootSpec == BootInit /\ [][BootNext]_bootVars

(* The loop's interval keeps ticking and run_service keeps polling. *)
BootFairness == WF_bootVars(WatchTick) /\ WF_bootVars(ProcessExits)

-----------------------------------------------------------------------------
(* A toggle changes the one setting and no other, and leaves a file that
   loads if it loaded before (src/src/main.rs, update_config_content). *)
ToggleChangesOne ==
  [][\A p \in TomlPaths :
       LET old == IF tomls[p] = NoFile THEN <<>> ELSE tomls[p]
           new == tomls'[p]
           own == {s \in Toggles : ValueOf(old, s) # ValueOf(new, s)}
       IN new # tomls[p] /\ Parses(old) =>
            /\ Parses(new)
            /\ Cardinality(own) <= 1
            /\ \A s \in {old[i].of : i \in {j \in DOMAIN old : old[j].is = "header"}} \ own :
                 ValueOf(new, s) = ValueOf(old, s)]_bootVars

(* Upstreams that the user chose are never replaced while the server runs:
   the watch loop touches detected ones only, and strict ODoH has no other
   way out (src/src/serve.rs, resolve_upstream_pool and network_watch_loop). *)
KeepsChosenUpstreams ==
  server.at = "running" =>
    /\ upstreamConf.mode \in {"forward", "odoh"} /\ upstreamConf.address # <<>> =>
         server.pool.primary = upstreamConf.address
    /\ upstreamConf.mode = "odoh" /\ upstreamConf.strict => server.pool.fallback = <<>>

(* Once the watch loop has seen the network, nothing learned elsewhere is
   left, neither peers nor a tripped UDP breaker, except from a network that
   the host entered and left between two ticks (src/src/serve.rs,
   network_watch_loop). *)
NothingFromElsewhere ==
  server.at = "running" /\ lan_ip = net => peersOn \cup udpOffOn \subseteq {net} \cup unseen

(* The watch loop replaces what it must and nothing else: upstreams that the
   user chose stay, strict ODoH has no other way out, and once the loop has
   seen a network nothing learned elsewhere is left, neither peers nor a
   tripped UDP breaker, except from a network that the host entered and left
   between two ticks (src/src/serve.rs, resolve_upstream_pool and
   network_watch_loop). *)
WatchKeepsApart == KeepsChosenUpstreams /\ NothingFromElsewhere

(* However the host moves, a detected upstream is in the end the one of the
   network it stays on (src/src/serve.rs, network_watch_loop). *)
FollowsNetwork ==
  <>[](server.at = "running" /\ server.auto =>
         server.pool.primary = <<Udp(IF Discovered = NoAddr THEN QUAD9_IP ELSE Discovered)>>)

(* A server that ended does not stay "Running" for the control manager
   (src/src/windows_service.rs, run_service). *)
StatusFollowsServer == (scm = "running" /\ server.at = "ended") ~> scm = "stopped"
=============================================================================
