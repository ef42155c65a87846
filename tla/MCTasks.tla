------------------------------ MODULE MCTasks -------------------------------
(***************************************************************************)
(* TLC instance of the tasks that wait for each other or for the network:   *)
(* equal queries that are coalesced (Inflight, three tasks, so that a       *)
(* cancelled leader, its follower and the next leader of one key coexist),  *)
(* the lists and their refresh (Blocking), the process with its network     *)
(* watch and its configuration file (Startup) and the developer's server    *)
(* (NumaDev).  The initial state chooses which of them runs; the others     *)
(* rest in an initial state in which none of their fair actions is enabled. *)
(***************************************************************************)
EXTENDS Inflight, Blocking, Startup, NumaDev

VARIABLE part

tasksVars == <<part, vars, blockVars, bootVars, devVars>>

-----------------------------------------------------------------------------
(* A name and a name below it; a list with a name that is not a domain. *)
Ads == <<"ads", "com">>
SubAds == <<"a", "ads", "com">>
BothNames == {Ads, SubAds}
ListLines(s) == {[kind |-> "hosts", names |-> {Ads, <<"localhost">>}],
                 [kind |-> "comment", names |-> {<<"x", "y">>}]}
AllowConfigs == {[allowlist |-> {}, rebind |-> {}], [allowlist |-> {SubAds}, rebind |-> {SubAds}]}

-----------------------------------------------------------------------------
(* Every mode, with and without a chosen address; three networks, on one of
   which nothing is detected. *)
At(kind, a) == [kind |-> kind, at |-> a]
Section(m, addr, fallback, strict) ==
  [mode |-> m, address |-> addr, fallback |-> fallback, strict |-> strict]
OdohSection(strict) == Section("odoh", <<At("Odoh", "relay")>>, <<At("Udp", "isp")>>, strict)
UpstreamSections ==
  {Section("auto", <<>>, <<>>, TRUE), Section("recursive", <<>>, <<>>, TRUE),
   Section("forward", <<>>, <<>>, TRUE),
   Section("forward", <<At("Udp", "isp")>>, <<At("Tcp", "isp")>>, TRUE),
   OdohSection(TRUE), OdohSection(FALSE)}
DetectedOn(n) == CASE n = "home" -> "router" [] n = "work" -> "isp" [] OTHER -> "nothing"
Address == {"isp", "router", "quad9", "quad9url", "relay"}

(* A file that loads, and one in which a key is twice. *)
PlainFiles == {[p \in {"config_dir"} |-> <<Header("lan"), Enabled(TRUE)>>],
               [p \in {"given"} |-> <<Enabled(TRUE), Enabled(TRUE)>>]}

-----------------------------------------------------------------------------
(* Files with a duplicate name, a bad line and a wildcard;
   questions that are found, not found, cut off or loop. *)
Domain(l, c) == [labels |-> l, caps |-> c]
Hosts(ip, ns) == [kind |-> "hosts", ip |-> ip, names |-> ns]
FirstLine == Hosts("1", <<Domain(<<"a">>, FALSE)>>)
SecondLine == Hosts("2", <<Domain(<<"a">>, TRUE), Domain(<<"b">>, FALSE)>>)
DomainFiles ==
  {<<FirstLine, SecondLine>>, <<SecondLine, [kind |-> "bad"], FirstLine>>,
   <<[kind |-> "blank"], Hosts("1", <<Domain(<<"*", "a">>, FALSE)>>)>>}
Label(t) == [kind |-> "label", text |-> t]
Root == [kind |-> "end"]
Pointer(k) == [kind |-> "pointer", to |-> k]
Type(t) == [kind |-> "type", type |-> t]
Ask(n, cells) == [qdcount |-> n, cells |-> cells]
DevMessages ==
  {Ask(1, <<Label("a"), Root, Type("A")>>), Ask(1, <<Label("b"), Root, Type("AAAA")>>),
   Ask(0, <<Root, Type("A")>>), Ask(1, <<Label("a"), Pointer(1)>>), Ask(1, <<Label("a"), Root>>)}

-----------------------------------------------------------------------------
TasksInit ==
  /\ part \in {"coalescing", "lists", "watch", "dev"}
  /\ Init
  /\ part # "coalescing" => \A t \in Tasks : key[t] = CHOOSE k \in QKeys : TRUE
  /\ ListsInit
  /\ BootInit
  /\ part # "watch" =>
       net = "home" /\ upstreamConf.mode = "auto" /\ tomls["given"] = NoFile
  /\ DevInit
  /\ part # "dev" => devFile = <<FirstLine, SecondLine>>

TasksNext ==
  /\ UNCHANGED part
  /\ \/ /\ part = "coalescing" /\ Next
        /\ UNCHANGED <<blockVars, bootVars, devVars>>
     \/ /\ part = "lists" /\ ListsNext
        /\ UNCHANGED <<vars, bootVars, devVars>>
     \/ /\ part = "watch" /\ BootNext
        /\ UNCHANGED <<vars, blockVars, devVars>>
     \/ /\ part = "dev" /\ DevNext
        /\ UNCHANGED <<vars, blockVars, bootVars>>

(* The fairness of each part is over its own steps; the reloader of the
   developer's server is the only fair task that is ready at the start. *)
TasksFairness ==
  /\ Fairness /\ ListsFairness /\ BootFairness
  /\ WF_devVars(part = "dev" /\ ReadFile) /\ WF_devVars(Reload) /\ WF_devVars(WriteLine)

TasksSpec == TasksInit /\ [][TasksNext]_tasksVars /\ TasksFairness

-----------------------------------------------------------------------------
(* Whatever fails or is cancelled, what was begun comes to its end, and what
   follows something outside catches up with it: every coalesced call returns
   although its leader is cancelled (src/src/ctx.rs, resolve_coalesced); every
   list refresh ends with its retries used up (src/src/blocklist.rs,
   fetch_with_retry_delays); a detected upstream is in the end the one of the
   network the host stays on (src/src/serve.rs, network_watch_loop); a server
   that ended does not stay "Running" for the control manager
   (src/src/windows_service.rs, run_service); and numa-dev ends up answering
   from the file as it was saved last, whatever errors its reloader met on
   the way (src/src/bin/numa-dev.rs). *)
TasksEnd ==
  EveryCallReturns /\ RefreshEnds /\ FollowsNetwork /\ StatusFollowsServer /\ CatchesUp
=============================================================================
