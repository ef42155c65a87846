----------------------------- MODULE HostProofs -----------------------------
(***************************************************************************)
(* The host numa runs on: the UDP breaker of its sockets, the network's    *)
(* own DNS settings that it takes over and gives back, the services, peers *)
(* and certificate of its proxy, its start and network watch, the toggles  *)
(* of its configuration file, and the developer tool.                      *)
(*                                                                         *)
(* UDP breaker: TripsAtThreshold speaks of states at rest, so it is        *)
(* strengthened to all states: outside a reset, a counter past the         *)
(* threshold means UDP is disabled or some call is about to disable it.    *)
(*                                                                         *)
(* System DNS: SysInv says what every script that may be under way still   *)
(* needs from the host, so that it can be cut off after any of its steps.  *)
(*                                                                         *)
(* Services: Certified says what a task has collected while it ran alone;  *)
(* the certificate is complete unless such a task has still to renew it.   *)
(*                                                                         *)
(* Startup: BootInv ties what a server has learned to the networks it has  *)
(* been on.  Toggles: FilesOK types the files, and OneChange says what an  *)
(* edit that keeps all lines but one does to every section.                *)
(*                                                                         *)
(* Developer tool: DevInv says that whatever is published, read by a worker*)
(* or about to be published is a version of the file.                      *)
(***************************************************************************)
EXTENDS UdpBreaker, SystemDns, Services, Startup, NumaDev, FiniteSetTheorems, WellFoundedInduction,
        TLAPS

-----------------------------------------------------------------------------
(* The UDP breaker (src/src/recursive.rs). *)

(* Call t has seen enough failures and has not stored the flag yet. *)
WillTrip(t) ==
  \/ at[t] = "check" /\ fails[t] >= UDP_FAIL_THRESHOLD
  \/ at[t] = "trip"

TripPending ==
  watch # "clearing" /\ UDP_FAILURES >= UDP_FAIL_THRESHOLD =>
    UDP_DISABLED \/ \E t \in Tasks : WillTrip(t)

BInv == TypeOK /\ TripPending

(* Both atomics start clear. *)
LEMMA BInvInit == Init => BInv
<1> SUFFICES ASSUME Init PROVE BInv
  OBVIOUS
<1>1. UDP_DISABLED \in BOOLEAN
  BY Zenon DEF Init
<1>2. /\ UDP_FAILURES \in 0..CounterMod - 1
      /\ at \in [Tasks -> PC] /\ fails \in [Tasks -> 0..CounterMod - 1]
      /\ watch \in {"idle", "probing", "clearing"}
  BY BreakerConstants DEF Init, PC
<1>3. TripPending
  BY BreakerConstants DEF Init, TripPending
<1> QED BY <1>1, <1>2, <1>3 DEF BInv, TypeOK

(* The types are preserved by every step. *)
LEMMA TypeStep == ASSUME TypeOK, [Next]_vars PROVE TypeOK'
<1> USE BreakerConstants DEF TypeOK, PC
<1>1. ASSUME NEW t \in Tasks, NEW ipv6 \in BOOLEAN, Start(t, ipv6) PROVE TypeOK'
  BY <1>1 DEF Start, Goto
<1>2. ASSUME NEW t \in Tasks, UdpAnswer(t) PROVE TypeOK'
  BY <1>2 DEF UdpAnswer, Goto
<1>3. ASSUME NEW t \in Tasks, UdpTruncated(t) PROVE TypeOK'
  BY <1>3 DEF UdpTruncated, Goto
<1>4. ASSUME NEW t \in Tasks, UdpError(t) PROVE TypeOK'
  <2>1. (UDP_FAILURES + 1) % CounterMod \in 0..CounterMod - 1
    OBVIOUS
  <2> QED BY <1>4, <2>1 DEF UdpError, Goto
<1>5. ASSUME NEW t \in Tasks, Check(t) PROVE TypeOK'
  BY <1>5 DEF Check, Goto
<1>6. ASSUME NEW t \in Tasks, Trip(t) PROVE TypeOK'
  BY <1>6 DEF Trip, Goto
<1>7. ASSUME NEW t \in Tasks, TcpDone(t) PROVE TypeOK'
  BY <1>7 DEF TcpDone, Goto
<1>8. CASE LanIpChanged \/ ProbeOk
  <2>1. ResetFlag
    BY <1>8 DEF LanIpChanged, ProbeOk
  <2>2. UDP_DISABLED' \in BOOLEAN
    BY <2>1, Zenon DEF ResetFlag
  <2> QED BY <2>1, <2>2 DEF ResetFlag
<1>9. CASE ProbeStart \/ ProbeFails \/ ResetCounter
  BY <1>9 DEF ProbeStart, ProbeFails, ResetCounter
<1>10. CASE UNCHANGED vars
  BY <1>10 DEF vars
<1> QED BY <1>1, <1>2, <1>3, <1>4, <1>5, <1>6, <1>7, <1>8, <1>9, <1>10 DEF Next

(* No step lets a counter past the threshold go unnoticed. *)
LEMMA TripPendingStep == ASSUME BInv, [Next]_vars PROVE TripPending'
<1> USE BreakerConstants DEF BInv, TypeOK, TripPending, WillTrip, PC
<1>1. ASSUME NEW t \in Tasks, NEW ipv6 \in BOOLEAN, Start(t, ipv6) PROVE TripPending'
  BY <1>1 DEF Start, Goto
<1>2. ASSUME NEW t \in Tasks, UdpAnswer(t) PROVE TripPending'
  BY <1>2 DEF UdpAnswer, Goto
<1>3. ASSUME NEW t \in Tasks, UdpTruncated(t) PROVE TripPending'
  BY <1>3 DEF UdpTruncated, Goto
<1>4. ASSUME NEW t \in Tasks, UdpError(t) PROVE TripPending'
  <2>1. fails'[t] = UDP_FAILURES' /\ at'[t] = "check"
    BY <1>4 DEF UdpError, Goto
  <2> QED BY <2>1
<1>5. ASSUME NEW t \in Tasks, Check(t) PROVE TripPending'
  <2>1. CASE UDP_DISABLED
    BY <1>5, <2>1 DEF Check, Goto
  <2>2. CASE ~UDP_DISABLED /\ fails[t] >= UDP_FAIL_THRESHOLD
    BY <1>5, <2>2 DEF Check, Goto
  <2>3. CASE ~(fails[t] >= UDP_FAIL_THRESHOLD)
    BY <1>5, <2>3 DEF Check, Goto
  <2> QED BY <2>1, <2>2, <2>3
<1>6. ASSUME NEW t \in Tasks, Trip(t) PROVE TripPending'
  BY <1>6 DEF Trip, Goto
<1>7. ASSUME NEW t \in Tasks, TcpDone(t) PROVE TripPending'
  BY <1>7 DEF TcpDone, Goto
<1>8. CASE LanIpChanged \/ ProbeOk
  BY <1>8 DEF LanIpChanged, ProbeOk, ResetFlag
<1>9. CASE ResetCounter
  BY <1>9 DEF ResetCounter
<1>10. CASE ProbeStart \/ ProbeFails
  BY <1>10 DEF ProbeStart, ProbeFails
<1>11. CASE UNCHANGED vars
  BY <1>11 DEF vars
<1> QED
  BY <1>1, <1>2, <1>3, <1>4, <1>5, <1>6, <1>7, <1>8, <1>9, <1>10, <1>11 DEF Next

LEMMA BInvHolds == Spec => []BInv
<1>1. BInv /\ [Next]_vars => BInv'
  BY TypeStep, TripPendingStep DEF BInv
<1> QED BY BInvInit, <1>1, PTL DEF Spec

(* Whatever the number of calls, the threshold and the interleaving of their
   atomic accesses with resets, UDP is disabled at rest once the counter has
   reached the threshold. *)
THEOREM TripsAtThresholdThm == Spec => []TripsAtThreshold
<1>1. BInv => TripsAtThreshold
  BY DEF BInv, TripPending, WillTrip, TripsAtThreshold
<1> QED BY <1>1, BInvHolds, PTL

-----------------------------------------------------------------------------
(* The DNS settings of the host (src/src/system_dns.rs). *)

Setting == {"isp", "dhcp", "stub", "numa", "torn"}

(* The interfaces whose servers numa must be able to give back. *)
Owed == {i \in Interfaces(os) \ (drifted \cup excused) : hadReal[i]}
InPlace == \A i \in Owed : Real(host.dns[i])

(* The states a host can be in. *)
Host(o) ==
  [dns : [Interfaces(o) -> Setting], backup : [Interfaces(o) -> Setting] \cup {NoBackup},
   dropin : BOOLEAN, exe : BOOLEAN, unit : BOOLEAN, running : BOOLEAN, nrpt : Nat,
   legacy : BOOLEAN, trusted : BOOLEAN, config : BOOLEAN]

HostType ==
  /\ os \in {"linux", "macos", "windows"}
  /\ resolved \in BOOLEAN /\ (resolved => os = "linux")
  /\ hadReal \in [Interfaces(os) -> BOOLEAN]
  /\ host \in Host(os)

(* A backup holds what is owed; without one, or with a drop-in instead, it is
   still in place.  A host with the settings of an old version, and one whose
   resolver service came or went under numa, is owed nothing. *)
Safe ==
  /\ host.backup # NoBackup => \A i \in Owed : Real(host.backup[i])
  /\ host.backup = NoBackup => InPlace
  /\ host.legacy => Owed = {}
  /\ os = "linux" /\ host.dropin => InPlace
  /\ resolved /\ host.backup # NoBackup => Owed = {}
  /\ os = "linux" /\ host.dropin /\ ~resolved => Owed = {}
  /\ os = "windows" => host.backup = NoBackup /\ ~host.dropin
  /\ os # "windows" => host.nrpt = 0 /\ ~host.legacy

-----------------------------------------------------------------------------
(* Scripts *)

(* The steps of each system, and where an error may lead. *)
Common == {"unit", "remove unit", "start", "stop", "trust", "untrust"}
StepsOf(o) ==
  IF o = "linux" THEN Common \cup {"binary", "enable", "backup", "redirect", "restore", "config"}
  ELSE IF o = "macos"
  THEN Common \cup {"ready", "backup", "redirect each", "drop-in", "remove drop-in",
                    "read backup", "restore each", "remove backup", "config"}
  ELSE Common \cup {"binary", "remove binary", "unwind", "nrpt remove", "nrpt add"}

Targets == {"next", "return", "start", "config", "stop"}
Steps(o) == [do : StepsOf(o), onError : Targets]

(* Steps that may only come after another one succeeded. *)
Careful == {"redirect", "redirect each", "restore each", "remove backup", "nrpt add"}
Plain(o) == {a \in Steps(o) : a.do \notin Careful}
Needs(d) == IF d \in {"redirect", "redirect each"} THEN "backup"
            ELSE IF d = "restore each" THEN "read backup"
            ELSE IF d = "remove backup" THEN "restore each" ELSE "nrpt remove"

Fits(s, t) == t.do \in Careful => s.do = Needs(t.do) /\ s.onError # "next"

(* Scripts that keep to this from their second step on, and from the first. *)
ScriptOK(o, s) == s \in Seq(Steps(o)) /\ \A k \in 1..Len(s) - 1 : Fits(s[k], s[k + 1])
Begins(s) == s # <<>> => s[1].do \notin Careful
Runnable(o, s) == ScriptOK(o, s) /\ Begins(s)

(* s is what is left of t. *)
SuffixOf(s, t) ==
  Len(s) <= Len(t) /\ \A k \in 1..Len(s) : s[k] = t[Len(t) - Len(s) + k]

(* The command under way. *)
CmdOK ==
  cmd = NoCmd \/
  /\ cmd \in [name : {"install", "uninstall", "restart", "stop"}, script : Seq(Steps(os)),
              todo : SUBSET Interfaces(os), failed : SUBSET StepsOf(os)]
  /\ cmd.script # <<>> /\ ScriptOK(os, cmd.script)
  /\ AtStep.do \notin Each => cmd.todo = {}

(* What the step that is next relies on. *)
Ready ==
  cmd # NoCmd =>
    /\ AtStep.do \in {"redirect", "redirect each"} =>
         resolved \/ host.backup # NoBackup \/ Owed = {}
    /\ AtStep.do = "restore each" =>
         cmd.todo \subseteq DOMAIN host.backup /\ \A i \in Owed \ cmd.todo : Real(host.dns[i])
    /\ AtStep.do = "remove backup" => InPlace
    /\ AtStep.do = "nrpt add" => host.nrpt = 0

(* How far an uninstallation without an error has come when n steps are
   left. *)
Progress(n) ==
  /\ os = "linux" => /\ n <= 3 => ~host.trusted
                     /\ n <= 2 => ~host.dropin /\ InPlace
                     /\ n <= 1 => ~host.running
  /\ os = "macos" => /\ n <= 6 => ~host.trusted
                     /\ n <= 5 => ~host.dropin
                     /\ n <= 2 => host.backup = NoBackup
                     /\ n <= 1 => ~host.running
  /\ os = "windows" => /\ n <= 5 => ~host.trusted
                       /\ n <= 4 => ~host.running
                       /\ n <= 1 => host.nrpt = 0

(* An uninstallation is where its script is. *)
Undone ==
  cmd.name = "uninstall" => /\ SuffixOf(cmd.script, uninstall_service)
                            /\ cmd.failed = {} => Progress(Len(cmd.script))

(* The inductive invariant. *)
SysInv == HostType /\ Safe /\ OneNrptRule /\ CmdOK /\ Ready /\ Undone

-----------------------------------------------------------------------------
(* Two scripts in a row are one, when the second begins with a plain step. *)
LEMMA ScriptConcat ==
  ASSUME NEW o, NEW s, NEW t, ScriptOK(o, s), ScriptOK(o, t), Begins(t)
  PROVE  ScriptOK(o, s \o t)
<1>1. s \in Seq(Steps(o)) /\ t \in Seq(Steps(o))
  BY DEF ScriptOK
<1>2. /\ s \o t \in Seq(Steps(o)) /\ Len(s \o t) = Len(s) + Len(t)
      /\ Len(s) \in Nat /\ Len(t) \in Nat
      /\ \A k \in 1..Len(s) + Len(t) : (s \o t)[k] = IF k <= Len(s) THEN s[k] ELSE t[k - Len(s)]
  BY <1>1
<1>4. ASSUME NEW k \in 1..Len(s \o t) - 1 PROVE Fits((s \o t)[k], (s \o t)[k + 1])
  <2>1. CASE k < Len(s)
    BY <1>2, <2>1 DEF ScriptOK
  <2>2. CASE k = Len(s)
    <3>1. (s \o t)[k + 1] = t[1] /\ t # <<>>
      BY <1>1, <1>2, <2>2
    <3> QED BY <3>1 DEF Begins, Fits
  <2>3. CASE k > Len(s)
    <3>1. k - Len(s) \in 1..Len(t) - 1
      BY <1>2, <2>3
    <3>2. (s \o t)[k] = t[k - Len(s)] /\ (s \o t)[k + 1] = t[(k - Len(s)) + 1]
      BY <1>2, <2>3
    <3> QED BY <3>1, <3>2 DEF ScriptOK
  <2> QED BY <2>1, <2>2, <2>3, <1>2
<1> QED BY <1>2, <1>4 DEF ScriptOK

(* Scripts of one to five steps. *)
LEMMA Script1 ==
  ASSUME NEW o, NEW a \in Steps(o)
  PROVE  ScriptOK(o, <<a>>)
<1> DEFINE s == <<a>>
<1>1. s \in Seq(Steps(o)) /\ Len(s) = 1 /\ s[1] = a
  OBVIOUS
<1> HIDE DEF s
<1>3. \A k \in 1..Len(s) - 1 : Fits(s[k], s[k + 1])
  BY <1>1
<1>4. ScriptOK(o, s)
  BY <1>1, <1>3 DEF ScriptOK
<1> QED BY <1>4 DEF s

LEMMA Script2 ==
  ASSUME NEW o, NEW a \in Steps(o), NEW b \in Steps(o),
         Fits(a, b)
  PROVE  ScriptOK(o, <<a, b>>)
<1> DEFINE s == <<a, b>>
<1>1. s \in Seq(Steps(o)) /\ Len(s) = 2 /\ s[1] = a /\ s[2] = b
  OBVIOUS
<1> HIDE DEF s
<1>3. \A k \in 1..Len(s) - 1 : Fits(s[k], s[k + 1])
  BY <1>1
<1>4. ScriptOK(o, s)
  BY <1>1, <1>3 DEF ScriptOK
<1> QED BY <1>4 DEF s

LEMMA Script3 ==
  ASSUME NEW o, NEW a \in Steps(o), NEW b \in Steps(o), NEW c \in Steps(o),
         Fits(a, b), Fits(b, c)
  PROVE  ScriptOK(o, <<a, b, c>>)
<1> DEFINE s == <<a, b, c>>
<1>1. s \in Seq(Steps(o)) /\ Len(s) = 3 /\ s[1] = a /\ s[2] = b /\ s[3] = c
  OBVIOUS
<1> HIDE DEF s
<1>3. \A k \in 1..Len(s) - 1 : Fits(s[k], s[k + 1])
  BY <1>1
<1>4. ScriptOK(o, s)
  BY <1>1, <1>3 DEF ScriptOK
<1> QED BY <1>4 DEF s

LEMMA Script4 ==
  ASSUME NEW o, NEW a \in Steps(o), NEW b \in Steps(o), NEW c \in Steps(o), NEW d \in Steps(o),
         Fits(a, b), Fits(b, c), Fits(c, d)
  PROVE  ScriptOK(o, <<a, b, c, d>>)
<1> DEFINE s == <<a, b, c, d>>
<1>1. s \in Seq(Steps(o)) /\ Len(s) = 4 /\ s[1] = a /\ s[2] = b /\ s[3] = c /\ s[4] = d
  OBVIOUS
<1> HIDE DEF s
<1>3. \A k \in 1..Len(s) - 1 : Fits(s[k], s[k + 1])
  BY <1>1
<1>4. ScriptOK(o, s)
  BY <1>1, <1>3 DEF ScriptOK
<1> QED BY <1>4 DEF s

LEMMA Script5 ==
  ASSUME NEW o, NEW a \in Steps(o), NEW b \in Steps(o), NEW c \in Steps(o), NEW d \in Steps(o),
         NEW e \in Steps(o),
         Fits(a, b), Fits(b, c), Fits(c, d), Fits(d, e)
  PROVE  ScriptOK(o, <<a, b, c, d, e>>)
<1> DEFINE s == <<a, b, c, d, e>>
<1>1. s \in Seq(Steps(o)) /\ Len(s) = 5 /\ s[1] = a /\ s[2] = b /\ s[3] = c /\ s[4] = d /\ s[5] = e
  OBVIOUS
<1> HIDE DEF s
<1>3. \A k \in 1..Len(s) - 1 : Fits(s[k], s[k + 1])
  BY <1>1
<1>4. ScriptOK(o, s)
  BY <1>1, <1>3 DEF ScriptOK
<1> QED BY <1>4 DEF s

(* A step is well formed in itself, and follows any other unless it is one of
   the careful ones. *)
LEMMA StepFacts ==
  /\ \A o, d, e : d \in StepsOf(o) /\ e \in Targets => CmdStep(d, e) \in Steps(o)
  /\ \A s, d, e : d \notin Careful => Fits(s, CmdStep(d, e))
  /\ \A d, e : CmdStep(d, e).do = d /\ CmdStep(d, e).onError = e
<1>1. \A d, e : CmdStep(d, e).do = d /\ CmdStep(d, e).onError = e
  BY DEF CmdStep
<1>2. \A o, d, e : d \in StepsOf(o) /\ e \in Targets => CmdStep(d, e) \in Steps(o)
  BY DEF CmdStep, Steps
<1>3. \A s, d, e : d \notin Careful => Fits(s, CmdStep(d, e))
  BY <1>1 DEF Fits
<1> QED BY <1>1, <1>2, <1>3

(* The steps that may follow any other. *)
LEMMA PlainSteps ==
  /\ \A d \in {"backup", "restore", "stop", "remove unit", "binary", "unit", "enable", "start",
     "config", "trust", "untrust"},
        e \in Targets : CmdStep(d, e) \in Plain("linux")
  /\ \A d \in {"backup", "drop-in", "remove drop-in", "read backup", "unit", "stop", "start",
     "ready", "config", "trust", "remove unit", "untrust"},
        e \in Targets : CmdStep(d, e) \in Plain("macos")
  /\ \A d \in {"stop", "remove unit", "remove binary", "nrpt remove", "unwind", "binary", "unit",
     "start", "trust", "untrust"},
        e \in Targets : CmdStep(d, e) \in Plain("windows")
<1>1. {"backup", "restore", "stop", "remove unit", "binary", "unit", "enable", "start", "config",
      "trust", "untrust"}
      \subseteq StepsOf("linux") \ Careful
  BY DEF StepsOf, Common, Careful
<1>2. {"backup", "drop-in", "remove drop-in", "read backup", "unit", "stop", "start", "ready",
      "config", "trust", "remove unit", "untrust"}
      \subseteq StepsOf("macos") \ Careful
  BY DEF StepsOf, Common, Careful
<1>3. {"stop", "remove unit", "remove binary", "nrpt remove", "unwind", "binary", "unit", "start",
      "trust", "untrust"}
      \subseteq StepsOf("windows") \ Careful
  BY DEF StepsOf, Common, Careful
<1>4. \A o, d, e : d \in StepsOf(o) \ Careful /\ e \in Targets => CmdStep(d, e) \in Plain(o)
  BY StepFacts DEF Plain
<1> QED BY <1>1, <1>2, <1>3, <1>4

(* Plain steps need no step before them. *)
LEMMA Plain1 ==
  ASSUME NEW o, NEW a \in Plain(o)
  PROVE  Runnable(o, <<a>>)
BY Script1 DEF Plain, Fits, Runnable, Begins

LEMMA Plain2 ==
  ASSUME NEW o, NEW a \in Plain(o), NEW b \in Plain(o)
  PROVE  Runnable(o, <<a, b>>)
BY Script2 DEF Plain, Fits, Runnable, Begins

LEMMA Plain3 ==
  ASSUME NEW o, NEW a \in Plain(o), NEW b \in Plain(o), NEW c \in Plain(o)
  PROVE  Runnable(o, <<a, b, c>>)
BY Script3 DEF Plain, Fits, Runnable, Begins

LEMMA Plain4 ==
  ASSUME NEW o, NEW a \in Plain(o), NEW b \in Plain(o), NEW c \in Plain(o), NEW d \in Plain(o)
  PROVE  Runnable(o, <<a, b, c, d>>)
BY Script4 DEF Plain, Fits, Runnable, Begins

LEMMA Plain5 ==
  ASSUME NEW o, NEW a \in Plain(o), NEW b \in Plain(o), NEW c \in Plain(o), NEW d \in Plain(o),
         NEW e \in Plain(o)
  PROVE  Runnable(o, <<a, b, c, d, e>>)
BY Script5 DEF Plain, Fits, Runnable, Begins

(* The pieces that have plain steps only. *)
LEMMA PlainPieces ==
  /\ Runnable("linux", uninstall_service_linux)
  /\ Runnable("windows", uninstall_windows)
  /\ Runnable("linux", <<CmdStep("binary", "return"), CmdStep("unit", "return"), CmdStep("enable",
     "return")>>)
  /\ Runnable("linux", <<CmdStep("start", "return")>>)
  /\ Runnable("linux", <<CmdStep("config", "next"), CmdStep("trust", "next")>>)
  /\ Runnable("linux", <<CmdStep("untrust", "next")>>)
  /\ Runnable("macos", <<CmdStep("unit", "return"), CmdStep("stop", "next"), CmdStep("start",
     "return"), CmdStep("ready", "return")>>)
  /\ Runnable("macos", <<CmdStep("config", "next"), CmdStep("trust", "next")>>)
  /\ Runnable("macos", <<CmdStep("stop", "next"), CmdStep("remove unit", "return")>>)
  /\ Runnable("macos", <<CmdStep("untrust", "next")>>)
  /\ Runnable("macos", <<CmdStep("start", "return")>>)
  /\ Runnable("windows", <<CmdStep("stop", "next"), CmdStep("unwind", "next"), CmdStep("binary",
     "return"), CmdStep("unit", "return")>>)
  /\ Runnable("windows", <<CmdStep("start", "next")>>)
  /\ Runnable("windows", <<CmdStep("trust", "next")>>)
  /\ Runnable("windows", <<CmdStep("untrust", "next")>>)
  /\ Runnable("windows", <<CmdStep("start", "return")>>)
  /\ Runnable("windows", <<CmdStep("stop", "return")>>)
  /\ Runnable("windows", <<CmdStep("stop", "next"), CmdStep("start", "return")>>)
<1> USE PlainSteps DEF Targets
<1>1. Runnable("linux", uninstall_service_linux)
  BY Plain3 DEF uninstall_service_linux
<1>2. Runnable("windows", uninstall_windows)
  BY Plain5 DEF uninstall_windows
<1>3. Runnable("linux", <<CmdStep("binary", "return"), CmdStep("unit", "return"), CmdStep("enable",
      "return")>>)
  BY Plain3
<1>4. Runnable("linux", <<CmdStep("start", "return")>>)
  BY Plain1
<1>5. Runnable("linux", <<CmdStep("config", "next"), CmdStep("trust", "next")>>)
  BY Plain2
<1>6. Runnable("linux", <<CmdStep("untrust", "next")>>)
  BY Plain1
<1>7. Runnable("macos", <<CmdStep("unit", "return"), CmdStep("stop", "next"), CmdStep("start",
      "return"), CmdStep("ready", "return")>>)
  BY Plain4
<1>8. Runnable("macos", <<CmdStep("config", "next"), CmdStep("trust", "next")>>)
  BY Plain2
<1>9. Runnable("macos", <<CmdStep("stop", "next"), CmdStep("remove unit", "return")>>)
  BY Plain2
<1>10. Runnable("macos", <<CmdStep("untrust", "next")>>)
  BY Plain1
<1>11. Runnable("macos", <<CmdStep("start", "return")>>)
  BY Plain1
<1>12. Runnable("windows", <<CmdStep("stop", "next"), CmdStep("unwind", "next"), CmdStep("binary",
       "return"), CmdStep("unit", "return")>>)
  BY Plain4
<1>13. Runnable("windows", <<CmdStep("start", "next")>>)
  BY Plain1
<1>14. Runnable("windows", <<CmdStep("trust", "next")>>)
  BY Plain1
<1>15. Runnable("windows", <<CmdStep("untrust", "next")>>)
  BY Plain1
<1>16. Runnable("windows", <<CmdStep("start", "return")>>)
  BY Plain1
<1>17. Runnable("windows", <<CmdStep("stop", "return")>>)
  BY Plain1
<1>18. Runnable("windows", <<CmdStep("stop", "next"), CmdStep("start", "return")>>)
  BY Plain2
<1> QED BY <1>1, <1>2, <1>3, <1>4, <1>5, <1>6, <1>7, <1>8, <1>9, <1>10, <1>11, <1>12, <1>13, <1>14,
           <1>15, <1>16, <1>17, <1>18

(* The pieces in which a step relies on the one before. *)
LEMMA CarefulPieces ==
  /\ Runnable("linux", install_linux)
  /\ Runnable("macos", install_macos)
  /\ Runnable("macos", uninstall_macos)
  /\ Runnable("windows", <<CmdStep("nrpt remove", "return"), CmdStep("nrpt add", "return")>>)
<1>1. Runnable("linux", install_linux)
  <2>1. {"backup", "redirect"} \subseteq StepsOf("linux")
    BY DEF StepsOf, Common
  <2>2. {"backup"} \cap Careful = {}
    BY DEF Careful
  <2>3. /\ Fits(CmdStep("backup", "start"), CmdStep("redirect", "next"))
    BY DEF Fits, Needs, Careful, CmdStep
  <2>4. /\ CmdStep("backup", "start") \in Steps("linux")
        /\ CmdStep("redirect", "next") \in Steps("linux")
    BY <2>1, StepFacts DEF Targets
  <2>5. /\ Fits(CmdStep("backup", "start"), CmdStep("redirect", "next"))
    BY <2>2, <2>3, StepFacts
  <2>6. ScriptOK("linux", install_linux)
    BY <2>4, <2>5, Script2 DEF install_linux
  <2>7. install_linux[1].do = "backup" /\ install_linux # <<>>
    BY StepFacts DEF install_linux
  <2> QED BY <2>2, <2>6, <2>7 DEF Begins, Runnable
<1>2. Runnable("macos", install_macos)
  <2>1. {"backup", "redirect each", "drop-in"} \subseteq StepsOf("macos")
    BY DEF StepsOf, Common
  <2>2. {"backup", "drop-in"} \cap Careful = {}
    BY DEF Careful
  <2>3. /\ Fits(CmdStep("backup", "config"), CmdStep("redirect each", "config"))
    BY DEF Fits, Needs, Careful, CmdStep
  <2>4. /\ CmdStep("backup", "config") \in Steps("macos")
        /\ CmdStep("redirect each", "config") \in Steps("macos")
        /\ CmdStep("drop-in", "next") \in Steps("macos")
    BY <2>1, StepFacts DEF Targets
  <2>5. /\ Fits(CmdStep("backup", "config"), CmdStep("redirect each", "config"))
        /\ Fits(CmdStep("redirect each", "config"), CmdStep("drop-in", "next"))
    BY <2>2, <2>3, StepFacts
  <2>6. ScriptOK("macos", install_macos)
    BY <2>4, <2>5, Script3 DEF install_macos
  <2>7. install_macos[1].do = "backup" /\ install_macos # <<>>
    BY StepFacts DEF install_macos
  <2> QED BY <2>2, <2>6, <2>7 DEF Begins, Runnable
<1>3. Runnable("macos", uninstall_macos)
  <2>1. {"remove drop-in", "read backup", "restore each", "remove backup"} \subseteq StepsOf("macos")
    BY DEF StepsOf, Common
  <2>2. {"remove drop-in", "read backup"} \cap Careful = {}
    BY DEF Careful
  <2>3. /\ Fits(CmdStep("read backup", "stop"), CmdStep("restore each", "stop"))
        /\ Fits(CmdStep("restore each", "stop"), CmdStep("remove backup", "next"))
    BY DEF Fits, Needs, Careful, CmdStep
  <2>4. /\ CmdStep("remove drop-in", "next") \in Steps("macos")
        /\ CmdStep("read backup", "stop") \in Steps("macos")
        /\ CmdStep("restore each", "stop") \in Steps("macos")
        /\ CmdStep("remove backup", "next") \in Steps("macos")
    BY <2>1, StepFacts DEF Targets
  <2>5. /\ Fits(CmdStep("remove drop-in", "next"), CmdStep("read backup", "stop"))
        /\ Fits(CmdStep("read backup", "stop"), CmdStep("restore each", "stop"))
        /\ Fits(CmdStep("restore each", "stop"), CmdStep("remove backup", "next"))
    BY <2>2, <2>3, StepFacts
  <2>6. ScriptOK("macos", uninstall_macos)
    BY <2>4, <2>5, Script4 DEF uninstall_macos
  <2>7. uninstall_macos[1].do = "remove drop-in" /\ uninstall_macos # <<>>
    BY StepFacts DEF uninstall_macos
  <2> QED BY <2>2, <2>6, <2>7 DEF Begins, Runnable
<1>4. Runnable("windows", <<CmdStep("nrpt remove", "return"), CmdStep("nrpt add", "return")>>)
  <2>1. {"nrpt remove", "nrpt add"} \subseteq StepsOf("windows")
    BY DEF StepsOf, Common
  <2>2. {"nrpt remove"} \cap Careful = {}
    BY DEF Careful
  <2>3. /\ Fits(CmdStep("nrpt remove", "return"), CmdStep("nrpt add", "return"))
    BY DEF Fits, Needs, Careful, CmdStep
  <2>4. /\ CmdStep("nrpt remove", "return") \in Steps("windows")
        /\ CmdStep("nrpt add", "return") \in Steps("windows")
    BY <2>1, StepFacts DEF Targets
  <2>5. /\ Fits(CmdStep("nrpt remove", "return"), CmdStep("nrpt add", "return"))
    BY <2>2, <2>3, StepFacts
  <2>6. ScriptOK("windows", <<CmdStep("nrpt remove", "return"), CmdStep("nrpt add", "return")>>)
    BY <2>4, <2>5, Script2
  <2>7. <<CmdStep("nrpt remove", "return"), CmdStep("nrpt add",
        "return")>>[1].do = "nrpt remove" /\ <<CmdStep("nrpt remove", "return"),
        CmdStep("nrpt add", "return")>> # <<>>
    BY StepFacts
  <2> QED BY <2>2, <2>6, <2>7 DEF Begins, Runnable
<1> QED BY <1>1, <1>2, <1>3, <1>4

(* Scripts that may be run are put together. *)
LEMMA RunnableConcat ==
  ASSUME NEW o, NEW s, NEW t, Runnable(o, s), Runnable(o, t)
  PROVE  Runnable(o, s \o t) /\ (s # <<>> => s \o t # <<>>)
<1>1. ScriptOK(o, s \o t)
  BY ScriptConcat DEF Runnable
<1>2. s \in Seq(Steps(o)) /\ t \in Seq(Steps(o))
  BY DEF Runnable, ScriptOK
<1>3. CASE s = <<>>
  BY <1>1, <1>2, <1>3 DEF Runnable
<1>4. CASE s # <<>>
  <2>1. (s \o t)[1] = s[1] /\ s \o t # <<>>
    BY <1>2, <1>4
  <2> QED BY <1>1, <1>4, <2>1 DEF Runnable, Begins
<1> QED BY <1>3, <1>4

LEMMA EmptyScript == \A o : Runnable(o, <<>>)
BY DEF Runnable, ScriptOK, Begins

(* Every command of src/src/system_dns.rs is such a script. *)
LEMMA CommandScripts ==
  ASSUME HostType, NEW c \in Commands
  PROVE  /\ Runnable(os, c.script)
         /\ c.name \in {"install", "uninstall", "restart", "stop"}
         /\ c.name = "uninstall" => c.script = uninstall_service
<1>0. \/ c.name = "install" /\ c.script = install_service(FALSE)
      \/ c.name = "install" /\ c.script = install_service(TRUE)
      \/ c.name = "install" /\ c.script = start_service(FALSE)
      \/ c.name = "uninstall" /\ c.script = uninstall_service
      \/ c.name = (IF os = "windows" THEN "stop" ELSE "uninstall") /\ c.script = stop_service
      \/ c.name = "restart" /\ c.script = restart_service
  <2>1. \/ c = Command("install", install_service(FALSE))
        \/ c = Command("install", install_service(TRUE))
        \/ c = Command("install", start_service(FALSE))
        \/ c = Command("uninstall", uninstall_service)
        \/ c = Command(IF os = "windows" THEN "stop" ELSE "uninstall", stop_service)
        \/ c = Command("restart", restart_service)
    BY Zenon DEF Commands
  <2>2. CASE c = Command("install", install_service(FALSE))
    BY <2>2 DEF Command
  <2>3. CASE c = Command("install", install_service(TRUE))
    BY <2>3 DEF Command
  <2>4. CASE c = Command("install", start_service(FALSE))
    BY <2>4 DEF Command
  <2>5. CASE c = Command("uninstall", uninstall_service)
    BY <2>5 DEF Command
  <2>6. CASE c = Command(IF os = "windows" THEN "stop" ELSE "uninstall", stop_service)
    BY <2>6 DEF Command
  <2>7. CASE c = Command("restart", restart_service)
    BY <2>7 DEF Command
  <2> QED BY <2>1, <2>2, <2>3, <2>4, <2>5, <2>6, <2>7
<1>1. CASE os = "linux"
  <2>1. ASSUME NEW skip \in BOOLEAN PROVE Runnable(os, install_service(skip))
    <3>1. Runnable("linux", IF skip THEN <<>> ELSE install_linux)
      BY CarefulPieces, EmptyScript
    <3> DEFINE first == <<CmdStep("binary", "return"), CmdStep("unit", "return"), CmdStep("enable",
               "return")>>
               then == first \o (IF skip THEN <<>> ELSE install_linux)
    <3>2. Runnable("linux", then)
      BY <3>1, PlainPieces, RunnableConcat
    <3>3. Runnable("linux", then \o <<CmdStep("start", "return")>>)
      BY <3>2, PlainPieces, RunnableConcat
    <3>4. Runnable("linux", install_service_linux(skip))
      BY <3>3 DEF install_service_linux
    <3>5. Runnable("linux", install_service_linux(skip) \o <<CmdStep("config", "next"),
          CmdStep("trust", "next")>>)
      BY <3>4, PlainPieces, RunnableConcat
    <3> QED BY <3>5, <1>1 DEF install_service
  <2>2. Runnable(os, uninstall_service)
    BY <1>1, PlainPieces, RunnableConcat DEF uninstall_service
  <2>3. Runnable(os, restart_service)
    BY <1>1, PlainPieces DEF restart_service
  <2> QED BY <1>0, <1>1, <2>1, <2>2, <2>3 DEF start_service, stop_service
<1>2. CASE os = "macos"
  <2>1. ASSUME NEW skip \in BOOLEAN PROVE Runnable(os, install_service(skip))
    <3>1. Runnable("macos", IF skip THEN <<>> ELSE install_macos)
      BY CarefulPieces, EmptyScript
    <3>2. Runnable("macos", install_service_macos(skip))
      BY <3>1, PlainPieces, RunnableConcat DEF install_service_macos
    <3>3. Runnable("macos", install_service_macos(skip) \o <<CmdStep("config", "next"),
          CmdStep("trust", "next")>>)
      BY <3>2, PlainPieces, RunnableConcat
    <3> QED BY <3>3, <1>2 DEF install_service
  <2>2. Runnable("macos", uninstall_service_macos)
    BY CarefulPieces, PlainPieces, RunnableConcat DEF uninstall_service_macos
  <2>3. Runnable(os, uninstall_service)
    BY <1>2, <2>2, PlainPieces, RunnableConcat DEF uninstall_service
  <2>4. Runnable(os, restart_service)
    BY <1>2, PlainPieces DEF restart_service
  <2> QED BY <1>0, <1>2, <2>1, <2>3, <2>4 DEF start_service, stop_service
<1>3. CASE os = "windows"
  <2>1. ASSUME NEW skip \in BOOLEAN PROVE Runnable(os, install_service(skip))
    <3> DEFINE rule == IF skip THEN <<>> ELSE <<CmdStep("nrpt remove", "return"),
               CmdStep("nrpt add", "return")>>
               first == <<CmdStep("stop", "next"), CmdStep("unwind", "next"), CmdStep("binary", "return"),
                          CmdStep("unit", "return")>>
    <3>1. Runnable("windows", rule)
      BY CarefulPieces, EmptyScript
    <3>2. Runnable("windows", first \o rule)
      BY <3>1, PlainPieces, RunnableConcat
    <3>3. Runnable("windows", (first \o rule) \o <<CmdStep("start", "next")>>)
      BY <3>2, PlainPieces, RunnableConcat
    <3>4. Runnable("windows", install_windows(skip))
      BY <3>3 DEF install_windows
    <3>5. Runnable("windows", install_windows(skip) \o <<CmdStep("trust", "next")>>)
      BY <3>4, PlainPieces, RunnableConcat
    <3> QED BY <3>5, <1>3 DEF install_service
  <2>2. Runnable(os, uninstall_service)
    BY <1>3, PlainPieces, RunnableConcat DEF uninstall_service
  <2>3. Runnable(os, start_service(FALSE)) /\ Runnable(os, stop_service) /\ Runnable(os, restart_service)
    BY <1>3, <2>1, PlainPieces DEF start_service, stop_service, restart_service
  <2> QED BY <1>0, <1>3, <2>1, <2>2, <2>3
<1> QED BY <1>1, <1>2, <1>3 DEF HostType

(* What is left of a script after its first step. *)
LEMMA ScriptTail ==
  ASSUME NEW o, NEW s, ScriptOK(o, s), s # <<>>
  PROVE  ScriptOK(o, Tail(s)) /\ (Tail(s) # <<>> => Fits(s[1], Head(Tail(s))))
<1>1. /\ s \in Seq(Steps(o)) /\ Tail(s) \in Seq(Steps(o)) /\ Len(s) \in Nat \ {0}
      /\ Len(Tail(s)) = Len(s) - 1 /\ \A k \in 1..Len(s) - 1 : Tail(s)[k] = s[k + 1]
      /\ (Tail(s) # <<>> => Len(s) - 1 >= 1 /\ Head(Tail(s)) = s[2])
  BY DEF ScriptOK
<1>3. \A k \in 1..Len(Tail(s)) - 1 : Fits(Tail(s)[k], Tail(s)[k + 1])
  BY <1>1 DEF ScriptOK
<1>4. Tail(s) # <<>> => Fits(s[1], Head(Tail(s)))
  BY <1>1 DEF ScriptOK
<1> QED BY <1>1, <1>3, <1>4 DEF ScriptOK

(* A set of numbers that is not empty has a least one. *)
LEMMA Least ==
  ASSUME NEW T \in SUBSET Nat, T # {}
  PROVE  \E x \in T : \A y \in T : x <= y
<1>1. PICK x \in T : \A y \in T : ~(<<y, x>> \in OpToRel(<, Nat))
  BY NatLessThanWellFounded, WFMin, Zenon
<1>2. \A y \in T : ~(y < x)
  BY <1>1 DEF OpToRel
<1> QED BY <1>2

(* What is left of a script that skips to a later step. *)
LEMMA ScriptFrom ==
  ASSUME NEW o, NEW s, ScriptOK(o, s), NEW d
  PROVE  /\ ScriptOK(o, From(s, d))
         /\ From(s, d) # <<>> => Head(From(s, d)).do = d
         /\ \A t \in Seq(Steps(o)) : SuffixOf(s, t) => SuffixOf(From(s, d), t)
<1> DEFINE found == {k \in DOMAIN s : s[k].do = d}
           m == CHOOSE k \in found : \A j \in found : k <= j
<1>1. s \in Seq(Steps(o)) /\ Len(s) \in Nat /\ DOMAIN s = 1..Len(s)
  BY DEF ScriptOK
<1>2. CASE found = {}
  <2>1. From(s, d) = <<>>
    BY <1>2 DEF From
  <2> QED BY <2>1 DEF ScriptOK, SuffixOf
<1>3. CASE found # {}
  <2>1. \E k \in found : \A j \in found : k <= j
    <3>1. found \in SUBSET Nat
      BY <1>1
    <3> QED BY <1>3, <3>1, Least
  <2>2. m \in found
    BY <2>1
  <2> HIDE DEF m
  <2>3. m \in 1..Len(s) /\ s[m].do = d
    BY <2>2, <1>1
  <2>4. From(s, d) = SubSeq(s, m, Len(s))
    BY <1>3 DEF From, m
  <2> DEFINE r == From(s, d)
  <2>5. /\ r \in Seq(Steps(o)) /\ Len(r) = Len(s) - m + 1
        /\ \A j \in 1..Len(s) - m + 1 : r[j] = s[m + j - 1]
    BY <1>1, <2>3, <2>4
  <2> HIDE DEF r
  <2>7. ASSUME NEW k \in 1..Len(r) - 1 PROVE Fits(r[k], r[k + 1])
    <3>1. /\ m + k - 1 \in 1..Len(s) - 1 /\ m + (k + 1) - 1 = (m + k - 1) + 1
          /\ k \in 1..Len(s) - m + 1 /\ k + 1 \in 1..Len(s) - m + 1
      BY <1>1, <2>3, <2>5
    <3>2. r[k] = s[m + k - 1] /\ r[k + 1] = s[(m + k - 1) + 1]
      BY <2>5, <3>1
    <3> QED BY <3>1, <3>2 DEF ScriptOK
  <2>8. Head(r).do = d
    BY <1>1, <2>3, <2>5
  <2>9. ASSUME NEW t \in Seq(Steps(o)), SuffixOf(s, t) PROVE SuffixOf(r, t)
    <3>1. Len(s) <= Len(t) /\ \A k \in 1..Len(s) : s[k] = t[Len(t) - Len(s) + k]
      BY <2>9 DEF SuffixOf
    <3>2. Len(t) \in Nat /\ Len(r) \in Nat /\ Len(r) <= Len(t)
      BY <1>1, <2>3, <2>5, <3>1
    <3>3. ASSUME NEW k \in 1..Len(r) PROVE r[k] = t[Len(t) - Len(r) + k]
      <4>1. /\ m + k - 1 \in 1..Len(s) /\ r[k] = s[m + k - 1]
            /\ Len(t) - Len(s) + (m + k - 1) = Len(t) - Len(r) + k
        BY <1>1, <2>3, <2>5, <3>2
      <4> QED BY <3>1, <4>1
    <3> QED BY <3>2, <3>3 DEF SuffixOf
  <2> QED BY <2>5, <2>7, <2>8, <2>9 DEF ScriptOK, r
<1> QED BY <1>2, <1>3

-----------------------------------------------------------------------------
(* The state that only commands leave alone. *)
Steady == UNCHANGED <<os, resolved, hadReal, drifted>> /\ excused \subseteq excused'

(* Nothing more is owed while the host is the same. *)
LEMMA OwedShrinks == ASSUME Steady PROVE Owed' \subseteq Owed
BY DEF Steady, Owed

(* The step a command is at is a step of the host. *)
LEMMA AtStepFacts ==
  ASSUME CmdOK, cmd # NoCmd
  PROVE  /\ cmd.script # <<>> /\ cmd.script \in Seq(Steps(os)) /\ ScriptOK(os, cmd.script)
         /\ AtStep = cmd.script[1] /\ AtStep \in Steps(os)
         /\ AtStep.do \in StepsOf(os) /\ AtStep.onError \in Targets
         /\ cmd.name \in {"install", "uninstall", "restart", "stop"}
         /\ cmd.failed \in SUBSET StepsOf(os) /\ cmd.todo \in SUBSET Interfaces(os)
<1>1. /\ cmd.script # <<>> /\ cmd.script \in Seq(Steps(os)) /\ ScriptOK(os, cmd.script)
      /\ cmd.name \in {"install", "uninstall", "restart", "stop"}
      /\ cmd.failed \in SUBSET StepsOf(os) /\ cmd.todo \in SUBSET Interfaces(os)
  BY DEF CmdOK
<1>2. AtStep = cmd.script[1] /\ AtStep \in Steps(os)
  BY <1>1 DEF AtStep
<1> QED BY <1>1, <1>2 DEF Steps

(* A step leaves a host behind. *)
LEMMA EffectType ==
  ASSUME HostType, NEW d \in StepsOf(os), d \notin Each
  PROVE  Effect(d, host) \in Host(os)
<1>1. host \in Host(os) /\ DOMAIN host.dns = Interfaces(os)
  BY DEF HostType, Host
<1>2. Backup(host) \in Host(os)
  <2>1. host.dns \in [Interfaces(os) -> Setting]
    BY <1>1 DEF Host
  <2>2. [i \in DOMAIN host.dns |-> IF is_loopback_or_stub(host.dns[i]) THEN "dhcp" ELSE host.dns[i]]
          \in [Interfaces(os) -> Setting]
    BY <1>1, <2>1 DEF Setting
  <2> QED BY <1>1, <2>1, <2>2 DEF Host, Backup
<1>3. Redirect(host) \in Host(os) /\ unwind_legacy_install_if_present(host) \in Host(os)
  BY <1>1 DEF Host, Redirect, unwind_legacy_install_if_present, Setting
<1>4. uninstall_linux(host) \in Host(os)
  BY <1>1 DEF Host, uninstall_linux, NoBackup
<1>5. remove_nrpt_rule(host) \in Host(os) /\ trust_ca(host) \in Host(os)
      /\ untrust_ca(host) \in Host(os) /\ write_default_config(host) \in Host(os)
  BY <1>1 DEF Host, remove_nrpt_rule, trust_ca, untrust_ca, write_default_config
<1>6. CASE d \in {"backup", "redirect", "restore", "unwind", "nrpt remove", "config", "trust", "untrust"}
  BY <1>2, <1>3, <1>4, <1>5, <1>6 DEF Effect
<1>7. CASE d \in {"binary", "remove binary", "unit", "remove unit", "start", "stop", "drop-in",
                 "remove drop-in", "remove backup", "nrpt add"}
  <2>1. /\ [host EXCEPT !.exe = TRUE] \in Host(os) /\ [host EXCEPT !.exe = FALSE] \in Host(os)
        /\ [host EXCEPT !.unit = TRUE] \in Host(os) /\ [host EXCEPT !.unit = FALSE] \in Host(os)
        /\ [host EXCEPT !.running = TRUE] \in Host(os) /\ [host EXCEPT !.running = FALSE] \in Host(os)
        /\ [host EXCEPT !.dropin = TRUE] \in Host(os) /\ [host EXCEPT !.dropin = FALSE] \in Host(os)
    BY <1>1 DEF Host
  <2>2. /\ [host EXCEPT !.backup = NoBackup] \in Host(os)
        /\ [host EXCEPT !.nrpt = host.nrpt + 1] \in Host(os)
    BY <1>1 DEF Host
  <2> QED BY <1>7, <2>1, <2>2 DEF Effect
<1>8. CASE d \in {"enable", "ready", "read backup"}
  BY <1>1, <1>8 DEF Effect
<1>9. d \in {"backup", "redirect", "restore", "unwind", "nrpt remove", "config", "trust", "untrust",
            "binary", "remove binary", "unit", "remove unit", "start", "stop", "drop-in",
            "remove drop-in", "remove backup", "nrpt add", "enable", "ready", "read backup"}
  BY DEF StepsOf, Common, Each
<1> QED BY <1>6, <1>7, <1>8, <1>9

(* What the invariant says of the host depends on these fields alone. *)
SameSettings(h) ==
  h.dns = host.dns /\ h.backup = host.backup /\ h.dropin = host.dropin /\ h.legacy = host.legacy
  /\ h.nrpt = host.nrpt

(* Steps that leave the settings and the backup alone are safe. *)
LEMMA SafeIfSame ==
  ASSUME SysInv, Steady, SameSettings(host')
  PROVE  Safe' /\ OneNrptRule'
<1>1. Owed' \subseteq Owed
  BY OwedShrinks
<1> QED BY <1>1 DEF SysInv, HostType, Safe, OneNrptRule, SameSettings, InPlace, Steady

(* A step that succeeds keeps the settings recoverable. *)
LEMMA StepDoneHost ==
  ASSUME SysInv, StepDone
  PROVE  HostType' /\ Safe' /\ OneNrptRule'
<1> DEFINE d == AtStep.do
<1>1. /\ cmd # NoCmd /\ d \notin Each /\ host' = Effect(d, host)
      /\ UNCHANGED <<os, resolved, hadReal, drifted, excused>>
  BY DEF StepDone
<1>2. d \in StepsOf(os)
  BY <1>1, AtStepFacts DEF SysInv
<1>3. Steady /\ Owed' = Owed
  BY <1>1 DEF Steady, Owed
<1>4. HostType'
  <2>1. host' \in Host(os)
    BY <1>1, <1>2, EffectType DEF SysInv
  <2> QED BY <1>1, <2>1 DEF SysInv, HostType
<1>5. host \in Host(os) /\ DOMAIN host.dns = Interfaces(os) /\ Owed \subseteq Interfaces(os)
  BY DEF SysInv, HostType, Host, Owed
<1> HIDE DEF d
<1>6. CASE d \in {"binary", "remove binary", "unit", "remove unit", "start", "stop", "config",
                  "trust", "untrust", "enable", "ready", "read backup"}
  <2>1. SameSettings(host')
    BY <1>1, <1>5, <1>6 DEF Effect, Host, SameSettings, write_default_config, trust_ca, untrust_ca
  <2> QED BY <1>3, <1>4, <2>1, SafeIfSame
<1>7. CASE d = "backup"
  <2>1. host' = Backup(host)
    BY <1>1, <1>7 DEF Effect
  <2>2. CASE resolved \/ Useful(host.backup) \/ (os = "linux"
             /\ is_loopback_or_stub(host.dns["resolv.conf"]))
    <3>1. host' = host
      BY <2>1, <2>2 DEF Backup
    <3> QED BY <3>1, <1>3, <1>4, SafeIfSame DEF SameSettings
  <2>3. CASE ~(resolved \/ Useful(host.backup) \/ (os = "linux"
             /\ is_loopback_or_stub(host.dns["resolv.conf"])))
    <3>1. InPlace
      BY <1>5, <2>3 DEF SysInv, Safe, InPlace, Useful, HostType, Host
    <3>2. host' = [host EXCEPT !.backup = host'.backup]
      BY <1>5, <2>1, <2>3 DEF Backup, Host
    <3>3. \A i \in Owed : Real(host'.backup[i])
      BY <1>5, <2>1, <2>3, <3>1 DEF Backup, Host, InPlace, Real, is_loopback_or_stub
    <3>4. os # "windows"
      BY <1>2, <1>7 DEF StepsOf, Common
    <3> QED BY <1>1, <1>3, <1>4, <1>5, <2>3, <3>1, <3>2, <3>3, <3>4 DEF SysInv, Safe, OneNrptRule,
               InPlace, Host
  <2> QED BY <2>2, <2>3
<1>8. CASE d = "redirect"
  <2>1. host' = Redirect(host)
    BY <1>1, <1>8 DEF Effect
  <2>2. os = "linux" /\ (resolved \/ host.backup # NoBackup \/ Owed = {})
    BY <1>1, <1>2, <1>8 DEF SysInv, Ready, d, StepsOf, Common
  <2>3. CASE resolved
    <3>1. host' = [host EXCEPT !.dropin = TRUE]
      BY <2>1, <2>3 DEF Redirect
    <3>2. InPlace
      BY <2>3 DEF SysInv, Safe, InPlace
    <3> QED BY <1>1, <1>3, <1>4, <1>5, <2>2, <2>3, <3>1, <3>2 DEF SysInv, Safe, OneNrptRule, InPlace, Host
  <2>4. CASE ~resolved
    <3>1. host' = [host EXCEPT !.dns = [i \in DOMAIN host.dns |-> "numa"]]
      BY <2>1, <2>4 DEF Redirect
    <3> QED BY <1>1, <1>3, <1>4, <1>5, <2>2, <2>4, <3>1 DEF SysInv, Safe, OneNrptRule, InPlace, Host
  <2> QED BY <2>3, <2>4
<1>9. CASE d = "restore"
  <2>1. host' = uninstall_linux(host)
    BY <1>1, <1>9 DEF Effect
  <2>2. os = "linux"
    BY <1>2, <1>9 DEF StepsOf, Common
  <2>3. CASE host.dropin
    <3>1. host' = [host EXCEPT !.dropin = FALSE]
      BY <2>1, <2>3 DEF uninstall_linux
    <3> QED BY <1>1, <1>3, <1>4, <1>5, <2>2, <3>1 DEF SysInv, Safe, OneNrptRule, InPlace, Host
  <2>4. CASE ~host.dropin /\ host.backup = NoBackup
    <3>1. host' = host
      BY <2>1, <2>4 DEF uninstall_linux
    <3> QED BY <3>1, <1>3, <1>4, SafeIfSame DEF SameSettings
  <2>5. CASE ~host.dropin /\ host.backup # NoBackup
    <3>1. host' = [host EXCEPT !.dns = host.backup, !.backup = NoBackup]
      BY <2>1, <2>5 DEF uninstall_linux
    <3> QED BY <1>1, <1>3, <1>4, <1>5, <2>2, <2>5, <3>1 DEF SysInv, Safe, OneNrptRule, InPlace, Host
  <2> QED BY <2>3, <2>4, <2>5
<1>10. CASE d \in {"drop-in", "remove drop-in"}
  <2>1. host' = [host EXCEPT !.dropin = host'.dropin] /\ os = "macos"
    BY <1>1, <1>2, <1>5, <1>10 DEF Effect, Host, StepsOf, Common
  <2> QED BY <1>1, <1>3, <1>4, <1>5, <2>1 DEF SysInv, Safe, OneNrptRule, InPlace, Host
<1>11. CASE d = "remove backup"
  <2>1. host' = [host EXCEPT !.backup = NoBackup] /\ InPlace
    BY <1>1, <1>11 DEF Effect, SysInv, Ready, d
  <2> QED BY <1>1, <1>3, <1>4, <1>5, <2>1 DEF SysInv, Safe, OneNrptRule, InPlace, Host
<1>12. CASE d = "unwind"
  <2>1. host' = unwind_legacy_install_if_present(host)
    BY <1>1, <1>12 DEF Effect
  <2>2. CASE host.legacy
    <3>1. host' = [host EXCEPT !.dns = [i \in DOMAIN host.dns |-> "dhcp"], !.legacy = FALSE]
      BY <2>1, <2>2 DEF unwind_legacy_install_if_present
    <3> QED BY <1>1, <1>3, <1>4, <1>5, <2>2, <3>1 DEF SysInv, Safe, OneNrptRule, InPlace, Host
  <2>3. CASE ~host.legacy
    <3>1. host' = host
      BY <2>1, <2>3 DEF unwind_legacy_install_if_present
    <3> QED BY <3>1, <1>3, <1>4, SafeIfSame DEF SameSettings
  <2> QED BY <2>2, <2>3
<1>13. CASE d \in {"nrpt remove", "nrpt add"}
  <2>1. host' = [host EXCEPT !.nrpt = host'.nrpt] /\ host'.nrpt \in {0, 1}
    <3>1. CASE d = "nrpt remove"
      BY <1>1, <1>5, <3>1 DEF Effect, Host, remove_nrpt_rule
    <3>2. CASE d = "nrpt add"
      <4>1. host.nrpt = 0
        BY <1>1, <3>2 DEF SysInv, Ready, d
      <4>2. host' = [host EXCEPT !.nrpt = host.nrpt + 1]
        BY <1>1, <3>2 DEF Effect
      <4> QED BY <1>5, <4>1, <4>2 DEF Host
    <3> QED BY <1>13, <3>1, <3>2
  <2>2. os = "windows"
    BY <1>2, <1>13 DEF SysInv, StepsOf, Common, HostType
  <2> QED BY <1>1, <1>3, <1>4, <1>5, <2>1, <2>2 DEF SysInv, Safe, OneNrptRule, InPlace, Host
<1>14. d \in {"backup", "redirect", "restore", "unwind", "nrpt remove", "config", "trust", "untrust",
              "binary", "remove binary", "unit", "remove unit", "start", "stop", "drop-in",
              "remove drop-in", "remove backup", "nrpt add", "enable", "ready", "read backup"}
  BY <1>1, <1>2 DEF StepsOf, Common, Each
<1> QED BY <1>6, <1>7, <1>8, <1>9, <1>10, <1>11, <1>12, <1>13, <1>14

(* A step that fails or is killed leaves the host as it was, or with a torn
   file, which the history excuses if it is the backup. *)
LEMMA TornHost ==
  ASSUME SysInv, cmd # NoCmd, AtStep.do \notin Each,
         host' \in {host, FailedEffect(AtStep.do, host), TornEffect(AtStep.do, host)}, Excuse,
         UNCHANGED <<os, resolved, hadReal, drifted>>
  PROVE  HostType' /\ Safe' /\ OneNrptRule'
<1> DEFINE d == AtStep.do
<1>1. d \in StepsOf(os)
  BY AtStepFacts DEF SysInv
<1>2. host \in Host(os) /\ DOMAIN host.dns = Interfaces(os) /\ Owed \subseteq Interfaces(os)
  BY DEF SysInv, HostType, Host, Owed
<1>3. Steady /\ Owed' \subseteq Owed
  <2>1. Steady
    BY DEF Steady, Excuse
  <2> QED BY <2>1, OwedShrinks
<1> DEFINE torn == [i \in DOMAIN host.dns |-> "torn"]
<1>4. torn \in [Interfaces(os) -> Setting]
  BY <1>2 DEF Setting
<1>5. CASE SameSettings(host') /\ host' \in Host(os)
  <2>1. HostType'
    BY <1>5 DEF SysInv, HostType
  <2> QED BY <1>3, <1>5, <2>1, SafeIfSame
<1>6. CASE host' = [host EXCEPT !.backup = torn] /\ os # "windows"
  <2>1. HostType'
    BY <1>2, <1>4, <1>6 DEF SysInv, HostType, Host
  <2>2. host'.backup # NoBackup => Owed' = {}
    <3>1. SUFFICES ASSUME host'.backup # NoBackup PROVE Owed' = {}
      OBVIOUS
    <3>2. Torn(host'.backup)
      BY <1>2, <1>4, <1>6, <3>1 DEF Torn, Host
    <3>3. Interfaces(os) \subseteq excused'
      BY <1>2, <3>2 DEF Excuse
    <3> QED BY <3>3 DEF Owed
  <2>3. host'.backup = NoBackup => Owed' = {}
    <3>1. host'.backup = torn
      BY <1>2, <1>6 DEF Host
    <3>2. SUFFICES ASSUME torn = NoBackup PROVE Owed' = {}
      BY <3>1
    <3>3. DOMAIN torn = {}
      BY <3>2 DEF NoBackup
    <3> QED BY <1>2, <1>3, <3>3
  <2> QED BY <1>2, <1>3, <1>6, <2>1, <2>2, <2>3 DEF SysInv, Safe, OneNrptRule, InPlace, Host
<1>7. CASE d = "redirect" /\ ~resolved /\ host' = [host EXCEPT !.dns = torn]
  <2>1. HostType'
    BY <1>2, <1>4, <1>7 DEF SysInv, HostType, Host
  <2>2. os = "linux" /\ (host.backup # NoBackup \/ Owed = {})
    BY <1>1, <1>7 DEF SysInv, Ready, StepsOf, Common
  <2> QED BY <1>2, <1>3, <1>7, <2>1, <2>2 DEF SysInv, Safe, OneNrptRule, InPlace, Host
<1>8. CASE d = "restore" /\ ~host.dropin /\ host.backup # NoBackup /\ host' = [host EXCEPT !.dns = torn]
  <2>1. HostType'
    BY <1>2, <1>4, <1>8 DEF SysInv, HostType, Host
  <2> QED BY <1>2, <1>3, <1>8, <2>1 DEF SysInv, Safe, OneNrptRule, InPlace, Host
<1>9. \/ SameSettings(host') /\ host' \in Host(os)
      \/ host' = [host EXCEPT !.backup = torn] /\ os # "windows"
      \/ d = "redirect" /\ ~resolved /\ host' = [host EXCEPT !.dns = torn]
      \/ d = "restore" /\ ~host.dropin /\ host.backup # NoBackup /\ host' = [host EXCEPT !.dns = torn]
  <2>1. CASE host' = host
    BY <1>2, <2>1 DEF SameSettings
  <2>2. CASE host' = FailedEffect(d, host)
    BY <1>2, <2>2 DEF SameSettings, FailedEffect, Host
  <2>3. CASE host' = TornEffect(d, host)
    <3>1. CASE d = "backup"
      <4>1. os # "windows"
        BY <1>1, <3>1 DEF StepsOf, Common
      <4>2. host' \in {host, [host EXCEPT !.backup = torn]}
        BY <2>3, <3>1 DEF TornEffect
      <4> QED BY <1>2, <4>1, <4>2 DEF SameSettings
    <3>2. CASE d = "redirect"
      BY <1>2, <2>3, <3>2 DEF TornEffect, SameSettings
    <3>3. CASE d = "restore"
      BY <1>2, <2>3, <3>3 DEF TornEffect, SameSettings
    <3>4. CASE d \notin {"backup", "redirect", "restore"}
      BY <1>2, <2>3, <3>4 DEF TornEffect, SameSettings
    <3> QED BY <3>1, <3>2, <3>3, <3>4
  <2> QED BY <2>1, <2>2, <2>3
<1> QED BY <1>5, <1>6, <1>7, <1>8, <1>9

(* The loops over the network services. *)
LEMMA EachHost ==
  ASSUME SysInv, NEW i \in Services, EachDone(i)
  PROVE  HostType' /\ Safe' /\ OneNrptRule'
<1>1. /\ cmd # NoCmd /\ i \in cmd.todo /\ UNCHANGED <<os, resolved, hadReal, drifted, excused>>
      /\ host' = [host EXCEPT !.dns[i] = IF AtStep.do = "redirect each" THEN "numa" ELSE host.backup[i]]
  BY DEF EachDone
<1>2. host \in Host(os) /\ DOMAIN host.dns = Interfaces(os) /\ Owed' = Owed
  BY <1>1 DEF SysInv, HostType, Host, Owed
<1>3. AtStep.do \in Each /\ AtStep.do \in StepsOf(os) /\ i \in Interfaces(os)
  BY <1>1, AtStepFacts DEF SysInv, CmdOK
<1>4. os = "macos"
  BY <1>3 DEF SysInv, HostType, StepsOf, Common, Each
<1>5. CASE AtStep.do = "redirect each"
  <2>1. host' = [host EXCEPT !.dns[i] = "numa"]
    BY <1>1, <1>5
  <2>2. HostType'
    <3>1. host' \in Host(os)
      BY <1>2, <1>3, <2>1 DEF Host, Setting
    <3> QED BY <1>1, <3>1 DEF SysInv, HostType
  <2>3. host.backup # NoBackup \/ Owed = {}
    BY <1>1, <1>4, <1>5 DEF SysInv, Ready, HostType
  <2> QED BY <1>1, <1>2, <1>3, <1>4, <2>1, <2>2, <2>3 DEF SysInv, Safe, OneNrptRule, InPlace, Host
<1>6. CASE AtStep.do = "restore each"
  <2>1. host' = [host EXCEPT !.dns[i] = host.backup[i]]
    BY <1>1, <1>6
  <2>2. i \in DOMAIN host.backup
    BY <1>1, <1>6 DEF SysInv, Ready
  <2>3. host.backup # NoBackup
    BY <2>2 DEF NoBackup
  <2>4. HostType'
    <3>1. host.backup[i] \in Setting
      BY <1>2, <1>3, <2>3 DEF Host
    <3>2. host' \in Host(os)
      BY <1>2, <1>3, <2>1, <3>1 DEF Host
    <3> QED BY <1>1, <3>2 DEF SysInv, HostType
  <2> QED BY <1>1, <1>2, <1>3, <1>4, <2>1, <2>3, <2>4 DEF SysInv, Safe, OneNrptRule, InPlace, Host
<1> QED BY <1>3, <1>5, <1>6 DEF Each

(* Between commands the settings change with the network. *)
LEMMA SettingsChangeHost ==
  ASSUME SysInv, NEW i, NEW s \in {"isp", "dhcp", "stub"}, SettingsChange(i, s)
  PROVE  HostType' /\ Safe' /\ OneNrptRule'
<1>1. /\ i \in Interfaces(os) /\ UNCHANGED <<os, resolved>>
      /\ host' = [host EXCEPT !.dns[i] = s] /\ hadReal' = [hadReal EXCEPT ![i] = Real(s)]
      /\ drifted' = IF Managed THEN drifted \cup {i} ELSE drifted \ {i}
      /\ excused' = excused \ {i}
  BY DEF SettingsChange
<1>2. host \in Host(os) /\ DOMAIN host.dns = Interfaces(os)
  BY DEF SysInv, HostType, Host
<1>3. HostType'
  <2>1. host' \in Host(os)
    BY <1>1, <1>2 DEF Host, Setting
  <2>2. hadReal' \in [Interfaces(os) -> BOOLEAN]
    BY <1>1 DEF SysInv, HostType, Real
  <2> QED BY <1>1, <2>1, <2>2 DEF SysInv, HostType
<1>4. CASE Managed
  <2>1. i \notin Owed' /\ Owed' \subseteq Owed
    BY <1>1, <1>4 DEF Owed, SysInv, HostType
  <2> QED BY <1>1, <1>2, <1>3, <2>1 DEF SysInv, Safe, OneNrptRule, InPlace, Host
<1>5. CASE ~Managed
  <2>1. \A j \in Owed' : j = i \/ j \in Owed
    BY <1>1, <1>5 DEF Owed, SysInv, HostType
  <2>2. i \in Owed' => Real(s)
    BY <1>1 DEF Owed, SysInv, HostType
  <2> QED BY <1>1, <1>2, <1>3, <1>5, <2>1, <2>2 DEF SysInv, Safe, OneNrptRule, InPlace, Host, Managed
<1> QED BY <1>4, <1>5

(* systemd-resolved comes or goes. *)
LEMMA ResolvedChangeHost ==
  ASSUME SysInv, ResolvedChange
  PROVE  HostType' /\ Safe' /\ OneNrptRule'
<1>1. /\ os = "linux" /\ resolved' = ~resolved /\ UNCHANGED <<os, host, hadReal, excused>>
      /\ drifted' = IF Managed THEN drifted \cup {"resolv.conf"} ELSE drifted
  BY DEF ResolvedChange
<1>2. HostType'
  BY <1>1 DEF SysInv, HostType
<1>3. CASE Managed
  <2>1. Owed' = {}
    BY <1>1, <1>3 DEF Owed, Interfaces
  <2> QED BY <1>1, <1>2, <2>1 DEF SysInv, Safe, OneNrptRule, InPlace
<1>4. CASE ~Managed
  <2>1. Owed' = Owed
    BY <1>1, <1>4 DEF Owed
  <2> QED BY <1>1, <1>2, <1>4, <2>1 DEF SysInv, Safe, OneNrptRule, InPlace, Managed
<1> QED BY <1>3, <1>4

(* The positions of two sequences in a row. *)
LEMMA JoinIs ==
  ASSUME NEW S, NEW s \in Seq(S), NEW t \in Seq(S)
  PROVE  /\ s \o t \in Seq(S) /\ Len(s \o t) = Len(s) + Len(t)
         /\ Len(s) \in Nat /\ Len(t) \in Nat
         /\ \A k \in 1..Len(s) + Len(t) :
              (s \o t)[k] = IF k <= Len(s) THEN s[k] ELSE t[k - Len(s)]
OBVIOUS

(* ... with the lengths of the uninstall scripts. *)
LEMMA Join13 ==
  ASSUME NEW S, NEW s \in Seq(S), NEW t \in Seq(S), Len(s) = 1, Len(t) = 3
  PROVE  LET u == s \o t IN
         u \in Seq(S) /\ Len(u) = 4 /\ u[1] = s[1] /\ u[2] = t[1] /\ u[3] = t[2] /\ u[4] = t[3]
<1> DEFINE u == s \o t
<1>0. /\ u \in Seq(S) /\ Len(u) = Len(s) + Len(t)
      /\ \A k \in 1..Len(s) + Len(t) : u[k] = IF k <= Len(s) THEN s[k] ELSE t[k - Len(s)]
  BY JoinIs
<1> HIDE DEF u
<1>1. /\ u \in Seq(S) /\ Len(u) = 4
      /\ \A k \in 1..4 : u[k] = IF k <= 1 THEN s[k] ELSE t[k - 1]
  BY <1>0
<1>2. u[1] = s[1] /\ u[2] = t[2 - 1] /\ u[3] = t[3 - 1] /\ u[4] = t[4 - 1]
  BY <1>1
<1>3. u \in Seq(S) /\ Len(u) = 4 /\ u[1] = s[1] /\ u[2] = t[1] /\ u[3] = t[2] /\ u[4] = t[3]
  BY <1>1, <1>2
<1> QED BY <1>3 DEF u

LEMMA Join15 ==
  ASSUME NEW S, NEW s \in Seq(S), NEW t \in Seq(S), Len(s) = 1, Len(t) = 5
  PROVE  LET u == s \o t IN
         u \in Seq(S) /\ Len(u) = 6 /\ u[1] = s[1] /\ u[2] = t[1] /\ u[3] = t[2] /\ u[4] = t[3]
         /\ u[5] = t[4] /\ u[6] = t[5]
<1> DEFINE u == s \o t
<1>0. /\ u \in Seq(S) /\ Len(u) = Len(s) + Len(t)
      /\ \A k \in 1..Len(s) + Len(t) : u[k] = IF k <= Len(s) THEN s[k] ELSE t[k - Len(s)]
  BY JoinIs
<1> HIDE DEF u
<1>1. /\ u \in Seq(S) /\ Len(u) = 6
      /\ \A k \in 1..6 : u[k] = IF k <= 1 THEN s[k] ELSE t[k - 1]
  BY <1>0
<1>2. u[1] = s[1] /\ u[2] = t[2 - 1] /\ u[3] = t[3 - 1] /\ u[4] = t[4 - 1] /\ u[5] = t[5 - 1]
      /\ u[6] = t[6 - 1]
  BY <1>1
<1>3. u \in Seq(S) /\ Len(u) = 6 /\ u[1] = s[1] /\ u[2] = t[1] /\ u[3] = t[2] /\ u[4] = t[3]
      /\ u[5] = t[4] /\ u[6] = t[5]
  BY <1>1, <1>2
<1> QED BY <1>3 DEF u

LEMMA Join16 ==
  ASSUME NEW S, NEW s \in Seq(S), NEW t \in Seq(S), Len(s) = 1, Len(t) = 6
  PROVE  LET u == s \o t IN
         u \in Seq(S) /\ Len(u) = 7 /\ u[1] = s[1] /\ u[2] = t[1] /\ u[3] = t[2] /\ u[4] = t[3]
         /\ u[5] = t[4] /\ u[6] = t[5] /\ u[7] = t[6]
<1> DEFINE u == s \o t
<1>0. /\ u \in Seq(S) /\ Len(u) = Len(s) + Len(t)
      /\ \A k \in 1..Len(s) + Len(t) : u[k] = IF k <= Len(s) THEN s[k] ELSE t[k - Len(s)]
  BY JoinIs
<1> HIDE DEF u
<1>1. /\ u \in Seq(S) /\ Len(u) = 7
      /\ \A k \in 1..7 : u[k] = IF k <= 1 THEN s[k] ELSE t[k - 1]
  BY <1>0
<1>2. u[1] = s[1] /\ u[2] = t[2 - 1] /\ u[3] = t[3 - 1] /\ u[4] = t[4 - 1] /\ u[5] = t[5 - 1]
      /\ u[6] = t[6 - 1] /\ u[7] = t[7 - 1]
  BY <1>1
<1>3. u \in Seq(S) /\ Len(u) = 7 /\ u[1] = s[1] /\ u[2] = t[1] /\ u[3] = t[2] /\ u[4] = t[3]
      /\ u[5] = t[4] /\ u[6] = t[5] /\ u[7] = t[6]
  BY <1>1, <1>2
<1> QED BY <1>3 DEF u

LEMMA Join42 ==
  ASSUME NEW S, NEW s \in Seq(S), NEW t \in Seq(S), Len(s) = 4, Len(t) = 2
  PROVE  LET u == s \o t IN
         u \in Seq(S) /\ Len(u) = 6 /\ u[1] = s[1] /\ u[2] = s[2] /\ u[3] = s[3] /\ u[4] = s[4]
         /\ u[5] = t[1] /\ u[6] = t[2]
<1> DEFINE u == s \o t
<1>0. /\ u \in Seq(S) /\ Len(u) = Len(s) + Len(t)
      /\ \A k \in 1..Len(s) + Len(t) : u[k] = IF k <= Len(s) THEN s[k] ELSE t[k - Len(s)]
  BY JoinIs
<1> HIDE DEF u
<1>1. /\ u \in Seq(S) /\ Len(u) = 6
      /\ \A k \in 1..6 : u[k] = IF k <= 4 THEN s[k] ELSE t[k - 4]
  BY <1>0
<1>2. u[1] = s[1] /\ u[2] = s[2] /\ u[3] = s[3] /\ u[4] = s[4] /\ u[5] = t[5 - 4] /\ u[6] = t[6 - 4]
  BY <1>1
<1>3. u \in Seq(S) /\ Len(u) = 6 /\ u[1] = s[1] /\ u[2] = s[2] /\ u[3] = s[3] /\ u[4] = s[4]
      /\ u[5] = t[1] /\ u[6] = t[2]
  BY <1>1, <1>2
<1> QED BY <1>3 DEF u


-----------------------------------------------------------------------------
(* How a command goes on. *)
LEMMA EnterOK ==
  ASSUME HostType, UNCHANGED os, NEW script, ScriptOK(os, script),
         NEW n \in {"install", "uninstall", "restart", "stop"}, NEW f \in SUBSET StepsOf(os),
         cmd' = Enter(n, script, f)
  PROVE  /\ CmdOK'
         /\ script = <<>> => cmd' = NoCmd
         /\ script # <<>> => /\ cmd' # NoCmd /\ cmd'.name = n /\ cmd'.script = script /\ cmd'.failed = f
                             /\ cmd'.todo = Todo(Head(script).do) /\ AtStep' = Head(script)
<1>1. CASE script = <<>>
  BY <1>1 DEF Enter, CmdOK
<1>2. CASE script # <<>>
  <2>1. cmd' = [name |-> n, script |-> script, todo |-> Todo(Head(script).do), failed |-> f]
    BY <1>2 DEF Enter
  <2>2. /\ cmd' # NoCmd /\ cmd'.name = n /\ cmd'.script = script /\ cmd'.failed = f
        /\ cmd'.todo = Todo(Head(script).do) /\ AtStep' = Head(script)
    BY <2>1 DEF NoCmd, AtStep
  <2>3. \A d : Todo(d) \in SUBSET Interfaces(os) /\ (d \notin Each => Todo(d) = {})
    <3>1. DOMAIN host.dns = Interfaces(os) /\ DOMAIN host.backup \subseteq Interfaces(os)
      BY DEF HostType, Host, NoBackup
    <3> QED BY <3>1 DEF Todo, Each
  <2>4. script \in Seq(Steps(os))
    BY DEF ScriptOK
  <2>5. CmdOK'
    BY <1>2, <2>1, <2>2, <2>3, <2>4 DEF CmdOK
  <2> QED BY <1>2, <2>2, <2>5
<1> QED BY <1>1, <1>2

(* The tail of a rest is a rest. *)
LEMMA SuffixTail ==
  ASSUME NEW o, NEW s \in Seq(Steps(o)), s # <<>>, NEW t \in Seq(Steps(o)), SuffixOf(s, t)
  PROVE  SuffixOf(Tail(s), t)
<1>1. Len(s) \in Nat \ {0} /\ Len(t) \in Nat /\ Len(Tail(s)) = Len(s) - 1
      /\ \A k \in 1..Len(s) - 1 : Tail(s)[k] = s[k + 1]
  OBVIOUS
<1>2. ASSUME NEW k \in 1..Len(s) - 1 PROVE Tail(s)[k] = t[Len(t) - (Len(s) - 1) + k]
  <2>1. s[k + 1] = t[Len(t) - Len(s) + (k + 1)]
    BY <1>1 DEF SuffixOf
  <2>2. Len(t) - Len(s) + (k + 1) = Len(t) - (Len(s) - 1) + k
    BY <1>1
  <2> QED BY <1>1, <2>1, <2>2
<1> QED BY <1>1, <1>2 DEF SuffixOf

(* A script goes on behind an error where its step says. *)
LEMMA AfterErrorOK ==
  ASSUME CmdOK, cmd # NoCmd
  PROVE  /\ ScriptOK(os, AfterError)
         /\ AfterError # <<>> => Head(AfterError).do \notin Careful
         /\ \A t \in Seq(Steps(os)) : SuffixOf(cmd.script, t) => SuffixOf(AfterError, t)
<1>1. /\ cmd.script # <<>> /\ cmd.script \in Seq(Steps(os)) /\ ScriptOK(os, cmd.script)
      /\ AtStep = cmd.script[1] /\ AtStep.onError \in Targets
  BY AtStepFacts
<1>2. /\ ScriptOK(os, Tail(cmd.script)) /\ Tail(cmd.script) \in Seq(Steps(os))
      /\ Tail(cmd.script) # <<>> => Fits(AtStep, Head(Tail(cmd.script)))
      /\ \A t \in Seq(Steps(os)) : SuffixOf(cmd.script, t) => SuffixOf(Tail(cmd.script), t)
  BY <1>1, ScriptTail, SuffixTail DEF ScriptOK
<1>3. CASE AtStep.onError = "return"
  <2>1. AfterError = <<>>
    BY <1>3 DEF AfterError
  <2>2. ASSUME NEW t \in Seq(Steps(os)) PROVE SuffixOf(<<>>, t)
    BY DEF SuffixOf
  <2> QED BY <2>1, <2>2, EmptyScript DEF Runnable
<1>4. CASE AtStep.onError = "next"
  <2>1. AfterError = Tail(cmd.script)
    BY <1>4 DEF AfterError
  <2> QED BY <1>2, <1>4, <2>1 DEF Fits
<1>5. CASE AtStep.onError \notin {"return", "next"}
  <2>1. AfterError = From(Tail(cmd.script), AtStep.onError)
    BY <1>5 DEF AfterError
  <2>2. AtStep.onError \notin Careful
    BY <1>1 DEF Targets, Careful
  <2> QED BY <1>2, <2>1, <2>2, ScriptFrom
<1> QED BY <1>3, <1>4, <1>5

(* No careful step is next. *)
LEMMA ReadyPlain ==
  ASSUME cmd' = NoCmd \/ AtStep'.do \notin Careful
  PROVE  Ready'
BY DEF Ready, Careful

(* The scripts of uninstall, by position. *)
LEMMA UninstallLinux ==
  ASSUME os = "linux"
  PROVE  /\ Len(uninstall_service) = 4
         /\ uninstall_service[1].do = "untrust" /\ uninstall_service[2].do = "restore"
         /\ uninstall_service[3].do = "stop" /\ uninstall_service[4].do = "remove unit"
<1> DEFINE a == <<CmdStep("untrust", "next")>>
<1>0. uninstall_service = a \o uninstall_service_linux
  BY DEF uninstall_service
<1>a. a \in Seq(Steps("linux"))
  BY PlainPieces DEF Runnable, ScriptOK
<1>b. uninstall_service_linux \in Seq(Steps("linux"))
  BY PlainPieces DEF Runnable, ScriptOK
<1>1. /\ uninstall_service = a \o uninstall_service_linux
      /\ a \in Seq(Steps("linux")) /\ uninstall_service_linux \in Seq(Steps("linux"))
  BY <1>0, <1>a, <1>b
<1>2. /\ Len(uninstall_service_linux) = 3 /\ uninstall_service_linux[1].do = "restore"
      /\ uninstall_service_linux[2].do = "stop" /\ uninstall_service_linux[3].do = "remove unit"
  BY DEF uninstall_service_linux, CmdStep
<1>3. Len(a) = 1 /\ a[1].do = "untrust"
  BY DEF CmdStep
<1> HIDE DEF a
<1>4. /\ Len(uninstall_service) = 4 /\ uninstall_service[1] = a[1]
      /\ uninstall_service[2] = uninstall_service_linux[1]
      /\ uninstall_service[3] = uninstall_service_linux[2]
      /\ uninstall_service[4] = uninstall_service_linux[3]
  <2> DEFINE sc == uninstall_service_linux
  <2>1. a \in Seq(Steps("linux")) /\ sc \in Seq(Steps("linux")) /\ Len(a) = 1 /\ Len(sc) = 3
    BY <1>1, <1>2, <1>3
  <2> HIDE DEF sc
  <2>2. /\ Len(a \o sc) = 4 /\ (a \o sc)[1] = a[1] /\ (a \o sc)[2] = sc[1]
        /\ (a \o sc)[3] = sc[2] /\ (a \o sc)[4] = sc[3]
    BY <2>1, Join13
  <2> QED BY <1>1, <2>2, Zenon DEF sc
<1> QED BY <1>2, <1>3, <1>4

(* The steps of uninstall_service on macOS. *)
LEMMA UninstallMacos ==
  ASSUME os = "macos"
  PROVE  /\ Len(uninstall_service) = 7
         /\ uninstall_service[1].do = "untrust" /\ uninstall_service[2].do = "remove drop-in"
         /\ uninstall_service[3].do = "read backup" /\ uninstall_service[3].onError = "stop"
         /\ uninstall_service[4].do = "restore each" /\ uninstall_service[5].do = "remove backup"
         /\ uninstall_service[6].do = "stop" /\ uninstall_service[7].do = "remove unit"
<1> DEFINE a == <<CmdStep("untrust", "next")>>
           last == <<CmdStep("stop", "next"), CmdStep("remove unit", "return")>>
<1>1. /\ uninstall_service = a \o uninstall_service_macos
      /\ uninstall_service_macos = uninstall_macos \o last
      /\ a \in Seq(Steps("macos")) /\ uninstall_macos \in Seq(Steps("macos"))
      /\ last \in Seq(Steps("macos"))
  <2>0. uninstall_service = a \o uninstall_service_macos
    BY DEF uninstall_service
  <2>1. uninstall_service_macos = uninstall_macos \o last
    BY DEF uninstall_service_macos
  <2>2. a \in Seq(Steps("macos"))
    BY PlainPieces DEF Runnable, ScriptOK
  <2>3. uninstall_macos \in Seq(Steps("macos")) /\ last \in Seq(Steps("macos"))
    BY PlainPieces, CarefulPieces DEF Runnable, ScriptOK
  <2> QED BY <2>0, <2>1, <2>2, <2>3
<1>2. /\ Len(uninstall_macos) = 4 /\ uninstall_macos[1].do = "remove drop-in"
      /\ uninstall_macos[2].do = "read backup" /\ uninstall_macos[2].onError = "stop"
      /\ uninstall_macos[3].do = "restore each" /\ uninstall_macos[4].do = "remove backup"
  BY DEF uninstall_macos, CmdStep
<1>3. /\ Len(a) = 1 /\ a[1].do = "untrust" /\ Len(last) = 2 /\ last[1].do = "stop"
         /\ last[2].do = "remove unit"
  BY DEF CmdStep
<1> HIDE DEF a, last
<1>4. /\ uninstall_service_macos \in Seq(Steps("macos")) /\ Len(uninstall_service_macos) = 6
      /\ uninstall_service_macos[1] = uninstall_macos[1]
      /\ uninstall_service_macos[2] = uninstall_macos[2]
      /\ uninstall_service_macos[3] = uninstall_macos[3]
      /\ uninstall_service_macos[4] = uninstall_macos[4]
      /\ uninstall_service_macos[5] = last[1] /\ uninstall_service_macos[6] = last[2]
  <2> DEFINE fi == uninstall_macos
             sc == last
  <2>1. fi \in Seq(Steps("macos")) /\ sc \in Seq(Steps("macos")) /\ Len(fi) = 4 /\ Len(sc) = 2
    BY <1>1, <1>2, <1>3
  <2> HIDE DEF fi, sc
  <2>2. /\ fi \o sc \in Seq(Steps("macos")) /\ Len(fi \o sc) = 6
        /\ (fi \o sc)[1] = fi[1] /\ (fi \o sc)[2] = fi[2]
        /\ (fi \o sc)[3] = fi[3] /\ (fi \o sc)[4] = fi[4] /\ (fi \o sc)[5] = sc[1]
        /\ (fi \o sc)[6] = sc[2]
    BY <2>1, Join42
  <2> QED BY <1>1, <2>2, Zenon DEF fi, sc
<1>5. /\ Len(uninstall_service) = 7 /\ uninstall_service[1] = a[1]
      /\ uninstall_service[2] = uninstall_service_macos[1]
      /\ uninstall_service[3] = uninstall_service_macos[2]
      /\ uninstall_service[4] = uninstall_service_macos[3]
      /\ uninstall_service[5] = uninstall_service_macos[4]
      /\ uninstall_service[6] = uninstall_service_macos[5]
      /\ uninstall_service[7] = uninstall_service_macos[6]
  <2> DEFINE fi == a
             sc == uninstall_service_macos
  <2>1. fi \in Seq(Steps("macos")) /\ sc \in Seq(Steps("macos")) /\ Len(fi) = 1 /\ Len(sc) = 6
    BY <1>1, <1>3, <1>4
  <2> HIDE DEF fi, sc
  <2>2. /\ fi \o sc \in Seq(Steps("macos")) /\ Len(fi \o sc) = 7
        /\ (fi \o sc)[1] = fi[1] /\ (fi \o sc)[2] = sc[1]
        /\ (fi \o sc)[3] = sc[2] /\ (fi \o sc)[4] = sc[3] /\ (fi \o sc)[5] = sc[4]
        /\ (fi \o sc)[6] = sc[5] /\ (fi \o sc)[7] = sc[6]
    BY <2>1, Join16
  <2> QED BY <1>1, <2>2, Zenon DEF fi, sc
<1> QED BY <1>2, <1>3, <1>4, <1>5

(* The steps of uninstall_windows. *)
LEMMA UninstallWindows ==
  ASSUME os = "windows"
  PROVE  /\ Len(uninstall_service) = 6
         /\ uninstall_service[1].do = "untrust" /\ uninstall_service[2].do = "stop"
         /\ uninstall_service[3].do = "remove unit" /\ uninstall_service[4].do = "remove binary"
         /\ uninstall_service[5].do = "nrpt remove" /\ uninstall_service[6].do = "unwind"
<1> DEFINE a == <<CmdStep("untrust", "next")>>
<1>0. uninstall_service = a \o uninstall_windows
  BY DEF uninstall_service
<1>a. a \in Seq(Steps("windows"))
  BY PlainPieces DEF Runnable, ScriptOK
<1>b. uninstall_windows \in Seq(Steps("windows"))
  BY PlainPieces DEF Runnable, ScriptOK
<1>1. /\ uninstall_service = a \o uninstall_windows
      /\ a \in Seq(Steps("windows")) /\ uninstall_windows \in Seq(Steps("windows"))
  BY <1>0, <1>a, <1>b
<1>2. /\ Len(uninstall_windows) = 5 /\ uninstall_windows[1].do = "stop"
      /\ uninstall_windows[2].do = "remove unit" /\ uninstall_windows[3].do = "remove binary"
      /\ uninstall_windows[4].do = "nrpt remove" /\ uninstall_windows[5].do = "unwind"
  BY DEF uninstall_windows, CmdStep
<1>3. Len(a) = 1 /\ a[1].do = "untrust"
  BY DEF CmdStep
<1> HIDE DEF a
<1>4. /\ Len(uninstall_service) = 6 /\ uninstall_service[1] = a[1]
      /\ uninstall_service[2] = uninstall_windows[1] /\ uninstall_service[3] = uninstall_windows[2]
      /\ uninstall_service[4] = uninstall_windows[3] /\ uninstall_service[5] = uninstall_windows[4]
      /\ uninstall_service[6] = uninstall_windows[5]
  <2> DEFINE fi == a
             sc == uninstall_windows
  <2>1. fi \in Seq(Steps("windows")) /\ sc \in Seq(Steps("windows")) /\ Len(fi) = 1 /\ Len(sc) = 5
    BY <1>1, <1>2, <1>3
  <2> HIDE DEF fi, sc
  <2>2. /\ fi \o sc \in Seq(Steps("windows")) /\ Len(fi \o sc) = 6
        /\ (fi \o sc)[1] = fi[1] /\ (fi \o sc)[2] = sc[1]
        /\ (fi \o sc)[3] = sc[2] /\ (fi \o sc)[4] = sc[3] /\ (fi \o sc)[5] = sc[4]
        /\ (fi \o sc)[6] = sc[5]
    BY <2>1, Join15
  <2> QED BY <1>1, <2>2, Zenon DEF fi, sc
<1> QED BY <1>2, <1>3, <1>4

(* uninstall_service is a script of the host. *)
LEMMA UninstallScript ==
  ASSUME HostType
  PROVE  uninstall_service \in Seq(Steps(os))
<1>1. Command("uninstall", uninstall_service) \in Commands
  BY Zenon DEF Commands
<1>2. Command("uninstall", uninstall_service).script = uninstall_service
  BY DEF Command
<1> QED BY <1>1, <1>2, CommandScripts DEF Runnable, ScriptOK

-----------------------------------------------------------------------------
(* The step that an uninstallation is at, by the number of steps left. *)
LEMMA UninstallAt ==
  ASSUME HostType, CmdOK, cmd # NoCmd, SuffixOf(cmd.script, uninstall_service)
  PROVE  /\ Len(cmd.script) \in 1..Len(uninstall_service)
         /\ AtStep = uninstall_service[Len(uninstall_service) - Len(cmd.script) + 1]
<1>1. /\ cmd.script # <<>> /\ cmd.script \in Seq(Steps(os)) /\ AtStep = cmd.script[1]
  BY AtStepFacts
<1>2. Len(cmd.script) \in Nat \ {0} /\ 1 \in 1..Len(cmd.script)
  BY <1>1
<1>3. Len(uninstall_service) \in Nat
  BY UninstallScript
<1>4. /\ Len(cmd.script) <= Len(uninstall_service)
      /\ cmd.script[1] = uninstall_service[Len(uninstall_service) - Len(cmd.script) + 1]
  <2> HIDE DEF uninstall_service
  <2> DEFINE s == cmd.script
             t == uninstall_service
  <2> HIDE DEF s, t
  <2>1. Len(s) <= Len(t) /\ \A k \in 1..Len(s) : s[k] = t[Len(t) - Len(s) + k]
    BY Zenon DEF SuffixOf, s, t
  <2>2. 1 \in 1..Len(s)
    BY <1>2 DEF s
  <2>3. Len(s) <= Len(t) /\ s[1] = t[Len(t) - Len(s) + 1]
    BY <2>1, <2>2
  <2> QED BY <2>3 DEF s, t
<1> QED BY <1>1, <1>2, <1>3, <1>4

(* The step that is next, by how many are left. *)
LEMMA LinuxAt ==
  ASSUME HostType, CmdOK, cmd # NoCmd, SuffixOf(cmd.script, uninstall_service), os = "linux"
  PROVE  \/ Len(cmd.script) = 4 /\ AtStep.do = "untrust"
         \/ Len(cmd.script) = 3 /\ AtStep.do = "restore"
         \/ Len(cmd.script) = 2 /\ AtStep.do = "stop"
         \/ Len(cmd.script) = 1 /\ AtStep.do = "remove unit"
<1> DEFINE n == Len(cmd.script)
<1>1. n \in 1..4 /\ AtStep = uninstall_service[4 - n + 1]
  BY UninstallAt, UninstallLinux
<1> HIDE DEF n
<1>2. n = 4 => AtStep = uninstall_service[1]
  BY <1>1
<1>3. n = 3 => AtStep = uninstall_service[2]
  BY <1>1
<1>4. n = 2 => AtStep = uninstall_service[3]
  BY <1>1
<1>5. n = 1 => AtStep = uninstall_service[4]
  BY <1>1
<1>6. n \in {1, 2, 3, 4}
  BY <1>1
<1> QED BY <1>2, <1>3, <1>4, <1>5, <1>6, UninstallLinux DEF n

LEMMA MacosAt ==
  ASSUME HostType, CmdOK, cmd # NoCmd, SuffixOf(cmd.script, uninstall_service), os = "macos"
  PROVE  \/ Len(cmd.script) = 7 /\ AtStep.do = "untrust"
         \/ Len(cmd.script) = 6 /\ AtStep.do = "remove drop-in"
         \/ Len(cmd.script) = 5 /\ AtStep.do = "read backup" /\ AtStep.onError = "stop"
         \/ Len(cmd.script) = 4 /\ AtStep.do = "restore each"
         \/ Len(cmd.script) = 3 /\ AtStep.do = "remove backup"
         \/ Len(cmd.script) = 2 /\ AtStep.do = "stop"
         \/ Len(cmd.script) = 1 /\ AtStep.do = "remove unit"
<1> DEFINE n == Len(cmd.script)
<1>1. n \in 1..7 /\ AtStep = uninstall_service[7 - n + 1]
  BY UninstallAt, UninstallMacos
<1> HIDE DEF n
<1>2. n = 7 => AtStep = uninstall_service[1]
  BY <1>1
<1>3. n = 6 => AtStep = uninstall_service[2]
  BY <1>1
<1>4. n = 5 => AtStep = uninstall_service[3]
  BY <1>1
<1>5. n = 4 => AtStep = uninstall_service[4]
  BY <1>1
<1>6. n = 3 => AtStep = uninstall_service[5]
  BY <1>1
<1>7. n = 2 => AtStep = uninstall_service[6]
  BY <1>1
<1>8. n = 1 => AtStep = uninstall_service[7]
  BY <1>1
<1>9. n \in {1, 2, 3, 4, 5, 6, 7}
  BY <1>1
<1> QED BY <1>2, <1>3, <1>4, <1>5, <1>6, <1>7, <1>8, <1>9, UninstallMacos DEF n

LEMMA WindowsAt ==
  ASSUME HostType, CmdOK, cmd # NoCmd, SuffixOf(cmd.script, uninstall_service), os = "windows"
  PROVE  \/ Len(cmd.script) = 6 /\ AtStep.do = "untrust"
         \/ Len(cmd.script) = 5 /\ AtStep.do = "stop"
         \/ Len(cmd.script) = 4 /\ AtStep.do = "remove unit"
         \/ Len(cmd.script) = 3 /\ AtStep.do = "remove binary"
         \/ Len(cmd.script) = 2 /\ AtStep.do = "nrpt remove"
         \/ Len(cmd.script) = 1 /\ AtStep.do = "unwind"
<1> DEFINE n == Len(cmd.script)
<1>1. n \in 1..6 /\ AtStep = uninstall_service[6 - n + 1]
  BY UninstallAt, UninstallWindows
<1> HIDE DEF n
<1>2. n = 6 => AtStep = uninstall_service[1]
  BY <1>1
<1>3. n = 5 => AtStep = uninstall_service[2]
  BY <1>1
<1>4. n = 4 => AtStep = uninstall_service[3]
  BY <1>1
<1>5. n = 3 => AtStep = uninstall_service[4]
  BY <1>1
<1>6. n = 2 => AtStep = uninstall_service[5]
  BY <1>1
<1>7. n = 1 => AtStep = uninstall_service[6]
  BY <1>1
<1>8. n \in {1, 2, 3, 4, 5, 6}
  BY <1>1
<1> QED BY <1>2, <1>3, <1>4, <1>5, <1>6, <1>7, <1>8, UninstallWindows DEF n

(* A successful step brings an uninstallation one step on. *)
LEMMA StepDoneProgress ==
  ASSUME SysInv, StepDone, cmd.name = "uninstall", cmd.failed = {}
  PROVE  \A n : n = Len(cmd.script) - 1 => Progress(n)'
<1>1. /\ cmd # NoCmd /\ host' = Effect(AtStep.do, host) /\ AtStep.do \notin Each
      /\ UNCHANGED <<os, resolved, hadReal, drifted, excused>>
  BY DEF StepDone
<1>2. /\ HostType /\ CmdOK /\ SuffixOf(cmd.script, uninstall_service)
      /\ Progress(Len(cmd.script)) /\ Safe
  BY DEF SysInv, Undone
<1>3. host \in Host(os) /\ Owed' = Owed
  BY <1>1, <1>2 DEF HostType, Owed
<1>0. SUFFICES ASSUME NEW n, n = Len(cmd.script) - 1 PROVE Progress(n)'
  OBVIOUS
<1> DEFINE m == Len(cmd.script)
           d == AtStep.do
<1>4. m \in Nat /\ n = m - 1
  BY <1>0, <1>1, <1>2, UninstallAt
<1>8. Progress(m)
  BY <1>2
<1>9. host' = Effect(d, host)
  BY <1>1
<1>5. CASE os = "linux"
  <2>1. \/ m = 4 /\ d = "untrust"
        \/ m = 3 /\ d = "restore"
        \/ m = 2 /\ d = "stop"
        \/ m = 1 /\ d = "remove unit"
    BY <1>1, <1>2, <1>5, LinuxAt
  <2>2. os' = "linux"
    BY <1>1, <1>5
  <2> HIDE DEF m, d
  <2>3. CASE m = 4 /\ d = "untrust"
    <3>0. m = 4
      BY <2>3, Zenon
    <3>1. n <= 3 /\ ~(n <= 2) /\ ~(n <= 1)
      BY <1>4, <3>0
    <3>3. ~host'.trusted
      BY <1>3, <1>9, <2>3 DEF Effect, Host, untrust_ca
    <3> QED BY <1>3, <2>2, <3>1, <3>3, Zenon DEF Progress, InPlace
  <2>4. CASE m = 3 /\ d = "restore"
    <3>0. m = 3
      BY <2>4, Zenon
    <3>1. n <= 3 /\ n <= 2 /\ ~(n <= 1)
      BY <1>4, <3>0
    <3>2. ~host.trusted
      BY <1>8, <1>5, <3>0 DEF Progress
    <3>3. ~host'.trusted /\ ~host'.dropin
      BY <1>3, <1>9, <2>4, <3>2 DEF Effect, Host, uninstall_linux
    <3>4. \A i \in Owed : Real(host'.dns[i])
      <4>1. host' = uninstall_linux(host)
        BY <1>9, <2>4 DEF Effect
      <4> QED BY <1>2, <1>3, <1>5, <4>1 DEF uninstall_linux, Host, Safe, InPlace
    <3> QED BY <1>3, <2>2, <3>1, <3>3, <3>4, Zenon DEF Progress, InPlace
  <2>5. CASE m = 2 /\ d = "stop"
    <3>0. m = 2
      BY <2>5, Zenon
    <3>1. n <= 3 /\ n <= 2 /\ n <= 1
      BY <1>4, <3>0
    <3>2. ~host.trusted /\ ~host.dropin /\ InPlace
      BY <1>8, <1>5, <3>0 DEF Progress
    <3>3. ~host'.trusted /\ ~host'.dropin /\ (\A i \in Owed : Real(host'.dns[i])) /\ ~host'.running
      BY <1>3, <1>9, <2>5, <3>2 DEF Effect, Host, InPlace
    <3> QED BY <1>3, <2>2, <3>1, <3>3, Zenon DEF Progress, InPlace
  <2>6. CASE m = 1 /\ d = "remove unit"
    <3>0. m = 1
      BY <2>6, Zenon
    <3>1. n <= 3 /\ n <= 2 /\ n <= 1
      BY <1>4, <3>0
    <3>2. ~host.trusted /\ ~host.dropin /\ InPlace /\ ~host.running
      BY <1>8, <1>5, <3>0 DEF Progress
    <3>3. ~host'.trusted /\ ~host'.dropin /\ (\A i \in Owed : Real(host'.dns[i])) /\ ~host'.running
      BY <1>3, <1>9, <2>6, <3>2 DEF Effect, Host, InPlace
    <3> QED BY <1>3, <2>2, <3>1, <3>3, Zenon DEF Progress, InPlace
  <2> QED BY <2>1, <2>3, <2>4, <2>5, <2>6
<1>6. CASE os = "macos"
  <2>1. \/ m = 7 /\ d = "untrust"
        \/ m = 6 /\ d = "remove drop-in"
        \/ m = 5 /\ d = "read backup"
        \/ m = 3 /\ d = "remove backup"
        \/ m = 2 /\ d = "stop"
        \/ m = 1 /\ d = "remove unit"
    BY <1>1, <1>2, <1>6, MacosAt DEF Each
  <2>2. os' = "macos"
    BY <1>1, <1>6
  <2> HIDE DEF m, d
  <2>3. CASE m = 7 /\ d = "untrust"
    <3>0. m = 7
      BY <2>3, Zenon
    <3>1. n <= 6 /\ ~(n <= 5) /\ ~(n <= 2) /\ ~(n <= 1)
      BY <1>4, <3>0
    <3>3. ~host'.trusted
      BY <1>3, <1>9, <2>3 DEF Effect, Host, untrust_ca
    <3> QED BY <1>3, <2>2, <3>1, <3>3, Zenon DEF Progress
  <2>4. CASE m = 6 /\ d = "remove drop-in"
    <3>0. m = 6
      BY <2>4, Zenon
    <3>1. n <= 6 /\ n <= 5 /\ ~(n <= 2) /\ ~(n <= 1)
      BY <1>4, <3>0
    <3>2. ~host.trusted
      BY <1>8, <1>6, <3>0 DEF Progress
    <3>3. ~host'.trusted /\ ~host'.dropin
      BY <1>3, <1>9, <2>4, <3>2 DEF Effect, Host
    <3> QED BY <1>3, <2>2, <3>1, <3>3, Zenon DEF Progress
  <2>5. CASE m = 5 /\ d = "read backup"
    <3>0. m = 5
      BY <2>5, Zenon
    <3>1. n <= 6 /\ n <= 5 /\ ~(n <= 2) /\ ~(n <= 1)
      BY <1>4, <3>0
    <3>2. ~host.trusted /\ ~host.dropin
      BY <1>8, <1>6, <3>0 DEF Progress
    <3>3. ~host'.trusted /\ ~host'.dropin
      BY <1>3, <1>9, <2>5, <3>2 DEF Effect, Host
    <3> QED BY <1>3, <2>2, <3>1, <3>3, Zenon DEF Progress
  <2>6. CASE m = 3 /\ d = "remove backup"
    <3>0. m = 3
      BY <2>6, Zenon
    <3>1. n <= 6 /\ n <= 5 /\ n <= 2 /\ ~(n <= 1)
      BY <1>4, <3>0
    <3>2. ~host.trusted /\ ~host.dropin
      BY <1>8, <1>6, <3>0 DEF Progress
    <3>3. ~host'.trusted /\ ~host'.dropin /\ host'.backup = NoBackup
      BY <1>3, <1>9, <2>6, <3>2 DEF Effect, Host
    <3> QED BY <1>3, <2>2, <3>1, <3>3, Zenon DEF Progress
  <2>7. CASE m = 2 /\ d = "stop"
    <3>0. m = 2
      BY <2>7, Zenon
    <3>1. n <= 6 /\ n <= 5 /\ n <= 2 /\ n <= 1
      BY <1>4, <3>0
    <3>2. ~host.trusted /\ ~host.dropin /\ host.backup = NoBackup
      BY <1>8, <1>6, <3>0 DEF Progress
    <3>3. ~host'.trusted /\ ~host'.dropin /\ host'.backup = NoBackup /\ ~host'.running
      BY <1>3, <1>9, <2>7, <3>2 DEF Effect, Host
    <3> QED BY <1>3, <2>2, <3>1, <3>3, Zenon DEF Progress
  <2>8. CASE m = 1 /\ d = "remove unit"
    <3>0. m = 1
      BY <2>8, Zenon
    <3>1. n <= 6 /\ n <= 5 /\ n <= 2 /\ n <= 1
      BY <1>4, <3>0
    <3>2. ~host.trusted /\ ~host.dropin /\ host.backup = NoBackup /\ ~host.running
      BY <1>8, <1>6, <3>0 DEF Progress
    <3>3. ~host'.trusted /\ ~host'.dropin /\ host'.backup = NoBackup /\ ~host'.running
      BY <1>3, <1>9, <2>8, <3>2 DEF Effect, Host
    <3> QED BY <1>3, <2>2, <3>1, <3>3, Zenon DEF Progress
  <2> QED BY <2>1, <2>3, <2>4, <2>5, <2>6, <2>7, <2>8
<1>7. CASE os = "windows"
  <2>1. \/ m = 6 /\ d = "untrust"
        \/ m = 5 /\ d = "stop"
        \/ m = 4 /\ d = "remove unit"
        \/ m = 3 /\ d = "remove binary"
        \/ m = 2 /\ d = "nrpt remove"
        \/ m = 1 /\ d = "unwind"
    BY <1>1, <1>2, <1>7, WindowsAt
  <2>2. os' = "windows"
    BY <1>1, <1>7
  <2> HIDE DEF m, d
  <2>3. CASE m = 6 /\ d = "untrust"
    <3>0. m = 6
      BY <2>3, Zenon
    <3>1. n <= 5 /\ ~(n <= 4) /\ ~(n <= 1)
      BY <1>4, <3>0
    <3>3. ~host'.trusted
      BY <1>3, <1>9, <2>3 DEF Effect, Host, untrust_ca
    <3> QED BY <1>3, <2>2, <3>1, <3>3, Zenon DEF Progress
  <2>4. CASE m = 5 /\ d = "stop"
    <3>0. m = 5
      BY <2>4, Zenon
    <3>1. n <= 5 /\ n <= 4 /\ ~(n <= 1)
      BY <1>4, <3>0
    <3>2. ~host.trusted
      BY <1>8, <1>7, <3>0 DEF Progress
    <3>3. ~host'.trusted /\ ~host'.running
      BY <1>3, <1>9, <2>4, <3>2 DEF Effect, Host
    <3> QED BY <1>3, <2>2, <3>1, <3>3, Zenon DEF Progress
  <2>5. CASE m = 4 /\ d = "remove unit"
    <3>0. m = 4
      BY <2>5, Zenon
    <3>1. n <= 5 /\ n <= 4 /\ ~(n <= 1)
      BY <1>4, <3>0
    <3>2. ~host.trusted /\ ~host.running
      BY <1>8, <1>7, <3>0 DEF Progress
    <3>3. ~host'.trusted /\ ~host'.running
      BY <1>3, <1>9, <2>5, <3>2 DEF Effect, Host
    <3> QED BY <1>3, <2>2, <3>1, <3>3, Zenon DEF Progress
  <2>6. CASE m = 3 /\ d = "remove binary"
    <3>0. m = 3
      BY <2>6, Zenon
    <3>1. n <= 5 /\ n <= 4 /\ ~(n <= 1)
      BY <1>4, <3>0
    <3>2. ~host.trusted /\ ~host.running
      BY <1>8, <1>7, <3>0 DEF Progress
    <3>3. ~host'.trusted /\ ~host'.running
      BY <1>3, <1>9, <2>6, <3>2 DEF Effect, Host
    <3> QED BY <1>3, <2>2, <3>1, <3>3, Zenon DEF Progress
  <2>7. CASE m = 2 /\ d = "nrpt remove"
    <3>0. m = 2
      BY <2>7, Zenon
    <3>1. n <= 5 /\ n <= 4 /\ n <= 1
      BY <1>4, <3>0
    <3>2. ~host.trusted /\ ~host.running
      BY <1>8, <1>7, <3>0 DEF Progress
    <3>3. ~host'.trusted /\ ~host'.running /\ host'.nrpt = 0
      BY <1>3, <1>9, <2>7, <3>2 DEF Effect, Host, remove_nrpt_rule
    <3> QED BY <1>3, <2>2, <3>1, <3>3, Zenon DEF Progress
  <2>8. CASE m = 1 /\ d = "unwind"
    <3>0. m = 1
      BY <2>8, Zenon
    <3>1. n <= 5 /\ n <= 4 /\ n <= 1
      BY <1>4, <3>0
    <3>2. ~host.trusted /\ ~host.running /\ host.nrpt = 0
      BY <1>8, <1>7, <3>0 DEF Progress
    <3>3. ~host'.trusted /\ ~host'.running /\ host'.nrpt = 0
      BY <1>3, <1>9, <2>8, <3>2 DEF Effect, Host, unwind_legacy_install_if_present
    <3> QED BY <1>3, <2>2, <3>1, <3>3, Zenon DEF Progress
  <2> QED BY <2>1, <2>3, <2>4, <2>5, <2>6, <2>7, <2>8
<1> QED BY <1>2, <1>5, <1>6, <1>7 DEF HostType

(* A command goes on with a rest of its script. *)
LEMMA UndoneIf ==
  ASSUME HostType, UNCHANGED os, NEW script, ScriptOK(os, script),
         NEW n \in {"install", "uninstall", "restart", "stop"}, NEW f \in SUBSET StepsOf(os),
         cmd' = Enter(n, script, f),
         n = "uninstall" => SuffixOf(script, uninstall_service),
         n = "uninstall" /\ f = {} /\ script # <<>> => \A k : k = Len(script) => Progress(k)'
  PROVE  Undone'
<1>1. uninstall_service' = uninstall_service
  BY DEF uninstall_service, uninstall_service_linux, uninstall_service_macos, uninstall_windows
<1>2. CASE script = <<>>
  <2>1. cmd' = NoCmd
    BY <1>2, EnterOK
  <2> QED BY <2>1 DEF Undone, NoCmd
<1>3. CASE script # <<>>
  <2>1. cmd'.name = n /\ cmd'.script = script /\ cmd'.failed = f
    BY <1>3, EnterOK
  <2>2. ASSUME n = "uninstall" PROVE SuffixOf(cmd.script, uninstall_service)'
    <3>1. SuffixOf(script, uninstall_service)
      BY <2>2
    <3> QED BY <1>1, <2>1, <3>1, Zenon DEF SuffixOf
  <2>3. ASSUME n = "uninstall", f = {} PROVE Progress(Len(cmd.script))'
    <3>1. \A k : k = Len(script) => Progress(k)'
      BY <1>3, <2>3
    <3> QED BY <2>1, <3>1, Zenon DEF Progress
  <2> QED BY <2>1, <2>2, <2>3, Zenon DEF Undone
<1> QED BY <1>2, <1>3

(* A step that leaves the host alone. *)
LEMMA SameHost ==
  ASSUME SysInv, Steady, host' = host
  PROVE  HostType' /\ Safe' /\ OneNrptRule'
<1>1. SameSettings(host')
  BY DEF SameSettings
<1> QED BY <1>1, SafeIfSame DEF SysInv, HostType, Steady

(* A command begins. *)
LEMMA RunCommandOK ==
  ASSUME SysInv, NEW c \in Commands, RunCommand(c)
  PROVE  SysInv'
<1>1. /\ cmd' = Enter(c.name, c.script, {}) /\ host' = host
      /\ UNCHANGED <<os, resolved, hadReal, drifted, excused>>
  BY DEF RunCommand
<1>2. HostType' /\ Safe' /\ OneNrptRule'
  BY <1>1, SameHost DEF Steady
<1>3. /\ ScriptOK(os, c.script) /\ Begins(c.script) /\ c.script \in Seq(Steps(os))
      /\ c.name \in {"install", "uninstall", "restart", "stop"} /\ {} \in SUBSET StepsOf(os)
      /\ c.name = "uninstall" => c.script = uninstall_service
  BY CommandScripts DEF SysInv, Runnable, ScriptOK
<1>4. CmdOK' /\ (c.script = <<>> => cmd' = NoCmd) /\ (c.script # <<>> => AtStep' = Head(c.script))
  BY <1>1, <1>3, EnterOK DEF SysInv
<1>5. Ready'
  <2>1. c.script # <<>> => Head(c.script).do \notin Careful
    BY <1>3 DEF Begins
  <2> QED BY <1>4, <2>1, ReadyPlain
<1>6. ASSUME c.name = "uninstall"
      PROVE  SuffixOf(c.script, uninstall_service) /\ \A k : k = Len(c.script) => Progress(k)'
  <2>1. \A t \in Seq(Steps(os)) : SuffixOf(t, t)
    BY DEF SuffixOf
  <2>2. SuffixOf(c.script, uninstall_service)
    BY <1>3, <1>6, <2>1
  <2>3. \/ os = "linux" /\ Len(uninstall_service) = 4
        \/ os = "macos" /\ Len(uninstall_service) = 7
        \/ os = "windows" /\ Len(uninstall_service) = 6
    BY UninstallLinux, UninstallMacos, UninstallWindows DEF SysInv, HostType
  <2>4. os' = os
    BY <1>1
  <2>5. CASE os = "linux" /\ Len(uninstall_service) = 4
    <3>1. \A k : k = 4 => Progress(k)'
      BY <2>4, <2>5 DEF Progress
    <3> QED BY <1>3, <1>6, <2>2, <2>5, <3>1
  <2>6. CASE os = "macos" /\ Len(uninstall_service) = 7
    <3>1. \A k : k = 7 => Progress(k)'
      BY <2>4, <2>6 DEF Progress
    <3> QED BY <1>3, <1>6, <2>2, <2>6, <3>1
  <2>7. CASE os = "windows" /\ Len(uninstall_service) = 6
    <3>1. \A k : k = 6 => Progress(k)'
      BY <2>4, <2>7 DEF Progress
    <3> QED BY <1>3, <1>6, <2>2, <2>7, <3>1
  <2> QED BY <2>3, <2>5, <2>6, <2>7
<1>7. Undone'
  BY <1>1, <1>3, <1>6, UndoneIf DEF SysInv
<1> QED BY <1>2, <1>4, <1>5, <1>7 DEF SysInv

(* A command that goes on after an error, or with nothing to restore. *)
LEMMA AfterErrorCmd ==
  ASSUME SysInv, cmd # NoCmd, UNCHANGED os, NEW f \in SUBSET StepsOf(os),
         cmd' = Enter(cmd.name, AfterError, f),
         cmd.name = "uninstall" /\ f = {} /\ AfterError # <<>> =>
           \A k : k = Len(AfterError) => Progress(k)'
  PROVE  CmdOK' /\ Ready' /\ Undone'
<1>1. /\ ScriptOK(os, AfterError) /\ (AfterError # <<>> => Head(AfterError).do \notin Careful)
      /\ \A t \in Seq(Steps(os)) : SuffixOf(cmd.script, t) => SuffixOf(AfterError, t)
      /\ cmd.name \in {"install", "uninstall", "restart", "stop"}
  BY AfterErrorOK, AtStepFacts DEF SysInv
<1>2. /\ CmdOK' /\ (AfterError = <<>> => cmd' = NoCmd)
      /\ (AfterError # <<>> => AtStep' = Head(AfterError))
  BY <1>1, EnterOK DEF SysInv
<1>3. Ready'
  BY <1>1, <1>2, ReadyPlain
<1>4. cmd.name = "uninstall" => SuffixOf(AfterError, uninstall_service)
  BY <1>1, UninstallScript DEF SysInv, Undone
<1>5. Undone'
  BY <1>1, <1>4, UndoneIf DEF SysInv
<1> QED BY <1>2, <1>3, <1>5

(* A step fails. *)
LEMMA StepFailsOK ==
  ASSUME SysInv, StepFails
  PROVE  SysInv'
<1>1. /\ cmd # NoCmd /\ AtStep.do \notin Each
      /\ host' \in {FailedEffect(AtStep.do, host), TornEffect(AtStep.do, host)}
      /\ cmd' = Enter(cmd.name, AfterError, cmd.failed \cup {AtStep.do}) /\ Excuse
      /\ UNCHANGED <<os, resolved, hadReal, drifted>>
  BY DEF StepFails
<1>2. HostType' /\ Safe' /\ OneNrptRule'
  BY <1>1, TornHost
<1>3. cmd.failed \cup {AtStep.do} \in SUBSET StepsOf(os) /\ cmd.failed \cup {AtStep.do} # {}
  BY <1>1, AtStepFacts DEF SysInv
<1>4. CmdOK' /\ Ready' /\ Undone'
  BY <1>1, <1>3, AfterErrorCmd
<1> QED BY <1>2, <1>4 DEF SysInv

(* A step over several interfaces is given up. *)
LEMMA EachAbortsOK ==
  ASSUME SysInv, EachAborts
  PROVE  SysInv'
<1>1. /\ cmd # NoCmd /\ host' = host
      /\ cmd' = Enter(cmd.name, AfterError, cmd.failed \cup {AtStep.do})
      /\ UNCHANGED <<os, resolved, hadReal, drifted, excused>>
  BY DEF EachAborts
<1>2. HostType' /\ Safe' /\ OneNrptRule'
  BY <1>1, SameHost DEF Steady
<1>3. cmd.failed \cup {AtStep.do} \in SUBSET StepsOf(os) /\ cmd.failed \cup {AtStep.do} # {}
  BY <1>1, AtStepFacts DEF SysInv
<1>4. CmdOK' /\ Ready' /\ Undone'
  BY <1>1, <1>3, AfterErrorCmd
<1> QED BY <1>2, <1>4 DEF SysInv

(* A script that skips to "stop" leaves its last steps. *)
LEMMA StopLeavesTwo ==
  ASSUME HostType, os = "macos", NEW s \in Seq(Steps(os)), s # <<>>,
         SuffixOf(s, uninstall_service), Head(s).do = "stop"
  PROVE  Len(s) = 2
<1> DEFINE n == Len(s)
           t == uninstall_service
<1>1. /\ Len(t) = 7 /\ t[1].do # "stop" /\ t[2].do # "stop" /\ t[3].do # "stop" /\ t[4].do # "stop"
      /\ t[5].do # "stop" /\ t[7].do # "stop"
  BY UninstallMacos
<1>2. n \in Nat \ {0} /\ 1 \in 1..n /\ Head(s) = s[1]
  OBVIOUS
<1> HIDE DEF t, n
<1>3. n <= 7 /\ \A k \in 1..n : s[k] = t[7 - n + k]
  BY <1>1, Zenon DEF SuffixOf, n, t
<1>4. n \in 1..7 /\ t[7 - n + 1].do = "stop"
  BY <1>2, <1>3
<1>5. n \in {1, 2, 3, 4, 5, 6, 7}
  BY <1>4
<1>6. n # 1 /\ n # 3 /\ n # 4 /\ n # 5 /\ n # 6 /\ n # 7
  BY <1>1, <1>4
<1>7. n = 2
  BY <1>5, <1>6
<1> QED BY <1>7 DEF n

(* There is no backup to restore. *)
LEMMA NothingToRestoreOK ==
  ASSUME SysInv, NothingToRestore
  PROVE  SysInv'
<1>1. /\ cmd # NoCmd /\ host' = host /\ AtStep.do = "read backup" /\ host.backup = NoBackup
      /\ cmd' = Enter(cmd.name, AfterError, cmd.failed)
      /\ UNCHANGED <<os, resolved, hadReal, drifted, excused>>
  BY DEF NothingToRestore
<1>2. HostType' /\ Safe' /\ OneNrptRule'
  BY <1>1, SameHost DEF Steady
<1>3. cmd.failed \in SUBSET StepsOf(os) /\ os = "macos"
  <2>1. cmd.failed \in SUBSET StepsOf(os) /\ AtStep.do \in StepsOf(os) /\ HostType
    BY <1>1, AtStepFacts DEF SysInv
  <2> QED BY <1>1, <2>1 DEF StepsOf, Common, HostType
<1>4. ASSUME cmd.name = "uninstall", cmd.failed = {}, AfterError # <<>>
      PROVE  \A k : k = Len(AfterError) => Progress(k)'
  <2>1. HostType /\ CmdOK /\ SuffixOf(cmd.script, uninstall_service) /\ Progress(Len(cmd.script))
    BY <1>4 DEF SysInv, Undone
  <2>2. Len(cmd.script) = 5 /\ AtStep.onError = "stop"
    BY <1>1, <1>3, <2>1, MacosAt
  <2>3. ~host.trusted /\ ~host.dropin
    BY <1>3, <2>1, <2>2 DEF Progress
  <2>4. AfterError = From(Tail(cmd.script), "stop")
    BY <2>2 DEF AfterError
  <2>5. ScriptOK(os, Tail(cmd.script))
    BY <1>1, <2>1, AtStepFacts, ScriptTail
  <2>6. Head(AfterError).do = "stop"
    BY <1>4, <2>4, <2>5, ScriptFrom
  <2>7. /\ AfterError \in Seq(Steps(os)) /\ SuffixOf(AfterError, uninstall_service)
    BY <1>1, <2>1, AfterErrorOK, UninstallScript DEF ScriptOK
  <2>8. Len(AfterError) = 2
    BY <1>3, <1>4, <2>1, <2>6, <2>7, StopLeavesTwo
  <2>9. \A k : k = 2 => Progress(k)'
    <3>1. ~host'.trusted /\ ~host'.dropin /\ host'.backup = NoBackup /\ os' = "macos"
      BY <1>1, <1>3, <2>3
    <3>2. ~(2 <= 1)
      OBVIOUS
    <3> QED BY <3>1, <3>2, Zenon DEF Progress
  <2> QED BY <2>8, <2>9
<1>5. CmdOK' /\ Ready' /\ Undone'
  BY <1>1, <1>3, <1>4, AfterErrorCmd
<1> QED BY <1>2, <1>5 DEF SysInv

(* The next step of a command without an error. *)
LEMMA TailFacts ==
  ASSUME SysInv, cmd # NoCmd, UNCHANGED os, cmd' = Enter(cmd.name, Tail(cmd.script), cmd.failed)
  PROVE  /\ CmdOK'
         /\ cmd' # NoCmd => /\ Fits(AtStep, AtStep') /\ cmd'.todo = Todo(AtStep'.do)
         /\ (cmd.name = "uninstall" /\ cmd.failed = {} =>
              \A k : k = Len(cmd.script) - 1 => Progress(k)') => Undone'
<1> DEFINE rest == Tail(cmd.script)
<1>1. /\ cmd.script # <<>> /\ cmd.script \in Seq(Steps(os)) /\ ScriptOK(os, cmd.script)
      /\ AtStep = cmd.script[1] /\ cmd.name \in {"install", "uninstall", "restart", "stop"}
      /\ cmd.failed \in SUBSET StepsOf(os) /\ HostType
  BY AtStepFacts DEF SysInv
<1>2. ScriptOK(os, rest) /\ (rest # <<>> => Fits(AtStep, Head(rest)))
  BY <1>1, ScriptTail
<1>3. Len(rest) = Len(cmd.script) - 1
  BY <1>1
<1> HIDE DEF rest
<1>4. cmd' = Enter(cmd.name, rest, cmd.failed)
  BY DEF rest
<1>5. /\ CmdOK' /\ (rest = <<>> => cmd' = NoCmd)
      /\ rest # <<>> => cmd'.todo = Todo(Head(rest).do) /\ AtStep' = Head(rest)
  BY <1>1, <1>2, <1>4, EnterOK
<1>6. cmd.name = "uninstall" => SuffixOf(rest, uninstall_service)
  BY <1>1, SuffixTail, UninstallScript DEF SysInv, Undone, rest
<1>7. ASSUME cmd.name = "uninstall" /\ cmd.failed = {} =>
               \A k : k = Len(cmd.script) - 1 => Progress(k)'
      PROVE  Undone'
  <2>1. cmd.name = "uninstall" /\ cmd.failed = {} /\ rest # <<>> => \A k : k = Len(rest) => Progress(k)'
    BY <1>3, <1>7
  <2> QED BY <1>1, <1>2, <1>4, <1>6, <2>1, UndoneIf
<1> QED BY <1>2, <1>5, <1>7

(* Behind a backup there is something to go back to. *)
LEMMA BackupSaves ==
  ASSUME HostType, Safe
  PROVE  resolved \/ Backup(host).backup # NoBackup \/ Owed = {}
<1>1. host \in Host(os) /\ host.dns \in [Interfaces(os) -> Setting] /\ Owed \subseteq Interfaces(os)
  BY DEF HostType, Host, Owed
<1>2. CASE resolved
  BY <1>2
<1>3. CASE ~resolved /\ Useful(host.backup)
  <2>1. host.backup # NoBackup
    BY <1>3 DEF Useful, NoBackup
  <2> QED BY <1>3, <2>1 DEF Backup
<1>4. CASE ~resolved /\ ~Useful(host.backup) /\ os = "linux"
           /\ is_loopback_or_stub(host.dns["resolv.conf"])
  <2>1. Backup(host) = host
    BY <1>4 DEF Backup
  <2>2. CASE host.backup = NoBackup
    <3>1. InPlace /\ Owed \subseteq {"resolv.conf"}
      BY <1>1, <1>4, <2>2 DEF Safe, Interfaces
    <3>2. ~Real(host.dns["resolv.conf"])
      BY <1>4 DEF Real, is_loopback_or_stub
    <3> QED BY <3>1, <3>2 DEF InPlace
  <2> QED BY <2>1, <2>2
<1>5. CASE ~resolved /\ ~Useful(host.backup) /\ os = "linux"
           /\ ~is_loopback_or_stub(host.dns["resolv.conf"])
  <2>1. Backup(host).backup = host.dns
    BY <1>1, <1>5 DEF Backup, Host
  <2>2. host.dns # NoBackup
    <3>1. DOMAIN host.dns = {"resolv.conf"}
      BY <1>1, <1>5 DEF Interfaces
    <3> QED BY <3>1 DEF NoBackup
  <2> QED BY <2>1, <2>2
<1>6. CASE ~resolved /\ ~Useful(host.backup) /\ os # "linux"
  <2> DEFINE b == [i \in DOMAIN host.dns |->
                     IF is_loopback_or_stub(host.dns[i]) THEN "dhcp" ELSE host.dns[i]]
  <2>1. Backup(host).backup = b
    BY <1>1, <1>6 DEF Backup, Host
  <2>2. DOMAIN b = Interfaces(os)
    BY <1>1
  <2> HIDE DEF b
  <2>3. b = NoBackup => Interfaces(os) = {}
    BY <2>2 DEF NoBackup
  <2> QED BY <1>1, <2>1, <2>3
<1> QED BY <1>2, <1>3, <1>4, <1>5, <1>6

(* A step succeeds. *)
LEMMA StepDoneOK ==
  ASSUME SysInv, StepDone
  PROVE  SysInv'
<1>1. /\ cmd # NoCmd /\ AtStep.do \notin Each /\ host' = Effect(AtStep.do, host)
      /\ ~(AtStep.do = "read backup" /\ (Torn(host.backup) \/ host.backup = NoBackup))
      /\ cmd' = Enter(cmd.name, Tail(cmd.script), cmd.failed)
      /\ UNCHANGED <<os, resolved, hadReal, drifted, excused>>
  BY DEF StepDone
<1>2. HostType' /\ Safe' /\ OneNrptRule'
  BY StepDoneHost
<1>3. CmdOK' /\ Undone'
  BY <1>1, TailFacts, StepDoneProgress
<1>4. Owed' = Owed /\ Owed \subseteq Interfaces(os) /\ host \in Host(os)
  BY <1>1 DEF Owed, SysInv, HostType
<1>5. Ready'
  <2>0. SUFFICES ASSUME cmd' # NoCmd, AtStep'.do \in Careful PROVE Ready'
    BY ReadyPlain
  <2> DEFINE d == AtStep'.do
  <2>1. AtStep.do = Needs(d) /\ cmd'.todo = Todo(d)
    BY <1>1, <2>0, TailFacts DEF Fits
  <2>2. CASE d \in {"redirect", "redirect each"}
    <3>1. host' = Backup(host)
      BY <1>1, <2>1, <2>2 DEF Needs, Effect
    <3>2. resolved' \/ host'.backup # NoBackup \/ Owed' = {}
      BY <1>1, <1>4, <3>1, BackupSaves DEF SysInv
    <3> QED BY <2>2, <3>2 DEF Ready
  <2>3. CASE d = "restore each"
    <3>1. host' = host /\ host.backup # NoBackup /\ cmd'.todo = DOMAIN host.backup
      BY <1>1, <2>1, <2>3 DEF Needs, Effect, Todo
    <3>2. DOMAIN host.backup = Interfaces(os)
      BY <1>4, <3>1 DEF Host
    <3> QED BY <1>4, <2>3, <3>1, <3>2 DEF Ready
  <2>4. CASE d = "remove backup"
    BY <1>1, <2>1, <2>4 DEF Needs, Each
  <2>5. CASE d = "nrpt add"
    <3>1. host' = remove_nrpt_rule(host)
      BY <1>1, <2>1, <2>5 DEF Needs, Effect
    <3>2. host'.nrpt = 0
      BY <1>4, <3>1 DEF remove_nrpt_rule, Host
    <3> QED BY <2>5, <3>2 DEF Ready
  <2> QED BY <2>0, <2>2, <2>3, <2>4, <2>5 DEF Careful
<1> QED BY <1>2, <1>3, <1>5 DEF SysInv

(* A step over several interfaces is through with them. *)
LEMMA EachEndsOK ==
  ASSUME SysInv, EachEnds
  PROVE  SysInv'
<1>1. /\ cmd # NoCmd /\ AtStep.do \in Each /\ host' = host /\ cmd.todo = {}
      /\ cmd' = Enter(cmd.name, Tail(cmd.script), cmd.failed)
      /\ UNCHANGED <<os, resolved, hadReal, drifted, excused>>
  BY DEF EachEnds
<1>2. HostType' /\ Safe' /\ OneNrptRule'
  BY <1>1, SameHost DEF Steady
<1>3. os = "macos"
  <2>1. AtStep.do \in StepsOf(os) /\ HostType
    BY <1>1, AtStepFacts DEF SysInv
  <2> QED BY <1>1, <2>1 DEF StepsOf, Common, HostType, Each
<1>4. ASSUME cmd.name = "uninstall", cmd.failed = {}
      PROVE  \A k : k = Len(cmd.script) - 1 => Progress(k)'
  <2>1. HostType /\ CmdOK /\ SuffixOf(cmd.script, uninstall_service) /\ Progress(Len(cmd.script))
    BY <1>4 DEF SysInv, Undone
  <2>2. Len(cmd.script) = 4
    BY <1>1, <1>3, <2>1, MacosAt DEF Each
  <2>3. ~host.trusted /\ ~host.dropin
    BY <1>3, <2>1, <2>2 DEF Progress
  <2>4. \A k : k = 3 => Progress(k)'
    <3>1. ~host'.trusted /\ ~host'.dropin /\ os' = "macos"
      BY <1>1, <1>3, <2>3
    <3>2. ~(3 <= 2) /\ ~(3 <= 1)
      OBVIOUS
    <3> QED BY <3>1, <3>2, Zenon DEF Progress
  <2>5. Len(cmd.script) - 1 = 3
    BY <2>2
  <2> QED BY <2>4, <2>5
<1>5. CmdOK' /\ Undone'
  BY <1>1, <1>4, TailFacts
<1>6. Ready'
  <2>0. SUFFICES ASSUME cmd' # NoCmd, AtStep'.do \in Careful PROVE Ready'
    BY ReadyPlain
  <2>1. AtStep.do = Needs(AtStep'.do)
    BY <1>1, <2>0, TailFacts DEF Fits
  <2>2. AtStep'.do = "remove backup" /\ AtStep.do = "restore each"
    BY <1>1, <2>0, <2>1 DEF Needs, Careful, Each
  <2>3. InPlace
    BY <1>1, <2>2 DEF SysInv, Ready, InPlace
  <2>4. InPlace'
    BY <1>1, <2>3 DEF InPlace, Owed
  <2> QED BY <2>2, <2>4 DEF Ready
<1> QED BY <1>2, <1>5, <1>6 DEF SysInv

(* A loop over the network services goes on. *)
LEMMA EachCmd ==
  ASSUME SysInv, cmd # NoCmd, UNCHANGED os, NEW i \in cmd.todo, NEW f \in SUBSET StepsOf(os),
         cmd' = [cmd EXCEPT !.todo = @ \ {i}, !.failed = f]
  PROVE  /\ CmdOK' /\ cmd' # NoCmd /\ AtStep' = AtStep /\ AtStep.do \in Each
         /\ cmd'.todo = cmd.todo \ {i} /\ cmd'.failed = f /\ cmd'.name = cmd.name
         /\ cmd'.script = cmd.script /\ os = "macos"
<1>1. /\ cmd \in [name : {"install", "uninstall", "restart", "stop"}, script : Seq(Steps(os)),
                  todo : SUBSET Interfaces(os), failed : SUBSET StepsOf(os)]
      /\ cmd.script # <<>> /\ ScriptOK(os, cmd.script) /\ AtStep.do \in Each
  BY DEF SysInv, CmdOK
<1>2. /\ cmd'.todo = cmd.todo \ {i} /\ cmd'.failed = f /\ cmd'.name = cmd.name
      /\ cmd'.script = cmd.script
  BY <1>1
<1>3. AtStep' = AtStep /\ cmd' # NoCmd
  BY <1>1, <1>2 DEF AtStep, NoCmd
<1>4. cmd' \in [name : {"install", "uninstall", "restart", "stop"}, script : Seq(Steps(os)),
                todo : SUBSET Interfaces(os), failed : SUBSET StepsOf(os)]
  BY <1>1
<1>5. CmdOK'
  BY <1>1, <1>2, <1>3, <1>4 DEF CmdOK
<1>6. os = "macos"
  <2>1. AtStep.do \in StepsOf(os) /\ HostType
    BY AtStepFacts DEF SysInv
  <2> QED BY <1>1, <2>1 DEF StepsOf, Common, HostType, Each
<1> QED BY <1>1, <1>2, <1>3, <1>5, <1>6

(* It succeeds for one interface ... *)
LEMMA EachDoneOK ==
  ASSUME SysInv, NEW i \in Services, EachDone(i)
  PROVE  SysInv'
<1>1. /\ cmd # NoCmd /\ i \in cmd.todo /\ UNCHANGED <<os, resolved, hadReal, drifted, excused>>
      /\ host' = [host EXCEPT !.dns[i] = IF AtStep.do = "redirect each" THEN "numa" ELSE host.backup[i]]
      /\ cmd' = [cmd EXCEPT !.todo = @ \ {i}]
  BY DEF EachDone
<1>2. HostType' /\ Safe' /\ OneNrptRule'
  BY EachHost
<1>3. cmd' = [cmd EXCEPT !.todo = @ \ {i}, !.failed = cmd.failed] /\ cmd.failed \in SUBSET StepsOf(os)
  BY <1>1 DEF SysInv, CmdOK
<1>4. /\ CmdOK' /\ cmd' # NoCmd /\ AtStep' = AtStep /\ AtStep.do \in Each
      /\ cmd'.todo = cmd.todo \ {i} /\ cmd'.failed = cmd.failed /\ cmd'.name = cmd.name
      /\ cmd'.script = cmd.script /\ os = "macos"
  BY <1>1, <1>3, EachCmd
<1>5. host \in Host(os) /\ DOMAIN host.dns = Interfaces(os) /\ Owed' = Owed
      /\ Owed \subseteq Interfaces(os)
  BY <1>1 DEF SysInv, HostType, Host, Owed
<1>6. /\ host'.backup = host.backup /\ host'.trusted = host.trusted /\ host'.dropin = host.dropin
      /\ host'.running = host.running
  BY <1>1, <1>5 DEF Host
<1>7. Ready'
  <2>1. CASE AtStep.do = "redirect each"
    BY <1>1, <1>4, <1>5, <1>6, <2>1 DEF SysInv, Ready
  <2>2. CASE AtStep.do = "restore each"
    <3>1. cmd.todo \subseteq DOMAIN host.backup /\ \A j \in Owed \ cmd.todo : Real(host.dns[j])
      BY <1>1, <2>2 DEF SysInv, Ready
    <3>2. host.backup # NoBackup
      <4>1. i \in DOMAIN host.backup
        BY <1>1, <3>1
      <4>2. DOMAIN NoBackup = {}
        BY DEF NoBackup
      <4> QED BY <4>1, <4>2
    <3>3. \A j \in Owed : Real(host.backup[j])
      BY <3>2 DEF SysInv, Safe
    <3>4. ASSUME NEW j \in Owed \ (cmd.todo \ {i}) PROVE Real(host'.dns[j])
      BY <1>1, <1>5, <2>2, <3>1, <3>3 DEF Host
    <3>5. cmd'.todo \subseteq DOMAIN host'.backup
      BY <1>4, <1>6, <3>1
    <3> QED BY <1>4, <1>5, <2>2, <3>4, <3>5 DEF Ready
  <2> QED BY <1>4, <2>1, <2>2 DEF Each
<1>8. Undone'
  <2>1. uninstall_service' = uninstall_service
    BY <1>1 DEF uninstall_service, uninstall_service_linux, uninstall_service_macos, uninstall_windows
  <2>2. ASSUME cmd.name = "uninstall" PROVE SuffixOf(cmd.script, uninstall_service)'
    <3>1. SuffixOf(cmd.script, uninstall_service)
      BY <2>2 DEF SysInv, Undone
    <3> QED BY <1>4, <2>1, <3>1, Zenon DEF SuffixOf
  <2>3. ASSUME cmd.name = "uninstall", cmd.failed = {} PROVE Progress(Len(cmd.script))'
    <3>1. Progress(Len(cmd.script))
      BY <2>3 DEF SysInv, Undone
    <3>2. os' = "macos" /\ os = "macos"
      BY <1>1, <1>4
    <3> QED BY <1>4, <1>6, <3>1, <3>2, Zenon DEF Progress
  <2> QED BY <1>4, <2>2, <2>3, Zenon DEF Undone
<1> QED BY <1>2, <1>4, <1>7, <1>8 DEF SysInv

(* ... and fails for one. *)
LEMMA EachFailsOK ==
  ASSUME SysInv, NEW i \in Services, EachFails(i)
  PROVE  SysInv'
<1>1. /\ cmd # NoCmd /\ i \in cmd.todo /\ UNCHANGED <<os, resolved, hadReal, drifted>> /\ host' = host
      /\ excused' = IF AtStep.do = "restore each" THEN excused \cup {i} ELSE excused
      /\ cmd' = [cmd EXCEPT !.todo = @ \ {i}, !.failed = @ \cup {AtStep.do}]
  BY DEF EachFails
<1>2. HostType' /\ Safe' /\ OneNrptRule'
  BY <1>1, SameHost DEF Steady
<1>3. /\ cmd' = [cmd EXCEPT !.todo = @ \ {i}, !.failed = cmd.failed \cup {AtStep.do}]
      /\ cmd.failed \cup {AtStep.do} \in SUBSET StepsOf(os)
  BY <1>1, AtStepFacts DEF SysInv
<1>4. /\ CmdOK' /\ cmd' # NoCmd /\ AtStep' = AtStep /\ AtStep.do \in Each
      /\ cmd'.todo = cmd.todo \ {i} /\ cmd'.failed = cmd.failed \cup {AtStep.do}
      /\ cmd'.name = cmd.name /\ cmd'.script = cmd.script
  BY <1>1, <1>3, EachCmd
<1>5. Owed' \subseteq Owed
  BY <1>1, OwedShrinks DEF Steady
<1>6. Ready'
  <2>1. CASE AtStep.do = "redirect each"
    BY <1>1, <1>4, <1>5, <2>1 DEF SysInv, Ready
  <2>2. CASE AtStep.do = "restore each"
    <3>1. cmd.todo \subseteq DOMAIN host.backup /\ \A j \in Owed \ cmd.todo : Real(host.dns[j])
      BY <1>1, <2>2 DEF SysInv, Ready
    <3>2. i \notin Owed'
      BY <1>1, <2>2 DEF Owed
    <3> QED BY <1>1, <1>4, <1>5, <2>2, <3>1, <3>2 DEF Ready
  <2> QED BY <1>4, <2>1, <2>2 DEF Each
<1>7. Undone'
  <2>1. uninstall_service' = uninstall_service
    BY <1>1 DEF uninstall_service, uninstall_service_linux, uninstall_service_macos, uninstall_windows
  <2>2. ASSUME cmd.name = "uninstall" PROVE SuffixOf(cmd.script, uninstall_service)'
    <3>1. SuffixOf(cmd.script, uninstall_service)
      BY <2>2 DEF SysInv, Undone
    <3> QED BY <1>4, <2>1, <3>1, Zenon DEF SuffixOf
  <2>3. cmd'.failed # {}
    BY <1>4
  <2> QED BY <1>4, <2>2, <2>3, Zenon DEF Undone
<1> QED BY <1>2, <1>4, <1>6, <1>7 DEF SysInv

(* The command is killed. *)
LEMMA KilledOK ==
  ASSUME SysInv, Killed
  PROVE  SysInv'
<1>1. /\ cmd # NoCmd /\ host' \in {host, TornEffect(AtStep.do, host)} /\ cmd' = NoCmd /\ Excuse
      /\ UNCHANGED <<os, resolved, hadReal, drifted>>
  BY DEF Killed
<1>2. HostType' /\ Safe' /\ OneNrptRule'
  <2>1. CASE AtStep.do \in Each
    <3>1. host' = host
      BY <1>1, <2>1 DEF TornEffect, Each
    <3>2. excused \subseteq excused'
      BY <1>1 DEF Excuse
    <3> QED BY <1>1, <3>1, <3>2, SameHost DEF Steady
  <2>2. CASE AtStep.do \notin Each
    BY <1>1, <2>2, TornHost
  <2> QED BY <2>1, <2>2
<1>3. CmdOK' /\ Ready' /\ Undone'
  BY <1>1 DEF CmdOK, Ready, Undone, NoCmd
<1> QED BY <1>2, <1>3 DEF SysInv

(* No command is under way. *)
LEMMA IdleOK ==
  ASSUME cmd = NoCmd, cmd' = NoCmd
  PROVE  CmdOK' /\ Ready' /\ Undone'
BY DEF CmdOK, Ready, Undone, NoCmd

(* Nothing happens. *)
LEMMA SysStutter ==
  ASSUME SysInv, UNCHANGED sysVars
  PROVE  SysInv'
<1>1. HostType' /\ Safe' /\ OneNrptRule'
  BY SameHost DEF Steady, sysVars
<1>2. UNCHANGED <<os, host, resolved, cmd, hadReal, drifted, excused>>
  BY DEF sysVars
<1>3. CmdOK'
  BY <1>2 DEF SysInv, CmdOK, AtStep
<1>4. Owed' = Owed /\ (InPlace' <=> InPlace)
  BY <1>2 DEF Owed, InPlace
<1>5. Ready'
  BY <1>2, <1>4 DEF SysInv, Ready, AtStep
<1>6. Undone'
  <2>1. uninstall_service' = uninstall_service
    BY <1>2 DEF uninstall_service, uninstall_service_linux, uninstall_service_macos, uninstall_windows
  <2> QED BY <1>2, <1>4, <2>1, Zenon DEF SysInv, Undone, Progress, SuffixOf
<1> QED BY <1>1, <1>3, <1>5, <1>6 DEF SysInv

(* The host as numa finds it. *)
LEMMA SysInitOK == SysInit => SysInv
<1> SUFFICES ASSUME SysInit PROVE SysInv
  OBVIOUS
<1>1. PICK dns \in [Interfaces(os) -> {"isp", IF os = "linux" THEN "stub" ELSE "dhcp"}],
           legacy \in (IF os = "windows" THEN BOOLEAN ELSE {FALSE}) :
        /\ host = InitSys(os, IF legacy THEN [i \in DOMAIN dns |-> "numa"] ELSE dns, legacy)
        /\ hadReal = [i \in Interfaces(os) |-> ~legacy /\ Real(dns[i])]
  BY DEF SysInit
<1>2. /\ os \in {"linux", "macos", "windows"} /\ resolved \in BOOLEAN /\ (resolved => os = "linux")
      /\ cmd = NoCmd /\ drifted = {} /\ excused = {}
  BY DEF SysInit
<1> DEFINE d == IF legacy THEN [i \in DOMAIN dns |-> "numa"] ELSE dns
<1>3. d \in [Interfaces(os) -> Setting] /\ legacy \in BOOLEAN /\ (legacy => os = "windows")
  BY <1>1 DEF Setting
<1>4. HostType
  <2>1. host \in Host(os)
    BY <1>1, <1>3 DEF Host, InitSys, NoBackup
  <2>2. hadReal \in [Interfaces(os) -> BOOLEAN]
    BY <1>1
  <2> QED BY <1>2, <2>1, <2>2 DEF HostType
<1>5. Safe /\ OneNrptRule
  <2>1. /\ host.backup = NoBackup /\ host.dropin = FALSE /\ host.nrpt = 0 /\ host.legacy = legacy
        /\ host.dns = d
    BY <1>1 DEF InitSys
  <2>2. legacy => Owed = {}
    BY <1>1 DEF Owed
  <2>3. ~legacy => InPlace
    BY <1>1, <2>1 DEF Owed, InPlace
  <2>4. InPlace
    BY <2>2, <2>3 DEF InPlace
  <2> QED BY <1>2, <1>3, <2>1, <2>2, <2>4 DEF Safe, OneNrptRule
<1>6. CmdOK /\ Ready /\ Undone
  BY <1>2 DEF CmdOK, Ready, Undone, NoCmd
<1> QED BY <1>4, <1>5, <1>6 DEF SysInv

(* Every command can be cut off after any of its steps, repeated and followed by
   another: what the rest of a script relies on holds when it gets there
   (src/src/system_dns.rs). *)
THEOREM SysInvariant == SysSpec => []SysInv
<1>1. SysInv /\ [SysNext]_sysVars => SysInv'
  <2> SUFFICES ASSUME SysInv, [SysNext]_sysVars PROVE SysInv'
    OBVIOUS
  <2>1. ASSUME NEW c \in Commands, RunCommand(c) PROVE SysInv'
    BY <2>1, RunCommandOK
  <2>2. ASSUME NEW i \in Services, EachDone(i) \/ EachFails(i) PROVE SysInv'
    BY <2>2, EachDoneOK, EachFailsOK
  <2>3. ASSUME NEW i \in Services \cup {"resolv.conf"}, NEW s \in {"isp", "dhcp", "stub"},
               SettingsChange(i, s)
        PROVE  SysInv'
    <3>1. HostType' /\ Safe' /\ OneNrptRule'
      BY <2>3, SettingsChangeHost
    <3>2. cmd = NoCmd /\ cmd' = NoCmd
      BY <2>3 DEF SettingsChange
    <3> QED BY <3>1, <3>2, IdleOK DEF SysInv
  <2>4. ASSUME ResolvedChange PROVE SysInv'
    <3>1. HostType' /\ Safe' /\ OneNrptRule'
      BY <2>4, ResolvedChangeHost
    <3>2. cmd = NoCmd /\ cmd' = NoCmd
      BY <2>4 DEF ResolvedChange
    <3> QED BY <3>1, <3>2, IdleOK DEF SysInv
  <2> QED BY <2>1, <2>2, <2>3, <2>4, StepDoneOK, StepFailsOK, NothingToRestoreOK, EachEndsOK,
             EachAbortsOK, KilledOK, SysStutter DEF SysNext
<1> QED BY <1>1, SysInitOK, PTL DEF SysSpec

(* Whatever is installed, repeated, cut short or killed, the servers of the
   host are in its settings or in the backup, and there is one NRPT rule of
   ours at most (src/src/system_dns.rs). *)
THEOREM OriginalRecoverableThm == SysSpec => []OriginalRecoverable
<1>1. SysInv => OriginalRecoverable
  <2> SUFFICES ASSUME SysInv PROVE OriginalRecoverable
    OBVIOUS
  <2>1. host \in Host(os) /\ DOMAIN host.dns = Interfaces(os)
    BY DEF SysInv, HostType, Host
  <2>2. ASSUME NEW i \in DOMAIN host.dns \ (drifted \cup excused), hadReal[i]
        PROVE  Real(host.dns[i]) \/ (i \in DOMAIN host.backup /\ Real(host.backup[i]))
    <3>1. i \in Owed
      BY <2>1, <2>2 DEF Owed
    <3>2. CASE host.backup = NoBackup
      BY <3>1, <3>2 DEF SysInv, Safe, InPlace
    <3>3. CASE host.backup # NoBackup
      <4>1. Real(host.backup[i])
        BY <3>1, <3>3 DEF SysInv, Safe
      <4>2. DOMAIN host.backup = Interfaces(os)
        BY <2>1, <3>3 DEF Host
      <4> QED BY <2>1, <2>2, <4>1, <4>2
    <3> QED BY <3>2, <3>3
  <2> QED BY <2>2 DEF OriginalRecoverable, ServersRecoverable, SysInv
<1> QED BY <1>1, SysInvariant, PTL

(* An uninstall that ran to its end without an error leaves nothing behind
   (src/src/system_dns.rs, uninstall_service). *)
THEOREM UninstallRestoresThm == SysSpec => UninstallRestores
<1>1. ASSUME SysInv, cmd.name = "uninstall", Len(cmd.script) = 1, cmd.failed = {},
             host' = Effect(AtStep.do, host)
      PROVE  /\ ~host'.running /\ ~host'.trusted /\ host'.nrpt = 0 /\ ~host'.dropin
             /\ \A i \in DOMAIN host'.dns \ (drifted \cup excused) : hadReal[i] => Real(host'.dns[i])
  <2>1. /\ HostType /\ CmdOK /\ SuffixOf(cmd.script, uninstall_service) /\ Safe
        /\ Progress(Len(cmd.script))
    BY <1>1 DEF SysInv, Undone
  <2>2. cmd # NoCmd
    BY <1>1 DEF NoCmd
  <2>3. host \in Host(os) /\ DOMAIN host.dns = Interfaces(os)
    BY <2>1 DEF HostType, Host
  <2>4. CASE os # "windows"
    <3>1. AtStep.do = "remove unit"
      <4>1. os \in {"linux", "macos"}
        BY <2>1, <2>4 DEF HostType
      <4>0. \A k \in 2..7 : Len(cmd.script) # k
        BY <1>1
      <4>5. 2 \in 2..7 /\ 3 \in 2..7 /\ 4 \in 2..7 /\ 5 \in 2..7 /\ 6 \in 2..7 /\ 7 \in 2..7
        OBVIOUS
      <4>2. CASE os = "linux"
        BY <2>1, <2>2, <4>0, <4>2, <4>5, LinuxAt, Zenon
      <4>3. CASE os = "macos"
        BY <2>1, <2>2, <4>0, <4>3, <4>5, MacosAt, Zenon
      <4> QED BY <4>1, <4>2, <4>3
    <3>2. /\ host'.running = host.running /\ host'.trusted = host.trusted /\ host'.nrpt = host.nrpt
          /\ host'.dropin = host.dropin /\ host'.dns = host.dns
      BY <1>1, <2>3, <3>1 DEF Effect, Host
    <3>3. ~host.running /\ ~host.trusted /\ ~host.dropin /\ InPlace
      <4>1. os \in {"linux", "macos"}
        BY <2>1, <2>4 DEF HostType
      <4>2. CASE os = "linux"
        BY <1>1, <2>1, <4>2 DEF Progress
      <4>3. CASE os = "macos"
        BY <1>1, <2>1, <4>3 DEF Progress, Safe
      <4> QED BY <4>1, <4>2, <4>3
    <3>4. host.nrpt = 0
      BY <2>1, <2>4 DEF Safe
    <3> QED BY <2>3, <3>2, <3>3, <3>4 DEF InPlace, Owed
  <2>5. CASE os = "windows"
    <3>1. AtStep.do = "unwind"
      BY <1>1, <2>1, <2>2, <2>5, WindowsAt
    <3>2. host' = unwind_legacy_install_if_present(host)
      BY <1>1, <3>1 DEF Effect
    <3>3. /\ host'.running = host.running /\ host'.trusted = host.trusted /\ host'.nrpt = host.nrpt
          /\ host'.dropin = host.dropin /\ (~host.legacy => host'.dns = host.dns)
          /\ DOMAIN host'.dns = Interfaces(os)
      BY <2>3, <3>2 DEF unwind_legacy_install_if_present, Host
    <3>4. ~host.running /\ ~host.trusted /\ host.nrpt = 0
      BY <1>1, <2>1, <2>5 DEF Progress
    <3>5. ~host.dropin /\ InPlace /\ (host.legacy => Owed = {})
      BY <2>1, <2>5 DEF Safe
    <3>6. ASSUME NEW i \in Interfaces(os) \ (drifted \cup excused), hadReal[i]
          PROVE  Real(host'.dns[i])
      BY <3>3, <3>5, <3>6 DEF InPlace, Owed
    <3> QED BY <3>3, <3>4, <3>5, <3>6
  <2> QED BY <2>4, <2>5
<1>2. SysInv /\ [SysNext]_sysVars =>
        [cmd.name = "uninstall" /\ Len(cmd.script) = 1 /\ cmd'.name = "none" /\ cmd.failed = {}
           /\ host' = Effect(AtStep.do, host) /\ host'.unit = FALSE =>
           /\ ~host'.running /\ ~host'.trusted /\ host'.nrpt = 0 /\ ~host'.dropin
           /\ \A i \in DOMAIN host'.dns \ (drifted \cup excused) :
                hadReal[i] => Real(host'.dns[i])]_sysVars
  BY <1>1
<1> QED BY <1>2, SysInvariant, PTL DEF SysSpec, UninstallRestores

-----------------------------------------------------------------------------
(* The store on disk. *)
KeptOnDisk == svcKept = svcFile

(* The file changes when a save is completed, and only then. *)
LEMMA KeptStep == KeptOnDisk /\ [ServicesNext]_svcVars => KeptOnDisk'
<1> SUFFICES ASSUME KeptOnDisk, [ServicesNext]_svcVars PROVE svcKept' = svcFile'
  BY DEF KeptOnDisk
<1>1. ASSUME NEW ok \in BOOLEAN, SaveEnds(ok) PROVE svcKept' = svcFile'
  BY <1>1 DEF SaveEnds, KeptOnDisk
<1>2. ASSUME UNCHANGED <<svcFile, svcKept>> PROVE svcKept' = svcFile'
  BY <1>2 DEF KeptOnDisk
<1>3. ASSUME NEW t \in Handlers,
             \/ InsertService(t) \/ CollectServices(t) \/ CollectPeers(t)
             \/ BuildCert(t, TRUE) \/ BuildCert(t, FALSE)
      PROVE  UNCHANGED <<svcFile, svcKept>>
  BY <1>3 DEF InsertService, CollectServices, CollectPeers, BuildCert, disk
<1>4. ASSUME NEW t \in Handlers, NEW n \in UserNames, RemoveService(t, n)
             PROVE UNCHANGED <<svcFile, svcKept>>
  BY <1>4 DEF RemoveService, disk
<1>5. ASSUME NEW t \in Handlers, NEW n \in UserNames, NEW p \in Ports, CreateService(t, n, p)
      PROVE  UNCHANGED <<svcFile, svcKept>>
  BY <1>5 DEF CreateService, disk
<1>6. ASSUME NEW n \in UserNames, NEW path \in Paths, RemoveRoute(n, path)
      PROVE  UNCHANGED <<svcFile, svcKept>>
  BY <1>6 DEF RemoveRoute, disk
<1>7. ASSUME NEW n \in UserNames, NEW path \in Paths, NEW p \in Ports, NEW s \in BOOLEAN,
             AddRoute(n, path, p, s)
      PROVE  UNCHANGED <<svcFile, svcKept>>
  BY <1>7 DEF AddRoute, disk
<1>8. ASSUME NEW a \in Announcements, ReceiveAnnouncement(a) PROVE UNCHANGED <<svcFile, svcKept>>
  BY <1>8 DEF ReceiveAnnouncement, disk
<1>9. ASSUME NEW n \in DOMAIN peers, LookupPeer(n) PROVE UNCHANGED <<svcFile, svcKept>>
  BY <1>9 DEF LookupPeer, disk
<1>10. ASSUME ListPeers \/ NetworkChange \/ Crash \/ Tick \/ UNCHANGED svcVars
       PROVE  UNCHANGED <<svcFile, svcKept>>
  BY <1>10 DEF ListPeers, NetworkChange, Crash, Tick, svcVars, disk
<1>11. ASSUME NEW c \in ServiceConfigs, NEW p \in ProxyConfigs, NEW died \in BOOLEAN, Boot(c, p, died)
       PROVE  UNCHANGED <<svcFile, svcKept>>
  BY <1>11 DEF Boot
<1> QED BY <1>1, <1>2, <1>3, <1>4, <1>5, <1>6, <1>7, <1>8, <1>9, <1>10, <1>11 DEF ServicesNext

(* What a store is after it was loaded over a configuration. *)
LEMMA Loaded ==
  ASSUME NEW c, NEW f, NEW s, s = load_persisted(Configured(c), f)
  PROVE  /\ s.config = DOMAIN c \cup {"numa"}
         /\ \A n \in DOMAIN f \ s.config : n \in DOMAIN s.entries /\ s.entries[n] = f[n]
         /\ \A n \in DOMAIN c : s.entries[n] = c[n]
<1> DEFINE with == [n \in DOMAIN c \cup {"numa"} |->
                      IF n \in DOMAIN c THEN c[n] ELSE Service(5380, "localhost", <<>>)]
           k == Configured(c)
<1>1. k = [entries |-> [n \in DOMAIN NoEntries \cup DOMAIN with |->
                          IF n \in DOMAIN with THEN with[n] ELSE NoEntries[n]],
           config |-> {} \cup DOMAIN with]
  BY DEF Configured, insert_from_config
<1>2. DOMAIN with = DOMAIN c \cup {"numa"} /\ \A n \in DOMAIN c : with[n] = c[n]
  OBVIOUS
<1> HIDE DEF with, k
<1>3. /\ k = [entries |-> k.entries, config |-> k.config] /\ k.config = DOMAIN c \cup {"numa"}
      /\ DOMAIN k.entries = DOMAIN c \cup {"numa"} /\ \A n \in DOMAIN c : k.entries[n] = c[n]
  BY <1>1, <1>2 DEF NoEntries
<1> DEFINE new == DOMAIN f \ k.config
           e == [n \in DOMAIN k.entries \cup new |-> IF n \in new THEN f[n] ELSE k.entries[n]]
<1>4. s = [k EXCEPT !.entries = e]
  BY DEF load_persisted, k
<1>5. /\ DOMAIN e = DOMAIN k.entries \cup new /\ \A n \in new : e[n] = f[n]
      /\ \A n \in DOMAIN k.entries \ new : e[n] = k.entries[n]
  OBVIOUS
<1> HIDE DEF e
<1>6. s.config = k.config /\ s.entries = e
  BY <1>3, <1>4
<1> QED BY <1>3, <1>5, <1>6

(* A restart brings back every service whose save was completed, and the
   configuration's own definition of the names it defines
   (src/src/service_store.rs, save and load_persisted). *)
THEOREM RestartRestoresThm == ServicesSpec => RestartRestores
<1>1. ServicesInit => KeptOnDisk
  BY DEF ServicesInit, KeptOnDisk
<1>2. ASSUME KeptOnDisk, [ServicesNext]_svcVars, ~running, running'
      PROVE  /\ \A n \in DOMAIN svcKept \ services'.config :
                  n \in DOMAIN services'.entries /\ services'.entries[n] = svcKept[n]
             /\ \E c \in ServiceConfigs :
                  /\ services'.config = DOMAIN c \cup {"numa"}
                  /\ \A n \in DOMAIN c : services'.entries[n] = c[n]
  <2>1. \E c \in ServiceConfigs, p \in ProxyConfigs, died \in BOOLEAN : Boot(c, p, died)
    BY <1>2 DEF ServicesNext, svcVars, InsertService, CollectServices, CollectPeers, BuildCert,
       RemoveService, CreateService, RemoveRoute, AddRoute, SaveEnds, ReceiveAnnouncement,
       LookupPeer, ListPeers, NetworkChange, Crash, Tick, StoreFree
  <2>2. PICK c \in ServiceConfigs, p \in ProxyConfigs, died \in BOOLEAN : Boot(c, p, died)
    BY <2>1
  <2>3. services' = load_persisted(Configured(c), svcFile)
    BY <2>2 DEF Boot
  <2>4. /\ services'.config = DOMAIN c \cup {"numa"}
        /\ \A n \in DOMAIN svcFile \ services'.config :
             n \in DOMAIN services'.entries /\ services'.entries[n] = svcFile[n]
        /\ \A n \in DOMAIN c : services'.entries[n] = c[n]
    BY <2>3, Loaded
  <2> QED BY <1>2, <2>4 DEF KeptOnDisk
<1>3. KeptOnDisk /\ [ServicesNext]_svcVars =>
        [~running /\ running' =>
           /\ \A n \in DOMAIN svcKept \ services'.config :
                n \in DOMAIN services'.entries /\ services'.entries[n] = svcKept[n]
           /\ \E c \in ServiceConfigs :
                /\ services'.config = DOMAIN c \cup {"numa"}
                /\ \A n \in DOMAIN c : services'.entries[n] = c[n]]_svcVars
  BY <1>2
<1> QED BY <1>1, <1>3, KeptStep, PTL DEF ServicesSpec, RestartRestores

-----------------------------------------------------------------------------
(* Names in the certificate. *)
IsTask(r) ==
  /\ r = [at |-> r.at, name |-> r.name, port |-> r.port, new |-> r.new, got |-> r.got,
          alone |-> r.alone]
  /\ r.alone \in BOOLEAN

Shape ==
  /\ services = [entries |-> services.entries, config |-> services.config]
  /\ tls = [on |-> tls.on, byo |-> tls.byo, cert |-> tls.cert]
  /\ DOMAIN task = Handlers /\ \A t \in Handlers : IsTask(task[t])
  /\ missed \in BOOLEAN
  /\ ~running => Busy = {} /\ peers = NoEntries

(* A task that runs alone is the only one that is under way, and it has
   collected every name of the tables it has been through. *)
Collects(t) ==
  /\ task[t].at = "insert" => task[t].new \/ task[t].name \in DOMAIN services.entries
  /\ task[t].at = "peers" => DOMAIN services.entries \subseteq task[t].got
  /\ task[t].at = "build" => DOMAIN services.entries \cup DOMAIN peers \subseteq task[t].got

TasksOK ==
  /\ \A t \in Handlers : task[t].alone => Busy = {t} /\ Collects(t)
  /\ ~missed => \A t \in Busy : task[t].alone

(* Without an overlap or a failure the certificate has every name, unless a
   task that changed a table has still to renew it. *)
CertOK ==
  running /\ tls.on /\ ~tls.byo /\ ensure_ca_loads /\ ~missed
    /\ (\A t \in Busy : task[t].at = "insert") =>
    DOMAIN services.entries \cup DOMAIN peers \subseteq tls.cert

CaOK == ca = [key |-> ca.key, cert |-> ca.cert] /\ ca.cert \in {0, ca.key}

Certified == Shape /\ TasksOK /\ CertOK /\ CaOK

(* Steps that change no task and add no name. *)
LEMMA SameTasks ==
  ASSUME Certified, UNCHANGED <<running, tls, task, missed, ca>>,
         services' = [entries |-> services'.entries, config |-> services'.config],
         DOMAIN services'.entries = DOMAIN services.entries,
         DOMAIN peers' \subseteq DOMAIN peers, ~running => peers' = peers
  PROVE  Certified'
<1>1. Busy' = Busy
  BY DEF Busy
<1>2. Shape'
  BY <1>1 DEF Certified, Shape, IsTask
<1>3. \A t \in Handlers : Collects(t) => Collects(t)'
  BY DEF Collects
<1>4. TasksOK'
  BY <1>1, <1>3 DEF Certified, TasksOK
<1>5. CertOK'
  BY <1>1 DEF Certified, CertOK, ensure_ca_loads
<1>6. CaOK'
  BY DEF Certified, CaOK
<1> QED BY <1>2, <1>4, <1>5, <1>6 DEF Certified

(* A task begins. *)
LEMMA BeginOK ==
  ASSUME Certified, running, UNCHANGED <<running, tls, ca>>, NEW t \in Handlers, NEW r,
         task[t].at = "idle", IsTask(r), BeginTask(t, r),
         r.at \in {"idle", "insert", "services"},
         services' = [entries |-> services'.entries, config |-> services'.config],
         r.at = "insert" => r.new \/ r.name \in DOMAIN services'.entries,
         r.at # "services" => /\ DOMAIN services'.entries \subseteq DOMAIN services.entries
                              /\ DOMAIN peers' \subseteq DOMAIN peers
  PROVE  Certified'
<1>1. /\ DOMAIN task' = Handlers
      /\ task'[t] = [r EXCEPT !.alone = (Busy = {} /\ r.at # "idle")]
      /\ \A x \in Handlers \ {t} : task'[x] = [task[x] EXCEPT !.alone = FALSE]
      /\ missed' = (missed \/ Busy # {})
  BY DEF BeginTask
<1>2. \A x \in Handlers : IsTask(task[x])
  BY DEF Certified, Shape
<1>3. /\ task'[t].at = r.at /\ task'[t].new = r.new /\ task'[t].name = r.name
      /\ task'[t].got = r.got /\ task'[t].port = r.port
      /\ task'[t].alone = (Busy = {} /\ r.at # "idle")
      /\ IsTask(task'[t])
  BY <1>1 DEF IsTask
<1>4. ASSUME NEW x \in Handlers \ {t}
      PROVE  task'[x].at = task[x].at /\ task'[x].alone = FALSE /\ IsTask(task'[x])
  BY <1>1, <1>2 DEF IsTask
<1>5. \A x \in Handlers : x \in Busy' <=> task'[x].at # "idle"
  BY DEF Busy
<1>6. Busy' = IF r.at = "idle" THEN Busy ELSE Busy \cup {t}
  BY <1>3, <1>4 DEF Busy
<1>7. Shape'
  <2>1. \A x \in Handlers : IsTask(task'[x])
    BY <1>3, <1>4
  <2>2. missed' \in BOOLEAN
    BY <1>1
  <2> QED BY <1>1, <2>1, <2>2, Zenon DEF Certified, Shape, IsTask
<1>8. TasksOK'
  <2>1. ASSUME NEW x \in Handlers, task'[x].alone PROVE Busy' = {x} /\ Collects(x)'
    <3>1. x = t
      BY <1>4, <2>1
    <3>2. Busy = {} /\ r.at # "idle"
      BY <1>3, <2>1, <3>1
    <3>3. Busy' = {t}
      BY <1>6, <3>2
    <3>4. Collects(t)'
      BY <1>3 DEF Collects
    <3> QED BY <3>1, <3>3, <3>4
  <2>2. ASSUME ~missed', NEW x \in Busy' PROVE task'[x].alone
    <3>1. Busy = {}
      BY <1>1, <2>2
    <3>2. x = t /\ r.at # "idle"
      BY <1>6, <2>2, <3>1
    <3> QED BY <1>3, <3>1, <3>2
  <2> QED BY <2>1, <2>2 DEF TasksOK
<1>9. CertOK'
  <2>1. SUFFICES ASSUME running', tls'.on, ~tls'.byo, ensure_ca_loads', ~missed',
                        \A x \in Busy' : task'[x].at = "insert"
                 PROVE  DOMAIN services'.entries \cup DOMAIN peers' \subseteq tls'.cert
    BY DEF CertOK
  <2>2. ~missed /\ Busy = {}
    BY <1>1, <2>1
  <2>3. r.at # "services"
    BY <1>3, <1>6, <2>1, <2>2
  <2>4. ensure_ca_loads
    BY <2>1 DEF ensure_ca_loads
  <2>5. DOMAIN services.entries \cup DOMAIN peers \subseteq tls.cert
    BY <2>1, <2>2, <2>4 DEF Certified, CertOK
  <2> QED BY <2>3, <2>5
<1>10. CaOK'
  BY DEF Certified, CaOK
<1> QED BY <1>7, <1>8, <1>9, <1>10 DEF Certified

(* The task t goes on, in a state of its own. *)
LEMMA TaskGoesOn ==
  ASSUME Certified, running, UNCHANGED running, NEW t \in Handlers, NEW r, IsTask(r),
         task' = [task EXCEPT ![t] = r], task[t].at # "idle",
         r.alone => task[t].alone, task[t].alone /\ r.at # "idle" => r.alone,
         r.at = "idle" => ~r.alone
  PROVE  /\ DOMAIN task' = Handlers /\ \A x \in Handlers : IsTask(task'[x])
         /\ task'[t] = r /\ \A x \in Handlers \ {t} : task'[x] = task[x]
         /\ Busy' = (IF r.at = "idle" THEN Busy \ {t} ELSE Busy)
         /\ \A x \in Handlers : task'[x].alone => x = t /\ Busy = {t} /\ Busy' = {t} /\ Collects(t)
         /\ ~missed => (\A x \in Busy' : task'[x].alone) /\ Busy = {t} /\ Collects(t)
<1>1. /\ DOMAIN task = Handlers /\ \A x \in Handlers : IsTask(task[x])
  BY DEF Certified, Shape
<1>2. /\ DOMAIN task' = Handlers /\ task'[t] = r /\ \A x \in Handlers \ {t} : task'[x] = task[x]
  BY <1>1
<1>3. \A x \in Handlers : IsTask(task'[x])
  BY <1>1, <1>2
<1>4. t \in Busy /\ Busy' = (IF r.at = "idle" THEN Busy \ {t} ELSE Busy)
  BY <1>2 DEF Busy
<1>5. ASSUME NEW x \in Handlers, task'[x].alone
      PROVE  x = t /\ Busy = {t} /\ Busy' = {t} /\ Collects(t)
  <2>1. CASE x = t
    BY <1>2, <1>4, <1>5, <2>1 DEF Certified, TasksOK
  <2>2. CASE x # t
    BY <1>2, <1>4, <1>5, <2>2 DEF Certified, TasksOK
  <2> QED BY <2>1, <2>2
<1>6. ASSUME ~missed PROVE (\A x \in Busy' : task'[x].alone) /\ Busy = {t} /\ Collects(t)
  <2>1. task[t].alone
    BY <1>4, <1>6 DEF Certified, TasksOK
  <2>2. Busy = {t} /\ Collects(t)
    BY <2>1 DEF Certified, TasksOK
  <2>3. ASSUME NEW x \in Busy' PROVE task'[x].alone
    BY <1>2, <1>4, <2>1, <2>2, <2>3
  <2> QED BY <2>2, <2>3
<1> QED BY <1>2, <1>3, <1>4, <1>5, <1>6

(* A task at rest. *)
LEMMA IdleIsTask == IsTask(IdleTask) /\ IdleTask.at = "idle" /\ ~IdleTask.alone
BY DEF IdleTask, IsTask

(* create_service, its second lock. *)
LEMMA InsertServiceOK ==
  ASSUME Certified, NEW t \in Handlers, InsertService(t)
  PROVE  Certified'
<1> DEFINE old == task[t]
           r == IF old.new THEN [old EXCEPT !.at = "services"] ELSE IdleTask
           n == old.name
<1>1. /\ running /\ old.at = "insert" /\ task' = [task EXCEPT ![t] = r]
      /\ services' = insert(services, n, old.port, "localhost")
      /\ UNCHANGED <<running, peers, tls, missed, ca>>
  BY DEF InsertService, SaveStore, StoreFree, disk, Certified, Shape
<1>2. services = [entries |-> services.entries, config |-> services.config] /\ IsTask(old)
  BY DEF Certified, Shape
<1>3. /\ services' = [entries |-> services'.entries, config |-> services'.config]
      /\ DOMAIN services'.entries = DOMAIN services.entries \cup {n}
  <2> DEFINE e == With(services.entries, n, Service(old.port, "localhost", <<>>))
  <2>1. services' = [services EXCEPT !.entries = e]
    BY <1>1 DEF insert
  <2>2. DOMAIN e = DOMAIN services.entries \cup {n}
    BY DEF With
  <2> HIDE DEF e
  <2> QED BY <1>2, <2>1, <2>2
<1>4. /\ IsTask(r) /\ r.at \in {"services", "idle"} /\ (r.at = "idle" <=> ~old.new)
      /\ r.alone => old.alone /\ r.at = "services"
      /\ old.alone /\ r.at # "idle" => r.alone
      /\ r.at = "idle" => ~r.alone
  <2>1. CASE old.new
    BY <1>2, <2>1 DEF IsTask
  <2>2. CASE ~old.new
    BY <2>2, IdleIsTask
  <2> QED BY <2>1, <2>2
<1> HIDE DEF r
<1>5. /\ DOMAIN task' = Handlers /\ \A x \in Handlers : IsTask(task'[x])
      /\ task'[t] = r /\ Busy' = (IF r.at = "idle" THEN Busy \ {t} ELSE Busy)
      /\ \A x \in Handlers : task'[x].alone => x = t /\ Busy' = {t}
      /\ ~missed => (\A x \in Busy' : task'[x].alone) /\ Busy = {t} /\ Collects(t)
  BY <1>1, <1>4, TaskGoesOn
<1>6. Shape'
  BY <1>1, <1>3, <1>5, Zenon DEF Certified, Shape, IsTask
<1>7. TasksOK'
  <2>1. ASSUME NEW x \in Handlers, task'[x].alone PROVE Busy' = {x} /\ Collects(x)'
    <3>1. x = t /\ Busy' = {x} /\ r.alone
      BY <1>5, <2>1
    <3>2. task'[x].at = "services"
      BY <1>4, <1>5, <3>1
    <3> QED BY <3>1, <3>2 DEF Collects
  <2> QED BY <1>1, <1>5, <2>1 DEF TasksOK
<1>8. CertOK'
  <2>1. SUFFICES ASSUME running', tls'.on, ~tls'.byo, ensure_ca_loads', ~missed',
                        \A x \in Busy' : task'[x].at = "insert"
                 PROVE  DOMAIN services'.entries \cup DOMAIN peers' \subseteq tls'.cert
    BY DEF CertOK
  <2>2. ~missed /\ Busy = {t} /\ Collects(t)
    BY <1>1, <1>5, <2>1
  <2>3. r.at = "idle"
    BY <1>4, <1>5, <2>1, <2>2
  <2>4. n \in DOMAIN services.entries
    BY <1>1, <1>4, <2>2, <2>3 DEF Collects
  <2>5. ensure_ca_loads
    BY <1>1, <2>1 DEF ensure_ca_loads
  <2>6. DOMAIN services.entries \cup DOMAIN peers \subseteq tls.cert
    BY <1>1, <2>1, <2>2, <2>5 DEF Certified, CertOK
  <2> QED BY <1>1, <1>3, <2>4, <2>6
<1>9. CaOK'
  BY <1>1 DEF Certified, CaOK
<1> QED BY <1>6, <1>7, <1>8, <1>9 DEF Certified

(* regenerate_tls, first lock: every service is collected. *)
LEMMA CollectServicesOK ==
  ASSUME Certified, NEW t \in Handlers, CollectServices(t)
  PROVE  Certified'
<1> DEFINE old == task[t]
           r == IF tls.on /\ ~tls.byo THEN [old EXCEPT !.at = "peers", !.got = DOMAIN services.entries]
                ELSE IdleTask
<1>1. /\ running /\ old.at = "services" /\ task' = [task EXCEPT ![t] = r]
      /\ UNCHANGED <<running, services, peers, tls, missed, ca>>
  BY DEF CollectServices, StoreFree, disk, Certified, Shape
<1>2. IsTask(old)
  BY DEF Certified, Shape
<1>4. /\ IsTask(r) /\ r.at \in {"peers", "idle"} /\ (r.at = "idle" <=> ~(tls.on /\ ~tls.byo))
      /\ r.at = "peers" => r.got = DOMAIN services.entries
      /\ r.alone => old.alone /\ r.at = "peers"
      /\ old.alone /\ r.at # "idle" => r.alone
      /\ r.at = "idle" => ~r.alone
  <2>1. CASE tls.on /\ ~tls.byo
    BY <1>2, <2>1 DEF IsTask
  <2>2. CASE ~(tls.on /\ ~tls.byo)
    BY <2>2, IdleIsTask
  <2> QED BY <2>1, <2>2
<1> HIDE DEF r
<1>5. /\ DOMAIN task' = Handlers /\ \A x \in Handlers : IsTask(task'[x])
      /\ task'[t] = r /\ Busy' = (IF r.at = "idle" THEN Busy \ {t} ELSE Busy)
      /\ \A x \in Handlers : task'[x].alone => x = t /\ Busy' = {t}
      /\ ~missed => (\A x \in Busy' : task'[x].alone) /\ Busy = {t} /\ Collects(t)
  BY <1>1, <1>4, TaskGoesOn
<1>6. Shape'
  BY <1>1, <1>5, Zenon DEF Certified, Shape, IsTask
<1>7. TasksOK'
  <2>1. ASSUME NEW x \in Handlers, task'[x].alone PROVE Busy' = {x} /\ Collects(x)'
    <3>1. x = t /\ Busy' = {x} /\ r.alone
      BY <1>5, <2>1
    <3>2. task'[x].at = "peers" /\ task'[x].got = DOMAIN services.entries
      BY <1>4, <1>5, <3>1
    <3> QED BY <1>1, <3>1, <3>2 DEF Collects
  <2> QED BY <1>1, <1>5, <2>1 DEF TasksOK
<1>8. CertOK'
  <2>1. SUFFICES ASSUME tls'.on, ~tls'.byo, ~missed', \A x \in Busy' : task'[x].at = "insert"
                 PROVE  FALSE
    BY DEF CertOK
  <2>2. Busy' = Busy /\ Busy = {t} /\ task'[t].at = "peers"
    BY <1>1, <1>4, <1>5, <2>1
  <2> QED BY <2>1, <2>2
<1>9. CaOK'
  BY <1>1 DEF Certified, CaOK
<1> QED BY <1>6, <1>7, <1>8, <1>9 DEF Certified

(* Second lock: every peer that is left is collected. *)
LEMMA CollectPeersOK ==
  ASSUME Certified, NEW t \in Handlers, CollectPeers(t)
  PROVE  Certified'
<1> DEFINE old == task[t]
           r == [old EXCEPT !.at = "build", !.got = old.got \cup DOMAIN peers']
<1>1. /\ running /\ old.at = "peers" /\ task' = [task EXCEPT ![t].at = "build", ![t].got = @
         \cup DOMAIN peers']
      /\ peers' = AfterNames(peers, clock, PeerTimeout)
      /\ UNCHANGED <<running, services, tls, missed, ca>>
  BY DEF CollectPeers, disk
<1>2. IsTask(old) /\ DOMAIN task = Handlers
  BY DEF Certified, Shape
<1>3. task' = [task EXCEPT ![t] = r]
  BY <1>1, <1>2
<1>4. /\ IsTask(r) /\ r.at = "build" /\ r.got = old.got \cup DOMAIN peers' /\ r.alone = old.alone
  <2> DEFINE g == old.got \cup DOMAIN peers'
  <2>1. r = [old EXCEPT !.at = "build", !.got = g]
    OBVIOUS
  <2> HIDE DEF r, g, old
  <2>2. IsTask(r) /\ r.at = "build" /\ r.got = g /\ r.alone = old.alone
    <3>1. r = [at |-> "build", name |-> old.name, port |-> old.port, new |-> old.new, got |-> g,
               alone |-> old.alone]
      BY <1>2, <2>1 DEF IsTask
    <3> QED BY <1>2, <3>1 DEF IsTask
  <2> QED BY <2>2 DEF g
<1> HIDE DEF r
<1>5. /\ DOMAIN task' = Handlers /\ \A x \in Handlers : IsTask(task'[x])
      /\ task'[t] = r /\ Busy' = Busy
      /\ \A x \in Handlers : task'[x].alone => x = t /\ Busy' = {t} /\ Collects(t)
      /\ ~missed => (\A x \in Busy' : task'[x].alone) /\ Busy = {t} /\ Collects(t)
  BY <1>1, <1>3, <1>4, TaskGoesOn
<1>6. Shape'
  BY <1>1, <1>5, Zenon DEF Certified, Shape, IsTask
<1>7. TasksOK'
  <2>1. ASSUME NEW x \in Handlers, task'[x].alone PROVE Busy' = {x} /\ Collects(x)'
    <3>1. x = t /\ Busy' = {x} /\ Collects(t)
      BY <1>5, <2>1
    <3>2. task'[x].at = "build" /\ task'[x].got = old.got \cup DOMAIN peers'
      BY <1>4, <1>5, <3>1
    <3>3. DOMAIN services.entries \subseteq old.got
      BY <1>1, <3>1 DEF Collects
    <3> QED BY <1>1, <3>1, <3>2, <3>3 DEF Collects
  <2> QED BY <1>1, <1>5, <2>1 DEF TasksOK
<1>8. CertOK'
  <2>1. SUFFICES ASSUME ~missed', \A x \in Busy' : task'[x].at = "insert"
                 PROVE  FALSE
    BY DEF CertOK
  <2>2. Busy' = {t} /\ task'[t].at = "build"
    BY <1>1, <1>4, <1>5, <2>1
  <2> QED BY <2>1, <2>2
<1>9. CaOK'
  BY <1>1 DEF Certified, CaOK
<1> QED BY <1>6, <1>7, <1>8, <1>9 DEF Certified

(* The certificate is built, or kept as it was. *)
LEMMA BuildCertOK ==
  ASSUME Certified, NEW t \in Handlers, NEW ok \in BOOLEAN, BuildCert(t, ok)
  PROVE  Certified'
<1> DEFINE old == task[t]
<1>1. /\ running /\ old.at = "build" /\ task' = [task EXCEPT ![t] = IdleTask]
      /\ tls' = (IF ok /\ ensure_ca_loads THEN [tls EXCEPT !.cert = old.got] ELSE tls)
      /\ missed' = (IF ~ok THEN TRUE ELSE IF old.alone THEN FALSE ELSE missed)
      /\ UNCHANGED <<running, services, peers, ca>>
  BY DEF BuildCert, disk
<1>2. tls = [on |-> tls.on, byo |-> tls.byo, cert |-> tls.cert] /\ missed \in BOOLEAN
  BY DEF Certified, Shape
<1>3. /\ tls' = [on |-> tls'.on, byo |-> tls'.byo, cert |-> tls'.cert]
      /\ tls'.on = tls.on /\ tls'.byo = tls.byo
      /\ ok /\ ensure_ca_loads => tls'.cert = old.got
  BY <1>1, <1>2
<1>5. /\ DOMAIN task' = Handlers /\ \A x \in Handlers : IsTask(task'[x])
      /\ Busy' = Busy \ {t}
      /\ \A x \in Handlers : task'[x].alone => x = t /\ Busy' = {t}
      /\ ~missed => (\A x \in Busy' : task'[x].alone) /\ Busy = {t}
  BY <1>1, IdleIsTask, TaskGoesOn
<1>6. Shape'
  <2>1. missed' \in BOOLEAN
    BY <1>1, <1>2
  <2> QED BY <1>1, <1>3, <1>5, <2>1, Zenon DEF Certified, Shape, IsTask
<1>7. \A x \in Handlers : ~task'[x].alone
  BY <1>5
<1>8. ~missed' => old.alone
  <2>1. t \in Busy
    BY <1>1 DEF Busy
  <2> QED BY <1>1, <2>1 DEF Certified, TasksOK
<1>9. ~missed' => Busy = {t} /\ Collects(t)
  BY <1>8 DEF Certified, TasksOK
<1>10. TasksOK'
  <2>1. ~missed' => Busy' = {}
    BY <1>5, <1>9
  <2> QED BY <1>7, <2>1 DEF TasksOK
<1>11. CertOK'
  <2>1. SUFFICES ASSUME ensure_ca_loads', ~missed'
                 PROVE  DOMAIN services'.entries \cup DOMAIN peers' \subseteq tls'.cert
    BY DEF CertOK
  <2>2. ok /\ ensure_ca_loads
    BY <1>1, <2>1 DEF ensure_ca_loads
  <2>3. DOMAIN services.entries \cup DOMAIN peers \subseteq old.got
    BY <1>1, <1>9, <2>1 DEF Collects
  <2> QED BY <1>1, <1>3, <2>2, <2>3
<1>12. CaOK'
  BY <1>1 DEF Certified, CaOK
<1> QED BY <1>6, <1>10, <1>11, <1>12 DEF Certified

(* Names leave the peers and come to no table, whatever drops them. *)
LEMMA PeersShrink ==
  ASSUME NEW p, NEW now, NEW limit
  PROVE  /\ DOMAIN AfterNames(p, now, limit) \subseteq DOMAIN p
         /\ \A n \in DOMAIN AfterNames(p, now, limit) : AfterNames(p, now, limit)[n] = p[n]
         /\ \A m : /\ DOMAIN AfterLookup(p, m, now, limit) \subseteq DOMAIN p
                   /\ \A n \in DOMAIN AfterLookup(p, m, now, limit) :
                        AfterLookup(p, m, now, limit)[n] = p[n]
BY DEF AfterNames, AfterLookup, Without

(* A change of one service's routes keeps the names. *)
LEMMA RoutesKeepNames ==
  ASSUME NEW s, s = [entries |-> s.entries, config |-> s.config], NEW n, NEW v, NEW q,
         q = [s EXCEPT !.entries[n].routes = v]
  PROVE  q = [entries |-> q.entries, config |-> q.config] /\ DOMAIN q.entries = DOMAIN s.entries
<1> DEFINE e == [s.entries EXCEPT ![n].routes = v]
<1>1. q = [s EXCEPT !.entries = e]
  OBVIOUS
<1>2. DOMAIN e = DOMAIN s.entries
  OBVIOUS
<1> HIDE DEF e
<1> QED BY <1>1, <1>2

(* Routes, saves, lookups, lists and network changes add no name. *)
LEMMA QuietSteps ==
  ASSUME Certified,
         \/ \E n \in UserNames, path \in Paths :
              RemoveRoute(n, path) \/ \E p \in Ports, s \in BOOLEAN : AddRoute(n, path, p, s)
         \/ \E ok \in BOOLEAN : SaveEnds(ok)
         \/ \E n \in DOMAIN peers : LookupPeer(n)
         \/ ListPeers \/ NetworkChange \/ Tick \/ UNCHANGED svcVars
  PROVE  Certified'
<1> DEFINE Same == UNCHANGED <<running, tls, task, missed, ca>>
<1>0. services = [entries |-> services.entries, config |-> services.config]
  BY DEF Certified, Shape
<1>1. ASSUME NEW n \in UserNames, NEW path \in Paths, RemoveRoute(n, path) PROVE Certified'
  <2>1. Same /\ peers' = peers /\ services' = remove_route(services, n, path)
    BY <1>1 DEF RemoveRoute, SaveStore, disk
  <2>2. services' = [services EXCEPT !.entries[n].routes =
                       SelectSeq(services.entries[n].routes, LAMBDA r : r.path # path)]
    BY <2>1 DEF remove_route
  <2>3. /\ services' = [entries |-> services'.entries, config |-> services'.config]
        /\ DOMAIN services'.entries = DOMAIN services.entries
    BY <1>0, <2>2, RoutesKeepNames
  <2> QED BY <2>1, <2>3, SameTasks
<1>2. ASSUME NEW n \in UserNames, NEW path \in Paths, NEW p \in Ports, NEW s \in BOOLEAN,
             AddRoute(n, path, p, s)
      PROVE  Certified'
  <2> DEFINE route == [path |-> path, port |-> p, strip |-> s]
  <2>1. Same /\ peers' = peers /\ services' = add_route(services, n, route)
    BY <1>2 DEF AddRoute, SaveStore, disk
  <2> HIDE DEF route
  <2>2. services' = [services EXCEPT !.entries[n].routes =
                       Append(SelectSeq(services.entries[n].routes,
                                        LAMBDA r : r.path # route.path), route)]
    BY <2>1 DEF add_route
  <2>3. /\ services' = [entries |-> services'.entries, config |-> services'.config]
        /\ DOMAIN services'.entries = DOMAIN services.entries
    BY <1>0, <2>2, RoutesKeepNames
  <2> QED BY <2>1, <2>3, SameTasks
<1>3. ASSUME NEW ok \in BOOLEAN, SaveEnds(ok) PROVE Certified'
  BY <1>0, <1>3, SameTasks DEF SaveEnds
<1>4. ASSUME NEW n \in DOMAIN peers, LookupPeer(n) PROVE Certified'
  <2>1. Same /\ services' = services /\ running /\ peers' = AfterLookup(peers, n, clock, PeerTimeout)
    BY <1>4 DEF LookupPeer, disk
  <2>2. DOMAIN peers' \subseteq DOMAIN peers
    BY <2>1, PeersShrink
  <2> QED BY <1>0, <2>1, <2>2, SameTasks
<1>5. ASSUME ListPeers PROVE Certified'
  <2>1. Same /\ services' = services /\ running /\ peers' = AfterNames(peers, clock, PeerTimeout)
    BY <1>5 DEF ListPeers, disk
  <2>2. DOMAIN peers' \subseteq DOMAIN peers
    BY <2>1, PeersShrink
  <2> QED BY <1>0, <2>1, <2>2, SameTasks
<1>6. ASSUME NetworkChange PROVE Certified'
  <2>1. Same /\ services' = services /\ running /\ peers' = NoEntries
    BY <1>6 DEF NetworkChange, disk
  <2>2. DOMAIN peers' \subseteq DOMAIN peers
    BY <2>1 DEF NoEntries
  <2> QED BY <1>0, <2>1, <2>2, SameTasks
<1>7. ASSUME Tick \/ UNCHANGED svcVars PROVE Certified'
  <2>1. Same /\ services' = services /\ peers' = peers
    BY <1>7 DEF Tick, svcVars, disk
  <2> QED BY <1>0, <2>1, SameTasks
<1> QED BY <1>1, <1>2, <1>3, <1>4, <1>5, <1>6, <1>7

(* create_service, its first lock. *)
LEMMA CreateServiceOK ==
  ASSUME Certified, NEW t \in Handlers, NEW n, NEW p, CreateService(t, n, p)
  PROVE  Certified'
<1> DEFINE r == [IdleTask EXCEPT !.at = "insert", !.name = n, !.port = p,
                                 !.new = n \notin DOMAIN services.entries]
<1>1. /\ running /\ task[t].at = "idle" /\ BeginTask(t, r)
      /\ UNCHANGED <<running, services, peers, tls, ca>>
  BY DEF CreateService, StoreFree, disk
<1>2. /\ IsTask(r) /\ r.at = "insert" /\ r.name = n /\ (r.new <=> n \notin DOMAIN services.entries)
  <2> DEFINE b == n \notin DOMAIN services.entries
  <2>1. r = [IdleTask EXCEPT !.at = "insert", !.name = n, !.port = p, !.new = b]
    BY Zenon
  <2> HIDE DEF b, r
  <2>2. IsTask(r) /\ r.at = "insert" /\ r.name = n /\ r.new = b
    BY <2>1, IdleIsTask DEF IsTask
  <2> QED BY <2>2 DEF b
<1>3. services = [entries |-> services.entries, config |-> services.config]
  BY DEF Certified, Shape
<1> HIDE DEF r
<1>4. r.new \/ r.name \in DOMAIN services'.entries
  BY <1>1, <1>2
<1> QED BY <1>1, <1>2, <1>3, <1>4, BeginOK

(* A task that begins with regenerate_tls. *)
LEMMA RenewIsTask ==
  ASSUME NEW r, r = [IdleTask EXCEPT !.at = "services"]
  PROVE  IsTask(r) /\ r.at = "services"
<1>1. IsTask(IdleTask)
  BY IdleIsTask
<1> QED BY <1>1 DEF IsTask

(* remove_service begins a task with fewer names. *)
LEMMA RemoveServiceOK ==
  ASSUME Certified, NEW t \in Handlers, NEW n, RemoveService(t, n)
  PROVE  Certified'
<1> DEFINE r == [IdleTask EXCEPT !.at = "services"]
<1>1. /\ running /\ task[t].at = "idle" /\ BeginTask(t, r)
      /\ services' = remove(services, n) /\ UNCHANGED <<running, peers, tls, ca>>
  BY DEF RemoveService, SaveStore, StoreFree, disk
<1>2. IsTask(r) /\ r.at = "services"
  BY RenewIsTask
<1>3. services = [entries |-> services.entries, config |-> services.config]
  BY DEF Certified, Shape
<1> HIDE DEF r
<1>4. services' = [entries |-> services'.entries, config |-> services'.config]
  <2> DEFINE e == Without(services.entries, {n})
  <2>1. services' = [services EXCEPT !.entries = e]
    BY <1>1 DEF remove
  <2> HIDE DEF e
  <2> QED BY <1>3, <2>1
<1> QED BY <1>1, <1>2, <1>4, BeginOK

(* An announcement with an unseen name begins a task. *)
LEMMA ReceiveAnnouncementOK ==
  ASSUME Certified, NEW a \in Announcements, ReceiveAnnouncement(a)
  PROVE  Certified'
<1> DEFINE ports == ParsedPorts(a.services, TxtMax)
           r == IF Changes(peers, DOMAIN ports) THEN [IdleTask EXCEPT !.at = "services"]
                ELSE IdleTask
<1>1. /\ running /\ task["lan"].at = "idle" /\ BeginTask("lan", r)
      /\ peers' = update(peers, a.ip, ports, clock)
      /\ UNCHANGED <<running, services, tls, ca>>
  BY DEF ReceiveAnnouncement, disk
<1>2. /\ IsTask(r) /\ r.at \in {"idle", "services"}
      /\ r.at # "services" => ~Changes(peers, DOMAIN ports)
  BY RenewIsTask, IdleIsTask
<1>3. services = [entries |-> services.entries, config |-> services.config]
  BY DEF Certified, Shape
<1> HIDE DEF r, ports
<1>4. r.at # "services" => DOMAIN peers' \subseteq DOMAIN peers
  BY <1>1, <1>2 DEF Changes, update
<1> QED BY <1>1, <1>2, <1>3, <1>4, BeginOK, HandlersAssumption

(* After a crash nothing is under way and no peer is known. *)
LEMMA CrashOK ==
  ASSUME Certified, Crash
  PROVE  Certified'
<1>1. /\ ~running' /\ peers' = NoEntries /\ task' = [t \in Handlers |-> IdleTask] /\ ~missed'
      /\ missed' = FALSE /\ UNCHANGED <<services, tls, ca>>
  BY DEF Crash, disk
<1>2. DOMAIN task' = Handlers /\ \A t \in Handlers : task'[t] = IdleTask
  BY <1>1
<1>3. Busy' = {}
  BY <1>2, IdleIsTask DEF Busy
<1>4. Shape'
  BY <1>1, <1>2, <1>3, IdleIsTask DEF Certified, Shape
<1>5. TasksOK'
  BY <1>2, <1>3, IdleIsTask DEF TasksOK
<1>6. CertOK' /\ CaOK'
  BY <1>1 DEF Certified, CertOK, CaOK
<1> QED BY <1>4, <1>5, <1>6 DEF Certified

(* A store that was loaded is a store. *)
LEMMA LoadedShape ==
  ASSUME NEW c, NEW f, NEW s, s = load_persisted(Configured(c), f) \/ s = Configured(c)
  PROVE  s = [entries |-> s.entries, config |-> s.config]
<1> DEFINE k == Configured(c)
<1>1. k = [entries |-> k.entries, config |-> k.config]
  BY DEF Configured, insert_from_config
<1> HIDE DEF k
<1>2. CASE s = load_persisted(k, f)
  <2> DEFINE new == DOMAIN f \ k.config
             e == [n \in DOMAIN k.entries \cup new |-> IF n \in new THEN f[n] ELSE k.entries[n]]
  <2>1. s = [k EXCEPT !.entries = e]
    BY <1>2 DEF load_persisted
  <2> HIDE DEF e
  <2> QED BY <1>1, <2>1
<1> QED BY <1>1, <1>2 DEF k

(* A certificate of our own has all names at the start. *)
LEMMA BuiltTls ==
  ASSUME NEW p, NEW names, NEW b, b = build_proxy_tls(p, names)
  PROVE  b = [on |-> b.on, byo |-> b.byo, cert |-> b.cert] /\ (b.on /\ ~b.byo => b.cert = names)
<1>1. /\ b.on <=> OwnCert(p) \/ (p.enabled /\ p.cert_path /\ p.key_path /\ p.loads)
      /\ b.byo <=> p.cert_path /\ p.key_path
      /\ OwnCert(p) => b.cert = names
      /\ b = [on |-> b.on, byo |-> b.byo, cert |-> b.cert]
  BY DEF build_proxy_tls
<1> QED BY <1>1

(* A start, cut off between the two files of a new CA or not. *)
LEMMA BootOK ==
  ASSUME Certified, NEW c, NEW p, NEW died \in BOOLEAN, Boot(c, p, died)
  PROVE  Certified'
<1>1. /\ ~running /\ services' = load_persisted(Configured(c), svcFile)
      /\ tls' = build_proxy_tls(p, DOMAIN services'.entries)
      /\ UNCHANGED <<peers, task, missed>>
  BY DEF Boot
<1>2. Busy = {} /\ Busy' = {} /\ peers = NoEntries
  BY <1>1 DEF Certified, Shape, Busy
<1>3. services' = [entries |-> services'.entries, config |-> services'.config]
  BY <1>1, LoadedShape
<1>4. /\ tls' = [on |-> tls'.on, byo |-> tls'.byo, cert |-> tls'.cert]
      /\ tls'.on /\ ~tls'.byo => tls'.cert = DOMAIN services'.entries
  BY <1>1, BuiltTls
<1>5. Shape'
  BY <1>1, <1>2, <1>3, <1>4, Zenon DEF Certified, Shape, IsTask
<1>6. TasksOK'
  <2>1. \A t \in Handlers : ~task[t].alone
    BY <1>2 DEF Certified, TasksOK
  <2> QED BY <1>1, <1>2, <2>1 DEF TasksOK
<1>7. CertOK'
  BY <1>1, <1>2, <1>4 DEF CertOK, NoEntries
<1>8. CaOK'
  <2>1. CASE OwnCert(p) /\ ~ensure_ca_loads
    <3> DEFINE new == Max({ca.key, ca.cert}) + 1
    <3>1. ca' = IF died THEN [ca EXCEPT !.key = new] ELSE [key |-> new, cert |-> new]
      BY <2>1 DEF Boot
    <3> HIDE DEF new
    <3>2. ca = [key |-> ca.key, cert |-> ca.cert] /\ ca.cert = 0
      BY <2>1 DEF Certified, CaOK, ensure_ca_loads
    <3>3. CASE died
      <4>1. ca' = [key |-> new, cert |-> ca.cert]
        BY <3>1, <3>2, <3>3
      <4> QED BY <3>2, <4>1 DEF CaOK
    <3>4. CASE ~died
      BY <3>1, <3>4 DEF CaOK
    <3> QED BY <3>3, <3>4
  <2>2. CASE ~(OwnCert(p) /\ ~ensure_ca_loads)
    BY <2>2 DEF Boot, Certified, CaOK
  <2> QED BY <2>1, <2>2
<1> QED BY <1>5, <1>6, <1>7, <1>8 DEF Certified

(* The first start. *)
LEMMA CertifiedInit == ServicesInit => Certified
<1> SUFFICES ASSUME ServicesInit PROVE Certified
  OBVIOUS
<1>1. PICK c \in ServiceConfigs : services = Configured(c)
  BY DEF ServicesInit
<1>2. services = [entries |-> services.entries, config |-> services.config]
  BY <1>1, LoadedShape
<1>3. tls = build_proxy_tls(proxy, DOMAIN services.entries)
  BY DEF ServicesInit
<1>4. /\ tls = [on |-> tls.on, byo |-> tls.byo, cert |-> tls.cert]
      /\ tls.on /\ ~tls.byo => tls.cert = DOMAIN services.entries
  BY <1>3, BuiltTls
<1>5. /\ running /\ peers = NoEntries /\ missed = FALSE /\ ~missed
      /\ DOMAIN task = Handlers /\ \A t \in Handlers : task[t] = IdleTask
  BY DEF ServicesInit
<1>6. Busy = {}
  BY <1>5, IdleIsTask DEF Busy
<1>7. Shape
  BY <1>2, <1>4, <1>5, IdleIsTask DEF Shape
<1>8. TasksOK
  BY <1>5, <1>6, IdleIsTask DEF TasksOK
<1>9. CertOK
  BY <1>4, <1>5, <1>6 DEF CertOK, NoEntries
<1>10. CaOK
  BY DEF ServicesInit, CaOK
<1> QED BY <1>7, <1>8, <1>9, <1>10 DEF Certified

(* Every step keeps the certificate complete. *)
LEMMA CertifiedStep == Certified /\ [ServicesNext]_svcVars => Certified'
<1> SUFFICES ASSUME Certified, [ServicesNext]_svcVars PROVE Certified'
  OBVIOUS
<1>1. ASSUME NEW t \in Handlers, InsertService(t) \/ CollectServices(t) \/ CollectPeers(t)
      PROVE  Certified'
  BY <1>1, InsertServiceOK, CollectServicesOK, CollectPeersOK
<1>2. ASSUME NEW t \in Handlers, BuildCert(t, TRUE) \/ BuildCert(t, FALSE) PROVE Certified'
  BY <1>2, BuildCertOK
<1>3. ASSUME NEW t \in Handlers, NEW n \in UserNames, RemoveService(t, n) PROVE Certified'
  BY <1>3, RemoveServiceOK
<1>4. ASSUME NEW t \in Handlers, NEW n \in UserNames, NEW p \in Ports, CreateService(t, n, p)
      PROVE  Certified'
  BY <1>4, CreateServiceOK
<1>5. ASSUME NEW a \in Announcements, ReceiveAnnouncement(a) PROVE Certified'
  BY <1>5, ReceiveAnnouncementOK
<1>6. ASSUME Crash PROVE Certified'
  BY <1>6, CrashOK
<1>7. ASSUME NEW c \in ServiceConfigs, NEW p \in ProxyConfigs, NEW died \in BOOLEAN, Boot(c, p, died)
      PROVE  Certified'
  BY <1>7, BootOK
<1>8. ASSUME \/ \E n \in UserNames, path \in Paths :
                  RemoveRoute(n, path) \/ \E p \in Ports, s \in BOOLEAN : AddRoute(n, path, p, s)
             \/ \E ok \in BOOLEAN : SaveEnds(ok)
             \/ \E n \in DOMAIN peers : LookupPeer(n)
             \/ ListPeers \/ NetworkChange \/ Tick \/ UNCHANGED svcVars
      PROVE  Certified'
  BY <1>8, QuietSteps
<1> QED BY <1>1, <1>2, <1>3, <1>4, <1>5, <1>6, <1>7, <1>8, Zenon DEF ServicesNext

-----------------------------------------------------------------------------
(* Ports of the peers. *)

(* An entry that fits into the first string is read as it was written. *)
LEMMA WholeEntry ==
  ASSUME NEW a \in Announcements, NEW i \in DOMAIN a.services, Whole(a, i)
  PROVE  /\ Kept(a.services, i, TxtMax) > a.services[i].len + 1
         /\ ~(EntryLen(a.services[i]) - Kept(a.services, i, TxtMax) > 0)
         /\ a.services[i].port \div 1 = a.services[i].port
<1> DEFINE e == a.services[i]
           o == Offset(a.services, i)
<1>1. e.len \in Nat /\ e.port \in Nat /\ e.digits \in Nat \ {0} /\ o \in Nat /\ TxtMax \in Nat
  BY AnnouncementsAssumption
<1>2. o + (e.len + 1 + e.digits) <= TxtMax
  BY DEF Whole, EntryLen
<1>3. Kept(a.services, i, TxtMax) = TxtMax - o
  BY DEF Kept
<1>4. EntryLen(e) = e.len + 1 + e.digits
  BY DEF EntryLen
<1> HIDE DEF e, o
<1>5. TxtMax - o > e.len + 1 /\ ~((e.len + 1 + e.digits) - (TxtMax - o) > 0)
  BY <1>1, <1>2
<1>6. e.port \div 1 = e.port
  BY <1>1
<1> QED BY <1>3, <1>4, <1>5, <1>6 DEF e

(* What the receiver reads of an announcement, for names that no announcement
   cuts. *)
LEMMA PortsRead ==
  ASSUME NEW a \in Announcements, NEW n, n \notin CutNames
  PROVE  /\ n \in DOMAIN ParsedPorts(a.services, TxtMax) <=>
              \E i \in DOMAIN a.services : a.services[i].name = n
         /\ \A i \in DOMAIN a.services : a.services[i].name = n =>
              ParsedPorts(a.services, TxtMax)[n] = a.services[i].port
<1> DEFINE L == a.services
           got == Parsed(L, TxtMax)
           lost(i) == EntryLen(L[i]) - Kept(L, i, TxtMax)
           Read(i) == [name |-> L[i].name,
                       port |-> L[i].port \div (IF lost(i) > 0 THEN 10^lost(i) ELSE 1)]
           shown == {j \in DOMAIN L : Kept(L, j, TxtMax) > L[j].len + 1}
<1>1. got = {Read(i) : i \in shown}
  BY DEF Parsed
<1>2. ParsedPorts(L, TxtMax) = [m \in {g.name : g \in got} |-> (CHOOSE g \in got : g.name = m).port]
  BY DEF ParsedPorts
<1>3. ASSUME NEW i \in DOMAIN L, L[i].name = n
      PROVE  i \in shown /\ Read(i) = [name |-> n, port |-> L[i].port]
  <2>1. Whole(a, i)
    BY <1>3 DEF CutNames
  <2>2. Kept(L, i, TxtMax) > L[i].len + 1 /\ ~(lost(i) > 0) /\ L[i].port \div 1 = L[i].port
    BY <2>1, WholeEntry
  <2>3. i \in shown
    BY <2>2
  <2> HIDE DEF lost, shown
  <2>4. (IF lost(i) > 0 THEN 10^lost(i) ELSE 1) = 1
    BY <2>2
  <2> QED BY <1>3, <2>2, <2>3, <2>4
<1>4. \A i \in shown : i \in DOMAIN L /\ Read(i).name = L[i].name
  OBVIOUS
<1>5. \A i, j \in DOMAIN L : L[j].name = L[i].name => j = i
  BY AnnouncementsAssumption
<1> HIDE DEF L, got, Read, shown
<1>6. n \in {g.name : g \in got} <=> \E i \in DOMAIN L : L[i].name = n
  <2>1. ASSUME NEW g \in got, g.name = n PROVE \E i \in DOMAIN L : L[i].name = n
    BY <1>1, <1>4, <2>1
  <2>2. ASSUME NEW i \in DOMAIN L, L[i].name = n PROVE \E g \in got : g.name = n
    <3>1. i \in shown /\ Read(i) = [name |-> n, port |-> L[i].port]
      BY <1>3, <2>2
    <3>2. Read(i) \in got
      BY <1>1, <3>1
    <3> QED BY <3>1, <3>2
  <2> QED BY <2>1, <2>2
<1>7. ASSUME NEW i \in DOMAIN L, L[i].name = n
      PROVE  ParsedPorts(L, TxtMax)[n] = L[i].port
  <2>1. i \in shown /\ Read(i) = [name |-> n, port |-> L[i].port]
    BY <1>3, <1>7
  <2>2. Read(i) \in got /\ Read(i).name = n /\ Read(i).port = L[i].port
    BY <1>1, <2>1
  <2>3. ASSUME NEW g \in got, g.name = n PROVE g = Read(i)
    <3>1. PICK j \in shown : g = Read(j)
      BY <1>1
    <3>2. j = i
      BY <1>4, <1>5, <1>7, <2>3, <3>1
    <3> QED BY <3>1, <3>2
  <2>4. (CHOOSE g \in got : g.name = n) = Read(i)
    BY <2>2, <2>3
  <2> QED BY <1>2, <1>6, <1>7, <2>2, <2>4
<1> QED BY <1>2, <1>6, <1>7 DEF L

(* The history of what was announced follows the same entry. *)
LEMMA AnnouncementTold ==
  ASSUME PeerPortsAreTrue, NEW a \in Announcements, ReceiveAnnouncement(a)
  PROVE  PeerPortsAreTrue'
<1> DEFINE L == a.services
           ports == ParsedPorts(L, TxtMax)
           Says(n) == \E e \in Range(L) : e.name = n
<1>1. /\ peers' = update(peers, a.ip, ports, clock)
      /\ told' = [n \in DOMAIN told \cup {e.name : e \in Range(L)} |->
                    IF Says(n) THEN (CHOOSE e \in Range(L) : e.name = n).port ELSE told[n]]
  BY DEF ReceiveAnnouncement
<1> SUFFICES ASSUME NEW n \in DOMAIN peers' \ CutNames
             PROVE  n \in DOMAIN told' /\ peers'[n].port = told'[n]
  BY DEF PeerPortsAreTrue
<1>2. /\ n \in DOMAIN ports => peers'[n].port = ports[n]
      /\ n \notin DOMAIN ports => n \in DOMAIN peers /\ peers'[n] = peers[n]
  BY <1>1 DEF update
<1>3. Range(L) = {L[i] : i \in DOMAIN L}
  BY DEF Range
<1>4. /\ n \in DOMAIN ports <=> \E i \in DOMAIN L : L[i].name = n
      /\ \A i \in DOMAIN L : L[i].name = n => ports[n] = L[i].port
  BY PortsRead
<1>5. \A i, j \in DOMAIN L : L[j].name = L[i].name => j = i
  BY AnnouncementsAssumption
<1> HIDE DEF L, ports
<1>6. Says(n) <=> n \in DOMAIN ports
  BY <1>3, <1>4
<1>7. CASE n \in DOMAIN ports
  <2>1. PICK i \in DOMAIN L : L[i].name = n
    BY <1>4, <1>7
  <2>2. (CHOOSE e \in Range(L) : e.name = n) = L[i]
    <3>1. L[i] \in Range(L)
      BY <1>3
    <3>2. ASSUME NEW e \in Range(L), e.name = n PROVE e = L[i]
      BY <1>3, <1>5, <2>1, <3>2
    <3> QED BY <2>1, <3>1, <3>2
  <2>3. n \in {e.name : e \in Range(L)}
    BY <1>6, <1>7
  <2>4. n \in DOMAIN told' /\ told'[n] = L[i].port
    BY <1>1, <1>6, <1>7, <2>2, <2>3
  <2> QED BY <1>2, <1>4, <1>7, <2>1, <2>4
<1>8. CASE n \notin DOMAIN ports
  <2>1. n \in DOMAIN told /\ peers[n].port = told[n]
    BY <1>2, <1>8 DEF PeerPortsAreTrue
  <2>2. n \in DOMAIN told' /\ told'[n] = told[n]
    BY <1>1, <1>6, <1>8, <2>1
  <2> QED BY <1>2, <1>8, <2>1, <2>2
<1> QED BY <1>7, <1>8

(* Steps that only drop peers, or all of them with the history. *)
LEMMA FewerPeers ==
  ASSUME PeerPortsAreTrue, told' = told, DOMAIN peers' \subseteq DOMAIN peers,
         \A n \in DOMAIN peers' : peers'[n] = peers[n]
  PROVE  PeerPortsAreTrue'
BY DEF PeerPortsAreTrue, CutNames

(* Every step keeps the ports of the peers. *)
LEMMA PeerPortsStep == PeerPortsAreTrue /\ [ServicesNext]_svcVars => PeerPortsAreTrue'
<1> SUFFICES ASSUME PeerPortsAreTrue, [ServicesNext]_svcVars PROVE PeerPortsAreTrue'
  OBVIOUS
<1>1. ASSUME UNCHANGED <<peers, told>> PROVE PeerPortsAreTrue'
  BY <1>1, FewerPeers
<1>2. ASSUME NEW t \in Handlers, CollectPeers(t) PROVE PeerPortsAreTrue'
  BY <1>2, PeersShrink, FewerPeers DEF CollectPeers
<1>3. ASSUME NEW t \in Handlers, \/ InsertService(t) \/ CollectServices(t)
                                 \/ BuildCert(t, TRUE) \/ BuildCert(t, FALSE)
      PROVE  UNCHANGED <<peers, told>>
  BY <1>3 DEF InsertService, CollectServices, BuildCert
<1>4. ASSUME NEW t \in Handlers, NEW n \in UserNames,
             RemoveService(t, n) \/ \E p \in Ports : CreateService(t, n, p)
      PROVE  UNCHANGED <<peers, told>>
  BY <1>4 DEF RemoveService, CreateService
<1>5. ASSUME NEW n \in UserNames, NEW path \in Paths,
             RemoveRoute(n, path) \/ \E p \in Ports, s \in BOOLEAN : AddRoute(n, path, p, s)
      PROVE  UNCHANGED <<peers, told>>
  BY <1>5 DEF RemoveRoute, AddRoute
<1>6. ASSUME (\E ok \in BOOLEAN : SaveEnds(ok)) \/ Tick \/ UNCHANGED svcVars
      PROVE  UNCHANGED <<peers, told>>
  BY <1>6 DEF SaveEnds, Tick, svcVars
<1>7. ASSUME NEW a \in Announcements, ReceiveAnnouncement(a) PROVE PeerPortsAreTrue'
  BY <1>7, AnnouncementTold
<1>8. ASSUME NEW n \in DOMAIN peers, LookupPeer(n) PROVE PeerPortsAreTrue'
  <2>1. peers' = AfterLookup(peers, n, clock, PeerTimeout) /\ told' = told
    BY <1>8 DEF LookupPeer
  <2>2. DOMAIN peers' \subseteq DOMAIN peers /\ \A m \in DOMAIN peers' : peers'[m] = peers[m]
    BY <2>1 DEF AfterLookup, Without
  <2> QED BY <2>1, <2>2, FewerPeers
<1>9. ASSUME ListPeers PROVE PeerPortsAreTrue'
  BY <1>9, PeersShrink, FewerPeers DEF ListPeers
<1>10. ASSUME NetworkChange \/ Crash PROVE PeerPortsAreTrue'
  BY <1>10 DEF NetworkChange, Crash, NoEntries, PeerPortsAreTrue
<1>11. ASSUME NEW c \in ServiceConfigs, NEW p \in ProxyConfigs, NEW died \in BOOLEAN, Boot(c, p, died)
       PROVE  UNCHANGED <<peers, told>>
  BY <1>11 DEF Boot
<1> QED BY <1>1, <1>2, <1>3, <1>4, <1>5, <1>6, <1>7, <1>8, <1>9, <1>10, <1>11, Zenon DEF ServicesNext

(* A service or peer is reachable by its name: with the handlers at rest and
   no regeneration overlapped or failed the certificate names it, the CA's key
   fits its certificate wherever a start was cut off, and a peer's port is the
   one it announced last (src/src/tls.rs, src/src/lan.rs). *)
THEOREM NamesAreReachableThm == ServicesSpec => []NamesAreReachable
<1>1. ServicesInit => PeerPortsAreTrue
  BY DEF ServicesInit, PeerPortsAreTrue, NoEntries
<1>2. Certified /\ PeerPortsAreTrue => NamesAreReachable
  <2> SUFFICES ASSUME Certified, PeerPortsAreTrue PROVE CertCoversNames /\ CaPairFits
    BY DEF NamesAreReachable
  <2>1. CertCoversNames
    BY DEF Certified, CertOK, CertCoversNames
  <2>2. CaPairFits
    BY DEF Certified, CaOK, CaPairFits, ensure_ca_loads
  <2> QED BY <2>1, <2>2
<1> QED BY <1>1, <1>2, CertifiedInit, CertifiedStep, PeerPortsStep, PTL DEF ServicesSpec

-----------------------------------------------------------------------------
(* Startup and the network watch (src/src/serve.rs). *)

(* The server is a record; while it runs, only a detected upstream may be
   replaced, and what it learned comes from the network it is on, from the
   one it was on at the last tick, or from one it left between two ticks. *)
ServerRecord ==
  server = [at |-> server.at, auto |-> server.auto, mode |-> server.mode, pool |-> server.pool,
            features |-> server.features]

ChosenStays ==
  server.at = "running" =>
    /\ upstreamConf.mode \in {"forward", "odoh"} /\ upstreamConf.address # <<>> =>
         server.pool.primary = upstreamConf.address /\ ~server.auto
    /\ upstreamConf.mode = "odoh" =>
         ~server.auto /\ (upstreamConf.strict => server.pool.fallback = <<>>)

LearnedHere ==
  server.at = "running" => peersOn \cup udpOffOn \subseteq {lan_ip, net} \cup unseen

BootInv == ServerRecord /\ ChosenStays /\ LearnedHere

(* Pairing UDP upstreams with TCP ones adds fallbacks only. *)
LEMMA PairedKeeps ==
  ASSUME NEW p, NEW f
  PROVE  Paired(p, f).primary = p
<1> DEFINE unpaired == {i \in DOMAIN p : /\ p[i].kind = "Udp"
                                        /\ Tcp(p[i].at) \notin ToSet(f)
                                        /\ \A j \in 1..(i - 1) : p[j] # p[i]}
           order == sort_by_key([i \in unpaired |-> 0])
           g == f \o [k \in DOMAIN order |-> Tcp(p[order[k]].at)]
<1>1. Paired(p, f) = [primary |-> p, fallback |-> g]
  BY Zenon DEF Paired
<1> HIDE DEF g
<1> QED BY <1>1

(* What the user wrote is what resolve_upstream_pool makes of it. *)
LEMMA PoolChosen ==
  ASSUME NEW c, NEW probe \in BOOLEAN
  PROVE  LET r == resolve_upstream_pool(c, probe) IN
         /\ c.mode \in {"forward", "odoh"} /\ c.address # <<>> =>
              r.pool.primary = c.address /\ ~r.auto
         /\ c.mode = "odoh" => ~r.auto /\ (c.strict => r.pool.fallback = <<>>)
<1> DEFINE r == resolve_upstream_pool(c, probe)
<1>1. ASSUME c.mode = "forward", c.address # <<>>
      PROVE  r.pool.primary = c.address /\ ~r.auto
  <2>1. r = [mode |-> "forward", auto |-> c.address = <<>>,
             pool |-> Paired(IF c.address # <<>> THEN c.address
                             ELSE IF Discovered = NoAddr THEN <<DohFallback>> ELSE <<Udp(Discovered)>>,
                             c.fallback)]
    BY <1>1 DEF resolve_upstream_pool
  <2>2. r.pool = Paired(c.address, c.fallback) /\ r.auto = (c.address = <<>>)
    BY <1>1, <2>1
  <2>3. r.pool.primary = c.address
    BY <2>2, PairedKeeps
  <2>4. ~r.auto
    BY <1>1, <2>2, Zenon
  <2> QED BY <2>3, <2>4
<1>2. ASSUME c.mode = "odoh"
      PROVE  /\ r.pool.primary = c.address /\ ~r.auto
             /\ c.strict => r.pool.fallback = <<>>
  <2>1. r = [mode |-> "odoh", auto |-> FALSE,
             pool |-> [primary |-> c.address, fallback |-> IF c.strict THEN <<>> ELSE c.fallback]]
    BY <1>2 DEF resolve_upstream_pool
  <2> QED BY <2>1
<1> QED BY <1>1, <1>2

(* A server that starts has learned nothing yet. *)
LEMMA RunServerOK ==
  ASSUME BootInv, NEW relative \in BOOLEAN, NEW probe \in BOOLEAN, RunServer(relative, probe)
  PROVE  BootInv'
<1> DEFINE r == resolve_upstream_pool(upstreamConf, probe)
           f == load_config(relative)
           fe == IF f = NoFile THEN {} ELSE {s \in Toggles : ValueOf(f, s) = {TRUE}}
<1>1. /\ server' = [at |-> "running", auto |-> r.auto, mode |-> r.mode, pool |-> r.pool, features |-> fe]
      /\ peersOn' = {} /\ udpOffOn' = {} /\ upstreamConf' = upstreamConf
  BY DEF RunServer
<1>2. /\ upstreamConf.mode \in {"forward", "odoh"} /\ upstreamConf.address # <<>> =>
           r.pool.primary = upstreamConf.address /\ ~r.auto
      /\ upstreamConf.mode = "odoh" => ~r.auto /\ (upstreamConf.strict => r.pool.fallback = <<>>)
  BY PoolChosen
<1> HIDE DEF r, fe
<1>3. /\ server'.at = "running" /\ server'.auto = r.auto /\ server'.mode = r.mode
      /\ server'.pool = r.pool /\ server'.features = fe
  BY <1>1
<1>4. ServerRecord'
  BY <1>1, <1>3 DEF ServerRecord
<1>5. ChosenStays'
  BY <1>1, <1>2, <1>3 DEF ChosenStays
<1>6. LearnedHere'
  BY <1>1 DEF LearnedHere
<1> QED BY <1>4, <1>5, <1>6 DEF BootInv

(* A tick replaces a detected upstream, and forgets what it learned elsewhere. *)
LEMMA WatchTickOK ==
  ASSUME BootInv, WatchTick
  PROVE  BootInv'
<1> DEFINE moved == lan_ip # net
           new == maybe_update_primary(server.pool, IF Discovered = NoAddr THEN QUAD9_IP ELSE Discovered)
           pool2 == IF server.auto /\ (moved \/ (tick + 1) % REDETECT_TICKS = 0)
                    THEN new ELSE server.pool
<1>1. /\ server.at = "running" /\ lan_ip' = net /\ server' = [server EXCEPT !.pool = pool2]
      /\ udpOffOn' = (IF moved THEN {} ELSE udpOffOn)
      /\ peersOn' = (IF moved \/ pool2 # server.pool THEN {} ELSE peersOn)
      /\ UNCHANGED <<upstreamConf, net, unseen>>
  BY DEF WatchTick
<1>2. ~server.auto => pool2 = server.pool
  OBVIOUS
<1> HIDE DEF pool2
<1>3. /\ server'.at = "running" /\ server'.auto = server.auto /\ server'.mode = server.mode
      /\ server'.pool = pool2 /\ server'.features = server.features
  BY <1>1 DEF BootInv, ServerRecord
<1>4. server' = [at |-> server.at, auto |-> server.auto, mode |-> server.mode, pool |-> pool2,
                 features |-> server.features]
  BY <1>1 DEF BootInv, ServerRecord
<1>5. ServerRecord'
  BY <1>1, <1>3, <1>4 DEF ServerRecord
<1>6. ChosenStays'
  <2>1. ASSUME ~server.auto PROVE server'.pool = server.pool
    BY <1>2, <1>3, <2>1
  <2> QED BY <1>1, <1>3, <2>1 DEF BootInv, ChosenStays
<1>7. LearnedHere'
  BY <1>1 DEF BootInv, LearnedHere
<1> QED BY <1>5, <1>6, <1>7 DEF BootInv

(* Every step of the start and of the watch loop. *)
LEMMA BootStep == BootInv /\ [BootNext]_bootVars => BootInv'
<1> SUFFICES ASSUME BootInv, [BootNext]_bootVars PROVE BootInv'
  OBVIOUS
<1>1. ASSUME NEW p \in TomlPaths, NEW s \in Toggles, NEW v \in BOOLEAN, set_config_bool(p, s, v)
      PROVE  BootInv'
  BY <1>1 DEF set_config_bool, BootInv, ServerRecord, ChosenStays, LearnedHere
<1>2. ASSUME NEW b \in BOOLEAN, Launch(b) PROVE BootInv'
  BY <1>2 DEF Launch, Off, BootInv, ServerRecord, ChosenStays, LearnedHere
<1>3. ASSUME NEW r \in BOOLEAN, NEW probe \in BOOLEAN, RunServer(r, probe) PROVE BootInv'
  BY <1>3, RunServerOK
<1>4. ASSUME ServerEnds PROVE BootInv'
  BY <1>4 DEF ServerEnds, BootInv, ServerRecord, ChosenStays, LearnedHere
<1>5. ASSUME ProcessExits \/ ServiceStop PROVE BootInv'
  BY <1>5 DEF ProcessExits, ServiceStop, Off, BootInv, ServerRecord, ChosenStays, LearnedHere
<1>6. ASSUME UdpProbed \/ PeerHeard \/ UdpTripped PROVE BootInv'
  BY <1>6 DEF UdpProbed, PeerHeard, UdpTripped, BootInv, ServerRecord, ChosenStays, LearnedHere
<1>7. ASSUME NEW n \in Nets, Move(n) PROVE BootInv'
  BY <1>7 DEF Move, BootInv, ServerRecord, ChosenStays, LearnedHere
<1>8. ASSUME UNCHANGED bootVars PROVE BootInv'
  BY <1>8 DEF bootVars, BootInv, ServerRecord, ChosenStays, LearnedHere
<1> QED BY <1>1, <1>2, <1>3, <1>4, <1>5, <1>6, <1>7, <1>8, WatchTickOK DEF BootNext

(* The watch loop never replaces an upstream that the user chose, a strict ODoH
   pool has no way out, and a running server holds no peers and no UDP verdict
   of a network it has seen itself leave (src/src/serve.rs,
   resolve_upstream_pool and network_watch_loop). *)
THEOREM WatchKeepsApartThm == BootSpec => []WatchKeepsApart
<1>1. BootInit => BootInv
  BY DEF BootInit, Off, BootInv, ServerRecord, ChosenStays, LearnedHere
<1>2. BootInv => WatchKeepsApart
  BY DEF BootInv, ChosenStays, LearnedHere, WatchKeepsApart, KeepsChosenUpstreams, NothingFromElsewhere
<1> QED BY <1>1, <1>2, BootStep, PTL DEF BootSpec

-----------------------------------------------------------------------------
(* The toggles of the command line. *)

IsFile(f) == \E S : f \in Seq(S)
FilesOK == DOMAIN tomls = TomlPaths /\ \A p \in TomlPaths : tomls[p] = NoFile \/ IsFile(tomls[p])

(* A set of numbers up to a bound that is not empty has a greatest one. *)
LEMMA Greatest ==
  ASSUME NEW i \in Nat, NEW H, H \subseteq 1..i, H # {}
  PROVE  \E h \in H : \A k \in H : k <= h
<1> DEFINE D == {i - h : h \in H}
<1>1. D \in SUBSET Nat
  <2>1. ASSUME NEW h \in H PROVE i - h \in Nat
    <3>1. h \in 1..i
      OBVIOUS
    <3> QED BY <3>1
  <2> QED BY <2>1
<1>2. PICK d \in D : \A e \in D : d <= e
  <2>0. D # {}
    OBVIOUS
  <2> HIDE DEF D
  <2>1. PICK d \in D : \A e \in D : ~(<<e, d>> \in OpToRel(<, Nat))
    BY <1>1, <2>0, NatLessThanWellFounded, WFMin, Zenon
  <2>2. \A e \in D : ~(e < d)
    BY <1>1, <2>1 DEF OpToRel
  <2> QED BY <1>1, <2>2
<1>3. PICK h \in H : d = i - h
  OBVIOUS
<1>4. ASSUME NEW k \in H PROVE k <= h
  <2>1. i - k \in D
    OBVIOUS
  <2>2. d <= i - k
    BY <1>2, <2>1
  <2> HIDE DEF D
  <2> QED BY <1>3, <2>2
<1> QED BY <1>4

(* It has a least one too. *)
LEMMA LeastOne ==
  ASSUME NEW i \in Nat, NEW H, H \in SUBSET (1..i), H # {}
  PROVE  \E h \in H : \A k \in H : h <= k
<1> DEFINE D == {(i + 1) - h : h \in H}
<1>1. D \in SUBSET (1..i) /\ D # {}
  <2>1. ASSUME NEW h \in H PROVE (i + 1) - h \in 1..i
    <3>1. h \in 1..i
      OBVIOUS
    <3> QED BY <3>1
  <2> QED BY <2>1
<1>2. PICK d \in D : \A k \in D : k <= d
  <2> HIDE DEF D
  <2> QED BY <1>1, Greatest
<1>3. PICK h \in H : d = (i + 1) - h
  OBVIOUS
<1>4. ASSUME NEW k \in H PROVE h <= k
  <2>1. (i + 1) - k <= d
    BY <1>2
  <2>2. h \in 1..i /\ k \in 1..i
    OBVIOUS
  <2> HIDE DEF D
  <2> QED BY <1>3, <2>1, <2>2
<1> QED BY <1>4

(* The section of a line is the one of the last header up to it. *)
LEMMA SectionIs ==
  ASSUME NEW f, NEW i \in Nat
  PROVE  /\ (\A j \in 1..i : f[j].is # "header") => SectionAt(f, i) = ""
         /\ \A h \in 1..i : f[h].is = "header" /\ (\A j \in 1..i : j > h => f[j].is # "header")
              => SectionAt(f, i) = f[h].of
         /\ \/ \A j \in 1..i : f[j].is # "header"
            \/ \E h \in 1..i : f[h].is = "header" /\ (\A j \in 1..i : j > h => f[j].is # "header")
<1> DEFINE heads == {j \in 1..i : f[j].is = "header"}
           last == CHOOSE j \in heads : \A k \in heads : k <= j
<1>1. SectionAt(f, i) = IF heads = {} THEN "" ELSE f[last].of
  BY DEF SectionAt
<1>2. ASSUME NEW h \in 1..i, f[h].is = "header", \A j \in 1..i : j > h => f[j].is # "header"
      PROVE  SectionAt(f, i) = f[h].of
  <2>1. h \in heads /\ \A k \in heads : k <= h
    BY <1>2
  <2>2. last \in heads /\ \A k \in heads : k <= last
    BY <2>1
  <2> HIDE DEF last
  <2>3. last = h
    BY <2>1, <2>2
  <2> QED BY <1>1, <2>1, <2>3
<1>3. ASSUME heads # {}
      PROVE  \E h \in 1..i : f[h].is = "header" /\ (\A j \in 1..i : j > h => f[j].is # "header")
  <2>1. PICK h \in heads : \A k \in heads : k <= h
    BY <1>3, Greatest
  <2> QED BY <2>1
<1> QED BY <1>1, <1>2, <1>3

(* Files that agree up to a line agree on its section. *)
LEMMA SameSection ==
  ASSUME NEW f, NEW g, NEW i \in Nat,
         \A j \in 1..i : /\ f[j].is = "header" <=> g[j].is = "header"
                         /\ f[j].is = "header" => g[j] = f[j]
  PROVE  SectionAt(g, i) = SectionAt(f, i)
<1>1. CASE \A j \in 1..i : f[j].is # "header"
  <2>1. SectionAt(f, i) = ""
    BY <1>1, SectionIs
  <2>2. \A j \in 1..i : g[j].is # "header"
    BY <1>1
  <2>3. SectionAt(g, i) = ""
    BY <2>2, SectionIs
  <2> QED BY <2>1, <2>3
<1>2. ASSUME NEW h \in 1..i, f[h].is = "header", \A j \in 1..i : j > h => f[j].is # "header"
      PROVE  SectionAt(g, i) = SectionAt(f, i)
  <2>1. SectionAt(f, i) = f[h].of
    BY <1>2, SectionIs
  <2>2. g[h].is = "header" /\ g[h] = f[h] /\ \A j \in 1..i : j > h => g[j].is # "header"
    BY <1>2
  <2>3. SectionAt(g, i) = g[h].of
    BY <2>2, SectionIs
  <2> QED BY <2>1, <2>2, <2>3
<1> QED BY <1>1, <1>2, SectionIs

(* A file that keeps the lines P of another, at the positions phi, and has
   one line m of the section s besides that counts, the only one of it. *)
LEMMA OneChange ==
  ASSUME NEW f, NEW g, NEW s, NEW m \in DOMAIN g, NEW P \in SUBSET DOMAIN f,
         NEW phi \in [P -> DOMAIN g],
         \A i \in P : g[phi[i]] = f[i] /\ SectionAt(g, phi[i]) = SectionAt(f, i) /\ phi[i] # m,
         \A k \in DOMAIN g : k = m \/ g[k].is # "enabled" \/ \E i \in P : k = phi[i],
         g[m].is = "enabled", SectionAt(g, m) = s,
         \A i \in DOMAIN f : i \in P \/ f[i].is # "enabled" \/ SectionAt(f, i) = s,
         \A i \in P : f[i].is = "enabled" => SectionAt(f, i) # s,
         \A i, j \in DOMAIN g : g[i].is = "header" /\ g[i] = g[j] => i = j,
         Parses(f)
  PROVE  Parses(g) /\ \A x : x # s => ValueOf(g, x) = ValueOf(f, x)
<1>1. ASSUME NEW x, x # s PROVE EnabledLines(g, x) = {phi[i] : i \in EnabledLines(f, x)}
  <2>1. EnabledLines(f, x) \subseteq P
    BY <1>1 DEF EnabledLines
  <2>2. ASSUME NEW i \in EnabledLines(f, x) PROVE phi[i] \in EnabledLines(g, x)
    BY <2>1, <2>2 DEF EnabledLines
  <2>3. ASSUME NEW k \in EnabledLines(g, x) PROVE \E i \in EnabledLines(f, x) : k = phi[i]
    <3>1. k # m
      BY <1>1, <2>3 DEF EnabledLines
    <3>2. PICK i \in P : k = phi[i]
      BY <2>3, <3>1 DEF EnabledLines
    <3>3. i \in EnabledLines(f, x)
      BY <2>3, <3>2 DEF EnabledLines
    <3> QED BY <3>2, <3>3
  <2> QED BY <2>2, <2>3
<1>2. EnabledLines(g, s) = {m}
  <2>1. m \in EnabledLines(g, s)
    BY DEF EnabledLines
  <2>2. ASSUME NEW k \in EnabledLines(g, s) PROVE k = m
    BY <2>2 DEF EnabledLines
  <2> QED BY <2>1, <2>2
<1>3. ASSUME NEW x, x # s PROVE ValueOf(g, x) = ValueOf(f, x)
  <2>1. \A i \in EnabledLines(f, x) : i \in P /\ g[phi[i]] = f[i]
    BY <1>3 DEF EnabledLines
  <2> QED BY <1>1, <1>3, <2>1 DEF ValueOf
<1>4. ASSUME NEW k \in DOMAIN g, g[k].is = "enabled" PROVE EnabledLines(g, SectionAt(g, k)) = {k}
  <2>1. CASE k = m
    BY <1>2, <2>1
  <2>2. CASE k # m
    <3>1. PICK i \in P : k = phi[i]
      BY <1>4, <2>2
    <3>2. f[i].is = "enabled" /\ SectionAt(g, k) = SectionAt(f, i) /\ SectionAt(f, i) # s
      BY <1>4, <3>1
    <3>3. EnabledLines(f, SectionAt(f, i)) = {i}
      BY <3>2 DEF Parses
    <3> QED BY <1>1, <3>1, <3>2, <3>3
  <2> QED BY <2>1, <2>2
<1> QED BY <1>3, <1>4 DEF Parses

(* The three ways of update_config_content: the line is there ... *)
LEMMA RewritesLine ==
  ASSUME NEW f, IsFile(f), Parses(f), NEW s, NEW v, NEW g, g = update_config_content(f, s, v),
         EnabledLines(f, s) # {}
  PROVE  IsFile(g) /\ Parses(g) /\ \A x : x # s => ValueOf(g, x) = ValueOf(f, x)
<1> DEFINE found == EnabledLines(f, s)
           e == Enabled(v)
<1>1. PICK m \in found : TRUE
  OBVIOUS
<1>2. m \in DOMAIN f /\ f[m].is = "enabled" /\ SectionAt(f, m) = s
  BY <1>1 DEF EnabledLines
<1>3. found = {m}
  BY <1>2 DEF Parses
<1>4. PICK S : f \in Seq(S)
  BY DEF IsFile
<1>5. Len(f) \in Nat /\ DOMAIN f = 1..Len(f) /\ m \in 1..Len(f)
  BY <1>2, <1>4
<1>6. (CHOOSE i \in found : \A j \in found : i <= j) = m
  BY <1>3, <1>5
<1>7. g = [f EXCEPT ![m] = e]
  BY <1>6 DEF update_config_content
<1>8. e.is = "enabled"
  BY DEF Enabled
<1> HIDE DEF e, found
<1>9. /\ g \in Seq(S \cup {e}) /\ DOMAIN g = DOMAIN f /\ g[m] = e
      /\ \A i \in DOMAIN f : i # m => g[i] = f[i]
  BY <1>4, <1>5, <1>7
<1>10. \A i \in DOMAIN f : SectionAt(g, i) = SectionAt(f, i)
  <2> SUFFICES ASSUME NEW i \in DOMAIN f PROVE SectionAt(g, i) = SectionAt(f, i)
    OBVIOUS
  <2>1. i \in Nat /\ 1..i \subseteq DOMAIN f
    BY <1>5
  <2>2. \A j \in 1..i : /\ f[j].is = "header" <=> g[j].is = "header"
                        /\ f[j].is = "header" => g[j] = f[j]
    BY <1>2, <1>8, <1>9, <2>1
  <2> QED BY <2>1, <2>2, SameSection
<1> DEFINE P == DOMAIN f \ {m}
           phi == [i \in P |-> i]
<1>11. P \in SUBSET DOMAIN f /\ phi \in [P -> DOMAIN g] /\ \A i \in P : phi[i] = i
  BY <1>9
<1>12. \A i \in P : g[phi[i]] = f[i] /\ SectionAt(g, phi[i]) = SectionAt(f, i) /\ phi[i] # m
  BY <1>9, <1>10, <1>11
<1>13. \A k \in DOMAIN g : k = m \/ g[k].is # "enabled" \/ \E i \in P : k = phi[i]
  BY <1>9, <1>11
<1>14. \A i \in DOMAIN f : i \in P \/ f[i].is # "enabled" \/ SectionAt(f, i) = s
  BY <1>2
<1>15. \A i \in P : f[i].is = "enabled" => SectionAt(f, i) # s
  BY <1>3 DEF EnabledLines, found
<1>16. \A i, j \in DOMAIN g : g[i].is = "header" /\ g[i] = g[j] => i = j
  BY <1>8, <1>9 DEF Parses
<1> HIDE DEF phi, P
<1>17. m \in DOMAIN g /\ g[m].is = "enabled" /\ SectionAt(g, m) = s
  BY <1>2, <1>8, <1>9, <1>10
<1>18. Parses(g) /\ \A x : x # s => ValueOf(g, x) = ValueOf(f, x)
  BY <1>11, <1>12, <1>13, <1>14, <1>15, <1>16, <1>17, OneChange
<1> QED BY <1>9, <1>18 DEF IsFile

(* ... or the header is ... *)
LEMMA InsertsLine ==
  ASSUME NEW f, IsFile(f), Parses(f), NEW s, NEW v, NEW g, g = update_config_content(f, s, v),
         EnabledLines(f, s) = {}, \E i \in DOMAIN f : f[i] = Header(s)
  PROVE  IsFile(g) /\ Parses(g) /\ \A x : x # s => ValueOf(g, x) = ValueOf(f, x)
<1> DEFINE e == Enabled(v)
           heads == {i \in DOMAIN f : f[i] = Header(s)}
<1>1. PICK h \in DOMAIN f : f[h] = Header(s)
  OBVIOUS
<1>2. f[h].is = "header" /\ f[h].of = s /\ e.is = "enabled"
  BY <1>1 DEF Header, Enabled
<1>3. heads = {h}
  BY <1>1, <1>2 DEF Parses
<1>4. PICK S : f \in Seq(S)
  BY DEF IsFile
<1>5. Len(f) \in Nat /\ DOMAIN f = 1..Len(f) /\ h \in 1..Len(f)
  BY <1>1, <1>4
<1>6. (CHOOSE i \in heads : \A j \in heads : i <= j) = h
  BY <1>3, <1>5
<1>7. g = InsertAt(f, h + 1, e)
  BY <1>3, <1>6 DEF update_config_content
<1> HIDE DEF e, heads
<1> DEFINE m == h + 1
           n == Len(f)
<1>8. /\ g \in Seq(S \cup {e}) /\ Len(g) = n + 1 /\ DOMAIN g = 1..n + 1 /\ g[m] = e
      /\ \A i \in 1..h : g[i] = f[i]
      /\ \A i \in m..n : g[i + 1] = f[i]
  <2> DEFINE a == SubSeq(f, 1, h)
             b == SubSeq(f, m, n)
             T == S \cup {e}
  <2>1. /\ a \in Seq(T) /\ Len(a) = h /\ \A i \in 1..h : a[i] = f[i]
    BY <1>4, <1>5
  <2>2. /\ b \in Seq(T) /\ Len(b) = n - h /\ \A i \in 1..n - h : b[i] = f[h + i]
    BY <1>4, <1>5
  <2>3. g = a \o <<e>> \o b
    <3>1. m - 1 = h
      BY <1>5
    <3> QED BY <1>7, <3>1 DEF InsertAt
  <2> DEFINE c == a \o <<e>>
  <2> HIDE DEF a, b, T
  <2>4. /\ c \in Seq(T) /\ Len(c) = m /\ c[m] = e /\ \A i \in 1..h : c[i] = f[i]
    BY <1>5, <2>1 DEF T
  <2> HIDE DEF c
  <2>5. g = c \o b
    BY <2>3 DEF c
  <2>6. /\ g \in Seq(T) /\ Len(g) = n + 1 /\ \A i \in 1..m : g[i] = c[i]
        /\ \A i \in 1..n - h : g[m + i] = b[i]
    BY <1>5, <2>2, <2>4, <2>5
  <2>7. ASSUME NEW i \in m..n PROVE g[i + 1] = f[i]
    <3>1. i - h \in 1..n - h /\ m + (i - h) = i + 1 /\ h + (i - h) = i
      BY <1>5
    <3> QED BY <2>2, <2>6, <3>1
  <2>8. g[m] = e /\ \A i \in 1..h : g[i] = f[i]
    BY <1>5, <2>4, <2>6
  <2> QED BY <2>6, <2>7, <2>8 DEF T
<1> DEFINE P == DOMAIN f
           phi == [i \in P |-> IF i <= h THEN i ELSE i + 1]
<1>9. /\ \A i \in P : phi[i] = (IF i <= h THEN i ELSE i + 1)
      /\ phi \in [P -> DOMAIN g] /\ \A i \in P : g[phi[i]] = f[i] /\ phi[i] # m
  BY <1>5, <1>8
<1>10. ASSUME NEW i \in 1..h PROVE SectionAt(g, i) = SectionAt(f, i)
  BY <1>5, <1>8, SameSection
<1>11. ASSUME NEW i \in h..n PROVE SectionAt(g, i + 1) = SectionAt(f, i)
  <2>0. i \in Nat /\ i + 1 \in Nat /\ h \in 1..i
    BY <1>5
  <2>1. \E k \in 1..i : f[k].is = "header" /\ (\A j \in 1..i : j > k => f[j].is # "header")
    BY <1>2, <2>0, SectionIs
  <2>2. PICK k \in 1..i : f[k].is = "header" /\ (\A j \in 1..i : j > k => f[j].is # "header")
    BY <2>1
  <2>3. SectionAt(f, i) = f[k].of
    BY <2>0, <2>2, SectionIs
  <2>4. k >= h
    BY <1>2, <1>5, <2>0, <2>2
  <2> DEFINE l == IF k = h THEN h ELSE k + 1
  <2>5. l \in 1..i + 1 /\ g[l] = f[k]
    BY <1>5, <1>8, <2>4
  <2>6. ASSUME NEW j \in 1..i + 1, j > l PROVE g[j].is # "header"
    <3>1. CASE j = m
      BY <1>2, <1>8, <3>1
    <3>2. CASE j # m
      <4>1. j - 1 \in m..n /\ j - 1 \in 1..i /\ j - 1 > k /\ (j - 1) + 1 = j
        BY <1>5, <2>4, <2>6, <3>2
      <4> QED BY <1>8, <2>2, <4>1
    <3> QED BY <3>1, <3>2
  <2> HIDE DEF l
  <2>7. SectionAt(g, i + 1) = g[l].of
    <3>1. g[l].is = "header" /\ \A j \in 1..i + 1 : j > l => g[j].is # "header"
      BY <2>2, <2>5, <2>6
    <3> QED BY <2>0, <2>5, <3>1, SectionIs
  <2> QED BY <2>3, <2>5, <2>7
<1>12. \A i \in P : SectionAt(g, phi[i]) = SectionAt(f, i)
  <2> SUFFICES ASSUME NEW i \in P PROVE SectionAt(g, phi[i]) = SectionAt(f, i)
    OBVIOUS
  <2>1. CASE i <= h
    BY <1>5, <1>9, <1>10, <2>1
  <2>2. CASE ~(i <= h)
    <3>1. i \in h..n /\ phi[i] = i + 1
      BY <1>5, <1>9, <2>2
    <3> QED BY <1>11, <3>1
  <2> QED BY <2>1, <2>2
<1>13. SectionAt(g, m) = s
  <2>1. SectionAt(f, h) = s
    <3>1. h \in Nat /\ h \in 1..h /\ \A j \in 1..h : ~(j > h)
      BY <1>5
    <3> QED BY <1>2, <3>1, SectionIs
  <2>2. h \in h..n
    BY <1>5
  <2> QED BY <1>11, <2>1, <2>2
<1>14. \A k \in DOMAIN g : k = m \/ \E i \in P : k = phi[i]
  <2> SUFFICES ASSUME NEW k \in DOMAIN g, k # m PROVE \E i \in P : k = phi[i]
    OBVIOUS
  <2>1. CASE k <= h
    BY <1>5, <1>8, <1>9, <2>1
  <2>2. CASE ~(k <= h)
    <3>1. k - 1 \in P /\ ~(k - 1 <= h) /\ (k - 1) + 1 = k
      BY <1>5, <1>8, <2>2
    <3> QED BY <1>9, <3>1
  <2> QED BY <2>1, <2>2
<1>15. \A i \in P : f[i].is = "enabled" => SectionAt(f, i) # s
  BY DEF EnabledLines
<1> HIDE DEF phi
<1>16. \A i, j \in DOMAIN g : g[i].is = "header" /\ g[i] = g[j] => i = j
  <2> SUFFICES ASSUME NEW i \in DOMAIN g, NEW j \in DOMAIN g, g[i].is = "header", g[i] = g[j]
               PROVE  i = j
    OBVIOUS
  <2>1. i # m /\ j # m
    BY <1>2, <1>8
  <2>2. PICK a \in P : i = phi[a]
    BY <1>14, <2>1
  <2>3. PICK b \in P : j = phi[b]
    BY <1>14, <2>1
  <2>4. f[a].is = "header" /\ f[a] = f[b]
    BY <1>9, <2>2, <2>3
  <2>5. a = b
    BY <2>4 DEF Parses
  <2> QED BY <2>2, <2>3, <2>5
<1>17. m \in DOMAIN g /\ g[m].is = "enabled"
  BY <1>2, <1>5, <1>8
<1>18. Parses(g) /\ \A x : x # s => ValueOf(g, x) = ValueOf(f, x)
  <2> HIDE DEF m, P
  <2> DEFINE Q == P
  <2>1. Q \in SUBSET DOMAIN f /\ phi \in [Q -> DOMAIN g]
    BY <1>9 DEF P
  <2>2. \A i \in DOMAIN f : i \in Q
    BY DEF P
  <2> QED BY <1>9, <1>12, <1>13, <1>14, <1>15, <1>16, <1>17, <2>1, <2>2, OneChange
<1> QED BY <1>8, <1>18 DEF IsFile

(* ... or the section is appended, after a blank line if need be. *)
LEMMA AppendsSection ==
  ASSUME NEW f, IsFile(f), Parses(f), NEW s, NEW v, NEW g, g = update_config_content(f, s, v),
         EnabledLines(f, s) = {}, \A i \in DOMAIN f : f[i] # Header(s)
  PROVE  IsFile(g) /\ Parses(g) /\ \A x : x # s => ValueOf(g, x) = ValueOf(f, x)
<1> DEFINE e == Enabled(v)
           hd == Header(s)
           o == Other
           blank == IF f = <<>> \/ Last(f) = o THEN <<>> ELSE <<o>>
           n == Len(f)
<1>1. g = f \o blank \o <<hd, e>>
  BY DEF update_config_content
<1>2. hd.is = "header" /\ hd.of = s /\ e.is = "enabled" /\ o.is = "other"
  BY DEF Header, Enabled, Other
<1>3. PICK S : f \in Seq(S)
  BY DEF IsFile
<1>4. n \in Nat /\ DOMAIN f = 1..n
  BY <1>3
<1> DEFINE T == S \cup {e, hd, o}
<1>5. blank \in Seq(T) /\ Len(blank) \in {0, 1} /\ \A i \in 1..Len(blank) : blank[i] = o
  <2>1. blank = <<>> \/ blank = <<o>>
    OBVIOUS
  <2>2. o \in T
    OBVIOUS
  <2> HIDE DEF blank, o, T
  <2>3. CASE blank = <<>>
    BY <2>3
  <2>4. CASE blank = <<o>>
    BY <2>2, <2>4
  <2> QED BY <2>1, <2>3, <2>4
<1>6. f \in Seq(T)
  BY <1>3
<1> DEFINE c == f \o blank
           b == n + Len(blank)
<1>7. /\ c \in Seq(T) /\ Len(c) = b /\ \A i \in 1..n : c[i] = f[i]
      /\ \A i \in n + 1..b : c[i] = o
  <2> HIDE DEF blank, T
  <2>1. c \in Seq(T) /\ Len(c) = b /\ \A i \in 1..n : c[i] = f[i]
    BY <1>4, <1>5, <1>6
  <2>2. ASSUME NEW i \in n + 1..b PROVE c[i] = o
    <3>1. i - n \in 1..Len(blank) /\ i = n + (i - n)
      BY <1>4, <1>5
    <3>2. c[i] = blank[i - n]
      BY <1>4, <1>5, <1>6, <3>1
    <3> QED BY <1>5, <3>1, <3>2
  <2> QED BY <2>1, <2>2
<1>8. b \in n..n + 1 /\ hd \in T /\ e \in T
  BY <1>4, <1>5
<1> DEFINE m == b + 2
<1>9. g = c \o <<hd, e>>
  BY <1>1
<1> HIDE DEF c, blank, T, e, hd, o, b
<1>10. /\ g \in Seq(T) /\ Len(g) = m /\ DOMAIN g = 1..m /\ \A i \in 1..b : g[i] = c[i]
       /\ g[b + 1] = hd /\ g[m] = e
  <2>1. c \in Seq(T) /\ hd \in T /\ e \in T /\ Len(c) = b /\ b \in Nat
    BY <1>4, <1>7, <1>8
  <2>2. g \in Seq(T)
    BY <1>9, <2>1
  <2>3. Len(g) = b + 2
    BY <1>9, <2>1
  <2>4. \A i \in 1..b : g[i] = c[i]
    BY <1>9, <2>1
  <2>5. g[b + 1] = hd
    BY <1>9, <2>1
  <2>6. g[b + 2] = e
    BY <1>9, <2>1
  <2> QED BY <2>2, <2>3, <2>4, <2>5, <2>6
<1>11. /\ \A i \in 1..n : i \in DOMAIN g /\ g[i] = f[i] /\ i # m
       /\ \A k \in DOMAIN g : k = m \/ k = b + 1 \/ k \in 1..n \/ g[k] = o
  <2>1. ASSUME NEW i \in 1..n PROVE i \in DOMAIN g /\ g[i] = f[i] /\ i # m
    <3>1. i \in 1..b /\ i \in 1..m /\ i # m
      BY <1>4, <1>8
    <3> QED BY <1>7, <1>10, <3>1
  <2>2. ASSUME NEW k \in DOMAIN g, k # m, k # b + 1, k \notin 1..n PROVE g[k] = o
    <3>1. k \in 1..b /\ k \in n + 1..b
      BY <1>4, <1>8, <1>10, <2>2
    <3> QED BY <1>7, <1>10, <3>1
  <2> QED BY <2>1, <2>2
<1>12. ASSUME NEW i \in 1..n PROVE SectionAt(g, i) = SectionAt(f, i)
  <2>1. i \in Nat /\ 1..i \subseteq 1..n
    BY <1>4
  <2> QED BY <1>11, <2>1, SameSection
<1>13. SectionAt(g, m) = s
  <2>1. m \in Nat /\ b + 1 \in 1..m /\ \A j \in 1..m : j > b + 1 => j = m
    BY <1>4, <1>8
  <2>2. g[b + 1].is = "header" /\ g[b + 1].of = s /\ g[m].is # "header"
    BY <1>2, <1>10
  <2>3. \A j \in 1..m : j > b + 1 => g[j].is # "header"
    BY <2>1, <2>2
  <2> HIDE DEF m
  <2> QED BY <2>1, <2>2, <2>3, SectionIs
<1>14. \A i, j \in DOMAIN g : g[i].is = "header" /\ g[i] = g[j] => i = j
  <2> SUFFICES ASSUME NEW i \in DOMAIN g, NEW j \in DOMAIN g, g[i].is = "header", g[i] = g[j]
               PROVE  i = j
    OBVIOUS
  <2>1. (i = b + 1 \/ i \in 1..n) /\ (j = b + 1 \/ j \in 1..n)
    BY <1>2, <1>10, <1>11
  <2>2. CASE i \in 1..n /\ j \in 1..n
    BY <1>4, <1>11, <2>2 DEF Parses
  <2>3. CASE i \in 1..n /\ j = b + 1
    BY <1>4, <1>10, <1>11, <2>3 DEF hd
  <2>4. CASE i = b + 1 /\ j \in 1..n
    BY <1>4, <1>10, <1>11, <2>4 DEF hd
  <2> QED BY <2>1, <2>2, <2>3, <2>4
<1> DEFINE P == DOMAIN f
           phi == [i \in P |-> i]
<1>15. P \in SUBSET DOMAIN f /\ phi \in [P -> DOMAIN g] /\ \A i \in P : phi[i] = i
  BY <1>4, <1>11
<1>16. \A i \in P : g[phi[i]] = f[i] /\ SectionAt(g, phi[i]) = SectionAt(f, i) /\ phi[i] # m
  BY <1>4, <1>11, <1>12, <1>15
<1>17. \A k \in DOMAIN g : k = m \/ g[k].is # "enabled" \/ \E i \in P : k = phi[i]
  <2> SUFFICES ASSUME NEW k \in DOMAIN g, k # m, g[k].is = "enabled" PROVE k \in P
    BY <1>15
  <2> QED BY <1>2, <1>4, <1>10, <1>11
<1>18. \A i \in P : f[i].is = "enabled" => SectionAt(f, i) # s
  BY DEF EnabledLines
<1>19. \A i \in DOMAIN f : i \in P
  OBVIOUS
<1>20. m \in DOMAIN g /\ g[m].is = "enabled"
  BY <1>2, <1>4, <1>8, <1>10
<1> HIDE DEF P, phi, m
<1>21. Parses(g) /\ \A x : x # s => ValueOf(g, x) = ValueOf(f, x)
  BY <1>13, <1>14, <1>15, <1>16, <1>17, <1>18, <1>19, <1>20, OneChange
<1> QED BY <1>10, <1>21 DEF IsFile

(* update_config_content changes one setting. *)
LEMMA UpdatesOne ==
  ASSUME NEW f, IsFile(f), Parses(f), NEW s, NEW v, NEW g, g = update_config_content(f, s, v)
  PROVE  IsFile(g) /\ Parses(g) /\ \A x : x # s => ValueOf(g, x) = ValueOf(f, x)
BY RewritesLine, InsertsLine, AppendsSection

(* It leaves a file behind, whether it loads or not. *)
LEMMA UpdatesFile ==
  ASSUME NEW f, IsFile(f), NEW s, NEW v
  PROVE  IsFile(update_config_content(f, s, v))
<1> DEFINE found == EnabledLines(f, s)
           heads == {i \in DOMAIN f : f[i] = Header(s)}
           e == Enabled(v)
           i1 == CHOOSE i \in found : \A j \in found : i <= j
           i2 == CHOOSE i \in heads : \A j \in heads : i <= j
           blank == IF f = <<>> \/ Last(f) = Other THEN <<>> ELSE <<Other>>
<1>1. PICK S : f \in Seq(S)
  BY DEF IsFile
<1> DEFINE T == S \cup {e, Header(s), Other}
<1>2. f \in Seq(T) /\ e \in T /\ Header(s) \in T /\ blank \in Seq(T)
  <2>1. f \in Seq(T) /\ e \in T /\ Header(s) \in T /\ Other \in T
    BY <1>1
  <2> HIDE DEF T
  <2>2. <<>> \in Seq(T) /\ <<Other>> \in Seq(T)
    BY <2>1
  <2> QED BY <2>1, <2>2
<1>3. update_config_content(f, s, v) =
        IF found # {} THEN [f EXCEPT ![i1] = e]
        ELSE IF heads # {} THEN InsertAt(f, i2 + 1, e) ELSE f \o blank \o <<Header(s), e>>
  BY Zenon DEF update_config_content
<1> HIDE DEF T, i1, i2, e, blank
<1>4. [f EXCEPT ![i1] = e] \in Seq(T)
  <2> DEFINE g == [f EXCEPT ![i1] = e]
  <2>1. f \in [1..Len(f) -> T] /\ Len(f) \in Nat
    BY <1>2
  <2>2. g \in [1..Len(f) -> T]
    BY <1>2, <2>1
  <2> HIDE DEF g
  <2> QED BY <2>1, <2>2 DEF g
<1>5. heads # {} => InsertAt(f, i2 + 1, e) \in Seq(T)
  <2> SUFFICES ASSUME heads # {} PROVE InsertAt(f, i2 + 1, e) \in Seq(T)
    OBVIOUS
  <2>1. i2 \in 1..Len(f) /\ Len(f) \in Nat
    <3>1. Len(f) \in Nat /\ heads \in SUBSET (1..Len(f))
      BY <1>2
    <3>2. \E i \in heads : \A j \in heads : i <= j
      BY <3>1, LeastOne
    <3> QED BY <3>1, <3>2 DEF i2
  <2>2. SubSeq(f, 1, (i2 + 1) - 1) \in Seq(T) /\ SubSeq(f, i2 + 1, Len(f)) \in Seq(T)
    BY <1>2, <2>1
  <2> QED BY <1>2, <2>2 DEF InsertAt
<1>6. f \o blank \o <<Header(s), e>> \in Seq(T)
  BY <1>2
<1> QED BY <1>3, <1>4, <1>5, <1>6 DEF IsFile

(* Files stay files. *)
LEMMA FilesStep == FilesOK /\ [BootNext]_bootVars => FilesOK'
<1> SUFFICES ASSUME FilesOK, [BootNext]_bootVars PROVE FilesOK'
  OBVIOUS
<1>1. ASSUME NEW p \in TomlPaths, NEW s \in Toggles, NEW v \in BOOLEAN, set_config_bool(p, s, v)
      PROVE  FilesOK'
  <2> DEFINE old == IF tomls[p] = NoFile THEN <<>> ELSE tomls[p]
  <2>1. tomls' = [tomls EXCEPT ![p] = update_config_content(old, s, v)]
    BY <1>1 DEF set_config_bool
  <2>2. IsFile(<<>>)
    <3>1. <<>> \in Seq({})
      OBVIOUS
    <3> QED BY <3>1 DEF IsFile
  <2>3. IsFile(old)
    BY <2>2 DEF FilesOK
  <2> HIDE DEF old
  <2>4. IsFile(update_config_content(old, s, v))
    BY <2>3, UpdatesFile
  <2> QED BY <2>1, <2>4 DEF FilesOK
<1>2. ASSUME tomls' = tomls PROVE FilesOK'
  BY <1>2 DEF FilesOK
<1>3. \/ \E p \in TomlPaths, s \in Toggles, v \in BOOLEAN : set_config_bool(p, s, v)
      \/ tomls' = tomls
  BY DEF BootNext, Launch, RunServer, ServerEnds, ProcessExits, ServiceStop, WatchTick,
         UdpProbed, PeerHeard, UdpTripped, Move, bootVars
<1> QED BY <1>1, <1>2, <1>3

(* A toggle of the command line changes the one setting and no other, and
   leaves a file that loads if it loaded before, wherever the section is and
   whatever else is in the file (src/src/main.rs, update_config_content). *)
THEOREM ToggleChangesOneThm == BootSpec => ToggleChangesOne
<1>1. BootInit => FilesOK
  <2> SUFFICES ASSUME BootInit PROVE FilesOK
    OBVIOUS
  <2>1. PICK c \in Contents : tomls = [p \in TomlPaths |-> IF p \in DOMAIN c THEN c[p] ELSE NoFile]
    BY DEF BootInit
  <2>2. \A p \in DOMAIN c : IsFile(c[p])
    BY ContentsAssumption DEF IsFile
  <2> QED BY <2>1, <2>2 DEF FilesOK
<1> DEFINE Old(p) == IF tomls[p] = NoFile THEN <<>> ELSE tomls[p]
           Own(p) == {s \in Toggles : ValueOf(Old(p), s) # ValueOf(tomls'[p], s)}
           Sections(p) == {Old(p)[i].of : i \in {j \in DOMAIN Old(p) : Old(p)[j].is = "header"}}
           Changes1(p) == tomls'[p] # tomls[p] /\ Parses(Old(p)) =>
                            /\ Parses(tomls'[p])
                            /\ Cardinality(Own(p)) <= 1
                            /\ \A s \in Sections(p) \ Own(p) :
                                 ValueOf(tomls'[p], s) = ValueOf(Old(p), s)
<1>2. ASSUME FilesOK, [BootNext]_bootVars, NEW p \in TomlPaths,
             tomls'[p] # tomls[p], Parses(Old(p))
      PROVE  /\ Parses(tomls'[p]) /\ Cardinality(Own(p)) <= 1
             /\ \A s \in Sections(p) \ Own(p) : ValueOf(tomls'[p], s) = ValueOf(Old(p), s)
  <2>1. \E q \in TomlPaths, s \in Toggles, v \in BOOLEAN : set_config_bool(q, s, v)
    BY <1>2 DEF BootNext, Launch, RunServer, ServerEnds, ProcessExits, ServiceStop, WatchTick,
         UdpProbed, PeerHeard, UdpTripped, Move, bootVars
  <2>2. PICK q \in TomlPaths, s \in Toggles, v \in BOOLEAN : set_config_bool(q, s, v)
    BY <2>1
  <2>3. tomls' = [tomls EXCEPT ![q] = update_config_content(Old(q), s, v)]
    BY <2>2 DEF set_config_bool
  <2>4. q = p /\ tomls'[p] = update_config_content(Old(p), s, v)
    BY <1>2, <2>3 DEF FilesOK
  <2>5. IsFile(Old(p))
    <3>1. <<>> \in Seq({})
      OBVIOUS
    <3>2. IsFile(<<>>)
      BY <3>1 DEF IsFile
    <3> QED BY <1>2, <3>2 DEF FilesOK
  <2> HIDE DEF Old
  <2>6. Parses(tomls'[p]) /\ \A x : x # s => ValueOf(tomls'[p], x) = ValueOf(Old(p), x)
    BY <1>2, <2>4, <2>5, UpdatesOne
  <2>7. Own(p) \subseteq {s}
    BY <2>6
  <2>8. Cardinality(Own(p)) <= 1
    <3>1. Own(p) = {} \/ Own(p) = {s}
      BY <2>7
    <3>2. Cardinality({}) = 0 /\ Cardinality({s}) = 1
      BY FS_EmptySet, FS_Singleton
    <3> HIDE DEF Own
    <3> QED BY <3>1, <3>2
  <2>9. ASSUME NEW x \in Sections(p) \ Own(p) PROVE ValueOf(tomls'[p], x) = ValueOf(Old(p), x)
    <3>1. CASE x = s
      <4>1. s \in Toggles /\ s \notin Own(p)
        BY <2>9, <3>1
      <4> QED BY <3>1, <4>1
    <3>2. CASE x # s
      BY <2>6, <3>2
    <3> QED BY <3>1, <3>2
  <2> QED BY <2>6, <2>8, <2>9
<1>3. FilesOK /\ [BootNext]_bootVars => [\A p \in TomlPaths : Changes1(p)]_bootVars
  BY <1>2
<1> QED BY <1>1, <1>3, FilesStep, PTL DEF BootSpec, ToggleChangesOne

-----------------------------------------------------------------------------
(* The developer tool. *)

(* Everything that is published, snapshot or about to be published is a
   version of the file. *)
WorkersHold ==
  /\ DOMAIN worker = Workers
  /\ \A w \in Workers : worker[w].busy => worker[w].table \in versions

DevInv ==
  /\ devEntries \in versions /\ WorkersHold
  /\ Versioned(devFile) \subseteq versions
  /\ reloader.busy => Versioned(reloader.read) \subseteq versions
  /\ AnswersAreOneVersion

(* A truncated file stands for no table. *)
LEMMA NothingYet == Versioned(<<>>) = {}
<1>1. DOMAIN <<>> = {}
  OBVIOUS
<1>2. TableOf(<<>>) = {}
  BY <1>1, Zenon DEF TableOf
<1>3. load_domains(<<>>) = {}
  BY <1>2, Zenon DEF load_domains
<1> QED BY <1>3, Zenon DEF Versioned

(* More versions make no answer wrong. *)
LEMMA VersionsGrow ==
  ASSUME AnswersAreOneVersion, versions \subseteq versions', replies' = replies
  PROVE  AnswersAreOneVersion'
BY DEF AnswersAreOneVersion

(* A worker answers from its snapshot of the table. *)
LEMMA HandleOK ==
  ASSUME DevInv, NEW w \in Workers, handle_dns_message(w)
  PROVE  DevInv'
<1> DEFINE query == parse_query(worker[w].msg)
           table == worker[w].table
           rsp == build_response(worker[w].msg, query, table)
<1>1. /\ worker[w].busy /\ worker' = [worker EXCEPT ![w] = Waiting]
      /\ replies' = (IF ~query.ok THEN replies
                     ELSE {[domain |-> query.domain, qtype |-> query.qtype, response |-> rsp]})
      /\ UNCHANGED <<devFile, devEntries, reloader, versions>>
  BY Zenon DEF handle_dns_message
<1>2. table \in versions /\ DOMAIN worker = Workers
  BY <1>1 DEF DevInv, WorkersHold
<1>3. WorkersHold'
  BY <1>1 DEF DevInv, WorkersHold, Waiting
<1>4. /\ rsp.rcode = (IF Found(table, query.domain) = {} THEN "NXDOMAIN" ELSE "NOERROR")
      /\ rsp.answers = {e.ip : e \in {f \in Found(table, query.domain) : query.qtype = "A"}}
  <2> DEFINE q == SubSeq(worker[w].msg.cells, 1, query.question_end)
             rc == IF Found(table, query.domain) = {} THEN "NXDOMAIN" ELSE "NOERROR"
             an == {e.ip : e \in {f \in Found(table, query.domain) : query.qtype = "A"}}
  <2>1. rsp = [rcode |-> rc, question |-> q, answers |-> an]
    BY Zenon DEF build_response
  <2> HIDE DEF q, rc, an, query, table, rsp
  <2>2. rsp.rcode = rc /\ rsp.answers = an
    BY <2>1
  <2> QED BY <2>2, Zenon DEF rc, an
<1> HIDE DEF query, table, rsp
<1>5. AnswersAreOneVersion'
  <2>1. CASE ~query.ok
    <3>1. replies' = replies
      BY <1>1, <2>1
    <3> QED BY <1>1, <3>1, VersionsGrow DEF DevInv
  <2>2. CASE query.ok
    <3> DEFINE r == [domain |-> query.domain, qtype |-> query.qtype, response |-> rsp]
    <3>1. replies' = {r} /\ versions' = versions
      BY <1>1, <2>2
    <3>2. r.domain = query.domain /\ r.qtype = query.qtype /\ r.response = rsp
      OBVIOUS
    <3> HIDE DEF r
    <3>3. (rsp.rcode = "NXDOMAIN") = (Found(table, query.domain) = {})
      BY <1>4
    <3> QED BY <1>2, <1>4, <3>1, <3>2, <3>3, Zenon DEF AnswersAreOneVersion
  <2> QED BY <2>1, <2>2
<1> QED BY <1>1, <1>3, <1>5 DEF DevInv, Versioned

(* Every step of the workers and of the reloader. *)
LEMMA DevStep == DevInv /\ [DevNext]_devVars => DevInv'
<1> SUFFICES ASSUME DevInv, [DevNext]_devVars PROVE DevInv'
  OBVIOUS
<1>1. ASSUME StartSave PROVE DevInv'
  <2>1. /\ devFile' = <<>> /\ UNCHANGED <<devEntries, reloader, worker, replies, versions>>
    BY <1>1 DEF StartSave
  <2>2. Versioned(devFile') = {}
    BY <2>1, NothingYet
  <2> QED BY <2>1, <2>2, VersionsGrow DEF DevInv, WorkersHold
<1>2. ASSUME WriteLine PROVE DevInv'
  <2>1. /\ versions' = versions \cup Versioned(devFile')
        /\ UNCHANGED <<devEntries, reloader, worker, replies>>
    BY <1>2 DEF WriteLine
  <2>2. AnswersAreOneVersion'
    BY <2>1, VersionsGrow DEF DevInv
  <2> QED BY <2>1, <2>2 DEF DevInv, WorkersHold
<1>3. ASSUME ReadFile PROVE DevInv'
  <2>1. /\ reloader' = [busy |-> TRUE, read |-> devFile]
        /\ UNCHANGED <<devFile, devEntries, worker, replies, versions>>
    BY <1>3 DEF ReadFile
  <2>2. reloader'.read = devFile
    BY <2>1
  <2>3. AnswersAreOneVersion'
    BY <2>1, VersionsGrow DEF DevInv
  <2> QED BY <2>1, <2>2, <2>3 DEF DevInv, WorkersHold
<1>4. ASSUME Reload PROVE DevInv'
  <2>1. /\ reloader.busy /\ reloader' = Asleep
        /\ devEntries' = (IF load_domains(reloader.read) = {} THEN devEntries
           ELSE load_domains(reloader.read))
        /\ UNCHANGED <<devFile, worker, replies, versions>>
    BY <1>4 DEF Reload
  <2>2. devEntries' \in versions
    BY <2>1 DEF DevInv, Versioned
  <2>3. AnswersAreOneVersion'
    BY <2>1, VersionsGrow DEF DevInv
  <2>4. ~reloader'.busy
    BY <2>1 DEF Asleep
  <2> QED BY <2>1, <2>2, <2>3, <2>4 DEF DevInv, WorkersHold
<1>5. ASSUME UdpFails \/ UNCHANGED devVars PROVE DevInv'
  <2>1. UNCHANGED <<devFile, devEntries, reloader, worker, replies, versions>>
    BY <1>5 DEF UdpFails, devVars
  <2> QED BY <2>1, VersionsGrow DEF DevInv, WorkersHold
<1>6. ASSUME NEW w \in Workers, TakeMessage(w) PROVE DevInv'
  <2>1. PICK m \in Messages : worker' = [worker EXCEPT ![w] = [busy |-> TRUE, msg |-> m,
             table |-> devEntries]]
    BY <1>6 DEF TakeMessage
  <2>2. UNCHANGED <<devFile, devEntries, reloader, replies, versions>>
    BY <1>6 DEF TakeMessage
  <2>3. WorkersHold'
    BY <2>1, <2>2 DEF DevInv, WorkersHold
  <2> QED BY <2>2, <2>3, VersionsGrow DEF DevInv
<1>7. ASSUME NEW w \in Workers, handle_dns_message(w) PROVE DevInv'
  BY <1>7, HandleOK
<1> QED BY <1>1, <1>2, <1>3, <1>4, <1>5, <1>6, <1>7 DEF DevNext

(* Whatever the reloader and the editor do meanwhile, a response says of a
   name what one complete, valid content of the file said of it
   (src/src/bin/numa-dev.rs). *)
THEOREM AnswersAreOneVersionThm == DevSpec => []AnswersAreOneVersion
<1>1. DevInit => DevInv
  <2> SUFFICES ASSUME DevInit PROVE DevInv
    OBVIOUS
  <2>1. devEntries \in versions /\ Versioned(devFile) \subseteq versions
    BY DEF DevInit, Versioned
  <2>2. WorkersHold /\ ~reloader.busy /\ replies = {}
    BY DEF DevInit, WorkersHold, Waiting, Asleep
  <2> QED BY <2>1, <2>2 DEF DevInv, AnswersAreOneVersion
<1>2. DevInv => AnswersAreOneVersion
  BY DEF DevInv
<1> QED BY <1>1, <1>2, DevStep, PTL DEF DevSpec
=============================================================================
