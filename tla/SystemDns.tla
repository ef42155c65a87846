----------------------------- MODULE SystemDns -----------------------------
(***************************************************************************)
(* numa install, uninstall and the service commands on the three platforms *)
(* (src/src/system_dns.rs): the host's DNS settings, the backup of them,   *)
(* the registered service and the trusted CA.  A command is a script of    *)
(* steps; every step may fail and the command may be killed at any of      *)
(* them, a file written in place then being left torn.  Between commands   *)
(* the network of the host may change.                                     *)
(*                                                                         *)
(* A setting is "isp" (servers of the user), "dhcp" (no explicit server),  *)
(* "stub" (another local resolver), "numa" (this one) or "torn".  Linux    *)
(* has the one interface "resolv.conf".                                    *)
(***************************************************************************)
EXTENDS Integers, Sequences, FiniteSets

CONSTANTS Services,                \* network services or adapters
          MaxCommands, MaxChanges  \* bounds

VARIABLES
  os,
  host,        \* what the commands change
  resolved,    \* systemd-resolved is active
  cmd,         \* the command under way
  hadReal,     \* history: interface -> its own last setting names a real server
  drifted,     \* history: interfaces that changed while a backup of them existed
  excused,     \* history: interfaces whose backup was cut short or whose restore failed
  commands, changes

sysVars == <<os, host, resolved, cmd, hadReal, drifted, excused, commands, changes>>

Interfaces(o) == IF o = "linux" THEN {"resolv.conf"} ELSE Services

is_loopback_or_stub(s) == s \in {"numa", "stub", "torn"}
Real(s) == s = "isp"

NoBackup == <<>>
(* resolv_conf_has_real_upstream, backup_has_real_upstream_macos *)
Useful(b) == \E i \in DOMAIN b : Real(b[i])
Torn(b) == b # NoBackup /\ \A i \in DOMAIN b : b[i] = "torn"

NoCmd == [name |-> "none", script |-> <<>>, todo |-> {}, failed |-> {}]

InitSys(o, dns, legacy) ==
  [dns |-> dns, backup |-> NoBackup, dropin |-> FALSE, exe |-> FALSE, unit |-> FALSE,
   running |-> FALSE, nrpt |-> 0, legacy |-> legacy, trusted |-> FALSE, config |-> FALSE]

SysInit ==
  /\ os \in {"linux", "macos", "windows"}
  /\ \E dns \in [Interfaces(os) -> {"isp", IF os = "linux" THEN "stub" ELSE "dhcp"}],
        legacy \in (IF os = "windows" THEN BOOLEAN ELSE {FALSE}) :
       /\ host = InitSys(os, IF legacy THEN [i \in DOMAIN dns |-> "numa"] ELSE dns, legacy)
       /\ hadReal = [i \in Interfaces(os) |-> ~legacy /\ Real(dns[i])]
  /\ resolved \in (IF os = "linux" THEN BOOLEAN ELSE {FALSE})
  /\ cmd = NoCmd
  /\ drifted = {} /\ excused = {} /\ commands = 0 /\ changes = 0

-----------------------------------------------------------------------------
(* Scripts.  onError is "next" (a warning), "return" (the command fails) or
   the step at which it goes on. *)
CmdStep(do, onError) == [do |-> do, onError |-> onError]

install_linux == <<CmdStep("backup", "start"), CmdStep("redirect", "next")>>

install_service_linux(skip) ==
  <<CmdStep("binary", "return"), CmdStep("unit", "return"), CmdStep("enable", "return")>>
    \o (IF skip THEN <<>> ELSE install_linux) \o <<CmdStep("start", "return")>>

uninstall_service_linux ==
  <<CmdStep("restore", "next"), CmdStep("stop", "next"), CmdStep("remove unit", "return")>>

install_macos == <<CmdStep("backup", "config"), CmdStep("redirect each", "config"), CmdStep("drop-in", "next")>>

install_service_macos(skip) ==
  <<CmdStep("unit", "return"), CmdStep("stop", "next"), CmdStep("start", "return"), CmdStep("ready", "return")>>
    \o (IF skip THEN <<>> ELSE install_macos)

uninstall_macos ==
  <<CmdStep("remove drop-in", "next"), CmdStep("read backup", "stop"),
    CmdStep("restore each", "stop"), CmdStep("remove backup", "next")>>

uninstall_service_macos ==
  uninstall_macos \o <<CmdStep("stop", "next"), CmdStep("remove unit", "return")>>

install_windows(skip) ==
  <<CmdStep("stop", "next"), CmdStep("unwind", "next"), CmdStep("binary", "return"),
    CmdStep("unit", "return")>>
    \o (IF skip THEN <<>> ELSE <<CmdStep("nrpt remove", "return"), CmdStep("nrpt add", "return")>>)
    \o <<CmdStep("start", "next")>>

BugLeavesRule ==
  <<CmdStep("stop", "next"), CmdStep("remove unit", "next"), CmdStep("remove binary", "next"),
    CmdStep("unwind", "next")>>

uninstall_windows ==
  <<CmdStep("stop", "next"), CmdStep("remove unit", "next"), CmdStep("remove binary", "next"),
    CmdStep("nrpt remove", "next"), CmdStep("unwind", "next")>>

install_service(skip) ==
  CASE os = "linux"   -> install_service_linux(skip) \o <<CmdStep("config", "next"), CmdStep("trust", "next")>>
    [] os = "macos"   -> install_service_macos(skip) \o <<CmdStep("config", "next"), CmdStep("trust", "next")>>
    [] os = "windows" -> install_windows(skip) \o <<CmdStep("trust", "next")>>

uninstall_service ==
  <<CmdStep("untrust", "next")>> \o
    CASE os = "linux"   -> uninstall_service_linux
      [] os = "macos"   -> uninstall_service_macos
      [] os = "windows" -> uninstall_windows

start_service(skip) ==
  IF os = "windows" /\ host.unit THEN <<CmdStep("start", "return")>> ELSE install_service(skip)

stop_service == IF os = "windows" THEN <<CmdStep("stop", "return")>> ELSE uninstall_service

restart_service ==
  IF os = "windows" THEN <<CmdStep("stop", "next"), CmdStep("start", "return")>>
  ELSE <<CmdStep("start", "return")>>

Command(name, script) == [name |-> name, script |-> script]

Commands ==
  {Command("install", install_service(FALSE)), Command("install", install_service(TRUE)),
   Command("uninstall", uninstall_service), Command("install", start_service(FALSE)),
   Command(IF os = "windows" THEN "stop" ELSE "uninstall", stop_service)}
    \cup (IF host.unit THEN {Command("restart", restart_service)} ELSE {})

-----------------------------------------------------------------------------
(* What the steps do. *)

BugAlwaysCaptures(h) ==
  IF os = "linux"
  THEN IF resolved \/ is_loopback_or_stub(h.dns["resolv.conf"]) THEN h
       ELSE [h EXCEPT !.backup = h.dns]
  ELSE [h EXCEPT !.backup = [i \in DOMAIN h.dns |->
          IF is_loopback_or_stub(h.dns[i]) THEN "dhcp" ELSE h.dns[i]]]

(* A useful backup is kept.  Linux copies resolv.conf unless numa manages it
   or it names no real server; macOS records every service without local
   servers, for which the DHCP ones are restored. *)
Backup(h) ==
  IF resolved \/ Useful(h.backup) THEN h
  ELSE IF os = "linux"
       THEN IF is_loopback_or_stub(h.dns["resolv.conf"]) THEN h
            ELSE [h EXCEPT !.backup = h.dns]
       ELSE [h EXCEPT !.backup = [i \in DOMAIN h.dns |->
               IF is_loopback_or_stub(h.dns[i]) THEN "dhcp" ELSE h.dns[i]]]

Redirect(h) ==
  IF resolved THEN [h EXCEPT !.dropin = TRUE]
  ELSE [h EXCEPT !.dns = [i \in DOMAIN h.dns |-> "numa"]]

(* uninstall_linux: the drop-in if there is one, else the backup if there is
   one. *)
uninstall_linux(h) ==
  IF h.dropin THEN [h EXCEPT !.dropin = FALSE]
  ELSE IF h.backup = NoBackup THEN h
  ELSE [h EXCEPT !.dns = h.backup, !.backup = NoBackup]

unwind_legacy_install_if_present(h) ==
  IF h.legacy THEN [h EXCEPT !.dns = [i \in DOMAIN h.dns |-> "dhcp"], !.legacy = FALSE] ELSE h

(* install_nrpt_rule removes the rules with our address and adds one. *)
remove_nrpt_rule(h) == [h EXCEPT !.nrpt = 0]

(* trust_ca needs the certificate that a started numa writes. *)
trust_ca(h) == [h EXCEPT !.trusted = h.running]
untrust_ca(h) == [h EXCEPT !.trusted = FALSE]

(* An existing configuration file is kept. *)
write_default_config(h) == [h EXCEPT !.config = TRUE]

Effect(s, h) ==
  CASE s = "binary"         -> [h EXCEPT !.exe = TRUE]
    [] s = "remove binary"  -> [h EXCEPT !.exe = FALSE]
    [] s = "unit"           -> [h EXCEPT !.unit = TRUE]
    [] s = "remove unit"    -> [h EXCEPT !.unit = FALSE]
    [] s = "start"          -> [h EXCEPT !.running = TRUE]
    [] s = "stop"           -> [h EXCEPT !.running = FALSE]
    [] s = "backup"         -> Backup(h)
    [] s = "redirect"       -> Redirect(h)
    [] s = "restore"        -> uninstall_linux(h)
    [] s = "drop-in"        -> [h EXCEPT !.dropin = TRUE]
    [] s = "remove drop-in" -> [h EXCEPT !.dropin = FALSE]
    [] s = "remove backup"  -> [h EXCEPT !.backup = NoBackup]
    [] s = "unwind"         -> unwind_legacy_install_if_present(h)
    [] s = "nrpt remove"    -> remove_nrpt_rule(h)
    [] s = "nrpt add"       -> [h EXCEPT !.nrpt = @ + 1]
    [] s = "config"         -> write_default_config(h)
    [] s = "trust"          -> trust_ca(h)
    [] s = "untrust"        -> untrust_ca(h)
    [] s \in {"enable", "ready", "read backup"} -> h

(* A service that did not answer is unloaded again. *)
FailedEffect(s, h) == IF s = "ready" THEN [h EXCEPT !.running = FALSE] ELSE h

(* The file that the step was writing when it failed or was killed. *)
TornEffect(s, h) ==
  CASE s = "backup" /\ Backup(h) # h -> [h EXCEPT !.backup = [i \in DOMAIN h.dns |-> "torn"]]
    [] s = "redirect" /\ ~resolved   -> [h EXCEPT !.dns = [i \in DOMAIN h.dns |-> "torn"]]
    [] s = "restore" /\ ~h.dropin /\ h.backup # NoBackup ->
         [h EXCEPT !.dns = [i \in DOMAIN h.dns |-> "torn"]]
    [] OTHER -> h

-----------------------------------------------------------------------------
AtStep == Head(cmd.script)
Each == {"redirect each", "restore each"}

Todo(s) == CASE s = "redirect each" -> DOMAIN host.dns
             [] s = "restore each"  -> DOMAIN host.backup
             [] OTHER -> {}

Enter(c, script, failed) ==
  IF script = <<>> THEN NoCmd
  ELSE [name |-> c, script |-> script, todo |-> Todo(Head(script).do), failed |-> failed]

(* What is left of a script from its first step that does d. *)
From(script, d) ==
  LET at == {k \in DOMAIN script : script[k].do = d}
  IN IF at = {} THEN <<>>
     ELSE SubSeq(script, CHOOSE k \in at : \A j \in at : k <= j, Len(script))

(* Where the command goes on after its first step failed. *)
AfterError ==
  LET rest == Tail(cmd.script) IN
  CASE AtStep.onError = "return" -> <<>>
    [] AtStep.onError = "next"   -> rest
    [] OTHER -> From(rest, AtStep.onError)

Excuse == excused' = IF Torn(host'.backup) THEN excused \cup DOMAIN host.dns ELSE excused

RunCommand(c) ==
  /\ cmd = NoCmd /\ commands < MaxCommands
  /\ cmd' = Enter(c.name, c.script, {}) /\ commands' = commands + 1
  /\ UNCHANGED <<os, host, resolved, hadReal, drifted, excused, changes>>

(* The step succeeds; without a backup macOS has nothing to restore, and a
   torn one is an error. *)
StepDone ==
  /\ cmd # NoCmd /\ AtStep.do \notin Each
  /\ ~(AtStep.do = "read backup" /\ (Torn(host.backup) \/ host.backup = NoBackup))
  /\ host' = Effect(AtStep.do, host)
  /\ cmd' = Enter(cmd.name, Tail(cmd.script), cmd.failed)
  /\ UNCHANGED <<os, resolved, hadReal, drifted, excused, commands, changes>>

StepFails ==
  /\ cmd # NoCmd /\ AtStep.do \notin Each
  /\ host' \in {FailedEffect(AtStep.do, host), TornEffect(AtStep.do, host)}
  /\ cmd' = Enter(cmd.name, AfterError, cmd.failed \cup {AtStep.do})
  /\ Excuse
  /\ UNCHANGED <<os, resolved, hadReal, drifted, commands, changes>>

(* No backup: system DNS was not managed by numa. *)
NothingToRestore ==
  /\ cmd # NoCmd /\ AtStep.do = "read backup" /\ host.backup = NoBackup
  /\ cmd' = Enter(cmd.name, AfterError, cmd.failed)
  /\ UNCHANGED <<os, host, resolved, hadReal, drifted, excused, commands, changes>>

(* One network service of a loop over them; a failure is only reported. *)
EachDone(i) ==
  /\ cmd # NoCmd /\ i \in cmd.todo
  /\ host' = [host EXCEPT !.dns[i] = IF AtStep.do = "redirect each" THEN "numa"
                                     ELSE host.backup[i]]
  /\ cmd' = [cmd EXCEPT !.todo = @ \ {i}]
  /\ UNCHANGED <<os, resolved, hadReal, drifted, excused, commands, changes>>

EachFails(i) ==
  /\ cmd # NoCmd /\ i \in cmd.todo
  /\ cmd' = [cmd EXCEPT !.todo = @ \ {i}, !.failed = @ \cup {AtStep.do}]
  /\ excused' = IF AtStep.do = "restore each" THEN excused \cup {i} ELSE excused
  /\ UNCHANGED <<os, host, resolved, hadReal, drifted, commands, changes>>

(* networksetup cannot be run at all: the loop is left with an error. *)
EachAborts ==
  /\ cmd # NoCmd /\ cmd.todo # {}
  /\ cmd' = Enter(cmd.name, AfterError, cmd.failed \cup {AtStep.do})
  /\ UNCHANGED <<os, host, resolved, hadReal, drifted, excused, commands, changes>>

EachEnds ==
  /\ cmd # NoCmd /\ AtStep.do \in Each /\ cmd.todo = {}
  /\ cmd' = Enter(cmd.name, Tail(cmd.script), cmd.failed)
  /\ UNCHANGED <<os, host, resolved, hadReal, drifted, excused, commands, changes>>

Killed ==
  /\ cmd # NoCmd
  /\ host' \in {host, TornEffect(AtStep.do, host)}
  /\ cmd' = NoCmd
  /\ Excuse
  /\ UNCHANGED <<os, resolved, hadReal, drifted, commands, changes>>

Managed == host.backup # NoBackup \/ host.dropin \/ host.legacy

(* The user or a DHCP client sets the servers of an interface. *)
SettingsChange(i, s) ==
  /\ cmd = NoCmd /\ changes < MaxChanges /\ changes' = changes + 1
  /\ i \in Interfaces(os)
  /\ host' = [host EXCEPT !.dns[i] = s]
  /\ hadReal' = [hadReal EXCEPT ![i] = Real(s)]
  /\ drifted' = IF Managed THEN drifted \cup {i} ELSE drifted \ {i}
  /\ excused' = excused \ {i}
  /\ UNCHANGED <<os, resolved, cmd, commands>>

ResolvedChange ==
  /\ os = "linux" /\ cmd = NoCmd /\ changes < MaxChanges /\ changes' = changes + 1
  /\ resolved' = ~resolved
  /\ drifted' = IF Managed THEN drifted \cup {"resolv.conf"} ELSE drifted
  /\ UNCHANGED <<os, host, cmd, hadReal, excused, commands>>

SysNext ==
  \/ \E c \in Commands : RunCommand(c)
  \/ StepDone \/ StepFails \/ NothingToRestore \/ EachEnds \/ EachAborts \/ Killed \/ ResolvedChange
  \/ \E i \in Services : EachDone(i) \/ EachFails(i)
  \/ \E i \in Services \cup {"resolv.conf"}, s \in {"isp", "dhcp", "stub"} : SettingsChange(i, s)

SysSpec == SysInit /\ [][SysNext]_sysVars

-----------------------------------------------------------------------------
(* The servers the host had are in its settings or in the backup, for every
   interface that did not change meanwhile, whose backup was not cut short and
   whose restore did not fail (src/src/system_dns.rs, install_linux,
   install_macos and their undoing). *)
ServersRecoverable ==
  \A i \in DOMAIN host.dns \ (drifted \cup excused) :
    hadReal[i] => \/ Real(host.dns[i])
                  \/ i \in DOMAIN host.backup /\ Real(host.backup[i])

(* However often installation is repeated, aborted or killed, queries go
   through at most one NRPT rule of ours, so one uninstall removes it
   (src/src/system_dns.rs, install_nrpt_rule). *)
OneNrptRule == host.nrpt <= 1

(* Whatever commands fail, are repeated or are killed, torn files included,
   the servers the host had are in its settings or in the backup, for every
   interface that did not change meanwhile, whose backup was not cut short and
   whose restore did not fail; and queries go through at most one NRPT rule of
   ours (src/src/system_dns.rs, install_linux, install_macos,
   install_nrpt_rule and their undoing). *)
OriginalRecoverable == ServersRecoverable /\ OneNrptRule

(* An uninstall that ran to its end without an error leaves nothing behind:
   no service, trusted CA, NRPT rule or drop-in, and no interface that had
   servers of its own on numa's address (src/src/system_dns.rs,
   uninstall_service). *)
UninstallRestores ==
  [][cmd.name = "uninstall" /\ Len(cmd.script) = 1 /\ cmd'.name = "none" /\ cmd.failed = {}
       /\ host' = Effect(AtStep.do, host) /\ host'.unit = FALSE =>
       /\ ~host'.running /\ ~host'.trusted /\ host'.nrpt = 0 /\ ~host'.dropin
       /\ \A i \in DOMAIN host'.dns \ (drifted \cup excused) :
            hadReal[i] => Real(host'.dns[i])]_sysVars

=============================================================================
