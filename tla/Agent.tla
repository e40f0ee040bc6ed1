--------------------------------- MODULE Agent ---------------------------------
(***************************************************************************)
(* The agent on a monitored host: how it gets there, its processes, and    *)
(* its configuration file (agent/gravitylan-agent.py,                      *)
(* services/agent_deployer.py, services/agent_scripts.py, api/agent.py).   *)
(*                                                                         *)
(* An agent is installed by the server over SSH or by a script that the    *)
(* administrator runs; both replace what is there.  What starts it again   *)
(* after a reboot depends on the platform: systemd (which also restarts    *)
(* it), a Synology rc script, a copy on Unraid's flash drive, or nothing.  *)
(* The token of the agent is in agent.conf only; the server pushes         *)
(* settings in the answers to its reports, and the agent saves them in the *)
(* same file.  Two processes may run for a while: an agent that starts     *)
(* ends the others.                                                        *)
(*                                                                         *)
(* Abstracted: what is measured; one host, one installation at a time; the *)
(* pushed settings are one number; the older name of the agent.            *)
(***************************************************************************)
EXTENDS Integers, FiniteSets

CONSTANTS
  Slots,      \* processes that may run at the same time
  MaxGen,     \* bound: installations that generate a token
  MaxSet,     \* bound: changes of the settings
  MaxFaults   \* bound: crashes of a process and reboots of the host

ASSUME HostBoundsAssumption == MaxGen \in Nat /\ MaxSet \in Nat /\ MaxFaults \in Nat

VARIABLES
  platform,  \* the kind of host
  files,     \* /opt: the program, agent.conf and agent.conf.tmp
  flash,     \* the copy of agent.conf on the flash drive
  service,   \* what starts the agent: a unit, an rc script, a boot hook
  proc,      \* the processes
  install,   \* the installation or removal at work
  token,     \* the server: number of the token it accepts, 0 for none
  wanted,    \* the server: the settings of the device
  \* auxiliary: not in the program
  generated, \* tokens generated so far
  ok,        \* the last installation was reported successful, and nothing was begun since
  overlap,   \* two processes have saved at the same time
  faults

server == <<token, wanted>>
hostAux == <<generated, overlap, faults>>
hostVars == <<platform, files, flash, service, proc, install, server, ok, hostAux>>

Platforms == {"systemd", "synology", "unraid", "plain"}
\* agent.conf: the token's number (0: no file), the settings, and whether it is whole.
Confs == [gen : 0 .. MaxGen, set : 0 .. MaxSet, whole : BOOLEAN]
Conf(g, s) == [gen |-> g, set |-> s, whole |-> TRUE]
NoConf == Conf(0, 0)
Torn(c) == [c EXCEPT !.whole = FALSE]
NoFiles == [program |-> FALSE, conf |-> NoConf, tmp |-> NoConf]

(* fd: what the file a process writes has become: the temporary file, agent.conf (another
   process has moved it there), or no file any more. *)
Steps == {"none", "start", "kill", "load", "loop", "sent", "open", "write", "swap"}
NoProc == [step |-> "none", conf |-> NoConf, got |-> 0, fd |-> "none", ghosts |-> {},
           unit |-> FALSE, told |-> FALSE]
NoInst == [kind |-> "none", step |-> "", unit |-> TRUE]

Alive == {p \in Slots : proc[p] # NoProc}

HostTypeOK ==
  /\ platform \in Platforms
  /\ files \in [program : BOOLEAN, conf : Confs, tmp : Confs] /\ flash \in Confs
  /\ service \in {"none", "disabled", "stopped", "on"}
  /\ proc \in [Slots -> [step : Steps, conf : Confs, got : 0 .. MaxSet, fd : {"none", "tmp", "conf", "gone"},
                         ghosts : SUBSET Slots, unit : BOOLEAN, told : BOOLEAN]]
  /\ install \in [kind : {"none", "ssh", "script", "remove", "uninstall"}, unit : BOOLEAN,
               step : {"", "staged", "stopped", "placed", "started", "again"}]
  /\ token \in 0 .. MaxGen /\ wanted \in 0 .. MaxSet
  /\ generated \in 0 .. MaxGen /\ ok \in BOOLEAN /\ overlap \in BOOLEAN /\ faults \in 0 .. MaxFaults

HostInit ==
  /\ platform \in Platforms
  /\ files = NoFiles /\ flash = NoConf /\ service = "none"
  /\ proc = [p \in Slots |-> NoProc] /\ install = NoInst
  /\ token = 0 /\ wanted = 0 /\ generated = 0 /\ ok = FALSE /\ overlap = FALSE /\ faults = 0

-----------------------------------------------------------------------------
(* A process: cleanup_ghosts, AgentConfig.load, and AgentOrchestrator.run *)

\* A process number is not given again soon: a new process is in nobody's list.
Started(procs, p, unit) ==
  [q \in Slots |-> IF q = p THEN [NoProc EXCEPT !.step = "start", !.unit = unit]
                  ELSE [procs[q] EXCEPT !.ghosts = @ \ {p}]]
Becomes(p, step) == proc' = [proc EXCEPT ![p].step = step]
Exits(p) == proc' = [proc EXCEPT ![p] = NoProc]

\* ps names the other agents,
Lists(p) == Alive \ {p}

ListGhosts(p) ==
  /\ proc[p].step = "start"
  /\ proc' = [proc EXCEPT ![p].step = "kill", ![p].ghosts = Lists(p)]
  /\ UNCHANGED <<platform, files, flash, service, install, server, ok, hostAux>>

\* and SIGTERM ends those that are still there: at once, unless their handler is set up.
Terminated(q) ==
  CASE proc[q].step \in {"none", "start", "kill", "load"} -> NoProc
    [] OTHER -> [proc[q] EXCEPT !.told = TRUE]

KillGhosts(p) ==
  /\ proc[p].step = "kill"
  /\ proc' = [q \in Slots |-> IF q = p THEN [proc[p] EXCEPT !.step = "load", !.ghosts = {}]
                              ELSE IF q \in proc[p].ghosts THEN Terminated(q) ELSE proc[q]]
  /\ UNCHANGED <<platform, files, flash, service, install, server, ok, hostAux>>

Load(p) ==
  /\ proc[p].step = "load"
  /\ IF files.conf.gen # 0 /\ files.conf.whole
     THEN proc' = [proc EXCEPT ![p].step = "loop", ![p].conf = files.conf]
     ELSE Exits(p)
  /\ UNCHANGED <<platform, files, flash, service, install, server, ok, hostAux>>

\* The server answers a report with the settings, if it knows the token.
Send(p) ==
  /\ proc[p].step = "loop" /\ ~proc[p].told /\ proc[p].conf.gen = token
  /\ proc' = [proc EXCEPT ![p].step = "sent", ![p].got = wanted]
  /\ UNCHANGED <<platform, files, flash, service, install, server, ok, hostAux>>

StopTold(p) ==
  /\ proc[p].step = "loop" /\ proc[p].told /\ Exits(p)
  /\ UNCHANGED <<platform, files, flash, service, install, server, ok, hostAux>>

\* Mutant: settings are saved, not applied.
AnsweredUnapplied(p) == [proc[p] EXCEPT !.step = "loop", !.got = 0]

\* process_response: what differs is applied, and saved.
Answered(p) ==
  [proc[p] EXCEPT !.step = IF proc[p].conf.set = proc[p].got THEN "loop" ELSE "open",
                  !.conf.set = proc[p].got, !.got = 0]

Reply(p) ==
  /\ proc[p].step = "sent" /\ proc' = [proc EXCEPT ![p] = Answered(p)]
  /\ UNCHANGED <<platform, files, flash, service, install, server, ok, hostAux>>

\* Mutant: agent.conf itself is emptied.
OpenInPlace(p) ==
  /\ proc[p].step = "open" /\ files' = [files EXCEPT !.conf = Torn(proc[p].conf)]
  /\ proc' = [proc EXCEPT ![p].step = "write", ![p].fd = "conf"]
  /\ UNCHANGED <<platform, flash, service, install, server, ok, hostAux>>

\* AgentConfig.save: the temporary file is emptied,
Open(p) ==
  /\ proc[p].step = "open"
  /\ \/ UNCHANGED <<files, overlap>> /\ Becomes(p, "loop")
     \/ /\ files.program /\ files' = [files EXCEPT !.tmp = Torn(proc[p].conf)]
        /\ proc' = [proc EXCEPT ![p].step = "write", ![p].fd = "tmp"]
        /\ overlap' = (overlap \/ \E q \in Slots : proc[q].fd # "none")
  /\ UNCHANGED <<platform, flash, service, install, server, ok, generated, faults>>

\* written,
Write(p) ==
  /\ proc[p].step = "write" /\ proc' = [proc EXCEPT ![p].step = "swap"]
  /\ files' = CASE proc[p].fd = "tmp" -> [files EXCEPT !.tmp = proc[p].conf]
                [] proc[p].fd = "conf" -> [files EXCEPT !.conf = proc[p].conf]
                [] OTHER -> files
  /\ UNCHANGED <<platform, flash, service, install, server, ok, hostAux>>

Moved(fd) == CASE fd = "tmp" -> "conf" [] fd = "conf" -> "gone" [] OTHER -> fd

\* and put in agent.conf's place; an error removes it (another process may have taken it).
Swap(p) ==
  /\ proc[p].step \in {"write", "swap"}
  /\ \/ /\ proc[p].step = "swap" /\ files.tmp.gen # 0
        /\ files' = [files EXCEPT !.conf = files.tmp, !.tmp = NoConf]
        /\ proc' = [q \in Slots |-> IF q = p THEN [proc[p] EXCEPT !.step = "loop", !.fd = "none"]
                                    ELSE [proc[q] EXCEPT !.fd = Moved(@)]]
     \/ /\ proc[p].step = "write" \/ files.tmp.gen = 0
        /\ files' = [files EXCEPT !.tmp = NoConf]
        /\ proc' = [q \in Slots |-> IF q = p THEN [proc[p] EXCEPT !.step = "loop", !.fd = "none"]
                                    ELSE [proc[q] EXCEPT !.fd = IF @ = "tmp" THEN "gone" ELSE @]]
  /\ UNCHANGED <<platform, flash, service, install, server, ok, hostAux>>

\* A crash, or a fatal error; what a process has half written stays.
Crash(p) ==
  /\ Alive # {} /\ p \in Alive /\ faults < MaxFaults /\ faults' = faults + 1 /\ Exits(p)
  /\ UNCHANGED <<platform, files, flash, service, install, server, ok, generated, overlap>>

-----------------------------------------------------------------------------
(* The host *)

\* Restart=always
UnitRestarts(p) ==
  /\ platform = "systemd" /\ service = "on" /\ files.program
  /\ \A q \in Alive : ~proc[q].unit
  /\ p \notin Alive /\ proc' = Started(proc, p, TRUE)
  /\ UNCHANGED <<platform, files, flash, service, install, server, ok, hostAux>>

\* /opt on Unraid is lost; the boot hook copies the files back.  An installation is cut off.
Reboot(p) ==
  LET kept == IF platform # "unraid" THEN files
              ELSE IF service = "on" THEN [NoFiles EXCEPT !.program = TRUE, !.conf = flash] ELSE NoFiles
      none == [q \in Slots |-> NoProc]
  IN
  /\ faults < MaxFaults /\ faults' = faults + 1
  /\ files' = kept /\ install' = NoInst /\ service' = IF service = "stopped" THEN "on" ELSE service
  /\ proc' = IF platform \in {"synology", "unraid"} /\ service = "on" /\ kept.program
             THEN Started(none, p, FALSE) ELSE none
  /\ UNCHANGED <<platform, flash, server, ok, generated, overlap>>

-----------------------------------------------------------------------------
(* Installation and removal *)

At(kind, step) == install.kind \in kind /\ install.step = step
Continues(step) == install' = [install EXCEPT !.step = step]

\* Over SSH the program is staged and its checksum verified first; nothing is touched else.
BeginOverSsh ==
  /\ install = NoInst /\ generated < MaxGen
  /\ install' = [NoInst EXCEPT !.kind = "ssh", !.step = "staged"] /\ generated' = generated + 1 /\ ok' = FALSE
  /\ UNCHANGED <<platform, files, flash, service, proc, server, overlap, faults>>

\* The script downloads the program and the configuration first; the server accepts the new
\* token from then on, the old one no more.
BeginScript ==
  /\ install = NoInst /\ generated < MaxGen
  /\ install' = [NoInst EXCEPT !.kind = "script", !.step = "staged"]
  /\ generated' = generated + 1 /\ token' = generated + 1 /\ ok' = FALSE
  /\ UNCHANGED <<platform, files, flash, service, proc, wanted, overlap, faults>>

\* Removal over SSH, or by the script.
BeginRemoval(kind) ==
  /\ install = NoInst /\ token # 0 /\ kind \in {"remove", "uninstall"}
  /\ install' = [NoInst EXCEPT !.kind = kind, !.step = "staged"] /\ ok' = FALSE
  /\ UNCHANGED <<platform, files, flash, service, proc, server, hostAux>>

\* Checksum mismatch, lost connection, a failing command, an interrupted script.
Fail ==
  /\ install # NoInst /\ install' = NoInst
  /\ UNCHANGED <<platform, files, flash, service, proc, server, ok, hostAux>>

\* systemctl stop, and pkill -9 for every agent.
Stops == [p \in Slots |-> NoProc]

Stop ==
  /\ At({"ssh", "script", "remove", "uninstall"}, "staged") /\ Continues("stopped") /\ proc' = Stops
  /\ service' = IF platform # "systemd" \/ service = "none" THEN service
                ELSE IF install.kind = "script" THEN "stopped" ELSE "disabled"
  /\ UNCHANGED <<platform, files, flash, server, ok, hostAux>>

\* Over SSH the unit, the boot hook and the flash copy go too; a Synology script stays.
\* The program and the configuration are put in place.
Place ==
  /\ At({"ssh", "script"}, "stopped") /\ Continues("placed")
  /\ files' = [NoFiles EXCEPT !.program = TRUE, !.conf = Conf(generated, 0)]
  /\ IF install.kind = "ssh"
     THEN flash' = NoConf /\ service' = IF platform = "synology" THEN service ELSE "none"
     ELSE UNCHANGED <<flash, service>>
  /\ UNCHANGED <<platform, proc, server, ok, hostAux>>

\* Over SSH a Synology script stays, and the server forgets the token (uninstall_agent_endpoint).
Remove ==
  /\ At({"remove", "uninstall"}, "stopped") /\ install' = NoInst
  /\ token' = IF install.kind = "remove" THEN 0 ELSE token
  /\ files' = NoFiles /\ flash' = NoConf
  /\ service' = IF platform = "synology" /\ install.kind = "remove" THEN service ELSE "none"
  /\ UNCHANGED <<platform, proc, wanted, ok, hostAux>>

\* The unit (over SSH one that cannot be written is only logged) or the rc script, and its
\* start; without either, the script starts the agent itself, the deployer only in the end.
StartService(p) ==
  /\ At({"ssh", "script"}, "placed") /\ p \notin Alive
  /\ \/ /\ platform \in {"systemd", "synology"} /\ service' = "on" /\ Continues("started")
        /\ proc' = Started(proc, p, platform = "systemd")
     \/ /\ platform = "systemd" /\ install.kind = "ssh"
        /\ install' = [install EXCEPT !.step = "started", !.unit = FALSE] /\ UNCHANGED <<service, proc>>
     \/ /\ platform \in {"unraid", "plain"} /\ Continues("started") /\ UNCHANGED service
        /\ IF install.kind = "script" THEN proc' = Started(proc, p, FALSE) ELSE UNCHANGED proc
  /\ UNCHANGED <<platform, files, flash, server, ok, hostAux>>

Success == /\ install' = NoInst /\ ok' = (platform = "systemd" => install.unit)
           /\ token' = IF install.kind = "ssh" THEN generated ELSE token
Hooks == flash' = files.conf /\ service' = "on"

\* Two seconds later ps shows the agent, or it is started with nohup, and looked for again.
Verify(p) ==
  /\ At({"ssh"}, "started")
  /\ \/ Alive # {} /\ Success /\ UNCHANGED proc
     \/ /\ Alive = {} /\ Continues("again") /\ proc' = Started(proc, p, FALSE)
        /\ UNCHANGED <<token, ok>>
  /\ UNCHANGED <<platform, files, flash, service, wanted, hostAux>>

\* Mutant: no boot hook after the fallback.
NoHook == UNCHANGED <<flash, service>>

\* On Unraid the fallback is the only way, and the boot hook is added to it.
AddsHook == IF platform = "unraid" THEN Hooks ELSE UNCHANGED <<flash, service>>

VerifyFallback ==
  /\ At({"ssh"}, "again") /\ Alive # {} /\ Success /\ AddsHook
  /\ UNCHANGED <<platform, files, proc, wanted, hostAux>>

ScriptEnds ==
  /\ At({"script"}, "started") /\ Success
  /\ IF platform = "unraid" THEN Hooks ELSE UNCHANGED <<flash, service>>
  /\ UNCHANGED <<platform, files, proc, wanted, hostAux>>

\* update_agent_config
ChangeSettings ==
  /\ wanted < MaxSet /\ wanted' = wanted + 1
  /\ UNCHANGED <<platform, files, flash, service, proc, install, token, ok, hostAux>>

-----------------------------------------------------------------------------
Runs(p) ==
  \/ ListGhosts(p) \/ KillGhosts(p) \/ Load(p) \/ Send(p) \/ StopTold(p) \/ Reply(p)
  \/ Open(p) \/ Write(p) \/ Swap(p)

HostNext ==
  \/ \E p \in Slots :
       \/ ListGhosts(p) \/ KillGhosts(p) \/ Load(p) \/ Send(p) \/ StopTold(p) \/ Reply(p)
       \/ Open(p) \/ Write(p) \/ Swap(p)
       \/ Crash(p) \/ UnitRestarts(p) \/ Reboot(p) \/ StartService(p) \/ Verify(p)
  \/ BeginOverSsh \/ BeginScript \/ Fail \/ Stop \/ Place \/ Remove
  \/ VerifyFallback \/ ScriptEnds \/ ChangeSettings
  \/ \E kind \in {"remove", "uninstall"} : BeginRemoval(kind)

HostSpec == HostInit /\ [][HostNext]_hostVars
\* Processes run, and systemd restarts the unit's.
FairHostSpec == HostSpec /\ (\A p \in Slots : WF_hostVars(Runs(p))) /\ WF_hostVars(\E p \in Slots : UnitRestarts(p))

-----------------------------------------------------------------------------
(* What must hold *)

(* "an interrupted write must not leave an empty agent.conf (the token lives only there)"
   (AgentConfig.save): whatever crashes when, agent.conf is whole, unless two agents have
   saved at the same time through the one temporary file. *)
ConfWhole == overlap \/ files.conf.whole

(* After an installation that was reported successful the host starts the agent by itself
   after a reboot, with the token the server accepts, also after the agent has saved new
   settings; not on a host without systemd, rc scripts or flash drive, nor when the unit
   could not be written. *)
BootsAgain ==
  ok /\ platform # "plain" /\ ~overlap =>
    /\ service = "on"
    /\ LET conf == IF platform = "unraid" THEN flash ELSE files.conf
       IN conf.gen = token /\ conf.whole

(* When an installation has succeeded no agent with an earlier token runs on the host: it
   would report as a stranger, and save its old token over the new one. *)
OldAgentsGone == ok => \A p \in Alive : proc[p].conf.gen \in {0, token}

(* An installation that was reported successful is there: whole, alone, and after a reboot. *)
InstallHolds == HostTypeOK /\ ConfWhole /\ BootsAgain /\ OldAgentsGone

(* On a host with systemd an installed agent ends up running alone, with the settings of the
   server, however many were started and ended each other. *)
Works(p) == proc[p].step = "loop" /\ proc[p].conf.gen = token /\ proc[p].conf.set = wanted
OneAgentWorks == ok /\ platform = "systemd" ~> (~ok \/ overlap \/ \E p \in Alive : Alive = {p} /\ Works(p))
=============================================================================
