------------------------------ MODULE AgentProofs ------------------------------
(***************************************************************************)
(* Proofs about the agents.  On their hosts (Agent), for any number of     *)
(* processes, installations, settings and faults: most steps change one    *)
(* process; the invariant therefore says what fits one process (Fit), how  *)
(* those that save go together (Saves), and which token what is on the     *)
(* host has (Current).  At the server (Trust), for any number of machines, *)
(* ids, tokens, codes and changes of the devices: everything that names a  *)
(* device by its id is of the machine that id named last (Belongs), until  *)
(* the id changes hands in a way no step can follow; everything that       *)
(* carries a token carries one made for its machine (MadeFor).             *)
(***************************************************************************)
EXTENDS Agent, Trust, SequenceTheorems, TLAPS

-----------------------------------------------------------------------------
(* On the host.                                                              *)

USE HostBoundsAssumption

Procs == [step : Steps, conf : Confs, got : 0 .. MaxSet, fd : {"none", "tmp", "conf", "gone"},
          ghosts : SUBSET Slots, unit : BOOLEAN, told : BOOLEAN]

Globals ==
  /\ platform \in Platforms
  /\ files \in [program : BOOLEAN, conf : Confs, tmp : Confs] /\ flash \in Confs
  /\ service \in {"none", "disabled", "stopped", "on"}
  /\ install \in [kind : {"none", "ssh", "script", "remove", "uninstall"}, unit : BOOLEAN,
               step : {"", "staged", "stopped", "placed", "started", "again"}]
  /\ token \in 0 .. MaxGen /\ wanted \in 0 .. MaxSet
  /\ generated \in 0 .. MaxGen /\ ok \in BOOLEAN /\ overlap \in BOOLEAN /\ faults \in 0 .. MaxFaults

Running == {"loop", "sent", "open", "write", "swap"}

\* A process that runs its loop has a whole configuration; one that saves has a file.
Fit(s) ==
  /\ s \in Procs
  /\ s.conf.whole
  /\ s.conf.gen # 0 <=> s.step \in Running
  /\ s.fd # "none" <=> s.step \in {"write", "swap"}

\* As long as no two have saved at once, the one that saves writes the temporary file, which
\* holds all of its configuration when it is moved.
OneSaves == \A p, q \in Slots : (proc[p].fd # "none" /\ proc[q].fd # "none") => p = q
WritesTmp == \A p \in Slots : proc[p].fd \in {"none", "tmp"}
MovesAll == \A p \in Slots : proc[p].step = "swap" => files.tmp = proc[p].conf
Saves == overlap \/ (files.conf.whole /\ flash.whole /\ OneSaves /\ WritesTmp /\ MovesAll)

\* The course of an installation.
Course ==
  /\ install.kind = "none" <=> install.step = ""
  /\ install.step # "" => ~ok
  /\ install.step \in {"placed", "started", "again"} => install.kind \in {"ssh", "script"}
  /\ install.step = "again" => install.kind = "ssh"
  /\ (install.kind = "script" \/ ok) => token = generated

Idle == \A p \in Slots : proc[p] = NoProc

\* Nothing runs, and nothing starts an agent, while the files are replaced; over SSH the
\* agent of a host without services is not started before it has been looked for.
Cleared ==
  /\ install.step \in {"stopped", "placed"} => (Idle /\ (platform = "systemd" => service # "on"))
  /\ (install.step = "started" /\ install.kind = "ssh" /\ platform \in {"unraid", "plain"}) => Idle

\* From the moment the files are placed, all that is on the host has the newest token.
Renewed == ok \/ install.step \in {"placed", "started", "again"}
FilesRenewed == files.conf.gen = generated /\ files.tmp.gen \in {0, generated}
ProcsRenewed == \A p \in Slots : proc[p].conf.gen \in {0, generated}
Current == Renewed => FilesRenewed /\ ProcsRenewed

Boots ==
  /\ install.step \in {"started", "again"} =>
       /\ platform = "synology" => service = "on"
       /\ (platform = "systemd" /\ install.unit) => service = "on"
  /\ (ok /\ platform # "plain") => service = "on"
  /\ (ok /\ platform = "unraid") => flash.gen = generated

HostInv ==
  /\ Globals
  /\ proc \in [Slots -> Procs] /\ \A p \in Slots : Fit(proc[p])
  /\ Saves /\ Course /\ Cleared /\ Current /\ Boots

-----------------------------------------------------------------------------
(* Lemmas about a process *)

LEMMA NoProcFits == Fit(NoProc) /\ NoProc.conf.gen = 0 /\ NoProc.fd = "none" /\ NoProc.step = "none"
BY DEF Fit, NoProc, Procs, Steps, NoConf, Conf, Confs, Running

\* A process that has just been started has nothing.
LEMMA StartedFits ==
  ASSUME NEW procs \in [Slots -> Procs], \A q \in Slots : Fit(procs[q]), NEW p \in Slots, NEW unit \in BOOLEAN
  PROVE  /\ Started(procs, p, unit) \in [Slots -> Procs]
         /\ \A q \in Slots :
              /\ Fit(Started(procs, p, unit)[q])
              /\ Started(procs, p, unit)[q].conf = IF q = p THEN NoConf ELSE procs[q].conf
              /\ Started(procs, p, unit)[q].fd = IF q = p THEN "none" ELSE procs[q].fd
              /\ Started(procs, p, unit)[q].step = IF q = p THEN "start" ELSE procs[q].step
<1> DEFINE new == [NoProc EXCEPT !.step = "start", !.unit = unit]
           old(q) == [procs[q] EXCEPT !.ghosts = @ \ {p}]
<1>1. Fit(new) /\ new.conf = NoConf /\ new.fd = "none" /\ new.step = "start"
  <2>2. NoConf \in Confs /\ NoConf.whole /\ NoConf.gen = 0
    BY DEF NoConf, Conf, Confs
  <2>3. new \in Procs
    <3>1. NoProc \in Procs
      BY NoProcFits DEF Fit
    <3>2. "start" \in Steps
      BY DEF Steps
    <3> QED
      BY <3>1, <3>2 DEF Procs
  <2> QED
    BY <2>2, <2>3 DEF NoProc, Fit, Running
<1>2. ASSUME NEW q \in Slots
      PROVE  /\ Fit(old(q)) /\ old(q).conf = procs[q].conf
             /\ old(q).fd = procs[q].fd /\ old(q).step = procs[q].step
  <2>1. procs[q] \in Procs /\ Fit(procs[q])
    OBVIOUS
  <2> QED
    BY <2>1 DEF Fit, Procs
<1>3. \A q \in Slots : Started(procs, p, unit)[q] = IF q = p THEN new ELSE old(q)
  BY DEF Started
<1>4. \A q \in Slots : new \in Procs /\ old(q) \in Procs
  BY <1>1, <1>2 DEF Fit
<1>5. Started(procs, p, unit) \in [Slots -> Procs]
  BY <1>4 DEF Started
<1> HIDE DEF new, old
<1> QED
  BY <1>1, <1>2, <1>3, <1>5

\* What a step does to a process that neither opens nor finishes a file: it drops what it
\* has, or takes the configuration c.
Follows(s, t, c) ==
  /\ Fit(t)
  /\ t.conf.gen \in {0, s.conf.gen, c.gen}
  /\ t.fd \in {"none", s.fd}
  /\ t.step = "swap" => s.step = "swap" /\ t.conf = s.conf

LEMMA SameFollows == ASSUME NEW s, NEW c, Fit(s) PROVE Follows(s, s, c)
BY DEF Follows

LEMMA NoneFollows == ASSUME NEW s, NEW c PROVE Follows(s, NoProc, c)
BY NoProcFits DEF Follows

-----------------------------------------------------------------------------
(* Steps that leave the files, the host and the installation alone *)

Fixed == UNCHANGED <<platform, files, flash, service, install, token, generated, ok, overlap>>
Bounded == wanted' \in 0 .. MaxSet /\ faults' \in 0 .. MaxFaults

\* They keep everything, if they start no process on an idle host.
LEMMA FollowKeeps ==
  ASSUME HostInv, Fixed, Bounded, proc' \in [Slots -> Procs],
         \A p \in Slots : Follows(proc[p], proc'[p], files.conf),
         \A p \in Slots : proc[p] = NoProc => proc'[p] = NoProc
  PROVE  HostInv'
<1>1. Globals'
  BY DEF HostInv, Globals, Fixed, Bounded
<1>2. \A p \in Slots : Fit(proc'[p])
  BY DEF Follows
<1>3. Saves'
  <2>1. OneSaves => OneSaves'
    BY DEF OneSaves, Follows
  <2>2. WritesTmp => WritesTmp'
    BY DEF WritesTmp, Follows
  <2>3. MovesAll => MovesAll'
    BY DEF MovesAll, Follows, Fixed
  <2> QED
    BY <2>1, <2>2, <2>3 DEF HostInv, Saves, Fixed
<1>4. Course' /\ Boots'
  BY DEF HostInv, Course, Boots, Fixed
<1>5. Cleared'
  BY DEF HostInv, Cleared, Idle, Fixed
<1>6. Current'
  <2>1. ProcsRenewed /\ FilesRenewed => ProcsRenewed'
    BY DEF ProcsRenewed, FilesRenewed, Follows, Fixed
  <2> QED
    BY <2>1 DEF HostInv, Current, Renewed, FilesRenewed, Fixed
<1> QED
  BY <1>1, <1>2, <1>3, <1>4, <1>5, <1>6 DEF HostInv

\* One process changes, from s to t.
LEMMA OneFollows ==
  ASSUME HostInv, Fixed, Bounded, NEW p \in Slots, NEW t, proc' = [proc EXCEPT ![p] = t],
         Follows(proc[p], t, files.conf), proc[p] # NoProc \/ t = NoProc
  PROVE  HostInv'
<1>1. t \in Procs
  BY DEF Follows, Fit
<1>2. proc' \in [Slots -> Procs] /\ \A q \in Slots : proc'[q] = IF q = p THEN t ELSE proc[q]
  BY <1>1 DEF HostInv
<1>3. \A q \in Slots : Follows(proc[q], proc'[q], files.conf)
  BY <1>2, SameFollows DEF HostInv
<1>4. \A q \in Slots : proc[q] = NoProc => proc'[q] = NoProc
  BY <1>2
<1> QED
  BY <1>2, <1>3, <1>4, FollowKeeps

LEMMA ProcFacts ==
  ASSUME HostInv, NEW p \in Slots
  PROVE  /\ proc \in [Slots -> Procs] /\ proc[p] \in Procs /\ Fit(proc[p])
         /\ wanted \in 0 .. MaxSet /\ faults \in 0 .. MaxFaults
         /\ files.conf \in Confs /\ files.tmp \in Confs
BY DEF HostInv, Globals

\* A process that is at a step is alive.
LEMMA AtStep == ASSUME NEW p \in Slots, proc[p].step # "none" PROVE proc[p] # NoProc
BY NoProcFits

LEMMA ListGhostsKeeps == ASSUME HostInv, NEW p \in Slots, ListGhosts(p) PROVE HostInv'
<1> DEFINE t == [proc[p] EXCEPT !.step = "kill", !.ghosts = Lists(p)]
<1>1. Lists(p) \in SUBSET Slots
  BY DEF Lists, Alive
<1>2. proc[p].step = "start" /\ proc[p].conf.gen = 0 /\ proc[p].fd = "none"
  BY ProcFacts DEF ListGhosts, Fit, Running
<1>3. Fit(t) /\ t.conf = proc[p].conf /\ t.fd = "none" /\ t.step = "kill"
  BY <1>1, <1>2, ProcFacts DEF Fit, Procs, Steps, Running
<1>4. Follows(proc[p], t, files.conf)
  BY <1>2, <1>3 DEF Follows
<1>5. proc' = [proc EXCEPT ![p] = t] /\ Fixed /\ Bounded
  BY ProcFacts DEF ListGhosts, Fixed, Bounded, server, hostAux
<1> HIDE DEF t
<1> QED
  BY <1>2, <1>4, <1>5, AtStep, OneFollows

LEMMA TerminatedFollows ==
  ASSUME NEW q \in Slots, proc[q] \in Procs, Fit(proc[q])
  PROVE  /\ Follows(proc[q], Terminated(q), files.conf) /\ Terminated(q) \in Procs
         /\ proc[q] = NoProc => Terminated(q) = NoProc
<1>1. CASE proc[q].step \in {"none", "start", "kill", "load"}
  <2>1. Terminated(q) = NoProc
    BY <1>1 DEF Terminated
  <2> QED
    BY <2>1, NoneFollows, NoProcFits DEF Fit
<1>2. CASE proc[q].step \notin {"none", "start", "kill", "load"}
  <2> DEFINE t == [proc[q] EXCEPT !.told = TRUE]
  <2>1. Terminated(q) = t
    BY <1>2 DEF Terminated
  <2>2. Fit(t) /\ t.conf = proc[q].conf /\ t.fd = proc[q].fd /\ t.step = proc[q].step /\ t \in Procs
    BY DEF Fit, Procs
  <2>3. Follows(proc[q], t, files.conf)
    BY <2>2 DEF Follows
  <2> QED
    BY <1>2, <2>1, <2>2, <2>3, NoProcFits
<1> QED
  BY <1>1, <1>2

LEMMA KillGhostsKeeps == ASSUME HostInv, NEW p \in Slots, KillGhosts(p) PROVE HostInv'
<1> DEFINE t == [proc[p] EXCEPT !.step = "load", !.ghosts = {}]
<1>1. proc[p].step = "kill" /\ proc[p].conf.gen = 0 /\ proc[p].fd = "none"
  BY ProcFacts DEF KillGhosts, Fit, Running
<1>2. Fit(t) /\ t.conf = proc[p].conf /\ t.fd = "none" /\ t.step = "load" /\ t \in Procs
  BY <1>1, ProcFacts DEF Fit, Procs, Steps, Running
<1>3. Follows(proc[p], t, files.conf)
  BY <1>1, <1>2 DEF Follows
<1> HIDE DEF t
<1>4. proc' = [q \in Slots |-> IF q = p THEN t
                              ELSE IF q \in proc[p].ghosts THEN Terminated(q) ELSE proc[q]]
  BY DEF KillGhosts, t
<1>5. Fixed /\ Bounded
  BY ProcFacts DEF KillGhosts, Fixed, Bounded, server, hostAux
<1>6. \A q \in Slots : proc[q] \in Procs /\ Fit(proc[q])
  BY ProcFacts
<1>7. proc' \in [Slots -> Procs]
  BY <1>2, <1>4, <1>6, TerminatedFollows
<1>8. \A q \in Slots : Follows(proc[q], proc'[q], files.conf)
  BY <1>3, <1>4, <1>6, TerminatedFollows, SameFollows
<1>9. \A q \in Slots : proc[q] = NoProc => proc'[q] = NoProc
  BY <1>1, <1>4, <1>6, TerminatedFollows, AtStep
<1> QED
  BY <1>5, <1>7, <1>8, <1>9, FollowKeeps

\* A process that ends.
LEMMA ExitKeeps == ASSUME HostInv, NEW p \in Slots, Exits(p), Fixed, Bounded PROVE HostInv'
BY NoneFollows, OneFollows DEF Exits

LEMMA LoadKeeps == ASSUME HostInv, NEW p \in Slots, Load(p) PROVE HostInv'
<1> DEFINE t == [proc[p] EXCEPT !.step = "loop", !.conf = files.conf]
<1>1. Fixed /\ Bounded
  BY ProcFacts DEF Load, Fixed, Bounded, server, hostAux
<1>2. CASE files.conf.gen # 0 /\ files.conf.whole
  <2>1. proc[p].step = "load" /\ proc[p].fd = "none"
    BY ProcFacts DEF Load, Fit
  <2>2. Fit(t) /\ t.conf = files.conf /\ t.fd = "none" /\ t.step = "loop"
    BY <1>2, <2>1, ProcFacts DEF Fit, Procs, Steps, Running
  <2>3. Follows(proc[p], t, files.conf)
    BY <2>2 DEF Follows
  <2>4. proc' = [proc EXCEPT ![p] = t]
    BY <1>2 DEF Load
  <2> HIDE DEF t
  <2> QED
    BY <1>1, <2>1, <2>3, <2>4, AtStep, OneFollows
<1>3. CASE ~(files.conf.gen # 0 /\ files.conf.whole)
  BY <1>1, <1>3, ExitKeeps DEF Load
<1> QED
  BY <1>2, <1>3

LEMMA SendKeeps == ASSUME HostInv, NEW p \in Slots, Send(p) PROVE HostInv'
<1> DEFINE t == [proc[p] EXCEPT !.step = "sent", !.got = wanted]
<1>1. proc[p].step = "loop" /\ proc[p].conf.gen # 0 /\ proc[p].fd = "none"
  BY ProcFacts DEF Send, Fit, Running
<1>2. Fit(t) /\ t.conf = proc[p].conf /\ t.fd = "none" /\ t.step = "sent"
  BY <1>1, ProcFacts DEF Fit, Procs, Steps, Running
<1>3. Follows(proc[p], t, files.conf)
  BY <1>2 DEF Follows
<1>4. proc' = [proc EXCEPT ![p] = t] /\ Fixed /\ Bounded
  BY ProcFacts DEF Send, Fixed, Bounded, server, hostAux
<1> HIDE DEF t
<1> QED
  BY <1>1, <1>3, <1>4, AtStep, OneFollows

LEMMA ReplyKeeps == ASSUME HostInv, NEW p \in Slots, Reply(p) PROVE HostInv'
<1> DEFINE t == Answered(p)
<1>1. proc[p].step = "sent" /\ proc[p].conf.gen # 0 /\ proc[p].fd = "none"
  BY ProcFacts DEF Reply, Fit, Running
<1>2. /\ proc[p].conf \in Confs /\ proc[p].got \in 0 .. MaxSet
      /\ t.conf = [proc[p].conf EXCEPT !.set = proc[p].got] /\ t.fd = "none"
      /\ t.step \in {"loop", "open"}
  BY <1>1, ProcFacts DEF Answered, Procs
<1>3. t.conf \in Confs /\ t.conf.whole /\ t.conf.gen = proc[p].conf.gen
  BY <1>2, ProcFacts DEF Confs, Fit
<1>4. t \in Procs
  <2> DEFINE step == IF proc[p].conf.set = proc[p].got THEN "loop" ELSE "open"
  <2>1. step \in Steps /\ 0 \in 0 .. MaxSet
    BY DEF Steps
  <2>2. t = [proc[p] EXCEPT !.step = step, !.conf = t.conf, !.got = 0]
    BY <1>2, ProcFacts DEF Answered, Procs
  <2> HIDE DEF t, step
  <2> QED
    BY <1>3, <2>1, <2>2, ProcFacts DEF Procs
<1>5. Fit(t)
  BY <1>1, <1>2, <1>3, <1>4 DEF Fit, Running
<1> HIDE DEF t
<1>6. Follows(proc[p], t, files.conf)
  BY <1>1, <1>2, <1>3, <1>5 DEF Follows
<1>7. proc' = [proc EXCEPT ![p] = t] /\ Fixed /\ Bounded
  BY ProcFacts DEF Reply, Fixed, Bounded, server, hostAux, t
<1> QED
  BY <1>1, <1>6, <1>7, AtStep, OneFollows

LEMMA StopOrCrashKeeps == ASSUME HostInv, NEW p \in Slots, StopTold(p) \/ Crash(p) PROVE HostInv'
<1>1. Exits(p) /\ Fixed
  BY DEF StopTold, Crash, Fixed, server, hostAux
<1>2. Bounded
  BY ProcFacts DEF StopTold, Crash, Bounded, server, hostAux
<1> QED
  BY <1>1, <1>2, ExitKeeps

-----------------------------------------------------------------------------
(* Steps that save *)

Around == UNCHANGED <<platform, flash, service, install, server, ok, generated, faults>>
FileTypes == files \in [program : BOOLEAN, conf : Confs, tmp : Confs]

\* Saving keeps the rest: what a process writes has the token of the process.
LEMMA SavingKeeps ==
  ASSUME HostInv, Around, overlap' \in BOOLEAN, NEW p \in Slots, proc[p].step # "none",
         proc' \in [Slots -> Procs], \A q \in Slots : Fit(proc'[q]) /\ proc'[q].conf = proc[q].conf,
         FileTypes', Saves',
         files'.conf.gen \in {files.conf.gen, proc[p].conf.gen}
           \/ (files'.conf.gen = files.tmp.gen /\ files.tmp.gen # 0),
         proc[p].conf.gen # 0,
         files'.tmp.gen \in {0, files.tmp.gen, proc[p].conf.gen}
  PROVE  HostInv'
<1>1. Globals'
  BY DEF HostInv, Globals, Around, FileTypes, server
<1>2. Course' /\ Boots'
  BY DEF HostInv, Course, Boots, Around, server
<1>3. ~Idle
  BY AtStep DEF Idle
<1>4. Cleared'
  BY <1>3 DEF HostInv, Cleared, Around
<1>5. Current'
  <2>1. ASSUME FilesRenewed, ProcsRenewed PROVE FilesRenewed' /\ ProcsRenewed'
    <3>1. generated' = generated
      BY DEF Around
    <3>2. proc[p].conf.gen = generated
      BY <2>1 DEF ProcsRenewed
    <3>3. files'.conf.gen = generated /\ files'.tmp.gen \in {0, generated}
      BY <2>1, <3>2 DEF FilesRenewed
    <3> QED
      BY <2>1, <3>1, <3>3 DEF FilesRenewed, ProcsRenewed
  <2>2. Renewed' = Renewed
    BY DEF Renewed, Around
  <2> QED
    BY <2>1, <2>2 DEF HostInv, Current
<1> QED
  BY <1>1, <1>2, <1>4, <1>5 DEF HostInv

LEMMA TornFits ==
  ASSUME NEW c \in Confs
  PROVE  Torn(c) \in Confs /\ Torn(c).gen = c.gen
BY DEF Torn, Confs

LEMMA NoConfFits == NoConf \in Confs /\ NoConf.gen = 0 /\ NoConf.whole
BY DEF NoConf, Conf, Confs

LEMMA OpenKeeps == ASSUME HostInv, NEW p \in Slots, Open(p) PROVE HostInv'
<1>1. proc[p].step = "open" /\ proc[p].conf.gen # 0 /\ proc[p].fd = "none" /\ proc[p].conf \in Confs
  BY ProcFacts DEF Open, Fit, Running, Procs
<1>2. ASSUME UNCHANGED <<files, overlap>>, Becomes(p, "loop") PROVE HostInv'
  <2> DEFINE t == [proc[p] EXCEPT !.step = "loop"]
  <2>1. Fit(t) /\ t.conf = proc[p].conf /\ t.fd = "none" /\ t.step = "loop"
    BY <1>1, ProcFacts DEF Fit, Procs, Steps, Running
  <2>2. Follows(proc[p], t, files.conf)
    BY <2>1 DEF Follows
  <2>3. proc' = [proc EXCEPT ![p] = t] /\ Fixed /\ Bounded
    BY <1>2, ProcFacts DEF Open, Becomes, Fixed, Bounded, server
  <2> HIDE DEF t
  <2> QED
    BY <1>1, <2>2, <2>3, AtStep, OneFollows
<1>3. ASSUME files' = [files EXCEPT !.tmp = Torn(proc[p].conf)],
             proc' = [proc EXCEPT ![p].step = "write", ![p].fd = "tmp"],
             overlap' = (overlap \/ \E q \in Slots : proc[q].fd # "none")
      PROVE  HostInv'
  <2> DEFINE t == [proc[p] EXCEPT !.step = "write", !.fd = "tmp"]
  <2>1. Fit(t) /\ t \in Procs /\ t.conf = proc[p].conf /\ t.fd = "tmp" /\ t.step = "write"
    BY <1>1, ProcFacts DEF Fit, Procs, Steps, Running
  <2>2. proc' = [proc EXCEPT ![p] = t]
    BY <1>3
  <2> HIDE DEF t
  <2>3. proc' \in [Slots -> Procs] /\ \A q \in Slots : proc'[q] = IF q = p THEN t ELSE proc[q]
    BY <2>1, <2>2 DEF HostInv
  <2>4. \A q \in Slots : Fit(proc'[q]) /\ proc'[q].conf = proc[q].conf
    BY <2>1, <2>3, ProcFacts
  <2>5. FileTypes' /\ files'.conf = files.conf /\ files'.tmp.gen = proc[p].conf.gen
    BY <1>1, <1>3, TornFits DEF HostInv, Globals, FileTypes
  <2>6. Around
    BY DEF Open, Around
  <2>7. Saves'
    <3>1. CASE overlap \/ \E q \in Slots : proc[q].fd # "none"
      BY <1>3, <3>1 DEF Saves
    <3>2. CASE ~overlap /\ \A q \in Slots : proc[q].fd = "none"
      <4>1. OneSaves' /\ WritesTmp'
        BY <2>1, <2>3, <3>2 DEF OneSaves, WritesTmp
      <4>2. \A q \in Slots : proc'[q].step # "swap"
        BY <2>1, <2>3, <3>2, ProcFacts DEF Fit
      <4> QED
        BY <2>5, <2>6, <3>2, <4>1, <4>2 DEF HostInv, Saves, MovesAll, Around
    <3> QED
      BY <3>1, <3>2
  <2>8. overlap' \in BOOLEAN
    BY <1>3
  <2> QED
    BY <1>1, <2>3, <2>4, <2>5, <2>6, <2>7, <2>8, SavingKeeps
<1> QED
  BY <1>2, <1>3 DEF Open

LEMMA WriteKeeps == ASSUME HostInv, NEW p \in Slots, Write(p) PROVE HostInv'
<1> DEFINE t == [proc[p] EXCEPT !.step = "swap"]
<1>1. /\ proc[p].step = "write" /\ proc[p].conf.gen # 0 /\ proc[p].fd # "none"
      /\ proc[p].conf \in Confs /\ proc[p].conf.whole
  BY ProcFacts DEF Write, Fit, Running, Procs
<1>2. Fit(t) /\ t \in Procs /\ t.conf = proc[p].conf /\ t.fd = proc[p].fd /\ t.step = "swap"
  BY <1>1, ProcFacts DEF Fit, Procs, Steps, Running
<1>3. proc' = [proc EXCEPT ![p] = t] /\ Around /\ overlap' = overlap
  BY DEF Write, Around, server, hostAux
<1> HIDE DEF t
<1>4. proc' \in [Slots -> Procs] /\ \A q \in Slots : proc'[q] = IF q = p THEN t ELSE proc[q]
  BY <1>2, <1>3 DEF HostInv
<1>5. \A q \in Slots : Fit(proc'[q]) /\ proc'[q].conf = proc[q].conf
  BY <1>2, <1>4, ProcFacts
<1>6. /\ FileTypes' /\ files'.conf.gen \in {files.conf.gen, proc[p].conf.gen}
      /\ files'.tmp.gen \in {files.tmp.gen, proc[p].conf.gen}
      /\ proc[p].fd = "tmp" => files' = [files EXCEPT !.tmp = proc[p].conf]
  <2>1. CASE proc[p].fd = "tmp"
    BY <1>1, <2>1 DEF Write, HostInv, Globals, FileTypes
  <2>2. CASE proc[p].fd = "conf"
    BY <1>1, <2>2 DEF Write, HostInv, Globals, FileTypes
  <2>3. CASE proc[p].fd \notin {"tmp", "conf"}
    BY <1>1, <2>3 DEF Write, HostInv, Globals, FileTypes
  <2> QED
    BY <2>1, <2>2, <2>3
<1>7. Saves'
  <2>1. CASE overlap
    BY <1>3, <2>1 DEF Saves
  <2>2. CASE ~overlap
    <3>1. files.conf.whole /\ flash.whole /\ OneSaves /\ WritesTmp
      BY <2>2 DEF HostInv, Saves
    <3>2. files'.conf = files.conf /\ files'.tmp = proc[p].conf /\ flash' = flash
      BY <1>1, <1>3, <1>6, <3>1 DEF WritesTmp, HostInv, Globals, Around
    <3>3. OneSaves' /\ WritesTmp'
      BY <1>2, <1>4, <3>1 DEF OneSaves, WritesTmp
    <3>4. \A q \in Slots : proc'[q].step = "swap" => q = p
      BY <1>1, <1>4, <3>1, ProcFacts DEF OneSaves, Fit
    <3>5. MovesAll'
      BY <1>2, <1>4, <3>2, <3>4 DEF MovesAll
    <3> QED
      BY <3>1, <3>2, <3>3, <3>5 DEF Saves
  <2> QED
    BY <2>1, <2>2
<1>8. overlap' \in BOOLEAN
  BY <1>3 DEF HostInv, Globals
<1> QED
  BY <1>1, <1>3, <1>4, <1>5, <1>6, <1>7, <1>8, SavingKeeps

\* What another's move makes of the file a process has.
LEMMA MovedFits ==
  ASSUME NEW s, Fit(s), NEW fd \in {"none", "tmp", "conf", "gone"}, fd = "none" <=> s.fd = "none"
  PROVE  LET u == [s EXCEPT !.fd = fd]
         IN  u \in Procs /\ Fit(u) /\ u.conf = s.conf /\ u.step = s.step /\ u.fd = fd
BY DEF Fit, Procs

LEMMA SwapKeeps == ASSUME HostInv, NEW p \in Slots, Swap(p) PROVE HostInv'
<1> DEFINE t == [proc[p] EXCEPT !.step = "loop", !.fd = "none"]
           Fds == {"none", "tmp", "conf", "gone"}
           Lost(fd) == IF fd = "tmp" THEN "gone" ELSE fd
           moves == proc[p].step = "swap" /\ files.tmp.gen # 0
           fd2(q) == IF moves THEN Moved(proc[q].fd) ELSE Lost(proc[q].fd)
           u(q) == [proc[q] EXCEPT !.fd = fd2(q)]
<1>1. /\ proc[p].step \in {"write", "swap"} /\ proc[p].conf.gen # 0 /\ proc[p].fd # "none"
      /\ proc[p].conf \in Confs /\ proc[p].conf.whole
  BY ProcFacts DEF Swap, Fit, Running, Procs
<1>2. Fit(t) /\ t \in Procs /\ t.conf = proc[p].conf /\ t.fd = "none" /\ t.step = "loop"
  BY <1>1, ProcFacts DEF Fit, Procs, Steps, Running
<1>3. ASSUME NEW q \in Slots
      PROVE  fd2(q) \in Fds /\ (fd2(q) = "none" <=> proc[q].fd = "none")
  <2>1. proc[q].fd \in Fds
    BY ProcFacts DEF Procs
  <2> QED
    BY <2>1 DEF Moved
<1>4. ASSUME NEW q \in Slots
      PROVE  /\ u(q) \in Procs /\ Fit(u(q)) /\ u(q).conf = proc[q].conf /\ u(q).step = proc[q].step
             /\ u(q).fd = fd2(q)
  <2> HIDE DEF fd2
  <2> QED
    BY <1>3, ProcFacts, MovedFits
<1>5. Around /\ overlap' = overlap
  BY DEF Swap, Around, server, hostAux
<1>6. /\ proc' = [q \in Slots |-> IF q = p THEN t ELSE u(q)]
      /\ files' = IF moves THEN [files EXCEPT !.conf = files.tmp, !.tmp = NoConf]
                  ELSE [files EXCEPT !.tmp = NoConf]
  BY <1>1 DEF Swap
<1> HIDE DEF t, fd2, u
<1>7. proc' \in [Slots -> Procs] /\ \A q \in Slots : proc'[q] = IF q = p THEN t ELSE u(q)
  BY <1>2, <1>4, <1>6
<1>8. \A q \in Slots : Fit(proc'[q]) /\ proc'[q].conf = proc[q].conf
  BY <1>2, <1>4, <1>7
<1>9. /\ FileTypes' /\ files'.tmp.gen = 0
      /\ \/ files'.conf.gen = files.conf.gen
         \/ files'.conf.gen = files.tmp.gen /\ files.tmp.gen # 0
  BY <1>6, NoConfFits DEF HostInv, Globals, FileTypes
<1>10. Saves'
  <2>1. CASE overlap
    BY <1>5, <2>1 DEF Saves
  <2>2. CASE ~overlap
    <3>1. files.conf.whole /\ flash.whole /\ OneSaves /\ MovesAll
      BY <2>2 DEF HostInv, Saves
    <3>2. files'.conf.whole
      BY <1>1, <1>6, <3>1 DEF MovesAll, HostInv, Globals
    <3>3. \A q \in Slots : proc'[q].fd = "none"
      BY <1>1, <1>2, <1>3, <1>4, <1>7, <3>1 DEF OneSaves
    <3>4. \A q \in Slots : proc'[q].step # "swap"
      BY <1>8, <3>3 DEF Fit
    <3>5. OneSaves' /\ WritesTmp' /\ MovesAll'
      BY <3>3, <3>4 DEF OneSaves, WritesTmp, MovesAll
    <3> QED
      BY <1>5, <3>1, <3>2, <3>5 DEF Saves, Around
  <2> QED
    BY <2>1, <2>2
<1>11. overlap' \in BOOLEAN
  BY <1>5 DEF HostInv, Globals
<1> QED
  BY <1>1, <1>5, <1>7, <1>8, <1>9, <1>10, <1>11, SavingKeeps

-----------------------------------------------------------------------------
(* The host *)

\* A new process on slot p, the others as they are.
LEMMA StartKeeps ==
  ASSUME HostInv, NEW p \in Slots, NEW unit \in BOOLEAN, proc' = Started(proc, p, unit),
         files' = files, generated' = generated, overlap' = overlap, flash' = flash
  PROVE  /\ proc' \in [Slots -> Procs] /\ \A q \in Slots : Fit(proc'[q])
         /\ Saves' /\ (ProcsRenewed => ProcsRenewed') /\ (FilesRenewed => FilesRenewed')
<1>1. proc \in [Slots -> Procs] /\ \A q \in Slots : Fit(proc[q])
  BY DEF HostInv
<1>2. /\ Started(proc, p, unit) \in [Slots -> Procs]
      /\ \A q \in Slots :
           /\ Fit(Started(proc, p, unit)[q])
           /\ Started(proc, p, unit)[q].conf = IF q = p THEN NoConf ELSE proc[q].conf
           /\ Started(proc, p, unit)[q].fd = IF q = p THEN "none" ELSE proc[q].fd
           /\ Started(proc, p, unit)[q].step = IF q = p THEN "start" ELSE proc[q].step
  BY <1>1, StartedFits
<1>3. /\ proc' \in [Slots -> Procs] /\ \A q \in Slots : Fit(proc'[q])
      /\ \A q \in Slots : proc'[q].conf = IF q = p THEN NoConf ELSE proc[q].conf
      /\ \A q \in Slots : proc'[q].fd = IF q = p THEN "none" ELSE proc[q].fd
      /\ \A q \in Slots : proc'[q].step = IF q = p THEN "start" ELSE proc[q].step
  BY <1>2
<1>4. OneSaves => OneSaves'
  BY <1>3 DEF OneSaves
<1>5. WritesTmp => WritesTmp'
  BY <1>3 DEF WritesTmp
<1>6. MovesAll => MovesAll'
  BY <1>3 DEF MovesAll
<1>7. Saves'
  BY <1>4, <1>5, <1>6 DEF HostInv, Saves
<1>8. ProcsRenewed => ProcsRenewed'
  BY <1>3, NoConfFits DEF ProcsRenewed
<1>9. FilesRenewed => FilesRenewed'
  BY DEF FilesRenewed
<1> QED
  BY <1>3, <1>7, <1>8, <1>9

LEMMA UnitRestartsKeeps == ASSUME HostInv, NEW p \in Slots, UnitRestarts(p) PROVE HostInv'
<1>1. /\ UNCHANGED <<platform, files, flash, service, install, token, wanted, generated, ok, overlap, faults>>
      /\ proc' = Started(proc, p, TRUE) /\ platform = "systemd" /\ service = "on"
  BY DEF UnitRestarts, server, hostAux
<1>2. /\ proc' \in [Slots -> Procs] /\ \A q \in Slots : Fit(proc'[q])
      /\ Saves' /\ (ProcsRenewed => ProcsRenewed') /\ (FilesRenewed => FilesRenewed')
  BY <1>1, StartKeeps
<1>3. Globals' /\ Course' /\ Boots'
  BY <1>1 DEF HostInv, Globals, Course, Boots
<1>4. Cleared'
  BY <1>1 DEF HostInv, Cleared
<1>5. Current'
  BY <1>1, <1>2 DEF HostInv, Current, Renewed
<1> QED
  BY <1>2, <1>3, <1>4, <1>5 DEF HostInv

\* No process, or only one that has just been started.
Fresh(procs) ==
  /\ procs \in [Slots -> Procs]
  /\ \A q \in Slots : Fit(procs[q]) /\ procs[q].conf.gen = 0 /\ procs[q].fd = "none" /\ procs[q].step # "swap"

LEMMA NoneFresh == Fresh([q \in Slots |-> NoProc])
BY NoProcFits DEF Fresh, Fit

LEMMA FirstFresh ==
  ASSUME NEW p \in Slots, NEW unit \in BOOLEAN
  PROVE  Fresh(Started([q \in Slots |-> NoProc], p, unit))
<1> DEFINE none == [q \in Slots |-> NoProc]
<1>1. none \in [Slots -> Procs] /\ \A q \in Slots : Fit(none[q]) /\ none[q] = NoProc
  BY NoProcFits DEF Fit
<1> HIDE DEF none
<1>2. /\ Started(none, p, unit) \in [Slots -> Procs]
      /\ \A q \in Slots :
           /\ Fit(Started(none, p, unit)[q])
           /\ Started(none, p, unit)[q].conf = IF q = p THEN NoConf ELSE none[q].conf
           /\ Started(none, p, unit)[q].fd = IF q = p THEN "none" ELSE none[q].fd
           /\ Started(none, p, unit)[q].step = IF q = p THEN "start" ELSE none[q].step
  BY <1>1, StartedFits
<1>3. Fresh(Started(none, p, unit))
  BY <1>1, <1>2, NoProcFits, NoConfFits DEF Fresh
<1> QED
  BY <1>3 DEF none

LEMMA FreshSaves ==
  ASSUME Fresh(proc'), overlap' \/ (files'.conf.whole /\ flash'.whole)
  PROVE  Saves' /\ ProcsRenewed'
BY DEF Fresh, Saves, OneSaves, WritesTmp, MovesAll, ProcsRenewed

LEMMA RebootKeeps == ASSUME HostInv, NEW p \in Slots, Reboot(p) PROVE HostInv'
<1> DEFINE back == [NoFiles EXCEPT !.program = TRUE, !.conf = flash]
           kept == IF platform # "unraid" THEN files ELSE IF service = "on" THEN back ELSE NoFiles
           none == [q \in Slots |-> NoProc]
<1>1. /\ UNCHANGED <<platform, flash, token, wanted, ok, generated, overlap>>
      /\ faults' = faults + 1 /\ faults < MaxFaults
      /\ files' = kept /\ install' = NoInst /\ service' = IF service = "stopped" THEN "on" ELSE service
      /\ proc' = IF platform \in {"synology", "unraid"} /\ service = "on" /\ kept.program
                 THEN Started(none, p, FALSE) ELSE none
  BY DEF Reboot, server
<1>2. Fresh(proc')
  BY <1>1, NoneFresh, FirstFresh
<1>3. /\ NoFiles \in [program : BOOLEAN, conf : Confs, tmp : Confs]
      /\ NoFiles.conf = NoConf /\ NoFiles.tmp = NoConf
  BY NoConfFits DEF NoFiles
<1>4. flash \in Confs
  BY DEF HostInv, Globals
<1>5. /\ back \in [program : BOOLEAN, conf : Confs, tmp : Confs]
      /\ back.conf = flash /\ back.tmp = NoConf
  BY <1>3, <1>4
<1> HIDE DEF back
<1>6. FileTypes'
  BY <1>1, <1>3, <1>5 DEF HostInv, Globals, FileTypes
<1>7. Globals'
  <2>1. install' \in [kind : {"none", "ssh", "script", "remove", "uninstall"}, unit : BOOLEAN,
                   step : {"", "staged", "stopped", "placed", "started", "again"}]
    BY <1>1 DEF NoInst
  <2>2. service' \in {"none", "disabled", "stopped", "on"} /\ faults' \in 0 .. MaxFaults
    <3>1. service \in {"none", "disabled", "stopped", "on"} /\ faults \in 0 .. MaxFaults
      BY DEF HostInv, Globals
    <3>2. faults' = faults + 1 /\ faults < MaxFaults
      BY <1>1
    <3> QED
      BY <1>1, <3>1, <3>2
  <2>3. /\ platform' \in Platforms /\ flash' \in Confs /\ token' \in 0 .. MaxGen /\ wanted' \in 0 .. MaxSet
        /\ generated' \in 0 .. MaxGen /\ ok' \in BOOLEAN /\ overlap' \in BOOLEAN
    BY <1>1 DEF HostInv, Globals
  <2> QED
    BY <1>6, <2>1, <2>2, <2>3 DEF Globals, FileTypes
<1>8. overlap' \/ (files'.conf.whole /\ flash'.whole)
  BY <1>1, <1>3, <1>5, NoConfFits DEF HostInv, Saves
<1>9. Saves' /\ ProcsRenewed'
  BY <1>2, <1>8, FreshSaves
<1>10. Course' /\ Cleared' /\ Boots'
  BY <1>1 DEF HostInv, Course, Cleared, Boots, NoInst
<1>11. Current'
  <2>1. CASE ok
    <3>1. FilesRenewed /\ (platform = "unraid" => service = "on" /\ flash.gen = generated)
      BY <2>1 DEF HostInv, Current, Renewed, Boots
    <3>2. FilesRenewed'
      BY <1>1, <1>5, <3>1, NoConfFits DEF FilesRenewed
    <3> QED
      BY <1>9, <3>2 DEF Current
  <2>2. CASE ~ok
    BY <1>1, <2>2 DEF Current, Renewed, NoInst
  <2> QED
    BY <2>1, <2>2
<1> QED
  BY <1>2, <1>7, <1>9, <1>10, <1>11 DEF HostInv, Fresh

-----------------------------------------------------------------------------
(* Installation and removal *)

Insts == [kind : {"none", "ssh", "script", "remove", "uninstall"}, unit : BOOLEAN,
          step : {"", "staged", "stopped", "placed", "started", "again"}]

\* What the steps of an installation have to keep besides.
LEMMA InstallKeeps ==
  ASSUME HostInv, UNCHANGED <<platform, overlap, faults>>, wanted' \in 0 .. MaxSet,
         token' \in 0 .. MaxGen, generated' \in 0 .. MaxGen, ok' \in BOOLEAN,
         install' \in Insts, FileTypes', flash' \in Confs,
         service' \in {"none", "disabled", "stopped", "on"},
         proc' \in [Slots -> Procs], \A q \in Slots : Fit(proc'[q]),
         Saves', Course', Cleared', Current', Boots'
  PROVE  HostInv'
<1>1. Globals'
  BY DEF HostInv, Globals, Insts, FileTypes
<1> QED
  BY <1>1 DEF HostInv

LEMMA InstFacts ==
  ASSUME HostInv
  PROVE  /\ install \in Insts /\ FileTypes /\ flash \in Confs
         /\ service \in {"none", "disabled", "stopped", "on"}
         /\ token \in 0 .. MaxGen /\ generated \in 0 .. MaxGen /\ ok \in BOOLEAN /\ wanted \in 0 .. MaxSet
         /\ proc \in [Slots -> Procs] /\ \A q \in Slots : Fit(proc[q])
         /\ files.conf \in Confs /\ NoInst \in Insts /\ overlap \in BOOLEAN
BY DEF HostInv, Globals, Insts, FileTypes, NoInst

\* Processes and files that stay go together as before.
LEMMA SavesStay ==
  ASSUME HostInv, UNCHANGED <<proc, files, overlap>>, overlap \/ flash'.whole
  PROVE  Saves'
BY DEF HostInv, Saves, OneSaves, WritesTmp, MovesAll

LEMMA BeginKeeps ==
  ASSUME HostInv, BeginOverSsh \/ BeginScript \/ \E kind \in {"remove", "uninstall"} : BeginRemoval(kind)
  PROVE  HostInv'
<1>1. /\ UNCHANGED <<platform, files, flash, service, proc, wanted, overlap, faults>>
      /\ ok' = FALSE /\ install'.step = "staged" /\ install'.kind \in {"ssh", "script", "remove", "uninstall"}
      /\ install' \in Insts
  BY DEF BeginOverSsh, BeginScript, BeginRemoval, server, hostAux, NoInst, Insts
<1>2. generated' \in 0 .. MaxGen /\ token' \in 0 .. MaxGen /\ (install'.kind = "script" => token' = generated')
  <2>1. generated \in 0 .. MaxGen /\ token \in 0 .. MaxGen
    BY InstFacts
  <2>2. CASE BeginOverSsh
    <3>1. generated' = generated + 1 /\ generated < MaxGen /\ token' = token
      BY <2>2 DEF BeginOverSsh, server
    <3>2. install'.kind # "script"
      BY <2>2 DEF BeginOverSsh, NoInst
    <3> QED
      BY <2>1, <3>1, <3>2
  <2>3. CASE BeginScript
    BY <2>1, <2>3 DEF BeginScript
  <2>4. ASSUME NEW kind \in {"remove", "uninstall"}, BeginRemoval(kind)
        PROVE  generated' = generated /\ token' = token /\ install'.kind # "script"
    BY <2>4 DEF BeginRemoval, server, hostAux, NoInst
  <2> QED
    BY <2>1, <2>2, <2>3, <2>4
<1>3. Saves'
  BY <1>1, SavesStay DEF HostInv, Saves
<1>4. Course' /\ Cleared' /\ Current' /\ Boots'
  BY <1>1, <1>2 DEF Course, Cleared, Current, Renewed, Boots
<1>5. UNCHANGED proc /\ FileTypes'
  BY <1>1, InstFacts DEF FileTypes
<1> QED
  BY <1>1, <1>2, <1>3, <1>4, <1>5, InstFacts, InstallKeeps

LEMMA FailKeeps == ASSUME HostInv, Fail PROVE HostInv'
<1>1. /\ UNCHANGED <<platform, files, flash, service, proc, token, wanted, ok, generated, overlap, faults>>
      /\ install' = NoInst
  BY DEF Fail, server, hostAux
<1>2. Saves'
  BY <1>1, SavesStay DEF HostInv, Saves
<1>3. Course' /\ Cleared' /\ Boots'
  BY <1>1 DEF HostInv, Course, Cleared, Boots, NoInst
<1>4. Current'
  BY <1>1 DEF HostInv, Current, Renewed, FilesRenewed, ProcsRenewed, NoInst
<1>5. FileTypes'
  BY <1>1, InstFacts DEF FileTypes
<1> QED
  BY <1>1, <1>2, <1>3, <1>4, <1>5, InstFacts, InstallKeeps

LEMMA ChangeSettingsKeeps == ASSUME HostInv, ChangeSettings PROVE HostInv'
<1>1. UNCHANGED <<platform, files, flash, service, proc, install, token, ok, generated, overlap, faults>>
  BY DEF ChangeSettings, hostAux
<1>2. wanted' \in 0 .. MaxSet
  BY InstFacts DEF ChangeSettings
<1>3. Saves'
  BY <1>1, SavesStay DEF HostInv, Saves
<1>4. Course' /\ Cleared' /\ Boots'
  BY <1>1 DEF HostInv, Course, Cleared, Idle, Boots
<1>5. Current'
  BY <1>1 DEF HostInv, Current, Renewed, FilesRenewed, ProcsRenewed
<1>6. FileTypes'
  BY <1>1, InstFacts DEF FileTypes
<1> QED
  BY <1>1, <1>2, <1>3, <1>4, <1>5, <1>6, InstFacts, InstallKeeps

LEMMA StopKeeps == ASSUME HostInv, Stop PROVE HostInv'
<1>1. /\ UNCHANGED <<platform, files, flash, token, wanted, ok, generated, overlap, faults>>
      /\ install.step = "staged" /\ install' = [install EXCEPT !.step = "stopped"] /\ proc' = [p \in Slots |-> NoProc]
      /\ service' = IF platform # "systemd" \/ service = "none" THEN service
                    ELSE IF install.kind = "script" THEN "stopped" ELSE "disabled"
  BY DEF Stop, At, Continues, Stops, server, hostAux
<1>2. /\ install' \in Insts /\ install'.step = "stopped" /\ install'.kind = install.kind
      /\ service' \in {"none", "disabled", "stopped", "on"} /\ ~ok
  BY <1>1, InstFacts DEF Insts, HostInv, Course
<1>3. Fresh(proc')
  BY <1>1, NoneFresh
<1>4. Saves'
  BY <1>1, <1>3, FreshSaves DEF HostInv, Saves
<1>5. Idle'
  BY <1>1 DEF Idle
<1>6. platform = "systemd" => service' # "on"
  BY <1>1
<1>7. Cleared'
  BY <1>1, <1>2, <1>5, <1>6 DEF Cleared
<1>8. Course' /\ Current' /\ Boots'
  BY <1>1, <1>2 DEF HostInv, Course, Current, Renewed, Boots
<1>9. FileTypes'
  BY <1>1, InstFacts DEF FileTypes
<1> QED
  BY <1>1, <1>2, <1>3, <1>4, <1>7, <1>8, <1>9, InstFacts, InstallKeeps DEF Fresh

LEMMA PlaceKeeps == ASSUME HostInv, Place PROVE HostInv'
<1>1. /\ UNCHANGED <<platform, proc, token, wanted, ok, generated, overlap, faults>>
      /\ install.step = "stopped" /\ install.kind \in {"ssh", "script"} /\ install' = [install EXCEPT !.step = "placed"]
      /\ files' = [NoFiles EXCEPT !.program = TRUE, !.conf = Conf(generated, 0)]
      /\ flash' \in {NoConf, flash} /\ service' \in {"none", service}
  BY DEF Place, At, Continues, server, hostAux
<1>2. /\ install' \in Insts /\ install'.step = "placed" /\ install'.kind = install.kind
      /\ service' \in {"none", "disabled", "stopped", "on"} /\ ~ok /\ flash' \in Confs
  BY <1>1, InstFacts, NoConfFits DEF Insts, HostInv, Course
<1>3. Conf(generated, 0) \in Confs /\ Conf(generated, 0).whole /\ Conf(generated, 0).gen = generated
  BY InstFacts DEF Conf, Confs
<1>4. FileTypes' /\ files'.conf = Conf(generated, 0) /\ files'.tmp = NoConf
  BY <1>1, <1>3, NoConfFits DEF FileTypes, NoFiles
<1>5. Idle /\ (platform = "systemd" => service # "on")
  BY <1>1 DEF HostInv, Cleared
<1>6. Idle'
  BY <1>1, <1>5 DEF Idle
<1>7. Fresh(proc')
  BY <1>1, <1>6, InstFacts, NoProcFits DEF Idle, Fresh
<1>8. Saves' /\ ProcsRenewed'
  BY <1>1, <1>3, <1>4, <1>7, FreshSaves, NoConfFits DEF HostInv, Saves
<1>9. Cleared'
  BY <1>1, <1>2, <1>5, <1>6 DEF Cleared
<1>10. Current'
  BY <1>1, <1>3, <1>4, <1>8, NoConfFits DEF Current, FilesRenewed
<1>11. Course' /\ Boots'
  BY <1>1, <1>2 DEF HostInv, Course, Boots
<1> QED
  BY <1>1, <1>2, <1>4, <1>7, <1>8, <1>9, <1>10, <1>11, InstFacts, InstallKeeps DEF Fresh

LEMMA RemoveKeeps == ASSUME HostInv, Remove PROVE HostInv'
<1>1. /\ UNCHANGED <<platform, proc, wanted, ok, generated, overlap, faults>>
      /\ install.step = "stopped" /\ install' = NoInst /\ token' \in {0, token}
      /\ files' = NoFiles /\ flash' = NoConf /\ service' \in {"none", service}
  BY DEF Remove, At, hostAux
<1>2. ~ok /\ token' \in 0 .. MaxGen /\ service' \in {"none", "disabled", "stopped", "on"}
  BY <1>1, InstFacts DEF HostInv, Course
<1>3. FileTypes' /\ files'.conf = NoConf
  BY <1>1, NoConfFits DEF FileTypes, NoFiles
<1>4. Fresh(proc')
  BY <1>1, InstFacts, NoProcFits DEF HostInv, Cleared, Idle, Fresh
<1>5. Saves'
  BY <1>1, <1>3, <1>4, FreshSaves, NoConfFits
<1>6. Course' /\ Cleared' /\ Current' /\ Boots'
  BY <1>1, <1>2 DEF Course, Cleared, Current, Renewed, Boots, NoInst
<1> QED
  BY <1>1, <1>2, <1>3, <1>4, <1>5, <1>6, InstFacts, InstallKeeps, NoConfFits DEF Fresh

LEMMA StartServiceKeeps == ASSUME HostInv, NEW p \in Slots, StartService(p) PROVE HostInv'
<1>1. /\ UNCHANGED <<platform, files, flash, token, wanted, ok, generated, overlap, faults>>
      /\ install.step = "placed" /\ install.kind \in {"ssh", "script"} /\ platform \in Platforms
      /\ service \in {"none", "disabled", "stopped", "on"}
  BY InstFacts DEF StartService, At, server, hostAux, HostInv, Globals
<1>2. ~ok /\ Idle /\ FilesRenewed /\ ProcsRenewed
  BY <1>1 DEF HostInv, Course, Cleared, Current, Renewed
<1>3. /\ install' \in Insts /\ install'.step = "started" /\ install'.kind = install.kind
      /\ (platform = "systemd" /\ install'.unit) \/ platform = "synology" => service' = "on"
      /\ service' \in {"none", "disabled", "stopped", "on"}
      /\ proc' = proc \/ \E unit \in BOOLEAN : proc' = Started(proc, p, unit)
      /\ install.kind = "ssh" /\ platform \in {"unraid", "plain"} => proc' = proc
  <2>1. CASE platform \in {"systemd", "synology"} /\ service' = "on" /\ Continues("started")
             /\ proc' = Started(proc, p, platform = "systemd")
    BY <1>1, <2>1, InstFacts DEF Continues, Insts
  <2>2. CASE platform = "systemd" /\ install' = [install EXCEPT !.step = "started", !.unit = FALSE]
             /\ UNCHANGED <<service, proc>>
    BY <1>1, <2>2, InstFacts DEF Insts
  <2>3. CASE platform \in {"unraid", "plain"} /\ Continues("started") /\ UNCHANGED service
             /\ IF install.kind = "script" THEN proc' = Started(proc, p, FALSE) ELSE UNCHANGED proc
    BY <1>1, <2>3, InstFacts DEF Continues, Insts
  <2> QED
    BY <2>1, <2>2, <2>3 DEF StartService
<1>4. /\ proc' \in [Slots -> Procs] /\ \A q \in Slots : Fit(proc'[q])
      /\ Saves' /\ ProcsRenewed' /\ FilesRenewed'
  <2>1. CASE proc' = proc
    <3>1. Saves'
      BY <1>1, <2>1, SavesStay DEF HostInv, Saves
    <3> QED
      BY <1>1, <1>2, <2>1, <3>1, InstFacts DEF ProcsRenewed, FilesRenewed
  <2>2. CASE \E unit \in BOOLEAN : proc' = Started(proc, p, unit)
    BY <1>1, <1>2, <2>2, StartKeeps
  <2> QED
    BY <1>3, <2>1, <2>2
<1>5. Cleared'
  <2>1. proc' = proc => Idle'
    BY <1>2 DEF Idle
  <2> QED
    BY <1>1, <1>3, <2>1 DEF Cleared
<1>6. Current'
  BY <1>4 DEF Current
<1>7. Course' /\ Boots'
  BY <1>1, <1>2, <1>3 DEF HostInv, Course, Boots
<1>8. FileTypes'
  BY <1>1, InstFacts DEF FileTypes
<1> QED
  BY <1>1, <1>3, <1>4, <1>5, <1>6, <1>7, <1>8, InstFacts, InstallKeeps

\* A success where the service starts the agent after a reboot, and on Unraid the flash drive
\* holds the configuration.
LEMMA SuccessKeeps ==
  ASSUME HostInv, Success, UNCHANGED <<platform, files, proc, wanted, generated, overlap, faults>>,
         install.step \in {"started", "again"},
         flash' \in Confs, flash' \in {flash, files.conf}, service' \in {"on", service},
         platform = "unraid" => service' = "on" /\ flash' = files.conf
  PROVE  HostInv'
<1>1. /\ install' = NoInst /\ (ok' => (platform = "systemd" => install.unit)) /\ ok' \in BOOLEAN
  BY InstFacts DEF Success, Insts
<1>2. install.kind \in {"ssh", "script"} /\ FilesRenewed /\ ProcsRenewed
  BY DEF HostInv, Course, Current, Renewed
<1>3. token' = generated /\ token' \in 0 .. MaxGen
  BY <1>2, InstFacts DEF Success, HostInv, Course
<1>4. Saves'
  BY SavesStay DEF HostInv, Saves
<1>5. FilesRenewed' /\ ProcsRenewed'
  BY <1>2 DEF FilesRenewed, ProcsRenewed
<1>6. Course' /\ Cleared' /\ Current'
  BY <1>1, <1>3, <1>5 DEF Course, Cleared, Current, NoInst
<1>7. Boots'
  <2>1. platform \in Platforms
    BY DEF HostInv, Globals
  <2>2. ok' /\ platform # "plain" => service' = "on"
    BY <1>1, <2>1 DEF HostInv, Boots, Platforms
  <2>3. platform = "unraid" => flash'.gen = generated'
    BY <1>2 DEF FilesRenewed
  <2> QED
    BY <1>1, <2>2, <2>3 DEF Boots, NoInst
<1>8. FileTypes' /\ service' \in {"none", "disabled", "stopped", "on"}
  BY InstFacts DEF FileTypes
<1> QED
  BY <1>1, <1>3, <1>4, <1>6, <1>7, <1>8, InstFacts, InstallKeeps

LEMMA VerifyKeeps == ASSUME HostInv, NEW p \in Slots, Verify(p) PROVE HostInv'
<1>1. /\ UNCHANGED <<platform, files, flash, service, wanted, generated, overlap, faults>>
      /\ install.step = "started" /\ install.kind = "ssh"
  BY DEF Verify, At, hostAux
<1>2. ASSUME Alive # {}, Success, UNCHANGED proc PROVE HostInv'
  <2>1. ~Idle
    BY <1>2 DEF Idle, Alive
  <2>2. platform # "unraid"
    BY <1>1, <2>1 DEF HostInv, Cleared
  <2> QED
    BY <1>1, <1>2, <2>2, InstFacts, SuccessKeeps
<1>3. ASSUME Continues("again"), proc' = Started(proc, p, FALSE), UNCHANGED <<token, ok>> PROVE HostInv'
  <2>1. /\ proc' \in [Slots -> Procs] /\ \A q \in Slots : Fit(proc'[q])
        /\ Saves' /\ (ProcsRenewed => ProcsRenewed') /\ (FilesRenewed => FilesRenewed')
    BY <1>1, <1>3, StartKeeps
  <2>2. install' \in Insts /\ install'.step = "again" /\ install'.kind = "ssh" /\ install'.unit = install.unit
    BY <1>1, <1>3, InstFacts DEF Continues, Insts
  <2>3. Course' /\ Cleared' /\ Boots'
    BY <1>1, <1>3, <2>2 DEF HostInv, Course, Cleared, Boots
  <2>4. Current'
    BY <1>1, <2>1 DEF HostInv, Current, Renewed
  <2>5. FileTypes'
    BY <1>1, InstFacts DEF FileTypes
  <2> QED
    BY <1>1, <1>3, <2>1, <2>2, <2>3, <2>4, <2>5, InstFacts, InstallKeeps
<1> QED
  BY <1>2, <1>3 DEF Verify

LEMMA EndsKeeps == ASSUME HostInv, VerifyFallback \/ ScriptEnds PROVE HostInv'
<1>1. /\ UNCHANGED <<platform, files, proc, wanted, generated, overlap, faults>> /\ Success
      /\ install.step \in {"started", "again"}
      /\ IF platform = "unraid" THEN Hooks ELSE UNCHANGED <<flash, service>>
  BY DEF VerifyFallback, AddsHook, ScriptEnds, At, hostAux
<1> QED
  BY <1>1, InstFacts, SuccessKeeps DEF Hooks

-----------------------------------------------------------------------------
(* The invariant, and what follows from it *)

LEMMA InitHolds == HostInit => HostInv
<1> SUFFICES ASSUME HostInit PROVE HostInv
  OBVIOUS
<1>1. Globals
  <2>1. files \in [program : BOOLEAN, conf : Confs, tmp : Confs] /\ flash \in Confs
    BY NoConfFits DEF HostInit, NoFiles
  <2>2. install \in [kind : {"none", "ssh", "script", "remove", "uninstall"}, unit : BOOLEAN,
                  step : {"", "staged", "stopped", "placed", "started", "again"}]
    BY DEF HostInit, NoInst
  <2>3. token \in 0 .. MaxGen /\ wanted \in 0 .. MaxSet /\ generated \in 0 .. MaxGen /\ faults \in 0 .. MaxFaults
    BY DEF HostInit
  <2> QED
    BY <2>1, <2>2, <2>3 DEF HostInit, Globals
<1>2. Fresh(proc)
  BY NoneFresh DEF HostInit
<1>3. Saves
  BY <1>2, NoConfFits DEF HostInit, NoFiles, Fresh, Saves, OneSaves, WritesTmp, MovesAll
<1>4. Course /\ Cleared /\ Current /\ Boots
  BY DEF HostInit, Course, Cleared, Current, Renewed, Boots, NoInst
<1> QED
  BY <1>1, <1>2, <1>3, <1>4 DEF HostInv, Fresh

LEMMA StutterHolds == ASSUME HostInv, UNCHANGED hostVars PROVE HostInv'
<1>1. UNCHANGED <<platform, files, flash, service, proc, install, token, wanted, generated, ok, overlap, faults>>
  BY DEF hostVars, server, hostAux
<1>2. Saves'
  BY <1>1, SavesStay DEF HostInv, Saves
<1>3. Course' /\ Cleared' /\ Boots'
  BY <1>1 DEF HostInv, Course, Cleared, Idle, Boots
<1>4. Current'
  BY <1>1 DEF HostInv, Current, Renewed, FilesRenewed, ProcsRenewed
<1>5. FileTypes'
  BY <1>1, InstFacts DEF FileTypes
<1> QED
  BY <1>1, <1>2, <1>3, <1>4, <1>5, InstFacts, InstallKeeps

LEMMA NextHolds == HostInv /\ [HostNext]_hostVars => HostInv'
<1> SUFFICES ASSUME HostInv, [HostNext]_hostVars PROVE HostInv'
  OBVIOUS
<1>1. ASSUME NEW p \in Slots, ListGhosts(p) \/ KillGhosts(p) \/ Load(p) \/ Send(p) \/ StopTold(p) \/ Reply(p)
      PROVE  HostInv'
  BY <1>1, ListGhostsKeeps, KillGhostsKeeps, LoadKeeps, SendKeeps, StopOrCrashKeeps, ReplyKeeps
<1>2. ASSUME NEW p \in Slots, Open(p) \/ Write(p) \/ Swap(p) \/ Crash(p) PROVE HostInv'
  BY <1>2, OpenKeeps, WriteKeeps, SwapKeeps, StopOrCrashKeeps
<1>3. ASSUME NEW p \in Slots, UnitRestarts(p) \/ Reboot(p) \/ StartService(p) \/ Verify(p) PROVE HostInv'
  BY <1>3, UnitRestartsKeeps, RebootKeeps, StartServiceKeeps, VerifyKeeps
<1>4. ASSUME BeginOverSsh \/ BeginScript \/ \E kind \in {"remove", "uninstall"} : BeginRemoval(kind)
      PROVE  HostInv'
  BY <1>4, BeginKeeps
<1>5. ASSUME Fail \/ Stop \/ Place \/ Remove \/ VerifyFallback \/ ScriptEnds \/ ChangeSettings PROVE HostInv'
  BY <1>5, FailKeeps, StopKeeps, PlaceKeeps, RemoveKeeps, EndsKeeps, ChangeSettingsKeeps
<1>6. CASE UNCHANGED hostVars
  BY <1>6, StutterHolds
<1> QED
  BY <1>1, <1>2, <1>3, <1>4, <1>5, <1>6 DEF HostNext

\* Every reachable state satisfies the invariant.
THEOREM InvAlways == HostSpec => []HostInv
BY InitHolds, NextHolds, PTL DEF HostSpec

\* An installation that was reported successful (agent_deployer.py, the installer script) is
\* started again after a reboot with the token the server accepts, and no agent with an
\* earlier token runs beside it, for any number of processes, installations and faults; and
\* whatever crashes when, agent.conf is whole, unless two agents have saved at the same time
\* (AgentConfig.save).
THEOREM InstallationsHold == HostSpec => []InstallHolds
<1>1. HostInv => HostTypeOK
  BY DEF HostInv, Globals, Procs, HostTypeOK
<1>2. HostInv => ConfWhole
  BY DEF HostInv, Saves, ConfWhole
<1>3. HostInv => BootsAgain
  BY DEF HostInv, Course, Current, Renewed, FilesRenewed, Boots, Saves, BootsAgain
<1>4. HostInv => OldAgentsGone
  BY DEF HostInv, Course, Current, Renewed, ProcsRenewed, OldAgentsGone, Alive
<1> QED
  BY <1>1, <1>2, <1>3, <1>4, InvAlways, PTL DEF InstallHolds

-----------------------------------------------------------------------------
(* At the server.                                                            *)

USE NoneAssumption, BoundsAssumption

\* Token t of the sequence s was generated for machine m.
MadeFor(t, m, s) == t \in 1 .. Len(s) /\ s[t] = m

\* x is the machine that id i named last (w), unless i is in c.
Belongs(x, i, w, c) == i \in c \/ x = w[i]

\* An agent has its id from a device and a token made for it.
AgentOf(a, m, s) == a # NoAgent => a.id \in Ids /\ MadeFor(a.tok, m, s)

\* The tokens in a row were made for the device's machine.
RowOf(r, i, s, w, c) ==
  r # NoRow => \A t \in {r.tok, r.pending} \ {0} : i \in c \/ MadeFor(t, w[i], s)

\* A report that has found or resolved its device is one of that device's machine.
ReportOf(r, m, s, w, c) ==
  r.step # "idle" =>
    /\ r.id \in Ids /\ MadeFor(r.tok, m, s)
    /\ r.step # "lost" => Belongs(m, r.id, w, c)

InstallOf(r, m, s, w, c) ==
  r.step # "idle" =>
    /\ r.id \in Ids /\ Belongs(m, r.id, w, c)
    /\ r.step = "deployed" => MadeFor(r.tok, m, s)

\* An import p has yet to revoke the codes of the ids it reassigned ...
CodeOf(k, p, w, c) ==
  k # NoCode =>
    /\ k.id \in Ids /\ k.for \in Machines
    /\ Belongs(k.for, k.id, w, c) \/ (p.phase = "revoke" /\ k.id \in p.ids)

\* ... and to purge what is stored under them, but for what it fails to delete (in c, too).
StoredOf(x, i, p, w, c) == x = None \/ Belongs(x, i, w, c) \/ i \in p.ids

Devices == \A i \in Ids : dev[i] # None => was[i] = dev[i]
Agents == \A m \in Machines : AgentOf(agent[m], m, made)
Rows == \A i \in Ids : RowOf(row[i], i, made, was, Changed) /\ (row[i] # NoRow => dev[i] # None)
Reports == \A m \in Machines : ReportOf(rep[m], m, made, was, Changed)
Installs == \A m \in Machines : InstallOf(inst[m], m, made, was, Changed)
AllCodes == \A c \in Codes : CodeOf(codes[c], imported, was, Changed)
Excused == Changed \cup unpurged
Measured == \A i \in Ids : StoredOf(stored[i], i, imported, was, Excused)

Inv == TypeOK /\ Devices /\ Agents /\ Rows /\ Reports /\ Installs /\ AllCodes /\ Measured

-----------------------------------------------------------------------------
(* What a step leaves alone *)

\* Tokens stay made for what they were made for, and an id names what it named last, or
\* named nothing, or changes hands.
Keeps ==
  /\ \A t, m : MadeFor(t, m, made) => MadeFor(t, m, made')
  /\ Changed \subseteq Changed'
  /\ \A i \in Ids : i \in Changed' \/ was'[i] = was[i] \/ was[i] = None
  /\ \A i \in unpurged : i \in unpurged' \/ stored'[i] = None

LEMMA BelongsStays ==
  ASSUME Keeps, NEW x \in Machines, NEW i \in Ids, Belongs(x, i, was, Changed)
  PROVE  Belongs(x, i, was', Changed')
BY DEF Keeps, Belongs

LEMMA RowStays ==
  ASSUME TypeOK, Keeps, NEW r, NEW i \in Ids, RowOf(r, i, made, was, Changed)
  PROVE  RowOf(r, i, made', was', Changed')
<1> SUFFICES ASSUME r # NoRow, NEW t \in {r.tok, r.pending} \ {0}
             PROVE  i \in Changed' \/ MadeFor(t, was'[i], made')
  BY DEF RowOf
<1>1. i \in Changed \/ MadeFor(t, was[i], made)
  BY DEF RowOf
<1>2. ~MadeFor(t, None, made)
  BY DEF MadeFor, TypeOK
<1> QED
  BY <1>1, <1>2 DEF Keeps

LEMMA ReportStays ==
  ASSUME Keeps, NEW r, NEW m \in Machines, ReportOf(r, m, made, was, Changed)
  PROVE  ReportOf(r, m, made', was', Changed')
BY BelongsStays DEF ReportOf, Keeps

LEMMA InstallStays ==
  ASSUME Keeps, NEW r, NEW m \in Machines, InstallOf(r, m, made, was, Changed)
  PROVE  InstallOf(r, m, made', was', Changed')
BY BelongsStays DEF InstallOf, Keeps

LEMMA CodeStays ==
  ASSUME Keeps, NEW k, CodeOf(k, imported, was, Changed)
  PROVE  CodeOf(k, imported, was', Changed')
BY BelongsStays DEF CodeOf

LEMMA StoredStays ==
  ASSUME Keeps, NEW i \in Ids, stored[i] \in Machines \cup {None}, stored'[i] = stored[i],
         StoredOf(stored[i], i, imported, was, Excused)
  PROVE  StoredOf(stored'[i], i, imported, was', Excused')
BY DEF StoredOf, Excused, Belongs, Keeps

\* A step keeps the invariant if what it changes is sound.
LEMMA Changes1 ==
  ASSUME Inv, TypeOK', Keeps, Devices',
         \A m \in Machines : agent'[m] = agent[m] \/ AgentOf(agent'[m], m, made'),
         \A i \in Ids : row'[i] = row[i] \/ RowOf(row'[i], i, made', was', Changed'),
         \A i \in Ids : row'[i] # NoRow => dev'[i] # None,
         \A m \in Machines : rep'[m] = rep[m] \/ ReportOf(rep'[m], m, made', was', Changed'),
         \A m \in Machines : inst'[m] = inst[m] \/ InstallOf(inst'[m], m, made', was', Changed'),
         \A c \in Codes : \/ codes'[c] = codes[c] /\ imported' = imported
                          \/ CodeOf(codes'[c], imported', was', Changed'),
         \A i \in Ids : \/ stored'[i] = stored[i] /\ imported' = imported
                        \/ StoredOf(stored'[i], i, imported', was', Excused')
  PROVE  Inv'
<1>1. Agents'
  BY DEF Inv, Agents, AgentOf, Keeps
<1>2. Rows'
  BY RowStays DEF Inv, Rows
<1>3. Reports'
  BY ReportStays DEF Inv, Reports
<1>4. Installs'
  BY InstallStays DEF Inv, Installs
<1>5. AllCodes'
  BY CodeStays DEF Inv, AllCodes
<1>6. Measured'
  <2> SUFFICES ASSUME NEW i \in Ids PROVE StoredOf(stored'[i], i, imported', was', Excused')
    BY DEF Measured
  <2>1. stored[i] \in Machines \cup {None} /\ StoredOf(stored[i], i, imported, was, Excused)
    BY DEF Inv, Measured, TypeOK
  <2> QED
    BY <2>1, StoredStays
<1> QED
  BY <1>1, <1>2, <1>3, <1>4, <1>5, <1>6 DEF Inv

\* Nothing made and no id changes.
LEMMA SameKeeps == ASSUME UNCHANGED <<made, late, reused, unpurged, was>>
                  PROVE  Keeps /\ Changed' = Changed /\ Excused' = Excused
BY DEF Keeps, Changed, Excused

LEMMA MoreKeeps ==
  ASSUME UNCHANGED <<made, was>>, late \subseteq late', reused \subseteq reused',
         \A i \in unpurged : i \in unpurged' \/ stored'[i] = None
  PROVE  Keeps
BY DEF Keeps, Changed

\* A token is made.
LEMMA MadeKeeps ==
  ASSUME TypeOK, NEW m \in Machines, Generates(m), UNCHANGED aux
  PROVE  /\ Keeps /\ Changed' = Changed /\ MadeFor(NewToken, m, made')
         /\ made' \in Seq(Machines) /\ Len(made') <= MaxToken /\ NewToken \in Tokens \ {0}
<1>1. made \in Seq(Machines) /\ made' = Append(made, m) /\ Len(made) \in Nat /\ Len(made) < MaxToken
  BY LenProperties DEF TypeOK, Generates
<1>2. /\ made' \in Seq(Machines) /\ Len(made') = Len(made) + 1 /\ made'[Len(made) + 1] = m
      /\ \A t \in 1 .. Len(made) : made'[t] = made[t]
  BY <1>1, AppendProperties
<1> QED
  BY <1>1, <1>2 DEF MadeFor, NewToken, Tokens, Keeps, Changed, aux

\* What the rows that are written are like.
LEMMA RowFacts ==
  /\ NoRow.tok = 0 /\ NoRow.pending = 0 /\ ~NoRow.active /\ NoRow \notin RowStates
  /\ \A t \in Tokens : /\ Row(t) \in RowStates /\ Row(t) # NoRow
                       /\ Row(t).tok = t /\ Row(t).pending = 0
  /\ \A r \in RowStates, f \in Forms : LET q == [r EXCEPT !.form = f] IN
       q \in RowStates /\ q # NoRow /\ q.tok = r.tok /\ q.pending = r.pending
<1>1. 0 \in Tokens
  BY DEF Tokens
<1>2. NoRow.tok = 0 /\ NoRow.pending = 0 /\ ~NoRow.active /\ NoRow \notin RowStates
  BY DEF NoRow, RowStates, Forms
<1>3. \A t \in Tokens : /\ Row(t) \in RowStates /\ Row(t) # NoRow
                        /\ Row(t).tok = t /\ Row(t).pending = 0
  BY <1>1 DEF NoRow, Row, RowStates, Forms
<1>4. \A r \in RowStates, f \in Forms : LET q == [r EXCEPT !.form = f] IN
       q \in RowStates /\ q.tok = r.tok /\ q.pending = r.pending
  BY DEF RowStates
<1> QED
  BY <1>2, <1>3, <1>4

ReportStates == [step : {"idle", "lost", "write", "found"}, tok : Tokens, id : 0 .. MaxId,
                 adopt : BOOLEAN, had : BOOLEAN, kept : BOOLEAN]

LEMMA ReportTypes ==
  /\ TypeOK => rep \in [Machines -> ReportStates]
  /\ NoReport \in ReportStates
  /\ \A s \in {"idle", "lost", "write", "found"}, t \in Tokens, i \in Ids :
       [NoReport EXCEPT !.step = s, !.tok = t, !.id = i] \in ReportStates
<1>1. TypeOK => rep \in [Machines -> ReportStates]
  BY DEF TypeOK, ReportStates
<1>2. 0 \in Tokens /\ 0 \in 0 .. MaxId /\ Ids \subseteq 0 .. MaxId
  BY DEF Tokens, Ids
<1>3. NoReport \in ReportStates
  BY <1>2 DEF ReportStates, NoReport
<1>4. \A s \in {"idle", "lost", "write", "found"}, t \in Tokens, i \in Ids :
        [NoReport EXCEPT !.step = s, !.tok = t, !.id = i] \in ReportStates
  BY <1>2 DEF ReportStates, NoReport
<1> QED
  BY <1>1, <1>3, <1>4

LEMMA DeviceAtIs ==
  ASSUME TypeOK, NEW m \in Machines, DeviceAt(m) # 0 \/ DeviceAt(m) \in Ids
  PROVE  DeviceAt(m) \in Ids /\ dev[DeviceAt(m)] = m
BY DEF DeviceAt, Ids

\* Replaced rows change nothing else of the reports.
LEMMA CutFacts ==
  ASSUME TypeOK, NEW ids
  PROVE  /\ Cut(ids) \in [Machines -> ReportStates]
         /\ \A m \in Machines : /\ Cut(ids)[m].step = rep[m].step /\ Cut(ids)[m].id = rep[m].id
                               /\ Cut(ids)[m].tok = rep[m].tok
<1>1. \A r \in ReportStates : /\ [r EXCEPT !.kept = FALSE] \in ReportStates
                              /\ [r EXCEPT !.kept = FALSE].step = r.step
                              /\ [r EXCEPT !.kept = FALSE].id = r.id
                              /\ [r EXCEPT !.kept = FALSE].tok = r.tok
  BY DEF ReportStates
<1> QED
  BY <1>1, ReportTypes DEF Cut

LEMMA CutReports ==
  ASSUME Inv, Keeps, NEW ids, rep' = Cut(ids), NEW m \in Machines
  PROVE  ReportOf(rep'[m], m, made', was', Changed')
<1>1. ReportOf(rep[m], m, made', was', Changed')
  BY ReportStays DEF Inv, Reports
<1> QED
  BY <1>1, CutFacts DEF ReportOf, Inv

-----------------------------------------------------------------------------
(* A report *)

\* A token belongs to one machine: its row is the device's of the machine that has it.
LEMMA ReportKeeps == ASSUME Inv, NEW m \in Machines, Report(m) PROVE Inv'
<1>1. Keeps /\ Changed' = Changed
  BY SameKeeps DEF Report, aux
<1>2. agent[m].id \in Ids /\ MadeFor(agent[m].tok, m, made) /\ agent[m].tok \in Tokens
  BY DEF Inv, Agents, AgentOf, Report, TypeOK
<1>3. CASE /\ row' = row
           /\ rep' = [rep EXCEPT ![m] = [NoReport EXCEPT !.step = "lost", !.tok = agent[m].tok,
                                                         !.id = agent[m].id]]
  <2>1. TypeOK'
    <3>1. rep' \in [Machines -> ReportStates]
      BY <1>2, <1>3, ReportTypes DEF Inv
    <3> QED
      BY <1>3, <3>1 DEF Inv, TypeOK, Report, ReportStates, aux
  <2>2. ReportOf(rep'[m], m, made', was', Changed')
    BY <1>2, <1>3 DEF ReportOf, NoReport, Report, Inv, TypeOK
  <2>3. \A n \in Machines : rep'[n] = rep[n] \/ n = m
    BY <1>3 DEF Inv, TypeOK
  <2> QED
    BY <1>1, <1>3, <2>1, <2>2, <2>3, Changes1 DEF Report, aux, Inv, Devices, Rows
<1>4. ASSUME NEW i \in Ids, Accepts(row[i], agent[m].tok), row' = [row EXCEPT ![i].form = "tagged"],
             rep' = [rep EXCEPT ![m] = [NoReport EXCEPT !.step = "found", !.tok = agent[m].tok, !.id = i]]
      PROVE  Inv'
  <2>1. row[i] \in RowStates /\ row[i] # NoRow /\ row[i].tok = agent[m].tok /\ agent[m].tok # 0
    BY <1>4, RowFacts DEF Inv, TypeOK, Accepts
  <2>2. /\ row'[i] \in RowStates /\ row'[i] # NoRow
        /\ row'[i].tok = row[i].tok /\ row'[i].pending = row[i].pending
    BY <1>4, <2>1, RowFacts DEF Forms, Inv, TypeOK
  <2>3. TypeOK'
    <3>1. row' \in [Ids -> RowStates \cup {NoRow}]
      BY <1>4, <2>2 DEF Inv, TypeOK
    <3>2. rep' \in [Machines -> ReportStates]
      BY <1>2, <1>4, ReportTypes DEF Inv
    <3> QED
      BY <3>1, <3>2 DEF Inv, TypeOK, Report, ReportStates, aux
  <2>4. RowOf(row[i], i, made, was, Changed)
    BY DEF Inv, Rows
  <2>5. Belongs(m, i, was, Changed)
    BY <1>2, <2>1, <2>4 DEF RowOf, Belongs, MadeFor
  <2>6. ReportOf(rep'[m], m, made', was', Changed')
    BY <1>1, <1>2, <1>4, <2>5 DEF ReportOf, NoReport, Report, Inv, TypeOK, aux
  <2>7. RowOf(row'[i], i, made', was', Changed')
    BY <1>1, <2>1, <2>2, <2>4 DEF RowOf, Report, aux
  <2>8. /\ \A n \in Machines : rep'[n] = rep[n] \/ n = m
        /\ \A k \in Ids : row'[k] = row[k] \/ k = i
    BY <1>4 DEF Inv, TypeOK
  <2>9. \A k \in Ids : row'[k] # NoRow => dev'[k] # None
    BY <2>1, <2>8 DEF Inv, Rows, Report
  <2> QED
    BY <1>1, <2>3, <2>6, <2>7, <2>8, <2>9, Changes1 DEF Report, aux, Inv, Devices
<1> QED
  BY <1>3, <1>4 DEF Report

\* The device at the client's address is the one the report names.
LEMMA ResolveKeeps == ASSUME Inv, NEW m \in Machines, Resolve(m) PROVE Inv'
<1>1. Keeps /\ Changed' = Changed
  BY SameKeeps DEF Resolve, aux
<1>2. rep[m].id \in Ids /\ MadeFor(rep[m].tok, m, made)
  BY DEF Inv, Reports, ReportOf, Resolve
<1>3. TypeOK'
  <2>1. \A r \in ReportStates, b, h \in BOOLEAN :
          [r EXCEPT !.step = "write", !.had = h, !.adopt = b] \in ReportStates
    BY DEF ReportStates
  <2>2. row[rep[m].id] # NoRow => row[rep[m].id].reported \in BOOLEAN
    BY <1>2 DEF Inv, TypeOK, RowStates
  <2>3. row[rep[m].id].reported \in BOOLEAN
    <3>1. NoRow.reported \in BOOLEAN
      BY DEF NoRow
    <3> QED
      BY <2>2, <3>1
  <2>4. rep' \in [Machines -> ReportStates]
    <3>1. CASE Ends(m)
      BY <3>1, ReportTypes DEF Inv, Ends
    <3>2. ASSUME NEW allowed \in BOOLEAN, NEW silent \in BOOLEAN,
                 rep' = [rep EXCEPT ![m].step = "write", ![m].had = HasRow(rep[m].id),
                             ![m].adopt = allowed /\ (silent \/ ~row[rep[m].id].reported)]
          PROVE  rep' \in [Machines -> ReportStates]
      BY <2>1, <2>3, <3>2, ReportTypes DEF Inv, HasRow
    <3> QED
      BY <3>1, <3>2 DEF Resolve
  <2> QED
    BY <2>4 DEF Inv, TypeOK, Resolve, ReportStates, aux
<1>4. ReportOf(rep'[m], m, made', was', Changed')
  <2>1. CASE Ends(m)
    BY <2>1 DEF Ends, ReportOf, NoReport, Inv, TypeOK
  <2>2. CASE DeviceAt(m) = rep[m].id /\ rep'[m].id = rep[m].id /\ rep'[m].tok = rep[m].tok
    <3>1. was[rep[m].id] = m
      BY <1>2, <2>2, DeviceAtIs DEF Inv, Devices
    <3> QED
      BY <1>1, <1>2, <2>2, <3>1 DEF ReportOf, Belongs, Resolve, aux
  <2> QED
    BY <2>1, <2>2 DEF Resolve, Inv, TypeOK
<1>5. \A n \in Machines : rep'[n] = rep[n] \/ n = m
  BY DEF Resolve, Ends, Inv, TypeOK
<1> QED
  BY <1>1, <1>3, <1>4, <1>5, Changes1 DEF Resolve, aux, Inv, Devices, Rows

LEMMA EndsFacts ==
  ASSUME TypeOK, NEW m \in Machines, Ends(m)
  PROVE  /\ rep' \in [Machines -> ReportStates]
         /\ \A n \in Machines : rep'[n] = rep[n] \/ ReportOf(rep'[n], n, made', was', Changed')
<1>1. rep \in [Machines -> ReportStates] /\ NoReport \in ReportStates
  BY ReportTypes
<1>2. NoReport.step = "idle"
  BY DEF NoReport
<1> QED
  BY <1>1, <1>2 DEF Ends, ReportOf

\* What a report leaves in a row: an accepted token, a pending one, or none.
LEMMA PendingFacts ==
  ASSUME NEW r \in RowStates \cup {NoRow}, NEW t \in Tokens
  PROVE  Pending(r, t) \in RowStates /\ Pending(r, t).tok = r.tok /\ Pending(r, t).pending = t
<1>1. 0 \in Tokens
  BY DEF Tokens
<1>2. CASE r = NoRow
  BY <1>1, <1>2 DEF Pending, NoRow, RowStates, Forms
<1>3. CASE r # NoRow
  <2>1. r \in RowStates /\ Pending(r, t) = [r EXCEPT !.pending = t, !.form = @]
    BY <1>3 DEF Pending
  <2> QED
    BY <2>1 DEF RowStates
<1> QED
  BY <1>2, <1>3

Accepted(t, b) == [Row(t) EXCEPT !.reported = b]
Heard(r) == [r EXCEPT !.reported = TRUE, !.pending = 0]

LEMMA AcceptedFacts ==
  /\ \A t \in Tokens, b \in BOOLEAN :
       Accepted(t, b) \in RowStates /\ Accepted(t, b).tok = t /\ Accepted(t, b).pending = 0
  /\ \A r \in RowStates : Heard(r) \in RowStates /\ Heard(r).tok = r.tok /\ Heard(r).pending = 0
  /\ \A r \in RowStates \cup {NoRow} : r.reported \in BOOLEAN
<1>1. 0 \in Tokens
  BY DEF Tokens
<1>2. \A t \in Tokens, b \in BOOLEAN :
        Accepted(t, b) \in RowStates /\ Accepted(t, b).tok = t /\ Accepted(t, b).pending = 0
  BY <1>1 DEF Accepted, Row, NoRow, RowStates, Forms
<1>3. \A r \in RowStates : Heard(r) \in RowStates /\ Heard(r).tok = r.tok /\ Heard(r).pending = 0
  BY <1>1 DEF Heard, RowStates
<1>4. \A r \in RowStates \cup {NoRow} : r.reported \in BOOLEAN
  <2>1. NoRow.reported \in BOOLEAN
    BY DEF NoRow
  <2>2. \A q \in RowStates : q.reported \in BOOLEAN
    BY DEF RowStates
  <2> QED
    BY <2>1, <2>2
<1> QED
  BY <1>2, <1>3, <1>4

LEMMA ResolvedKeeps == ASSUME Inv, NEW m \in Machines, Resolved(m) PROVE Inv'
<1> DEFINE i == rep[m].id
           t == rep[m].tok
<1>1. Keeps /\ Changed' = Changed
  BY SameKeeps DEF Resolved, aux
<1>2. /\ i \in Ids /\ MadeFor(t, m, made) /\ Belongs(m, i, was, Changed) /\ t \in Tokens
      /\ row[i] \in RowStates \cup {NoRow} /\ RowOf(row[i], i, made, was, Changed)
  BY DEF Inv, Reports, ReportOf, Rows, Resolved, TypeOK
<1>3. CASE row' = row /\ Ends(m)
  <2>1. TypeOK'
    BY <1>3, EndsFacts DEF Inv, TypeOK, Resolved, ReportStates, aux
  <2> QED
    BY <1>1, <1>3, <2>1, EndsFacts, Changes1 DEF Resolved, aux, Inv, Devices, Rows
<1>4. CASE /\ dev[i] # None /\ row' = [row EXCEPT ![i] = [Row(t) EXCEPT !.reported = row[i].reported]]
           /\ rep' = [rep EXCEPT ![m] = [NoReport EXCEPT !.step = "found", !.tok = t, !.id = i]]
  <2>2. row'[i] = Accepted(t, row[i].reported)
    BY <1>2, <1>4 DEF Inv, TypeOK, Accepted
  <2>3. row'[i] \in RowStates /\ row'[i].tok = t /\ row'[i].pending = 0
    BY <1>2, <2>2, AcceptedFacts
  <2>4. TypeOK'
    <3>1. row' \in [Ids -> RowStates \cup {NoRow}]
      BY <1>4, <2>3 DEF Inv, TypeOK
    <3>2. rep' \in [Machines -> ReportStates]
      BY <1>2, <1>4, ReportTypes DEF Inv
    <3> QED
      BY <3>1, <3>2 DEF Inv, TypeOK, Resolved, ReportStates, aux
  <2>5. RowOf(row'[i], i, made', was', Changed')
    BY <1>1, <1>2, <2>3 DEF RowOf, Belongs, Resolved, aux
  <2>6. rep'[m].step = "found" /\ rep'[m].tok = t /\ rep'[m].id = i
    BY <1>4, ReportTypes DEF Inv, NoReport
  <2>7. ReportOf(rep'[m], m, made', was', Changed')
    BY <1>1, <1>2, <2>6 DEF ReportOf, Resolved, aux
  <2>8. /\ \A n \in Machines : rep'[n] = rep[n] \/ n = m
        /\ \A k \in Ids : row'[k] = row[k] \/ k = i
    BY <1>4 DEF Inv, TypeOK
  <2>9. \A k \in Ids : row'[k] # NoRow => dev'[k] # None
    BY <1>4, <2>8 DEF Inv, Rows, Resolved
  <2> QED
    BY <1>1, <2>4, <2>5, <2>7, <2>8, <2>9, Changes1 DEF Resolved, aux, Inv, Devices
<1>5. CASE dev[i] # None /\ row' = [row EXCEPT ![i] = Pending(@, t)] /\ Ends(m)
  <2>1. row'[i] = Pending(row[i], t)
    BY <1>2, <1>5 DEF Inv, TypeOK
  <2>2. row'[i] \in RowStates /\ row'[i].tok = row[i].tok /\ row'[i].pending = t
    BY <1>2, <2>1, PendingFacts
  <2>3. TypeOK'
    <3>1. row' \in [Ids -> RowStates \cup {NoRow}]
      BY <1>5, <2>2 DEF Inv, TypeOK
    <3> QED
      BY <1>5, <3>1, EndsFacts DEF Inv, TypeOK, Resolved, ReportStates, aux
  <2>4. RowOf(row'[i], i, made', was', Changed')
    <3>1. row[i] = NoRow => row'[i].tok = 0
      BY <2>2, RowFacts
    <3> QED
      BY <1>1, <1>2, <2>2, <3>1 DEF RowOf, Belongs, Resolved, aux
  <2>5. \A k \in Ids : row'[k] = row[k] \/ k = i
    BY <1>5 DEF Inv, TypeOK
  <2>6. \A k \in Ids : row'[k] # NoRow => dev'[k] # None
    BY <1>5, <2>5 DEF Inv, Rows, Resolved
  <2> QED
    BY <1>1, <1>5, <2>3, <2>4, <2>5, <2>6, EndsFacts, Changes1 DEF Resolved, aux, Inv, Devices
<1> QED
  BY <1>3, <1>4, <1>5 DEF Resolved

\* The device a measurement is stored under is that of the machine that sent it.
LEMMA PersistKeeps == ASSUME Inv, NEW m \in Machines, Persist(m) PROVE Inv'
<1> DEFINE i == rep[m].id
           j == IF dev[i] # None THEN i ELSE DeviceAt(m)
<1>1. Keeps /\ Changed' = Changed /\ Excused' = Excused
  BY SameKeeps DEF Persist, aux
<1>2. /\ i \in Ids /\ Belongs(m, i, was, Changed)
      /\ row[i] \in RowStates \cup {NoRow} /\ RowOf(row[i], i, made, was, Changed)
  BY DEF Inv, Reports, ReportOf, Rows, Persist, TypeOK
<1>3. /\ \A k \in Ids : stored'[k] = stored[k] \/ StoredOf(stored'[k], k, imported', was', Excused')
      /\ stored' \in [Ids -> Machines \cup {None}]
  <2>1. CASE stored' = stored
    BY <2>1 DEF Inv, TypeOK
  <2>2. CASE j # 0 /\ stored' = [stored EXCEPT ![j] = m]
    <3>1. j \in Ids /\ Belongs(m, j, was, Changed)
      BY <1>2, <2>2, DeviceAtIs DEF Inv, Devices, Belongs
    <3> QED
      BY <1>1, <2>2, <3>1 DEF StoredOf, Belongs, Excused, Persist, aux, Inv, TypeOK
  <2> QED
    BY <2>1, <2>2 DEF Persist
<1>4. /\ row' \in [Ids -> RowStates \cup {NoRow}]
      /\ \A k \in Ids : row'[k] = row[k] \/ RowOf(row'[k], k, made', was', Changed')
      /\ \A k \in Ids : row'[k] # NoRow => row[k] # NoRow
  <2>1. CASE row' = row
    BY <2>1 DEF Inv, TypeOK
  <2>2. CASE HasRow(i) /\ row' = [row EXCEPT ![i].reported = TRUE, ![i].pending = 0]
    <3>1. row'[i] = Heard(row[i])
      BY <1>2, <2>2 DEF Inv, TypeOK, Heard
    <3>2. row[i] # NoRow /\ 0 \in Tokens
      BY <2>2 DEF HasRow, Tokens
    <3>3. row'[i] \in RowStates /\ row'[i].tok = row[i].tok /\ row'[i].pending = 0
      BY <1>2, <3>1, <3>2, AcceptedFacts
    <3>4. RowOf(row'[i], i, made', was', Changed')
      BY <1>1, <1>2, <3>2, <3>3 DEF RowOf, Persist, aux
    <3>5. \A k \in Ids : row'[k] = row[k] \/ k = i
      BY <2>2 DEF Inv, TypeOK
    <3> QED
      BY <2>2, <3>2, <3>3, <3>4, <3>5 DEF Inv, TypeOK
  <2> QED
    BY <2>1, <2>2 DEF Persist
<1>5. TypeOK'
  BY <1>3, <1>4, EndsFacts DEF Inv, TypeOK, Persist, ReportStates, aux
<1>6. \A k \in Ids : row'[k] # NoRow => dev'[k] # None
  <2>1. \A k \in Ids : row[k] # NoRow => dev[k] # None
    BY DEF Inv, Rows
  <2> QED
    BY <1>4, <2>1 DEF Persist
<1>7. Devices' /\ UNCHANGED <<agent, codes, inst, imported>>
  BY DEF Persist, aux, Inv, Devices
<1>8. \A n \in Machines : rep'[n] = rep[n] \/ ReportOf(rep'[n], n, made', was', Changed')
  BY EndsFacts DEF Persist, Inv
<1>9. \A k \in Ids : row'[k] = row[k] \/ RowOf(row'[k], k, made', was', Changed')
  BY <1>4
<1> QED
  BY <1>1, <1>3, <1>5, <1>6, <1>7, <1>8, <1>9, Changes1

LEMMA AdoptKeeps == ASSUME Inv, NEW i \in Ids, Adopt(i) PROVE Inv'
<1> DEFINE t == row[i].pending
<1>1. Keeps /\ Changed' = Changed
  BY SameKeeps DEF Adopt, aux
<1>2. row[i] # NoRow /\ row[i] \in RowStates /\ t \in Tokens /\ RowOf(row[i], i, made, was, Changed)
  <2>1. row[i] # NoRow
    BY RowFacts DEF Adopt
  <2>2. row[i] \in RowStates
    BY <2>1 DEF Inv, TypeOK
  <2> QED
    BY <2>1, <2>2 DEF Inv, Rows, RowStates
<1>3. row'[i] = Accepted(t, row[i].reported)
  BY DEF Adopt, Inv, TypeOK, Accepted
<1>4. row'[i] \in RowStates /\ row'[i].tok = t /\ row'[i].pending = 0
  BY <1>2, <1>3, AcceptedFacts
<1>5. TypeOK'
  BY <1>4 DEF Adopt, Inv, TypeOK, aux
<1>6. RowOf(row'[i], i, made', was', Changed')
  BY <1>1, <1>2, <1>4 DEF RowOf, Adopt, aux
<1>7. \A k \in Ids : row'[k] = row[k] \/ k = i
  BY DEF Adopt, Inv, TypeOK
<1>8. \A k \in Ids : row'[k] # NoRow => dev'[k] # None
  BY <1>2, <1>7 DEF Adopt, Inv, Rows
<1> QED
  BY <1>1, <1>5, <1>6, <1>7, <1>8, Changes1 DEF Adopt, aux, Inv, Devices

-----------------------------------------------------------------------------
(* Installing an agent *)

LEMMA CreateCodeKeeps == ASSUME Inv, NEW c \in Codes, NEW i \in Ids, CreateCode(c, i) PROVE Inv'
<1>1. Keeps /\ Changed' = Changed
  BY SameKeeps DEF CreateCode, aux
<1>2. dev[i] \in Machines /\ was[i] = dev[i] /\ i \in 0 .. MaxId
  BY DEF CreateCode, Inv, TypeOK, Devices, Ids
<1>3. codes'[c].id = i /\ codes'[c].for = dev[i] /\ TypeOK'
  BY <1>2 DEF CreateCode, Inv, TypeOK, aux
<1>4. CodeOf(codes'[c], imported', was', Changed')
  BY <1>1, <1>2, <1>3 DEF CodeOf, Belongs, CreateCode, aux
<1>5. \A d \in Codes : codes'[d] = codes[d] \/ d = c
  BY DEF CreateCode, Inv, TypeOK
<1> QED
  BY <1>1, <1>3, <1>4, <1>5, Changes1 DEF CreateCode, aux, Inv, Devices, Rows

LEMMA NoCodeFacts ==
  /\ NoCode \in [id : 0 .. MaxId, for : Machines \cup {None}]
  /\ \A p, w, s : CodeOf(NoCode, p, w, s)
BY DEF NoCode, CodeOf

LEMMA CodeExpiresKeeps == ASSUME Inv, NEW c \in Codes, CodeExpires(c) PROVE Inv'
<1>1. Keeps /\ Changed' = Changed
  BY SameKeeps DEF CodeExpires, aux
<1>2. TypeOK' /\ \A d \in Codes : codes'[d] = codes[d] \/ codes'[d] = NoCode
  BY NoCodeFacts DEF CodeExpires, Inv, TypeOK, aux
<1> QED
  BY <1>1, <1>2, NoCodeFacts, Changes1 DEF CodeExpires, aux, Inv, Devices, Rows

\* A code of an id an import has yet to revoke is redeemed in vain or late.
LEMMA RedeemKeeps == ASSUME Inv, NEW c \in Codes, Redeem(c) PROVE Inv'
<1> DEFINE m == codes[c].for
           i == codes[c].id
<1>1. Keeps
  BY MoreKeeps DEF Redeem
<1>2. i \in Ids /\ m \in Machines /\ (Belongs(m, i, was, Changed) \/ i \in imported.ids)
  BY DEF Inv, AllCodes, CodeOf, Redeem
<1>3. Belongs(m, i, was', Changed')
  BY <1>2 DEF Belongs, Redeem, Changed
<1>4. inst'[m] = [step |-> "config", tok |-> 0, id |-> i]
  BY <1>2 DEF Redeem, Inv, TypeOK
<1>5. InstallOf(inst'[m], m, made', was', Changed')
  BY <1>2, <1>3, <1>4 DEF InstallOf
<1>6. 0 \in Tokens /\ i \in 0 .. MaxId
  BY <1>2 DEF Tokens, Ids
<1>7. TypeOK'
  BY <1>2, <1>6, NoCodeFacts DEF Redeem, Inv, TypeOK
<1>8. /\ \A n \in Machines : inst'[n] = inst[n] \/ n = m
      /\ \A d \in Codes : codes'[d] = codes[d] \/ codes'[d] = NoCode
  BY DEF Redeem, Inv, TypeOK
<1> QED
  BY <1>1, <1>5, <1>7, <1>8, NoCodeFacts, Changes1 DEF Redeem, Inv, Devices, Rows

LEMMA NoInstallFacts ==
  /\ NoInstall \in [step : {"idle", "config", "deployed"}, tok : Tokens, id : 0 .. MaxId]
  /\ \A m, s, w, c : InstallOf(NoInstall, m, s, w, c)
BY DEF NoInstall, InstallOf, Tokens

\* A token that is made for the machine a device is.
LEMMA NewRow ==
  ASSUME Inv, NEW i \in Ids, NEW t \in Tokens, NEW m \in Machines, dev[i] # None,
         Belongs(m, i, was', Changed'), MadeFor(t, m, made'), row' = [row EXCEPT ![i] = Row(t)], dev' = dev
  PROVE  /\ row' \in [Ids -> RowStates \cup {NoRow}]
         /\ \A k \in Ids : row'[k] = row[k] \/ RowOf(row'[k], k, made', was', Changed')
         /\ \A k \in Ids : row'[k] # NoRow => dev'[k] # None
<1>1. row'[i] = Row(t) /\ \A k \in Ids : row'[k] = row[k] \/ k = i
  BY DEF Inv, TypeOK
<1>2. row' \in [Ids -> RowStates \cup {NoRow}]
  BY RowFacts DEF Inv, TypeOK
<1>3. RowOf(row'[i], i, made', was', Changed')
  BY <1>1, RowFacts DEF RowOf, Belongs
<1>4. \A k \in Ids : row[k] # NoRow => dev[k] # None
  BY DEF Inv, Rows
<1> QED
  BY <1>1, <1>2, <1>3, <1>4

LEMMA NewAgent ==
  ASSUME TypeOK, NEW m \in Machines, NEW i \in Ids, NEW t \in Tokens, MadeFor(t, m, made'),
         agent' = [agent EXCEPT ![m] = [tok |-> t, id |-> i]]
  PROVE  /\ agent' \in [Machines -> [tok : Tokens, id : 0 .. MaxId]]
         /\ \A n \in Machines : agent'[n] = agent[n] \/ AgentOf(agent'[n], n, made')
<1>1. i \in 0 .. MaxId /\ agent'[m] = [tok |-> t, id |-> i]
  BY DEF TypeOK, Ids
<1>2. agent' \in [Machines -> [tok : Tokens, id : 0 .. MaxId]]
  BY <1>1 DEF TypeOK
<1>3. AgentOf(agent'[m], m, made')
  BY <1>1 DEF AgentOf
<1>4. \A n \in Machines : agent'[n] = agent[n] \/ n = m
  BY DEF TypeOK
<1> QED
  BY <1>2, <1>3, <1>4

LEMMA DownloadKeeps == ASSUME Inv, NEW m \in Machines, Download(m) PROVE Inv'
<1> DEFINE i == inst[m].id
           t == NewToken
<1>1. i \in Ids /\ Belongs(m, i, was, Changed)
  BY DEF Inv, Installs, InstallOf, Download
<1>2. /\ inst' \in [Machines -> [step : {"idle", "config", "deployed"}, tok : Tokens, id : 0 .. MaxId]]
      /\ \A n \in Machines : inst'[n] = inst[n] \/ inst'[n] = NoInstall
  BY NoInstallFacts DEF Download, Inv, TypeOK
<1>3. CASE UNCHANGED <<row, agent, made>>
  <2>1. Keeps /\ Changed' = Changed
    BY <1>3, SameKeeps DEF Download, aux
  <2>2. TypeOK'
    BY <1>2, <1>3 DEF Download, Inv, TypeOK, aux
  <2> QED
    BY <1>2, <1>3, <2>1, <2>2, NoInstallFacts, Changes1 DEF Download, aux, Inv, Devices, Rows
<1>4. CASE /\ dev[i] # None /\ Generates(m) /\ row' = [row EXCEPT ![i] = Row(t)]
           /\ agent' \in {agent, [agent EXCEPT ![m] = [tok |-> t, id |-> i]]}
  <2>1. /\ Keeps /\ Changed' = Changed /\ MadeFor(t, m, made')
        /\ made' \in Seq(Machines) /\ Len(made') <= MaxToken /\ t \in Tokens
    BY <1>4, MadeKeeps DEF Inv, Download
  <2>2. Belongs(m, i, was', Changed')
    BY <1>1, <2>1 DEF Download, aux
  <2>3. /\ row' \in [Ids -> RowStates \cup {NoRow}]
        /\ \A k \in Ids : row'[k] = row[k] \/ RowOf(row'[k], k, made', was', Changed')
        /\ \A k \in Ids : row'[k] # NoRow => dev'[k] # None
    BY <1>1, <1>4, <2>1, <2>2, NewRow DEF Download
  <2>4. /\ agent' \in [Machines -> [tok : Tokens, id : 0 .. MaxId]]
        /\ \A n \in Machines : agent'[n] = agent[n] \/ AgentOf(agent'[n], n, made')
    <3>1. CASE agent' = agent
      BY <3>1 DEF Inv, TypeOK
    <3>2. CASE agent' = [agent EXCEPT ![m] = [tok |-> t, id |-> i]]
      BY <1>1, <2>1, <3>2, NewAgent DEF Inv
    <3> QED
      BY <1>4, <3>1, <3>2
  <2>5. TypeOK'
    BY <1>2, <2>1, <2>3, <2>4 DEF Download, Inv, TypeOK, aux
  <2>6. Devices' /\ UNCHANGED <<rep, codes, stored, imported>>
    BY DEF Download, Inv, Devices, aux
  <2> QED
    BY <1>2, <2>1, <2>3, <2>4, <2>5, <2>6, NoInstallFacts, Changes1
<1> QED
  BY <1>3, <1>4 DEF Download

LEMMA DeployKeeps == ASSUME Inv, NEW m \in Machines, Deploy(m) PROVE Inv'
<1> DEFINE i == DeviceAt(m)
           t == NewToken
<1>1. i \in Ids /\ dev[i] = m /\ was[i] = m
  <2>1. i \in Ids /\ dev[i] = m
    BY DeviceAtIs DEF Deploy, Inv
  <2> QED
    BY <2>1 DEF Inv, Devices
<1>2. /\ Keeps /\ Changed' = Changed /\ MadeFor(t, m, made')
      /\ made' \in Seq(Machines) /\ Len(made') <= MaxToken /\ t \in Tokens
  BY MadeKeeps DEF Inv, Deploy
<1>3. /\ agent' \in [Machines -> [tok : Tokens, id : 0 .. MaxId]]
      /\ \A n \in Machines : agent'[n] = agent[n] \/ AgentOf(agent'[n], n, made')
  BY <1>1, <1>2, NewAgent DEF Deploy, Inv
<1>4. inst'[m] = [step |-> "deployed", tok |-> t, id |-> i] /\ i \in 0 .. MaxId
  BY <1>1 DEF Deploy, Inv, TypeOK, Ids
<1>5. InstallOf(inst'[m], m, made', was', Changed')
  BY <1>1, <1>2, <1>4 DEF InstallOf, Belongs, Deploy, aux
<1>6. /\ \A n \in Machines : inst'[n] = inst[n] \/ n = m
      /\ inst' \in [Machines -> [step : {"idle", "config", "deployed"}, tok : Tokens, id : 0 .. MaxId]]
  BY <1>2, <1>4 DEF Deploy, Inv, TypeOK
<1>7. TypeOK'
  BY <1>2, <1>3, <1>6 DEF Deploy, Inv, TypeOK, aux
<1>8. Devices' /\ \A k \in Ids : row'[k] # NoRow => dev'[k] # None
  BY DEF Deploy, Inv, Devices, Rows, aux
<1>9. UNCHANGED <<row, rep, codes, stored, imported>>
  BY DEF Deploy
<1> QED
  BY <1>2, <1>3, <1>5, <1>6, <1>7, <1>8, <1>9, Changes1

LEMMA DeployedKeeps == ASSUME Inv, NEW m \in Machines, Deployed(m) PROVE Inv'
<1> DEFINE i == inst[m].id
           t == inst[m].tok
<1>1. Keeps /\ Changed' = Changed
  BY SameKeeps DEF Deployed, aux
<1>2. i \in Ids /\ Belongs(m, i, was', Changed') /\ MadeFor(t, m, made') /\ t \in Tokens
  BY <1>1 DEF Inv, Installs, InstallOf, Deployed, TypeOK, aux
<1>3. /\ inst' \in [Machines -> [step : {"idle", "config", "deployed"}, tok : Tokens, id : 0 .. MaxId]]
      /\ \A n \in Machines : inst'[n] = inst[n] \/ inst'[n] = NoInstall
  BY NoInstallFacts DEF Deployed, Inv, TypeOK
<1>4. /\ row' \in [Ids -> RowStates \cup {NoRow}]
      /\ \A k \in Ids : row'[k] = row[k] \/ RowOf(row'[k], k, made', was', Changed')
      /\ \A k \in Ids : row'[k] # NoRow => dev'[k] # None
  <2>1. CASE row' = row
    BY <2>1 DEF Inv, TypeOK, Rows, Deployed
  <2>2. CASE dev[i] # None /\ row' = [row EXCEPT ![i] = Row(t)]
    BY <1>2, <2>2, NewRow DEF Deployed
  <2> QED
    BY <2>1, <2>2 DEF Deployed
<1>5. /\ rep' \in [Machines -> ReportStates]
      /\ \A n \in Machines : rep'[n] = rep[n] \/ ReportOf(rep'[n], n, made', was', Changed')
  <2>1. CASE rep' = rep
    BY <2>1, ReportTypes DEF Inv
  <2>2. CASE rep' = Cut({i})
    BY <1>1, <2>2, CutFacts, CutReports DEF Inv
  <2> QED
    BY <2>1, <2>2 DEF Deployed
<1>6. TypeOK'
  BY <1>3, <1>4, <1>5 DEF Deployed, Inv, TypeOK, ReportStates, aux
<1>7. Devices' /\ UNCHANGED <<agent, codes, stored, imported>>
  BY DEF Deployed, Inv, Devices, aux
<1> QED
  BY <1>1, <1>3, <1>4, <1>5, <1>6, <1>7, NoInstallFacts, Changes1

LEMMA UninstallKeeps == ASSUME Inv, NEW m \in Machines, Uninstall(m) PROVE Inv'
<1> DEFINE i == DeviceAt(m)
<1>1. Keeps /\ Changed' = Changed
  BY SameKeeps DEF Uninstall, aux
<1>2. i \in Ids /\ row' = [row EXCEPT ![i] = NoRow]
  BY DeviceAtIs DEF Uninstall, Inv
<1>3. /\ row' \in [Ids -> RowStates \cup {NoRow}]
      /\ \A k \in Ids : row'[k] = row[k] \/ row'[k] = NoRow
  BY <1>2 DEF Inv, TypeOK
<1>4. /\ \A k \in Ids : row'[k] = row[k] \/ RowOf(row'[k], k, made', was', Changed')
      /\ \A k \in Ids : row'[k] # NoRow => dev'[k] # None
  BY <1>3 DEF RowOf, Inv, Rows, Uninstall
<1>5. /\ rep' \in [Machines -> ReportStates]
      /\ \A n \in Machines : rep'[n] = rep[n] \/ ReportOf(rep'[n], n, made', was', Changed')
  BY <1>1, CutFacts, CutReports DEF Inv, Uninstall
<1>6. /\ agent' \in [Machines -> [tok : Tokens, id : 0 .. MaxId]]
      /\ \A n \in Machines : agent'[n] = agent[n] \/ AgentOf(agent'[n], n, made')
  BY DEF Uninstall, Inv, TypeOK, NoAgent, Tokens, AgentOf
<1>7. TypeOK'
  BY <1>3, <1>5, <1>6 DEF Uninstall, Inv, TypeOK, ReportStates, aux
<1>8. Devices' /\ UNCHANGED <<inst, codes, stored, imported>>
  BY DEF Uninstall, Inv, Devices, aux
<1> QED
  BY <1>1, <1>4, <1>5, <1>6, <1>7, <1>8, Changes1

-----------------------------------------------------------------------------
(* Devices come, go and change their ids *)

LEMMA DropFacts ==
  ASSUME Inv, NEW gone, row' = DropsTokens(gone)
  PROVE  /\ row' \in [Ids -> RowStates \cup {NoRow}]
         /\ \A k \in Ids : row'[k] = IF k \in gone THEN NoRow ELSE row[k]
         /\ \A k \in Ids : row'[k] = row[k] \/ RowOf(row'[k], k, made', was', Changed')
         /\ \A k \in Ids : row'[k] # NoRow => k \notin gone /\ dev[k] # None
BY DEF DropsTokens, RowOf, Inv, TypeOK, Rows

LEMMA DeleteDeviceKeeps == ASSUME Inv, NEW i \in Ids, DeleteDevice(i) PROVE Inv'
<1>1. Keeps
  <2>1. late \subseteq late'
    BY DEF DeleteDevice
  <2>2. \A k \in unpurged : k \in unpurged' \/ stored'[k] = None
    BY DEF DeleteDevice, Inv, TypeOK
  <2> QED
    BY <2>1, <2>2, MoreKeeps DEF DeleteDevice
<1>2. /\ dev' \in [Ids -> Machines \cup {None}] /\ stored' \in [Ids -> Machines \cup {None}]
      /\ \A k \in Ids : dev'[k] = IF k = i THEN None ELSE dev[k]
      /\ \A k \in Ids : stored'[k] = IF k = i THEN None ELSE stored[k]
  BY DEF DeleteDevice, Inv, TypeOK
<1>3. /\ row' \in [Ids -> RowStates \cup {NoRow}]
      /\ \A k \in Ids : row'[k] = row[k] \/ RowOf(row'[k], k, made', was', Changed')
      /\ \A k \in Ids : row'[k] # NoRow => k # i /\ dev[k] # None
  BY DropFacts DEF DeleteDevice
<1>4. /\ rep' \in [Machines -> ReportStates]
      /\ \A n \in Machines : rep'[n] = rep[n] \/ ReportOf(rep'[n], n, made', was', Changed')
  BY <1>1, CutFacts, CutReports DEF Inv, DeleteDevice
<1>5. late' \subseteq Ids /\ unpurged' \subseteq Ids /\ changes' \in 0 .. MaxChanges
  BY DEF DeleteDevice, Changes, Inv, TypeOK
<1>6. TypeOK'
  BY <1>2, <1>3, <1>4, <1>5 DEF DeleteDevice, Inv, TypeOK, ReportStates
<1>7. Devices' /\ \A k \in Ids : row'[k] # NoRow => dev'[k] # None
  BY <1>2, <1>3 DEF DeleteDevice, Inv, Devices
<1>8. \A k \in Ids : stored'[k] = stored[k] \/ StoredOf(stored'[k], k, imported', was', Excused')
  BY <1>2 DEF StoredOf
<1>9. UNCHANGED <<agent, inst, codes, imported>>
  BY DEF DeleteDevice
<1> QED
  BY <1>1, <1>3, <1>4, <1>6, <1>7, <1>8, <1>9, Changes1

\* A number that is given for the first time names nothing yet.
LEMMA AddDeviceKeeps == ASSUME Inv, NEW m \in Machines, NEW i \in Ids, AddDevice(m, i) PROVE Inv'
<1>1. dev[i] = None
  BY DEF AddDevice, IsNextId, Ids
<1>2. /\ dev' \in [Ids -> Machines \cup {None}] /\ was' \in [Ids -> Machines \cup {None}]
      /\ \A k \in Ids : dev'[k] = IF k = i THEN m ELSE dev[k]
      /\ \A k \in Ids : was'[k] = IF k = i THEN m ELSE was[k]
      /\ reused \subseteq reused' /\ reused' \subseteq Ids /\ (was[i] \in {None, m} \/ i \in reused')
  BY DEF AddDevice, Inv, TypeOK
<1>3. Keeps
  BY <1>2 DEF Keeps, Changed, AddDevice
<1>4. TypeOK' /\ Devices'
  BY <1>2 DEF AddDevice, Inv, TypeOK, Devices
<1>5. \A k \in Ids : row'[k] # NoRow => dev'[k] # None
  <2>1. \A k \in Ids : row[k] # NoRow => dev[k] # None
    BY DEF Inv, Rows
  <2> QED
    BY <1>1, <1>2, <2>1 DEF AddDevice
<1>6. UNCHANGED <<agent, row, rep, inst, codes, stored, imported>>
  BY DEF AddDevice
<1> QED
  BY <1>3, <1>4, <1>5, <1>6, Changes1

\* What was to be done for the ids is done: their codes are gone ...
LEMMA RevokeKeeps == ASSUME Inv, Revoke PROVE Inv'
<1>1. Keeps /\ Changed' = Changed /\ Excused' = Excused
  BY SameKeeps DEF Revoke, aux
<1>2. imported' = [phase |-> "purge", ids |-> imported.ids] /\ imported.ids \subseteq Ids
  BY DEF Revoke, Inv, TypeOK
<1>3. \A c \in Codes : codes'[c] = IF codes[c].id \in imported.ids THEN NoCode ELSE codes[c]
  BY DEF Revoke, Revokes
<1>4. TypeOK'
  BY <1>2, <1>3, NoCodeFacts DEF Revoke, Revokes, Inv, TypeOK, aux
<1>5. \A c \in Codes : CodeOf(codes'[c], imported', was', Changed')
  BY <1>1, <1>2, <1>3, NoCodeFacts DEF CodeOf, Inv, AllCodes, Revoke, aux
<1>6. \A i \in Ids : StoredOf(stored'[i], i, imported', was', Excused')
  BY <1>1, <1>2 DEF StoredOf, Inv, Measured, Revoke, aux
<1> QED
  BY <1>1, <1>4, <1>5, <1>6, Changes1 DEF Revoke, aux, Inv, Devices, Rows

\* ... and so are their measurements, or they are among those that could not be deleted.
LEMMA PurgeKeeps == ASSUME Inv, PurgeImported PROVE Inv'
<1>1. PICK left \in SUBSET {i \in imported.ids : stored[i] # None} :
        /\ stored' = [i \in Ids |-> IF i \in imported.ids \ left THEN None ELSE stored[i]]
        /\ unpurged' = (unpurged \ imported.ids) \cup left
  BY DEF PurgeImported
<1>2. NoImport \in [phase : {"none", "revoke", "purge"}, ids : SUBSET Ids] /\ NoImport.ids = {}
  BY DEF NoImport
<1>3. /\ \A i \in Ids : stored'[i] = IF i \in imported.ids \ left THEN None ELSE stored[i]
      /\ imported.ids \subseteq Ids /\ unpurged' \subseteq Ids
      /\ stored' \in [Ids -> Machines \cup {None}]
  BY <1>1 DEF Inv, TypeOK
<1>4. /\ Changed' = Changed /\ was' = was
      /\ \A i \in unpurged : i \in unpurged' \/ stored'[i] = None
  BY <1>1, <1>3 DEF PurgeImported, Changed, Inv, TypeOK
<1>5. Keeps
  BY <1>4, MoreKeeps DEF PurgeImported
<1>6. TypeOK'
  BY <1>2, <1>3 DEF PurgeImported, Inv, TypeOK
<1>7. \A c \in Codes : CodeOf(codes'[c], imported', was', Changed')
  BY <1>4 DEF CodeOf, Inv, AllCodes, PurgeImported
<1>8. ASSUME NEW i \in Ids PROVE StoredOf(stored'[i], i, imported', was', Excused')
  <2>1. CASE i \in left
    BY <1>1, <2>1 DEF StoredOf, Belongs, Excused
  <2>2. CASE i \in imported.ids \ left
    BY <1>3, <2>2 DEF StoredOf
  <2>3. CASE i \notin imported.ids
    <3>1. stored'[i] = stored[i] /\ StoredOf(stored[i], i, imported, was, Excused)
      BY <1>3, <2>3 DEF Inv, Measured
    <3>2. i \in Excused => i \in Excused'
      BY <1>1, <1>4, <2>3 DEF Excused
    <3> QED
      BY <1>4, <2>3, <3>1, <3>2 DEF StoredOf, Belongs
  <2> QED
    BY <2>1, <2>2, <2>3
<1> QED
  BY <1>5, <1>6, <1>7, <1>8, Changes1 DEF PurgeImported, Inv, Devices, Rows

\* An id that an import gives to another machine is left to Revoke and PurgeImported; a
\* request under way makes it one of those that changed hands under a request.
LEMMA ImportKeeps == ASSUME Inv, NEW new \in Imports, Import(new) PROVE Inv'
<1> DEFINE ids == {i \in Ids : dev[i] # None /\ new[i] # dev[i]}
<1>1. /\ new \in [Ids -> Machines \cup {None}] /\ dev' = new
      /\ imported = NoImport /\ imported' = [phase |-> "revoke", ids |-> ids]
  BY DEF Import, Imports
<1>2. /\ was' \in [Ids -> Machines \cup {None}]
      /\ \A k \in Ids : was'[k] = IF new[k] = None THEN was[k] ELSE new[k]
  BY <1>1 DEF Import, Inv, TypeOK
<1>3. /\ Changed \subseteq Changed' /\ late' \subseteq Ids /\ reused' \subseteq Ids
      /\ \A k \in ids : OnTheWay(k) => k \in Changed'
      /\ \A k \in Ids : dev[k] = None /\ new[k] # None => was[k] \in {None, new[k]} \/ k \in Changed'
  BY DEF Import, Changed, Inv, TypeOK
<1>4. \A k \in Ids : dev[k] # None => was[k] = dev[k]
  BY DEF Inv, Devices
<1>5. \A x \in Machines, k \in Ids :
        Belongs(x, k, was, Changed) => Belongs(x, k, was', Changed') \/ k \in ids
  BY <1>2, <1>3, <1>4 DEF Belongs
<1>6. Devices' /\ Agents'
  <2>1. Devices'
    BY <1>1, <1>2 DEF Devices
  <2> QED
    BY <2>1 DEF Inv, Agents, Import
<1>7. /\ row' \in [Ids -> RowStates \cup {NoRow}]
      /\ \A k \in Ids : row'[k] = IF k \in ids THEN NoRow ELSE row[k]
      /\ \A k \in Ids : row'[k] # NoRow => k \notin ids /\ dev[k] # None
  BY DropFacts DEF Import
<1>8. Rows'
  <2> SUFFICES ASSUME NEW k \in Ids, row'[k] # NoRow
               PROVE  RowOf(row'[k], k, made', was', Changed') /\ dev'[k] # None
    BY DEF Rows, RowOf
  <2>1. row'[k] = row[k] /\ dev[k] # None /\ new[k] = dev[k] /\ was'[k] = was[k]
    BY <1>2, <1>4, <1>7
  <2>2. RowOf(row[k], k, made, was, Changed)
    BY DEF Inv, Rows
  <2> QED
    BY <1>1, <1>3, <2>1, <2>2 DEF RowOf, Import
<1>9. rep' \in [Machines -> ReportStates] /\ Reports'
  <2>1. /\ rep' \in [Machines -> ReportStates]
        /\ \A m \in Machines : rep'[m].step = rep[m].step /\ rep'[m].id = rep[m].id
                             /\ rep'[m].tok = rep[m].tok
    BY CutFacts DEF Inv, Import
  <2> SUFFICES ASSUME NEW m \in Machines PROVE ReportOf(rep'[m], m, made', was', Changed')
    BY <2>1 DEF Reports
  <2>2. rep[m].step # "idle" => OnTheWay(rep[m].id)
    BY DEF OnTheWay, NoReport
  <2>3. ReportOf(rep[m], m, made, was, Changed)
    BY DEF Inv, Reports
  <2>4. rep[m].step # "idle" /\ Belongs(m, rep[m].id, was, Changed) /\ rep[m].id \in Ids
        => Belongs(m, rep[m].id, was', Changed')
    BY <1>3, <1>5, <2>2 DEF Belongs
  <2> QED
    BY <2>1, <2>3, <2>4 DEF ReportOf, Import
<1>10. Installs'
  <2> SUFFICES ASSUME NEW m \in Machines PROVE InstallOf(inst[m], m, made', was', Changed')
    BY DEF Installs, Import
  <2>1. inst[m].step # "idle" => OnTheWay(inst[m].id)
    BY DEF OnTheWay, NoInstall
  <2>2. InstallOf(inst[m], m, made, was, Changed)
    BY DEF Inv, Installs
  <2>3. inst[m].step # "idle" /\ Belongs(m, inst[m].id, was, Changed) /\ inst[m].id \in Ids
        => Belongs(m, inst[m].id, was', Changed')
    BY <1>3, <1>5, <2>1 DEF Belongs
  <2> QED
    BY <2>2, <2>3 DEF InstallOf, Import
<1>11. AllCodes'
  <2> SUFFICES ASSUME NEW c \in Codes PROVE CodeOf(codes[c], imported', was', Changed')
    BY DEF AllCodes, Import
  <2>1. CodeOf(codes[c], imported, was, Changed)
    BY DEF Inv, AllCodes
  <2> QED
    BY <1>1, <1>5, <2>1 DEF CodeOf, NoImport
<1>12. Measured'
  <2> SUFFICES ASSUME NEW k \in Ids PROVE StoredOf(stored[k], k, imported', was', Excused')
    BY DEF Measured, Import
  <2>1. StoredOf(stored[k], k, imported, was, Excused) /\ stored[k] \in Machines \cup {None}
    BY DEF Inv, Measured, TypeOK
  <2> QED
    <3>1. k \in Excused => k \in Excused'
      BY <1>3 DEF Excused, Import
    <3>2. CASE k \in Excused
      BY <3>1, <3>2 DEF StoredOf, Belongs
    <3>3. CASE k \notin Excused
      <4>1. stored[k] = None \/ stored[k] = was[k]
        BY <1>1, <2>1, <3>3 DEF StoredOf, Belongs, NoImport
      <4>2. CASE stored[k] \in Machines /\ stored[k] = was[k]
        <5>1. Belongs(stored[k], k, was', Changed') \/ k \in ids
          BY <1>5, <4>2 DEF Belongs
        <5> QED
          BY <1>1, <5>1 DEF StoredOf, Belongs, Excused
      <4> QED
        BY <2>1, <4>1, <4>2 DEF StoredOf
    <3> QED
      BY <3>2, <3>3
<1>13. TypeOK'
  <2>1. changes' \in 0 .. MaxChanges
    BY DEF Import, Changes, Inv, TypeOK
  <2> QED
    BY <1>1, <1>2, <1>3, <1>7, <1>9, <2>1 DEF Import, Inv, TypeOK, ReportStates
<1> QED
  BY <1>6, <1>8, <1>9, <1>10, <1>11, <1>12, <1>13 DEF Inv

\* Startup reads the rows again: a token stays what it is, or is lost.
LEMMA NormalizedFacts ==
  /\ Normalized(NoRow) = NoRow
  /\ \A r \in RowStates : /\ Normalized(r) \in RowStates
                         /\ Normalized(r).tok \in {r.tok, 0} /\ Normalized(r).pending = r.pending
<1>1. Normalized(NoRow) = NoRow
  BY DEF Normalized, NoRow
<1>2. ASSUME NEW r \in RowStates
      PROVE  /\ Normalized(r) \in RowStates
             /\ Normalized(r).tok \in {r.tok, 0} /\ Normalized(r).pending = r.pending
  <2>1. /\ [r EXCEPT !.form = "tagged"] \in RowStates
        /\ [r EXCEPT !.form = "tagged"].tok = r.tok /\ [r EXCEPT !.form = "tagged"].pending = r.pending
    BY DEF RowStates, Forms
  <2>2. /\ [r EXCEPT !.form = "tagged", !.tok = 0] \in RowStates
        /\ [r EXCEPT !.form = "tagged", !.tok = 0].tok = 0
        /\ [r EXCEPT !.form = "tagged", !.tok = 0].pending = r.pending
    <3>1. 0 \in Tokens
      BY DEF Tokens
    <3> QED
      BY <3>1 DEF RowStates, Forms
  <2>3. Normalized(r) \in {r, [r EXCEPT !.form = "tagged"], [r EXCEPT !.form = "tagged", !.tok = 0]}
    BY DEF Normalized
  <2> QED
    BY <2>1, <2>2, <2>3
<1> QED
  BY <1>1, <1>2

LEMMA RestartKeeps == ASSUME Inv, Restart PROVE Inv'
<1>1. Keeps
  BY DEF Restart, Keeps, Changed
<1>2. \A i \in Ids : /\ row'[i] = Normalized(row[i]) /\ row[i] \in RowStates \cup {NoRow}
                    /\ RowOf(row[i], i, made, was, Changed) /\ (row[i] # NoRow => dev[i] # None)
  BY DEF Restart, Inv, TypeOK, Rows
<1>3. \A i \in Ids : row'[i] \in RowStates \cup {NoRow} /\ (row'[i] # NoRow => dev'[i] # None)
  BY <1>2, NormalizedFacts DEF Restart
<1>4. \A i \in Ids : RowOf(row'[i], i, made', was', Changed')
  <2> SUFFICES ASSUME NEW i \in Ids PROVE RowOf(row'[i], i, made', was', Changed')
    OBVIOUS
  <2>1. RowOf(row[i], i, made', was', Changed')
    BY <1>1, <1>2, RowStays DEF Inv
  <2>2. CASE row[i] = NoRow
    BY <1>2, <2>1, <2>2, NormalizedFacts
  <2>3. CASE row[i] \in RowStates
    <3>1. row[i] # NoRow
      BY <2>3, RowFacts
    <3> QED
      BY <1>2, <2>1, <2>3, <3>1, NormalizedFacts DEF RowOf
  <2> QED
    BY <1>2, <2>2, <2>3
<1>5. /\ rep' \in [Machines -> ReportStates]
      /\ \A m \in Machines : ReportOf(rep'[m], m, made', was', Changed')
  BY ReportTypes DEF Restart, ReportOf, NoReport
<1>6. /\ \A m \in Machines : InstallOf(inst'[m], m, made', was', Changed')
      /\ inst' \in [Machines -> [step : {"idle", "config", "deployed"}, tok : Tokens, id : 0 .. MaxId]]
  BY NoInstallFacts DEF Restart
<1>7. /\ \A c \in Codes : CodeOf(codes'[c], imported', was', Changed')
      /\ codes' \in [Codes -> [id : 0 .. MaxId, for : Machines \cup {None}]]
  BY NoCodeFacts DEF Restart
<1>8. \A i \in Ids : StoredOf(stored'[i], i, imported', was', Excused')
  BY DEF Restart, Inv, Measured, StoredOf, Belongs, Changed, Excused
<1>9. TypeOK'
  <2>1. row' \in [Ids -> RowStates \cup {NoRow}]
    BY <1>3 DEF Restart
  <2>2. /\ late' \subseteq Ids
        /\ imported' \in [phase : {"none", "revoke", "purge"}, ids : SUBSET Ids]
    BY DEF Restart, NoImport, Inv, TypeOK
  <2> QED
    BY <1>5, <1>6, <1>7, <2>1, <2>2 DEF Restart, Inv, TypeOK, ReportStates
<1>10. Devices' /\ UNCHANGED agent
  BY DEF Restart, Inv, Devices
<1> QED
  BY <1>1, <1>3, <1>4, <1>5, <1>6, <1>7, <1>8, <1>9, <1>10, Changes1

-----------------------------------------------------------------------------
(* The specification *)

LEMMA InvInit == Init => Inv
<1> SUFFICES ASSUME Init PROVE Inv
  OBVIOUS
<1> DEFINE m == CHOOSE n \in Machines : TRUE
           RowOne(f, s) == Normalized([Row(1) EXCEPT !.form = f, !.reported = s])
<1>1. m \in Machines /\ m # None
  BY MachinesAssumption
<1>2. 1 \in Ids /\ 1 \in Tokens /\ 1 \in 0 .. MaxId /\ Ids \subseteq 0 .. MaxId
  BY DEF Ids, Tokens
<1> HIDE DEF m
<1>3. /\ dev = [i \in Ids |-> IF i = 1 THEN m ELSE None] /\ was = dev
      /\ codes = [c \in Codes |-> NoCode] /\ stored = [i \in Ids |-> None]
      /\ rep = [n \in Machines |-> NoReport] /\ inst = [n \in Machines |-> NoInstall]
      /\ imported = NoImport /\ late = {} /\ reused = {} /\ unpurged = {} /\ changes = 0
  BY DEF Init, m
<1>4. /\ agent \in [Machines -> [tok : Tokens, id : 0 .. MaxId]] /\ Agents
      /\ row \in [Ids -> RowStates \cup {NoRow}] /\ Rows
      /\ made \in Seq(Machines) /\ Len(made) <= MaxToken
  <2>1. CASE row = [i \in Ids |-> NoRow] /\ agent = [n \in Machines |-> NoAgent] /\ made = <<>>
    BY <2>1 DEF NoAgent, Tokens, Agents, AgentOf, Rows, RowOf
  <2>2. ASSUME NEW f \in Forms, NEW s \in BOOLEAN,
               row = [i \in Ids |-> IF i # 1 THEN NoRow ELSE RowOne(f, s)],
               agent = [n \in Machines |-> IF n = m THEN [tok |-> 1, id |-> 1] ELSE NoAgent],
               made = <<m>>
        PROVE  <1>4
    <3>1. RowOne(f, s) \in RowStates /\ RowOne(f, s).tok \in {0, 1} /\ RowOne(f, s).pending = 0
      <4>1. LET q == [Row(1) EXCEPT !.form = f, !.reported = s] IN
              q \in RowStates /\ q.tok = 1 /\ q.pending = 0
        <5>1. 0 \in Tokens
          BY DEF Tokens
        <5> QED
          BY <1>2, <5>1 DEF Row, NoRow, RowStates
      <4> QED
        BY <4>1, NormalizedFacts
    <3> HIDE DEF RowOne
    <3>2. made \in Seq(Machines) /\ Len(made) = 1 /\ MadeFor(1, m, made)
      BY <1>1, <2>2 DEF MadeFor
    <3>3. agent \in [Machines -> [tok : Tokens, id : 0 .. MaxId]] /\ Agents
      BY <1>2, <2>2, <3>2 DEF NoAgent, Tokens, Agents, AgentOf
    <3>4. row \in [Ids -> RowStates \cup {NoRow}]
      BY <2>2, <3>1
    <3>5. \A i \in Ids : RowOf(row[i], i, made, was, Changed)
      BY <1>2, <1>3, <2>2, <3>1, <3>2 DEF RowOf
    <3>6. \A i \in Ids : row[i] # NoRow => dev[i] # None
      BY <1>1, <1>3, <2>2
    <3> QED
      BY <3>2, <3>3, <3>4, <3>5, <3>6 DEF Rows
  <2> QED
    BY <2>1, <2>2 DEF Init, m
<1>5. TypeOK
  <2>1. /\ dev \in [Ids -> Machines \cup {None}] /\ was \in [Ids -> Machines \cup {None}]
        /\ stored \in [Ids -> Machines \cup {None}] /\ changes \in 0 .. MaxChanges
        /\ imported \in [phase : {"none", "revoke", "purge"}, ids : SUBSET Ids]
    BY <1>1, <1>3 DEF NoImport
  <2>2. rep \in [Machines -> ReportStates]
    BY <1>3, ReportTypes
  <2> QED
    BY <1>3, <1>4, <2>1, <2>2, NoCodeFacts, NoInstallFacts DEF TypeOK, ReportStates
<1>6. Devices /\ Reports /\ Installs /\ AllCodes /\ Measured
  BY <1>3, NoCodeFacts, NoInstallFacts DEF Devices, Reports, ReportOf, NoReport, Installs, AllCodes,
     Measured, StoredOf
<1> QED
  BY <1>4, <1>5, <1>6 DEF Inv

LEMMA InvNext == Inv /\ [Next]_vars => Inv'
<1> SUFFICES ASSUME Inv, [Next]_vars PROVE Inv'
  OBVIOUS
<1>1. ASSUME NEW m \in Machines,
             \/ Report(m) \/ Resolve(m) \/ Resolved(m) \/ Persist(m)
             \/ Download(m) \/ Deploy(m) \/ Deployed(m) \/ Uninstall(m)
      PROVE  Inv'
  BY <1>1, ReportKeeps, ResolveKeeps, ResolvedKeeps, PersistKeeps, DownloadKeeps, DeployKeeps,
     DeployedKeeps, UninstallKeeps
<1>2. ASSUME NEW i \in Ids,
             Adopt(i) \/ DeleteDevice(i) \/ \E m \in Machines : AddDevice(m, i)
      PROVE  Inv'
  BY <1>2, AdoptKeeps, DeleteDeviceKeeps, AddDeviceKeeps
<1>3. ASSUME NEW c \in Codes, CodeExpires(c) \/ Redeem(c) \/ \E i \in Ids : CreateCode(c, i)
      PROVE  Inv'
  BY <1>3, CodeExpiresKeeps, RedeemKeeps, CreateCodeKeeps
<1>4. CASE (\E new \in Imports : Import(new)) \/ Revoke \/ PurgeImported \/ Restart
  BY <1>4, ImportKeeps, RevokeKeeps, PurgeKeeps, RestartKeeps
<1>5. CASE UNCHANGED vars
  <2>1. Changed' = Changed /\ Excused' = Excused
    BY <1>5 DEF vars, aux, Changed, Excused
  <2> QED
    BY <1>5, <2>1 DEF vars, aux, Inv, TypeOK, Devices, Agents, Rows, Reports, Installs, AllCodes, Measured
<1> QED
  BY <1>1, <1>2, <1>3, <1>4, <1>5 DEF Next

LEMMA InvSound == Inv => IdsNameOneMachine
<1> SUFFICES ASSUME Inv PROVE IdsNameOneMachine
  OBVIOUS
<1>1. TypeOK
  BY DEF Inv
<1>2. TokensFollowDevice
  <2> SUFFICES ASSUME NEW i \in Ids \ Changed, row[i].active, row[i].tok # 0
               PROVE  made[row[i].tok] = dev[i]
    BY DEF TokensFollowDevice
  <2>1. row[i] # NoRow /\ RowOf(row[i], i, made, was, Changed) /\ dev[i] # None
    BY RowFacts DEF Inv, Rows
  <2>2. was[i] = dev[i]
    BY <2>1 DEF Inv, Devices
  <2> QED
    BY <2>1, <2>2 DEF RowOf, MadeFor
<1>3. NothingOfFormerDevice
  <2> SUFFICES ASSUME imported = NoImport
               PROVE  /\ \A c \in Codes : codes[c] # NoCode /\ codes[c].id \notin Changed =>
                           dev[codes[c].id] \in {None, codes[c].for}
                      /\ \A i \in Ids \ (Changed \cup unpurged) :
                           dev[i] # None => stored[i] \in {None, dev[i]}
    BY DEF NothingOfFormerDevice
  <2>1. imported.phase # "revoke" /\ imported.ids = {}
    BY DEF NoImport
  <2>2. ASSUME NEW c \in Codes, codes[c] # NoCode, codes[c].id \notin Changed
        PROVE  dev[codes[c].id] \in {None, codes[c].for}
    BY <2>1, <2>2 DEF Inv, AllCodes, CodeOf, Belongs, Devices
  <2>3. ASSUME NEW i \in Ids \ (Changed \cup unpurged), dev[i] # None
        PROVE  stored[i] \in {None, dev[i]}
    BY <2>1, <2>3 DEF Inv, Measured, StoredOf, Belongs, Devices, Excused
  <2> QED
    BY <2>2, <2>3
<1> QED
  BY <1>1, <1>2, <1>3 DEF IdsNameOneMachine

(* No id names two machines: a device's token was made for the machine the device is, and when an
   import is through no install code and no measurement of another machine is left under its id,
   for any number of machines, codes, reports and installations under way (_detach_reassigned_devices,
   revoke_devices), except for an id that changed hands under a request or was given again, and
   for measurements an import failed to delete (_purge_telemetry). *)
THEOREM OneMachine == Spec => []IdsNameOneMachine
<1>1. Spec => []Inv
  BY InvInit, InvNext, PTL DEF Spec
<1> QED
  BY <1>1, InvSound, PTL

=============================================================================
