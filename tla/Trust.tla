--------------------------------- MODULE Trust ---------------------------------
(***************************************************************************)
(* Which agent may report for which device (services/agent_tokens.py,      *)
(* agent_telemetry.py, enrollment_service.py, api/agent.py, api/backup.py, *)
(* api/devices.py).                                                        *)
(*                                                                         *)
(* A device row names a machine by a number, its id; the token of its      *)
(* agent, its measurements and, in memory, install codes name the device   *)
(* by that id.  The id of the newest device is given again after its       *)
(* deletion (SQLite), and a backup import replaces the table of devices:   *)
(* an id then names another machine.  Reports and installations take       *)
(* several steps and are on their way while that happens.                  *)
(*                                                                         *)
(* Abstracted: what is measured; addresses (a machine keeps its own, a     *)
(* device row has the address of its machine); an agent sends one report   *)
(* at a time and a machine is installed once at a time; the setting that   *)
(* allows auto-adoption has either value whenever it is read; time: a      *)
(* device may be silent or offline at any moment, and a code expire.       *)
(***************************************************************************)
EXTENDS Integers, Sequences

CONSTANTS
  Machines,     \* hosts that run, or may run, an agent
  MaxId,        \* bound: ids of devices
  MaxToken,     \* bound: agent tokens, numbered in the order they are generated
  Codes,        \* install codes
  None,
  MaxChanges    \* bound: deletions and imports of devices

ASSUME MachinesAssumption == Machines # {}
ASSUME NoneAssumption == None \notin Machines
ASSUME BoundsAssumption == MaxId \in Nat \ {0} /\ MaxToken \in Nat \ {0} /\ MaxChanges \in Nat

VARIABLES
  dev,        \* dev[i]: the machine device i is, or None
  row,        \* row[i]: the agent_tokens row of device i, or NoRow
  agent,      \* agent[m]: token and device id in m's agent.conf, or NoAgent
  codes,      \* codes[c]: the device an install code was issued for, or NoCode
  stored,     \* stored[i]: the machine whose measurements are stored under id i, or None
  rep,        \* rep[m]: the report of m the server works on
  inst,       \* inst[m]: the installation of an agent on m
  imported,   \* an import's reassigned ids and what is still to be done for them
  \* auxiliary: not in the program
  made,       \* made[t]: the machine token t was generated for
  late,       \* ids that changed hands under a request for them
  reused,     \* ids given to another machine after a deletion
  unpurged,   \* reassigned ids whose measurements an import failed to delete
  was,        \* was[i]: the last machine that had id i
  changes

aux == <<late, reused, unpurged, was, changes>>
vars == <<dev, row, agent, codes, stored, rep, inst, imported, made, aux>>

Ids == 1 .. MaxId
\* 0 stands for a token nobody has (a random placeholder, or one that was lost).
Tokens == 0 .. MaxToken

(* A token as it is stored: the tagged hash, a hash or a token of an older version (64
   hex digits each), or an older token of another shape. *)
Forms == {"tagged", "digest", "raw64", "raw32"}
NoRow == [form |-> "none", tok |-> 0, active |-> FALSE, pending |-> 0, reported |-> FALSE]
Row(t) == [NoRow EXCEPT !.form = "tagged", !.tok = t, !.active = TRUE]
RowStates == [form : Forms, tok : Tokens, active : BOOLEAN, pending : Tokens, reported : BOOLEAN]

NoAgent == [tok |-> 0, id |-> 0]
NoCode == [id |-> 0, for |-> None]
\* had, adopt: what a report read of the token row before its commit; kept: the row it
\* found is still there.
NoReport == [step |-> "idle", tok |-> 0, id |-> 0, adopt |-> FALSE, had |-> FALSE, kept |-> TRUE]
NoInstall == [step |-> "idle", tok |-> 0, id |-> 0]
NoImport == [phase |-> "none", ids |-> {}]

HasRow(i) == row[i] # NoRow
\* The device at the address a report comes from, 0 if there is none.
DeviceAt(m) == IF \E i \in Ids : dev[i] = m THEN CHOOSE i \in Ids : dev[i] = m ELSE 0

TypeOK ==
  /\ dev \in [Ids -> Machines \cup {None}] /\ row \in [Ids -> RowStates \cup {NoRow}]
  /\ agent \in [Machines -> [tok : Tokens, id : 0 .. MaxId]]
  /\ codes \in [Codes -> [id : 0 .. MaxId, for : Machines \cup {None}]]
  /\ stored \in [Ids -> Machines \cup {None}]
  /\ rep \in [Machines -> [step : {"idle", "lost", "write", "found"}, tok : Tokens,
                           id : 0 .. MaxId, adopt : BOOLEAN, had : BOOLEAN, kept : BOOLEAN]]
  /\ inst \in [Machines -> [step : {"idle", "config", "deployed"}, tok : Tokens, id : 0 .. MaxId]]
  /\ imported \in [phase : {"none", "revoke", "purge"}, ids : SUBSET Ids]
  /\ made \in Seq(Machines) /\ Len(made) <= MaxToken
  /\ late \subseteq Ids /\ reused \subseteq Ids /\ unpurged \subseteq Ids
  /\ was \in [Ids -> Machines \cup {None}] /\ changes \in 0 .. MaxChanges

\* Startup: untagged tokens are tagged or hashed where their reading is certain.  A row of 64
\* digits that has reported counts as a hash: a token in it is lost, its agent becomes pending.
Normalized(r) ==
  CASE r.form = "raw32" -> [r EXCEPT !.form = "tagged"]
    [] r.form = "digest" /\ r.reported -> [r EXCEPT !.form = "tagged"]
    [] r.form = "raw64" /\ r.reported -> [r EXCEPT !.form = "tagged", !.tok = 0]
    [] OTHER -> r

\* One device; its agent, if any, was installed by some version of the program; startup is through.
Init ==
  LET m == CHOOSE m \in Machines : TRUE IN
    /\ dev = [i \in Ids |-> IF i = 1 THEN m ELSE None] /\ was = dev
    /\ \/ row = [i \in Ids |-> NoRow] /\ agent = [n \in Machines |-> NoAgent] /\ made = <<>>
       \/ \E f \in Forms, s \in BOOLEAN :
            /\ row = [i \in Ids |-> IF i # 1 THEN NoRow ELSE Normalized([Row(1) EXCEPT !.form = f, !.reported = s])]
            /\ agent = [n \in Machines |-> IF n = m THEN [tok |-> 1, id |-> 1] ELSE NoAgent]
            /\ made = <<m>>
    /\ codes = [c \in Codes |-> NoCode] /\ stored = [i \in Ids |-> None]
    /\ rep = [n \in Machines |-> NoReport] /\ inst = [n \in Machines |-> NoInstall]
    /\ imported = NoImport /\ late = {} /\ reused = {} /\ unpurged = {} /\ changes = 0

-----------------------------------------------------------------------------
(* A report *)

\* Which row lets t in; an untagged one of 64 digits that has reported is a hash.
Accepts(r, t) ==
  /\ r.active /\ r.tok = t /\ t # 0
  /\ r.form = "raw64" => ~r.reported

\* A token that is accepted is stored as a tagged hash from then on.
Report(m) ==
  /\ rep[m] = NoReport /\ agent[m] # NoAgent
  /\ LET t == agent[m].tok
         hits == {i \in Ids : Accepts(row[i], t)}
     IN \/ /\ hits = {} /\ UNCHANGED row
           /\ rep' = [rep EXCEPT ![m] = [NoReport EXCEPT !.step = "lost", !.tok = t, !.id = agent[m].id]]
        \/ \E i \in hits :
             /\ row' = [row EXCEPT ![i].form = "tagged"]
             /\ rep' = [rep EXCEPT ![m] = [NoReport EXCEPT !.step = "found", !.tok = t, !.id = i]]
  /\ UNCHANGED <<dev, agent, codes, stored, inst, imported, made, aux>>

Ends(m) == rep' = [rep EXCEPT ![m] = NoReport]

\* The setting, then the device at the client's address: it must be the one the report names.
\* A device is stale without a heartbeat, when offline, or silent for five minutes.
Resolve(m) ==
  LET i == rep[m].id IN
  /\ rep[m].step = "lost"
  /\ \/ DeviceAt(m) # i /\ Ends(m)
     \/ \E allowed, silent \in BOOLEAN :
          /\ DeviceAt(m) = i
          /\ rep' = [rep EXCEPT ![m].step = "write", ![m].had = HasRow(i),
                                ![m].adopt = allowed /\ (silent \/ ~row[i].reported)]
  /\ UNCHANGED <<dev, row, agent, codes, stored, inst, imported, made, aux>>

\* Mutant: a token without a row is not kept for adoption.
PendingInRow(r, t) == IF r = NoRow THEN r ELSE [r EXCEPT !.pending = t]

\* Until the administrator adopts it; the row made for it is random and inactive.
Pending(r, t) == [r EXCEPT !.pending = t, !.form = IF r = NoRow THEN "tagged" ELSE @]

\* The commit: the row read before is updated (an error when it is gone by now) or one is
\* inserted (an error when there is one by now, or no device any more).
Resolved(m) ==
  LET i == rep[m].id
      t == rep[m].tok
      consistent == rep[m].had = HasRow(i) /\ dev[i] # None
  IN
  /\ rep[m].step = "write"
  /\ \/ ~consistent /\ Ends(m) /\ UNCHANGED row
     \/ /\ consistent /\ rep[m].adopt
        /\ row' = [row EXCEPT ![i] = [Row(t) EXCEPT !.reported = row[i].reported]]
        /\ rep' = [rep EXCEPT ![m] = [NoReport EXCEPT !.step = "found", !.tok = t, !.id = i]]
     \/ /\ consistent /\ ~rep[m].adopt
        /\ row' = [row EXCEPT ![i] = Pending(@, t)] /\ Ends(m)
  /\ UNCHANGED <<dev, agent, codes, stored, inst, imported, made, aux>>

\* Heartbeat and measurement.  A device that is gone is looked for by the client's address;
\* a token row that is gone makes the first attempt fail, the next one does without it.
Persist(m) ==
  LET i == rep[m].id
      j == IF dev[i] # None THEN i ELSE DeviceAt(m)
  IN
  /\ rep[m].step = "found" /\ Ends(m)
  /\ \/ UNCHANGED <<row, stored>>
     \/ /\ j # 0 /\ stored' = [stored EXCEPT ![j] = m]
        /\ \/ j = i /\ HasRow(i) /\ row' = [row EXCEPT ![i].reported = TRUE, ![i].pending = 0]
           \/ (j # i \/ ~HasRow(i) \/ ~rep[m].kept) /\ UNCHANGED row
  /\ UNCHANGED <<dev, agent, codes, inst, imported, made, aux>>

Adopt(i) ==
  /\ row[i].pending # 0
  /\ row' = [row EXCEPT ![i] = [Row(row[i].pending) EXCEPT !.reported = row[i].reported]]
  /\ UNCHANGED <<dev, agent, codes, stored, rep, inst, imported, made, aux>>

-----------------------------------------------------------------------------
(* Installing an agent *)

Generates(m) == Len(made) < MaxToken /\ made' = Append(made, m)
NewToken == Len(made) + 1

\* A replaced row may or may not get the number of the old one.
Cut(ids) == [m \in Machines |-> IF rep[m].step = "found" /\ rep[m].id \in ids
                                THEN [rep[m] EXCEPT !.kept = FALSE] ELSE rep[m]]

CreateCode(c, i) ==
  /\ codes[c] = NoCode /\ dev[i] # None
  /\ codes' = [codes EXCEPT ![c] = [id |-> i, for |-> dev[i]]]
  /\ UNCHANGED <<dev, row, agent, stored, rep, inst, imported, made, aux>>

CodeExpires(c) ==
  /\ codes[c] # NoCode /\ codes' = [codes EXCEPT ![c] = NoCode]
  /\ UNCHANGED <<dev, row, agent, stored, rep, inst, imported, made, aux>>

\* The install script on the machine the code was issued for redeems it, once; one that
\* meets an import half-way is on its way while its id changes hands.
Redeem(c) ==
  LET m == codes[c].for IN
  /\ codes[c] # NoCode /\ inst[m] = NoInstall
  /\ codes' = [codes EXCEPT ![c] = NoCode]
  /\ inst' = [inst EXCEPT ![m] = [step |-> "config", tok |-> 0, id |-> codes[c].id]]
  /\ late' = late \cup ({codes[c].id} \cap imported.ids)
  /\ UNCHANGED <<dev, row, agent, stored, rep, imported, made, reused, unpurged, was, changes>>

\* A new token replaces the former one at once; the answer may be lost.
Download(m) ==
  LET i == inst[m].id IN
  /\ inst[m].step = "config" /\ inst' = [inst EXCEPT ![m] = NoInstall]
  /\ \/ dev[i] = None /\ UNCHANGED <<row, agent, made>>
     \/ /\ dev[i] # None /\ Generates(m)
        /\ row' = [row EXCEPT ![i] = Row(NewToken)]
        /\ agent' \in {agent, [agent EXCEPT ![m] = [tok |-> NewToken, id |-> i]]}
  /\ UNCHANGED <<dev, codes, stored, rep, imported, aux>>

\* Over SSH: the agent runs with its new token before the server stores it.
Deploy(m) ==
  LET i == DeviceAt(m) IN
  /\ inst[m] = NoInstall /\ i # 0 /\ Generates(m)
  /\ agent' = [agent EXCEPT ![m] = [tok |-> NewToken, id |-> i]]
  /\ inst' = [inst EXCEPT ![m] = [step |-> "deployed", tok |-> NewToken, id |-> i]]
  /\ UNCHANGED <<dev, row, codes, stored, rep, imported, aux>>

Deployed(m) ==
  LET i == inst[m].id IN
  /\ inst[m].step = "deployed" /\ inst' = [inst EXCEPT ![m] = NoInstall]
  /\ \/ UNCHANGED <<row, rep>>
     \/ dev[i] # None /\ row' = [row EXCEPT ![i] = Row(inst[m].tok)] /\ rep' = Cut({i})
  /\ UNCHANGED <<dev, agent, codes, stored, imported, made, aux>>

Uninstall(m) ==
  LET i == DeviceAt(m) IN
  /\ inst[m] = NoInstall /\ i # 0 /\ agent[m] # NoAgent
  /\ agent' = [agent EXCEPT ![m] = NoAgent] /\ row' = [row EXCEPT ![i] = NoRow] /\ rep' = Cut({i})
  /\ UNCHANGED <<dev, codes, stored, inst, imported, made, aux>>

-----------------------------------------------------------------------------
(* Devices come, go and change their ids *)

OnTheWay(i) ==
  \E m \in Machines : (rep[m] # NoReport /\ rep[m].id = i) \/ (inst[m] # NoInstall /\ inst[m].id = i)
Changes == changes < MaxChanges /\ changes' = changes + 1

DropsTokens(gone) == [i \in Ids |-> IF i \in gone THEN NoRow ELSE row[i]]

\* With its tokens, measurements and all it has in the database; nothing in memory.
DeleteDevice(i) ==
  /\ dev[i] # None /\ Changes
  /\ dev' = [dev EXCEPT ![i] = None] /\ row' = DropsTokens({i}) /\ rep' = Cut({i})
  /\ stored' = [stored EXCEPT ![i] = None] /\ unpurged' = unpurged \ {i}
  /\ late' = IF OnTheWay(i) THEN late \cup {i} ELSE late
  /\ UNCHANGED <<agent, codes, inst, imported, made, reused, was>>

\* SQLite numbers a new row after the highest one there is.
IsNextId(i) == (i > 1 => dev[i - 1] # None) /\ \A k \in i .. MaxId : dev[k] = None

AddDevice(m, i) ==
  /\ DeviceAt(m) = 0 /\ IsNextId(i)
  /\ dev' = [dev EXCEPT ![i] = m] /\ was' = [was EXCEPT ![i] = m]
  /\ reused' = IF was[i] \notin {None, m} THEN reused \cup {i} ELSE reused
  /\ UNCHANGED <<row, agent, codes, stored, rep, inst, imported, made, late, unpurged, changes>>

\* One transaction replaces the devices and deletes the tokens of ids that now name another one.
Import(new) ==
  LET ids == {i \in Ids : dev[i] # None /\ new[i] # dev[i]} IN
  /\ imported = NoImport /\ Changes
  /\ dev' = new /\ row' = DropsTokens(ids) /\ rep' = Cut(ids)
  /\ imported' = [phase |-> "revoke", ids |-> ids]
  /\ late' = late \cup {i \in ids : OnTheWay(i)}
  /\ reused' = reused \cup {i \in Ids : dev[i] = None /\ new[i] # None /\ was[i] \notin {None, new[i]}}
  /\ was' = [i \in Ids |-> IF new[i] = None THEN was[i] ELSE new[i]]
  /\ UNCHANGED <<agent, codes, stored, inst, made, unpurged>>

\* Mutant: codes of reassigned ids live on.
RevokesNothing(ids) == codes

\* _revoke_device_grants: the install codes.
Revokes(ids) == [c \in Codes |-> IF codes[c].id \in ids THEN NoCode ELSE codes[c]]

Revoke ==
  /\ imported.phase = "revoke" /\ imported' = [imported EXCEPT !.phase = "purge"]
  /\ codes' = Revokes(imported.ids)
  /\ UNCHANGED <<dev, row, agent, stored, rep, inst, made, aux>>

\* The measurements of the ids, table by table: one that cannot be emptied is left as it is,
\* and an error before that or at the commit leaves them all.  A report for one of the ids that is
\* stored after the import was on its way.
PurgeImported ==
  /\ imported.phase = "purge" /\ imported' = NoImport
  /\ \E left \in SUBSET {i \in imported.ids : stored[i] # None} :
       /\ stored' = [i \in Ids |-> IF i \in imported.ids \ left THEN None ELSE stored[i]]
       /\ unpurged' = (unpurged \ imported.ids) \cup left
  /\ UNCHANGED <<dev, row, agent, codes, rep, inst, made, late, reused, was, changes>>

Restart ==
  /\ row' = [i \in Ids |-> Normalized(row[i])] /\ codes' = [c \in Codes |-> NoCode]
  /\ rep' = [m \in Machines |-> NoReport] /\ inst' = [m \in Machines |-> NoInstall]
  /\ imported' = NoImport /\ late' = late \cup imported.ids
  /\ UNCHANGED <<dev, agent, stored, made, reused, unpurged, was, changes>>

-----------------------------------------------------------------------------
Imports ==
  {new \in [Ids -> Machines \cup {None}] : \A i, j \in Ids : i # j /\ new[i] = new[j] => new[i] = None}

Next ==
  \/ \E m \in Machines :
       \/ Report(m) \/ Resolve(m) \/ Resolved(m) \/ Persist(m)
       \/ Download(m) \/ Deploy(m) \/ Deployed(m) \/ Uninstall(m)
       \/ \E i \in Ids : AddDevice(m, i)
  \/ \E i \in Ids : Adopt(i) \/ DeleteDevice(i)
  \/ \E c \in Codes : CodeExpires(c) \/ Redeem(c) \/ \E i \in Ids : CreateCode(c, i)
  \/ \E new \in Imports : Import(new)
  \/ Revoke \/ PurgeImported \/ Restart

Spec == Init /\ [][Next]_vars
\* The agent's loop never gives up (AgentOrchestrator.run), the server answers, and restarts
\* do not interrupt every report.
FairSpec ==
  /\ Spec
  /\ \A m \in Machines : WF_vars(Report(m)) /\ WF_vars(Persist(m))
  /\ \A m \in Machines : SF_vars(Resolve(m)) /\ SF_vars(Resolved(m))

-----------------------------------------------------------------------------
(* What must hold *)

Changed == late \cup reused

(* "an agent of the old device can no longer report as the new one" (_detach_reassigned_devices),
   "a code issued for the old one would otherwise enroll an agent token for the new one"
   (revoke_devices): the token of a device was made for the machine the device is, unless a
   request was on its way when the id changed hands or the id was given again after a deletion. *)
TokensFollowDevice ==
  \A i \in Ids \ Changed : imported = NoImport /\ row[i].active /\ row[i].tok # 0 => made[row[i].tok] = dev[i]

(* When an import is through, no install code of the machine that had the id before is left
   for it, and no measurement under it, with the same exceptions; a measurement may be left
   where the import could not delete it (_purge_telemetry only logs that). *)
NothingOfFormerDevice ==
  imported = NoImport =>
    /\ \A c \in Codes : codes[c] # NoCode /\ codes[c].id \notin Changed =>
         dev[codes[c].id] \in {None, codes[c].for}
    /\ \A i \in Ids \ (Changed \cup unpurged) : dev[i] # None => stored[i] \in {None, dev[i]}

(* An id names one machine at a time: nothing that was made for the former one is left. *)
IdsNameOneMachine == TypeOK /\ TokensFollowDevice /\ NothingOfFormerDevice

(* An agent installed for the device its machine is never stays unnoticed: in the end its token
   is the device's or is pending for adoption, whatever replaced it in the database, unless the
   agent or the device changes.  (agent_tokens.py: "that agent falls back to the pending-token
   adoption flow") *)
Named(m, i) == agent[m].id = i /\ dev[i] = m
Noticed(m, i) == Accepts(row[i], agent[m].tok) \/ row[i].pending = agent[m].tok
NobodyLost == \A m \in Machines, i \in Ids : Named(m, i) ~> (~Named(m, i) \/ Noticed(m, i))
=============================================================================
