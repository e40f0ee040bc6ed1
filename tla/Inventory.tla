------------------------------ MODULE Inventory ------------------------------
(***************************************************************************)
(* How scan answers become inventory (src/backend/app/scanner/sync.py):    *)
(* sync_hosts_batch takes the (address, MAC) pairs one scan heard, matches *)
(* each against the devices and the discovered hosts, moves what answers   *)
(* from another address, and commits the batch in one transaction; then it *)
(* sends the notifications the batch collected.  The ARP turbo loop, the   *)
(* planner and the dashboard scan run batches that overlap.                *)
(*                                                                         *)
(* A session does not flush before it queries: queries see the database    *)
(* (and what the session itself flushed), the objects they return carry    *)
(* the session's own changes.  A flush takes SQLite's write lock until the *)
(* commit and checks the unique addresses statement by statement.          *)
(*                                                                         *)
(* A router answers with one MAC in every subnet: an answer from another   *)
(* subnet than the device's is a further interface of it, or a discovered  *)
(* host of its own, while the device is a gateway or answers at home.      *)
(*                                                                         *)
(* MACs are valid and one device has one MAC; hosts are nameless (ARP      *)
(* turbo loop).  Going offline is in module Presence.                      *)
(***************************************************************************)
EXTENDS Integers, Sequences, FiniteSets

CONSTANTS
  Devices,          \* ids of the devices rows
  Macs,
  Mac,              \* Mac[d]: the MAC of device d
  Addresses,        \* addresses hosts answer from
  Placeholders,     \* 0.0.0.0, 0.0.0.1, ... as numbers
  None,
  Home,             \* Home[d]: the address of d at the start
  Sites,            \* the networks to choose from: what is an Unraid host, the subnets, ...
  Sessions,
  MaxHosts,         \* bound: answers in a batch
  MaxAnswers        \* bound: answers in all batches

Injective(f) == \A x, y \in DOMAIN f : f[x] = f[y] => x = y

ASSUME DevicesAssumption ==
  /\ IsFiniteSet(Devices) /\ Devices \subseteq Nat
  /\ Mac \in [Devices -> Macs] /\ Injective(Mac)
  /\ Home \in [Devices -> Addresses] /\ Injective(Home)
  /\ \A n \in Sites :
       /\ n.unraid \subseteq Macs       \* the boxes recognised as Unraid (by name or vendor)
       /\ Addresses \subseteq DOMAIN n.subnet
       /\ n.gateways \subseteq Addresses
       /\ n.offline \subseteq Devices   \* the devices that are offline at the start
ASSUME AddressesAssumption ==
  /\ Placeholders \subseteq Nat /\ Cardinality(Placeholders) >= Cardinality(Devices)
  /\ Addresses \cap Placeholders = {}
  /\ None \notin Addresses \cup Placeholders \cup Sessions
  /\ None \notin {"devices", "discovered"}
ASSUME BoundsAssumption == MaxHosts \in Nat /\ MaxAnswers \in Nat

VARIABLES
  site,      \* the network this is
  tab,       \* committed tables: dev, disc (by id) and the next id of disc
  work,      \* what the session with the write lock sees of them
  writer,    \* that session, or None
  sess,      \* the batch each session is at, or Idle
  last,      \* how the last batch ended, and what it announced; forgotten as others go on
  answers

vars == <<site, tab, work, writer, sess, last, answers>>

Place == Addresses \cup Placeholders
DevRow == [ip : Place, old : Place \cup {None}, placeholder : BOOLEAN, online : BOOLEAN,
           ifs : SUBSET Addresses]
DiscRow == [mac : Macs, ip : Addresses, online : BOOLEAN]
Host == [ip : Addresses, mac : Macs]
NewsOf == [kind : {"new"}, mac : Macs, ip : Addresses]
            \cup [kind : {"moved"}, dev : Devices, ip : Addresses]
Idle == [busy |-> FALSE]
NothingEnded == [outcome |-> "none", hosts |-> <<>>, alone |-> FALSE, odd |-> {}, news |-> {}]

\* SyncContext.is_cross_segment: placeholders are in a /24 of their own.
Segment(ip) == IF ip \in Addresses THEN site.subnet[ip] ELSE None
Across(a, b) == Segment(a) # Segment(b)

\* SyncContext.is_gateway
IsGateway(ip) == ip \in site.gateways

\* The scans list each address once; a MAC may answer from several.
Batches ==
  {b \in UNION {[1 .. n -> Host] : n \in 1 .. MaxHosts} :
     \A i, j \in DOMAIN b : b[i].ip = b[j].ip => i = j}

Changed(copies) == {x \in DOMAIN copies : copies[x].is # copies[x].was}

-----------------------------------------------------------------------------
(* A session at work: w.tab is the database as it sees it, w.dev and w.disc  *)
(* the rows it loaded (was) with its changes (is), w.new the rows to insert. *)

LoadedDev(w, d) == IF d \in DOMAIN w.dev THEN w.dev[d].is ELSE w.tab.dev[d]
LoadedDisc(w, r) == IF r \in DOMAIN w.disc THEN w.disc[r].is ELSE w.tab.disc[r]

\* f with x mapped to y, whether it was in f or not.
With(f, x, y) == [z \in {x} \cup DOMAIN f |-> IF z = x THEN y ELSE f[z]]

\* A change of a loaded object stays in memory until the next flush.
SetDev(w, d, row) ==
  LET was == IF d \in DOMAIN w.dev THEN w.dev[d].was ELSE w.tab.dev[d]
  IN  [w EXCEPT !.dev = With(@, d, [was |-> was, is |-> row])]
SetDisc(w, r, row) ==
  LET was == IF r \in DOMAIN w.disc THEN w.disc[r].was ELSE w.tab.disc[r]
  IN  [w EXCEPT !.disc = With(@, r, [was |-> was, is |-> row])]

\* An UPDATE writes the columns that differ from what was loaded; interfaces are rows of
\* their own, and only added.
Written(row, c) ==
  [f \in DOMAIN row |-> CASE f = "ifs" -> row[f] \cup c.is[f]
                          [] f # "ifs" /\ c.is[f] = c.was[f] -> row[f]
                          [] OTHER -> c.is[f]]
WrittenAll(rows, copies) ==
  [x \in DOMAIN rows |-> IF x \in Changed(copies) THEN Written(rows[x], copies[x]) ELSE rows[x]]

\* UPDATEs run in the order of the ids; none may meet an address still in use.
Clash(before, after) ==
  \E x, y \in DOMAIN before :
    x # y /\ after[x].ip # before[x].ip
      /\ after[x].ip = IF y < x THEN after[y].ip ELSE before[y].ip

\* db.flush(): UPDATE what was touched, then INSERT what is new.  An address in use, or
\* a touched record that is gone, fails it: nothing of the batch can be written any more.
Flush(w) ==
  LET dev == WrittenAll(w.tab.dev, w.dev)
      disc == WrittenAll(w.tab.disc, w.disc)
      ids == w.tab.next .. w.tab.next + Len(w.new) - 1
      inserted(r) == w.new[r - w.tab.next + 1]
      settled(copies) == [x \in DOMAIN copies |-> [was |-> copies[x].is, is |-> copies[x].is]]
      known == DOMAIN w.disc \subseteq DOMAIN w.tab.disc
      free == \A r \in ids : \A q \in DOMAIN disc : disc[q].ip # inserted(r).ip
  IN  CASE Clash(w.tab.dev, dev) -> [w EXCEPT !.failed = "devices"]
        [] ~Clash(w.tab.dev, dev) /\ ~(known /\ free /\ ~Clash(w.tab.disc, disc)) ->
             [w EXCEPT !.failed = "discovered"]
        [] OTHER -> [w EXCEPT !.tab = [dev |-> dev, next |-> @.next + Len(w.new),
                                       disc |-> [r \in DOMAIN disc \cup ids |->
                                                  IF r \in ids THEN inserted(r) ELSE disc[r]]],
                              !.dev = settled(@), !.disc = settled(@),
                              !.new = <<>>, !.wrote = TRUE]

-----------------------------------------------------------------------------
(* Matching, as the queries see the tables.                                  *)

HolderOf(w, ip) == {d \in Devices : w.tab.dev[d].ip = ip}
OwnerOf(mac) == {d \in Devices : Mac[d] = mac}

\* Mutant: whoever holds the address is meant, whatever its MAC.
MatchedByAddress(w, h) ==
  IF HolderOf(w, h.ip) # {} THEN HolderOf(w, h.ip) ELSE OwnerOf(h.mac)

\* _match_dashboard_device: MAC and address; the address, unless its holder has another
\* MAC and this MAC is a device's that is no Unraid host; the MAC, but an Unraid host
\* is not moved by it.
Matched(w, h) ==
  LET holder == HolderOf(w, h.ip)  owner == OwnerOf(h.mac)
      moves == \A d \in owner : h.mac \notin site.unraid \/ LoadedDev(w, d).ip = h.ip
  IN  CASE holder \cap owner # {} -> holder
        [] holder # {} /\ holder \cap owner = {} /\ (owner = {} \/ h.mac \in site.unraid) -> holder
        [] OTHER -> IF moves THEN owner ELSE {}

\* _is_live_record_elsewhere: the same box on a second address.
LiveElsewhere(row, ip) == row.ip # ip /\ row.online /\ Across(row.ip, ip)

\* _match_discovered_host: the same order for the discovered hosts; several records
\* with the MAC leave the match to the address, and the MAC alone must be unambiguous.
MatchedDisc(w, h) ==
  LET rows == w.tab.disc
      at == {r \in DOMAIN rows : rows[r].ip = h.ip}
      exact == {r \in at : rows[r].mac = h.mac}
      others == {r \in DOMAIN rows : rows[r].mac = h.mac} \ at
  IN  CASE exact # {} -> exact
        [] at # {} /\ exact = {} /\ (Cardinality(others) # 1 \/ h.mac \in site.unraid) -> at
        [] OTHER -> {r \in others : Cardinality(others) = 1 /\ ~LiveElsewhere(LoadedDisc(w, r), h.ip)}

\* _upsert_discovered_host: a matched record moves to the address, deleting the one that
\* is there at once, in the database only; no match is a new record.
Upserted(w, h, match) ==
  IF match = {} THEN [w EXCEPT !.new = Append(@, [mac |-> h.mac, ip |-> h.ip, online |-> TRUE])]
  ELSE LET r == CHOOSE r \in match : TRUE
           row == LoadedDisc(w, r)
           there == {q \in DOMAIN w.tab.disc : w.tab.disc[q].ip = h.ip} \ {r}
           gone == {q \in DOMAIN w.disc : w.disc[q].is.ip = h.ip} \ {r}
           moved == SetDisc(w, r, [row EXCEPT !.ip = h.ip, !.online = TRUE])
       IN  IF row.ip = h.ip THEN moved
           ELSE [moved EXCEPT
                   !.tab.disc = [q \in DOMAIN @ \ there |-> @[q]],
                   !.disc = [q \in DOMAIN @ \ gone |-> @[q]],
                   !.wrote = TRUE]

\* _find_safe_placeholder_ip: the old address if no other device has it, else the first
\* free placeholder.
SafePlaceholder(w, d) ==
  LET free(a) == HolderOf(w, a) \subseteq {d}
      old == LoadedDev(w, d).old
      lowest == CHOOSE p \in Placeholders :
                  free(p) /\ \A q \in Placeholders : free(q) => p <= q
  IN  IF old # None /\ free(old) THEN old ELSE lowest

\* Mutant: the other device is moved in the session, but not flushed.
ResolvedUnflushed(w, ip, d) ==
  LET other == HolderOf(w, ip) \ {d} IN
  IF other = {} THEN w
  ELSE LET c == CHOOSE c \in other : TRUE
       IN  SetDev(w, c, [LoadedDev(w, c) EXCEPT !.ip = SafePlaceholder(w, c),
                                                !.placeholder = TRUE, !.online = FALSE])

\* _resolve_ip_conflict: whoever else holds the address is moved out of the way.
Resolved(w, ip, d) ==
  LET other == HolderOf(w, ip) \ {d} IN
  IF other = {} THEN w
  ELSE LET c == CHOOSE c \in other : TRUE
       IN  Flush(SetDev(w, c, [LoadedDev(w, c) EXCEPT !.ip = SafePlaceholder(w, c),
                                                      !.placeholder = TRUE, !.online = FALSE]))

\* _update_dashboard_device: the match is back; it moves if it answered from elsewhere,
\* and is reported moved if its own MAC did.
Updated(w, h, d) ==
  LET back == SetDev(w, d, [LoadedDev(w, d) EXCEPT !.placeholder = FALSE, !.online = TRUE])
      clear == Resolved(back, h.ip, d)
      here == LoadedDev(clear, d)
      moved == SetDev(clear, d, [here EXCEPT !.old = here.ip, !.ip = h.ip])
  IN  CASE LoadedDev(w, d).ip = h.ip -> back
        [] LoadedDev(w, d).ip # h.ip /\ clear.failed # None -> clear
        [] OTHER -> IF Mac[d] # h.mac THEN moved
                    ELSE [moved EXCEPT !.news =
                            @ \cup {[kind |-> "moved", dev |-> d, ip |-> h.ip]}]

\* Mutant: only known gateways keep their address.
KeptGatewaysOnly(w, h, d) ==
  LET row == LoadedDev(w, d) IN
  /\ d \notin HolderOf(w, h.ip) /\ row.ip # h.ip /\ Across(row.ip, h.ip)
  /\ row.ifs # {} \/ IsGateway(h.ip) \/ IsGateway(row.ip)

\* _keeps_ip_across_subnets: matched by its MAC, from another subnet, and known as a
\* gateway or answering at home.
Kept(w, h, d) ==
  LET row == LoadedDev(w, d) IN
  /\ d \notin HolderOf(w, h.ip) /\ row.ip # h.ip /\ Across(row.ip, h.ip)
  /\ \/ row.ifs # {} \/ IsGateway(h.ip) \/ IsGateway(row.ip)
     \/ row.online /\ ~row.placeholder

\* Mutant: whoever has the address is moved out of the way first.
AttachedAlone(w, h, d) ==
  LET clear == Resolved(w, h.ip, d)
  IN  IF clear.failed # None THEN clear
      ELSE Flush(SetDev(clear, d, [LoadedDev(clear, d) EXCEPT !.ifs = @ \cup {h.ip}]))

\* _attach_interface, flushed at once.
Attached(w, h, d) == Flush(SetDev(w, d, [LoadedDev(w, d) EXCEPT !.ifs = @ \cup {h.ip}]))

\* The discovered host of an answer; a new one without a device is announced.
Listed(w, h, announced) ==
  LET match == MatchedDisc(w, h)  listed == Upserted(w, h, match)
  IN  IF announced /\ match = {}
      THEN [listed EXCEPT !.news = @ \cup {[kind |-> "new", mac |-> h.mac, ip |-> h.ip]}]
      ELSE listed

\* _sync_host_internal: one answer, from a known interface, of a device that keeps its
\* address, of one that is found there or moves there, or of none.
Synced(w, h) ==
  LET iface == {d \in Devices : h.ip \in w.tab.dev[d].ifs}
      dev == Matched(w, h)
      the == CHOOSE d \in dev : TRUE
      attached == Attached(w, h, the)
      kept == dev # {} /\ Kept(w, h, the)
  IN  CASE iface # {} -> Listed(w, h, FALSE)
        [] iface = {} /\ kept /\ IsGateway(h.ip) ->
             IF attached.failed = None THEN Listed(attached, h, FALSE) ELSE attached
        [] iface = {} /\ kept /\ ~IsGateway(h.ip) -> Listed(w, h, TRUE)
        [] OTHER -> IF dev # {} THEN Updated(Listed(w, h, FALSE), h, the)
                    ELSE Listed(w, h, TRUE)

-----------------------------------------------------------------------------
(* The batches.                                                              *)

Init ==
  /\ site \in Sites
  /\ tab = [dev |-> [d \in Devices |->
                      [ip |-> Home[d], old |-> None, placeholder |-> FALSE,
                       online |-> d \notin site.offline, ifs |-> {}]],
             disc |-> [d \in Devices |->
                        [mac |-> Mac[d], ip |-> Home[d], online |-> d \notin site.offline]],
             next |-> 1 + CHOOSE d \in Devices \cup {0} : \A e \in Devices : e <= d]
  /\ work = tab /\ writer = None
  /\ sess = [s \in Sessions |-> Idle]
  /\ last = NothingEnded
  /\ answers = 0

Heard(b) == {b[i] : i \in DOMAIN b}
Away(b, mac, ip) == \E h \in Heard(b) : h.mac = mac /\ h.ip # ip
HeardAt(b, mac, ip) == \E h \in Heard(b) : h.mac = mac /\ h.ip = ip
OtherAt(b, mac, ip) == \E h \in Heard(b) : h.mac # mac /\ h.ip = ip

\* A MAC answers from two addresses of one subnet (an alias, ipvlan containers).
Several(b) ==
  \E g, h \in Heard(b) : g.mac = h.mac /\ g # h /\ ~Across(g.ip, h.ip)

\* A recorded address answers for another MAC, and the recorded one from elsewhere.
HandedOver(w) ==
  \/ \E d \in Devices : LET ip == w.tab.dev[d].ip IN Away(w.batch, Mac[d], ip) /\ OtherAt(w.batch, Mac[d], ip)
  \/ \E r \in DOMAIN w.tab.disc :
       LET row == w.tab.disc[r] IN Away(w.batch, row.mac, row.ip) /\ OtherAt(w.batch, row.mac, row.ip)

\* What was offline, or has just been moved, answers at its address and in another subnet.
Returning(w) ==
  \/ \E d \in Devices :
       LET row == w.tab.dev[d] IN
       /\ Away(w.batch, Mac[d], row.ip) /\ HeardAt(w.batch, Mac[d], row.ip)
       /\ ~row.online \/ row.placeholder \/ LoadedDev(w, d).ip # row.ip
  \/ \E r \in DOMAIN w.tab.disc :
       LET row == w.tab.disc[r] IN
       /\ Away(w.batch, row.mac, row.ip) /\ HeardAt(w.batch, row.mac, row.ip)
       /\ ~row.online \/ LoadedDisc(w, r).ip # row.ip

\* The address of a device answers for another MAC, and so does one the device had before.
Parked(w) ==
  \E d \in Devices :
    OtherAt(w.batch, Mac[d], w.tab.dev[d].ip) /\ \E h \in Heard(w.batch) : h.ip = w.tab.dev[d].old

\* An address answers for another MAC than it is recorded with, which is live elsewhere.
Shared(w) ==
  \E r \in DOMAIN w.tab.disc, h \in Heard(w.batch) :
    /\ w.tab.disc[r].ip = h.ip /\ w.tab.disc[r].mac # h.mac
    /\ \/ \E g \in Heard(w.batch) : g.mac = h.mac /\ Across(g.ip, h.ip)
       \/ \E q \in DOMAIN w.tab.disc : w.tab.disc[q].mac = h.mac /\ LiveElsewhere(w.tab.disc[q], h.ip)

\* What is odd about a batch, given what its session sees.
Odd(w) ==
  {o \in {"several", "handover", "returning", "parked", "shared"} :
     \/ o = "several" /\ Several(w.batch)
     \/ o = "handover" /\ HandedOver(w)
     \/ o = "returning" /\ Returning(w)
     \/ o = "parked" /\ Parked(w)
     \/ o = "shared" /\ Shared(w)}

Busy == {s \in Sessions : sess[s].busy}

\* sync_hosts_batch opens a session.
Start(s, b) ==
  /\ s \notin Busy /\ answers + Len(b) <= MaxAnswers
  /\ answers' = answers + Len(b)
  /\ sess' = [t \in Sessions |->
       CASE t = s -> [busy |-> TRUE, tab |-> None, batch |-> b, hosts |-> b,
                      dev |-> <<>>, disc |-> <<>>, new |-> <<>>, news |-> {}, wrote |-> FALSE, failed |-> None,
                      alone |-> Busy = {}, odd |-> {}]
         [] t # s /\ t \in Busy -> [sess[t] EXCEPT !.alone = FALSE]
         [] OTHER -> sess[t]]
  /\ last' = NothingEnded
  /\ UNCHANGED <<site, tab, work, writer>>

\* What s sees: its own writes, else what is committed.
At(s) == [sess[s] EXCEPT !.tab = IF writer = s THEN work ELSE tab]

\* The lock is free for s to write, or it holds it.
MayWrite(s) == writer \in {None, s}

\* The next answer of the batch; the others are skipped once a flush failed.
Sync(s) ==
  LET w == Synced(At(s), Head(sess[s].hosts))  lost == w.failed # None IN
  /\ s \in Busy /\ sess[s].hosts # <<>>
  /\ w.wrote \/ lost => MayWrite(s)
  /\ sess' = [sess EXCEPT ![s] =
       [w EXCEPT !.tab = None, !.hosts = IF lost THEN <<>> ELSE Tail(@), !.wrote = @ /\ ~lost,
                   !.odd = @ \cup Odd(At(s))]]
  /\ writer' = IF w.wrote /\ ~lost THEN s ELSE IF writer = s THEN None ELSE writer
  /\ work' = IF w.wrote /\ ~lost THEN w.tab ELSE IF writer = s THEN tab ELSE work
  /\ last' = NothingEnded
  /\ UNCHANGED <<site, tab, answers>>

Ended(s, outcome, news) ==
  [outcome |-> outcome, hosts |-> sess[s].batch, alone |-> sess[s].alone,
   odd |-> sess[s].odd, news |-> news]

\* Mutant: the notifications do not wait for the outcome.
ToldAlways(w) == w.news

\* sync_hosts_batch: what the batch found is announced once it is committed.
Told(w) == IF w.failed = None THEN w.news ELSE {}

\* _commit_with_retry, then the notifications.
Commit(s) ==
  LET w == Flush(At(s)) IN
  /\ s \in Busy /\ sess[s].hosts = <<>> /\ sess[s].failed = None /\ MayWrite(s)
  /\ tab' = IF w.failed = None THEN w.tab ELSE tab
  /\ last' = Ended(s, IF w.failed = None THEN "stored" ELSE w.failed, Told(w))
  /\ work' = tab' /\ writer' = None
  /\ sess' = [sess EXCEPT ![s] = Idle]
  /\ UNCHANGED <<site, answers>>

\* After a failed flush there is nothing to commit: commit() raises, nothing is announced.
CommitRaises(s) ==
  /\ s \in Busy /\ sess[s].hosts = <<>> /\ sess[s].failed # None
  /\ last' = Ended(s, sess[s].failed, Told(sess[s]))
  /\ sess' = [sess EXCEPT ![s] = Idle]
  /\ UNCHANGED <<site, tab, work, writer, answers>>

\* The database stays locked too long: _commit_attempt rolls the session back, so the
\* retry commits nothing, with success.
CommitLocked(s) ==
  /\ s \in Busy /\ sess[s].hosts = <<>> /\ sess[s].failed = None
  /\ writer # s
  /\ last' = Ended(s, "locked", Told(sess[s]))
  /\ sess' = [sess EXCEPT ![s] = Idle]
  /\ UNCHANGED <<site, tab, work, writer, answers>>

Next ==
  \E s \in Sessions :
    \/ \E b \in Batches : Start(s, b)
    \/ Sync(s) \/ Commit(s) \/ CommitRaises(s) \/ CommitLocked(s)

Spec == Init /\ [][Next]_vars

-----------------------------------------------------------------------------

\* Every variable has its type: in particular an address is never missing.
TypeOK ==
  /\ \A rows \in {tab, work} :
       /\ rows.dev \in [Devices -> DevRow]
       /\ \A r \in DOMAIN rows.disc : rows.disc[r] \in DiscRow /\ r < rows.next
  /\ site \in Sites
  /\ writer \in Sessions \cup {None} /\ Busy \subseteq Sessions
  /\ last.outcome \in {"none", "stored", "devices", "discovered", "locked"}
  /\ last.news \subseteq NewsOf
  /\ answers \in 0 .. MaxAnswers

Plain == last.alone /\ last.odd = {}
Stored == last.outcome = "stored" /\ Plain
Answers == {last.hosts[i] : i \in DOMAIN last.hosts}

\* A device follows its MAC: after a plain batch in which it answered it is not left at a
\* placeholder, nor at another address of the subnet it answered from.  Unraid hosts share
\* their MAC and stay, and so do gateways and devices with interfaces.
FollowsMac ==
  Stored => \A h \in Answers, d \in Devices :
    Mac[d] = h.mac /\ h.mac \notin site.unraid /\ tab.dev[d].ifs = {} /\ ~IsGateway(tab.dev[d].ip) =>
      \/ tab.dev[d].ip = h.ip /\ ~tab.dev[d].placeholder
      \/ \E e \in Devices : h.ip \in tab.dev[e].ifs
      \/ ~tab.dev[d].placeholder /\ tab.dev[d].online /\ Across(tab.dev[d].ip, h.ip)

\* Every address that answered in a plain batch has a discovered host.
EveryHostListed ==
  Stored => \A h \in Answers : \E r \in DOMAIN tab.disc : tab.disc[r].ip = h.ip

\* Two answers of one MAC in one subnet are one device, in whichever order they are matched:
\* a batch whose only odd case is that fails no flush, lists one of the two addresses, and
\* leaves the device, not set aside, at an address of the subnet that answered for its MAC.
AliasesAreOne ==
  last.alone /\ last.odd = {"several"} =>
    /\ last.outcome \in {"stored", "locked"}
    /\ last.outcome = "stored" => \A h \in Answers :
         LET mates == {g \in Answers : g.mac = h.mac /\ ~Across(g.ip, h.ip)} IN
         /\ \E g \in mates, r \in DOMAIN tab.disc : tab.disc[r].ip = g.ip
         /\ \A d \in Devices :
              Mac[d] = h.mac /\ h.mac \notin site.unraid /\ tab.dev[d].ifs = {} /\ ~IsGateway(tab.dev[d].ip) =>
                \/ ~tab.dev[d].placeholder /\ \E g \in mates : tab.dev[d].ip = g.ip
                \/ \E e \in Devices : h.ip \in tab.dev[e].ifs
                \/ ~tab.dev[d].placeholder /\ tab.dev[d].online /\ Across(tab.dev[d].ip, h.ip)

\* A batch that overlaps no other and meets none of the odd cases is never lost to the unique
\* addresses, whatever the earlier batches left behind.
PlainNeverFails == Plain => last.outcome \in {"stored", "locked"}

\* What a batch that met no odd case announces is in the tables: the discovered host, the
\* device's move.  This holds of batches that overlap as well.
ToldIsStored ==
  last.odd = {} /\ last.outcome # "locked" => \A n \in last.news :
    \/ n.kind = "new" /\ \E r \in DOMAIN tab.disc : tab.disc[r].mac = n.mac /\ tab.disc[r].ip = n.ip
    \/ n.kind = "moved" /\ tab.dev[n.dev].ip = n.ip

\* The tables hold what answered and what was announced.
ListIsTrue == TypeOK /\ EveryHostListed /\ ToldIsStored

\* A device loses its address to another device only: it becomes a placeholder in a commit
\* after which another device has the address.
TakenOver ==
  [][\A d \in Devices :
       last'.odd = {} /\ ~tab.dev[d].placeholder /\ tab'.dev[d].placeholder
         => \E e \in Devices \ {d} : tab'.dev[e].ip = tab.dev[d].ip]_vars

\* A router that answers in several subnets does not jump between its addresses: a batch
\* that overlaps no other leaves a device that is online, and loses its address to no
\* other, in its subnet, whichever of its answers comes first.
StaysInSubnet ==
  [][\A d \in Devices :
       last'.alone /\ last'.odd = {} /\ tab.dev[d].online /\ ~tab.dev[d].placeholder
         => ~Across(tab.dev[d].ip, tab'.dev[d].ip) \/ tab'.dev[d].placeholder]_vars

=============================================================================
