--------------------------- MODULE InventoryProofs ---------------------------
(***************************************************************************)
(* Proofs about Inventory for any devices, addresses, sites, batches and   *)
(* sessions.  What holds of a session between two answers (Going) is said  *)
(* in layers: Base, that every address is used once and nothing is to be   *)
(* inserted twice, of every session; Told0, that what it announced is so   *)
(* or will be once it is flushed, of one whose batch is not odd; and       *)
(* AloneGood, that nothing it has loaded is stale and all that is to move  *)
(* goes where nobody is, of one that is alone besides.  Each layer is      *)
(* taken through Listed, Attached, Updated and Flush, then through Synced, *)
(* and at last through the steps.                                          *)
(***************************************************************************)
EXTENDS Inventory, SequenceTheorems, FiniteSetTheorems, WellFoundedInduction, TLAPS

Discs == UNION {[R -> DiscRow] : R \in SUBSET Nat}
Tables == [dev : [Devices -> DevRow], disc : Discs, next : Nat]
DevCopy == [was : DevRow, is : DevRow]
DiscCopy == [was : DiscRow, is : DiscRow]
DevCopies == UNION {[D -> DevCopy] : D \in SUBSET Devices}
DiscCopies == UNION {[R -> DiscCopy] : R \in SUBSET Nat}
Failures == {None, "devices", "discovered"}

Kinds == {"several", "handover", "returning", "parked", "shared"}

\* A session as it is kept, and with the tables it sees.
SessionWith(t) ==
  [tab : t, busy : BOOLEAN, batch : Seq(Host), hosts : Seq(Host), dev : DevCopies, disc : DiscCopies,
   new : Seq(DiscRow), news : SUBSET NewsOf, wrote : BOOLEAN, failed : Failures, alone : BOOLEAN,
   odd : SUBSET Kinds]
Session == SessionWith({None})
View == SessionWith(Tables)

\* What it is to be a table of records, or a set of loaded rows.
LEMMA DiscsFacts ==
  ASSUME NEW x \in Discs
  PROVE  DOMAIN x \in SUBSET Nat /\ x \in [DOMAIN x -> DiscRow]
BY DEF Discs
\* A function on ids to records is a table of records.
LEMMA DiscsMade ==
  ASSUME NEW R \in SUBSET Nat, NEW x \in [R -> DiscRow]
  PROVE  x \in Discs
BY DEF Discs
\* The same of the loaded devices.
LEMMA DevCopiesFacts ==
  ASSUME NEW x \in DevCopies
  PROVE  DOMAIN x \in SUBSET Devices /\ x \in [DOMAIN x -> DevCopy]
BY DEF DevCopies
\* The same of the loaded devices.
LEMMA DevCopiesMade ==
  ASSUME NEW R \in SUBSET Devices, NEW x \in [R -> DevCopy]
  PROVE  x \in DevCopies
BY DEF DevCopies
\* The same of the loaded records.
LEMMA DiscCopiesFacts ==
  ASSUME NEW x \in DiscCopies
  PROVE  DOMAIN x \in SUBSET Nat /\ x \in [DOMAIN x -> DiscCopy]
BY DEF DiscCopies
\* The same of the loaded records.
LEMMA DiscCopiesMade ==
  ASSUME NEW R \in SUBSET Nat, NEW x \in [R -> DiscCopy]
  PROVE  x \in DiscCopies
BY DEF DiscCopies

\* A session sees rows.
LEMMA LoadedType ==
  ASSUME NEW w \in View
  PROVE  /\ \A d \in Devices : LoadedDev(w, d) \in DevRow
         /\ \A r \in DOMAIN w.tab.disc : LoadedDisc(w, r) \in DiscRow
<1> USE DEF View, SessionWith, Tables
<1>1. DOMAIN w.dev \in SUBSET Devices /\ w.dev \in [DOMAIN w.dev -> DevCopy]
  BY DevCopiesFacts
<1>2. DOMAIN w.disc \in SUBSET Nat /\ w.disc \in [DOMAIN w.disc -> DiscCopy]
  BY DiscCopiesFacts
<1>3. w.tab.disc \in [DOMAIN w.tab.disc -> DiscRow]
  BY DiscsFacts
<1>4. QED
  BY <1>1, <1>2, <1>3 DEF LoadedDev, LoadedDisc, DevCopy, DiscCopy

\* Changing a loaded device changes that device alone, and nothing in the tables.
LEMMA SetDevFacts ==
  ASSUME NEW w \in View, NEW d \in Devices, NEW row \in DevRow, NEW v, v = SetDev(w, d, row)
  PROVE  /\ v \in View
         /\ v.tab = w.tab /\ v.batch = w.batch /\ v.hosts = w.hosts /\ v.disc = w.disc /\ v.new = w.new
         /\ v.news = w.news /\ v.wrote = w.wrote /\ v.failed = w.failed /\ v.alone = w.alone /\ v.odd = w.odd
         /\ v.busy = w.busy
         /\ DOMAIN v.dev = DOMAIN w.dev \cup {d}
         /\ v.dev[d].is = row
         /\ v.dev[d].was = IF d \in DOMAIN w.dev THEN w.dev[d].was ELSE w.tab.dev[d]
         /\ \A e \in DOMAIN w.dev : e # d => v.dev[e] = w.dev[e]
         /\ \A e \in Devices : LoadedDev(v, e) = IF e = d THEN row ELSE LoadedDev(w, e)
         /\ \A r : LoadedDisc(v, r) = LoadedDisc(w, r)
<1> DEFINE was == IF d \in DOMAIN w.dev THEN w.dev[d].was ELSE w.tab.dev[d]
           copy == [was |-> was, is |-> row]
           dev == With(w.dev, d, copy)
<1>1. DOMAIN w.dev \in SUBSET Devices /\ w.dev \in [DOMAIN w.dev -> DevCopy]
  BY DevCopiesFacts DEF View, SessionWith
<1>2. copy \in DevCopy /\ copy.was = was /\ copy.is = row
  BY <1>1 DEF View, SessionWith, Tables, DevCopy
<1>3. /\ DOMAIN dev = DOMAIN w.dev \cup {d} /\ dev[d] = copy
      /\ \A e \in DOMAIN w.dev : e # d => dev[e] = w.dev[e]
      /\ dev \in [DOMAIN w.dev \cup {d} -> DevCopy]
  BY <1>1, <1>2 DEF With
<1>4. dev \in DevCopies
  BY <1>1, <1>3, DevCopiesMade
<1>5. v = [w EXCEPT !.dev = dev]
  BY DEF SetDev
<1> HIDE DEF dev, was, copy
<1>6. QED
  BY <1>2, <1>3, <1>4, <1>5 DEF View, SessionWith, LoadedDev, LoadedDisc, was

\* The same of a record.
LEMMA SetDiscFacts ==
  ASSUME NEW w \in View, NEW r \in DOMAIN w.tab.disc, NEW row \in DiscRow, NEW v, v = SetDisc(w, r, row)
  PROVE  /\ v \in View
         /\ v.tab = w.tab /\ v.batch = w.batch /\ v.hosts = w.hosts /\ v.dev = w.dev /\ v.new = w.new
         /\ v.news = w.news /\ v.wrote = w.wrote /\ v.failed = w.failed /\ v.alone = w.alone /\ v.odd = w.odd
         /\ v.busy = w.busy
         /\ DOMAIN v.disc = DOMAIN w.disc \cup {r}
         /\ v.disc[r].is = row
         /\ v.disc[r].was = IF r \in DOMAIN w.disc THEN w.disc[r].was ELSE w.tab.disc[r]
         /\ \A q \in DOMAIN w.disc : q # r => v.disc[q] = w.disc[q]
         /\ \A q : LoadedDisc(v, q) = IF q = r THEN row ELSE LoadedDisc(w, q)
<1> DEFINE was == IF r \in DOMAIN w.disc THEN w.disc[r].was ELSE w.tab.disc[r]
           copy == [was |-> was, is |-> row]
           disc == With(w.disc, r, copy)
<1>1. DOMAIN w.disc \in SUBSET Nat /\ w.disc \in [DOMAIN w.disc -> DiscCopy]
  BY DiscCopiesFacts DEF View, SessionWith
<1>2. w.tab.disc \in Discs
  BY DEF View, SessionWith, Tables
<1>3. DOMAIN w.tab.disc \in SUBSET Nat /\ w.tab.disc \in [DOMAIN w.tab.disc -> DiscRow]
  BY <1>2, DiscsFacts
<1>4. copy \in DiscCopy /\ copy.was = was /\ copy.is = row
  BY <1>1, <1>3 DEF DiscCopy
<1>5. /\ DOMAIN disc = DOMAIN w.disc \cup {r} /\ disc[r] = copy
      /\ \A e \in DOMAIN w.disc : e # r => disc[e] = w.disc[e]
      /\ disc \in [DOMAIN w.disc \cup {r} -> DiscCopy]
  BY <1>1, <1>4 DEF With
<1>6. disc \in DiscCopies
  BY <1>1, <1>3, <1>5, DiscCopiesMade
<1>7. v = [w EXCEPT !.disc = disc]
  BY DEF SetDisc
<1> HIDE DEF disc, was, copy
<1>8. QED
  BY <1>4, <1>5, <1>6, <1>7 DEF View, SessionWith, LoadedDisc, was

\* What an UPDATE leaves: the columns the session changed are its own.
LEMMA WrittenDev ==
  ASSUME NEW row \in DevRow, NEW c \in DevCopy, NEW x, x = Written(row, c)
  PROVE  /\ x \in DevRow
         /\ x.ip = (IF c.is.ip = c.was.ip THEN row.ip ELSE c.is.ip)
         /\ x.old = (IF c.is.old = c.was.old THEN row.old ELSE c.is.old)
         /\ x.placeholder = (IF c.is.placeholder = c.was.placeholder THEN row.placeholder ELSE c.is.placeholder)
         /\ x.online = (IF c.is.online = c.was.online THEN row.online ELSE c.is.online)
         /\ x.ifs = row.ifs \cup c.is.ifs
<1>1. /\ DOMAIN x = {"ip", "old", "placeholder", "online", "ifs"}
      /\ \A f \in {"ip", "old", "placeholder", "online"} :
           x[f] = IF c.is[f] = c.was[f] THEN row[f] ELSE c.is[f]
      /\ x["ifs"] = row["ifs"] \cup c.is["ifs"]
      /\ x = [f \in DOMAIN x |-> x[f]]
  BY DEF Written, DevRow
<1>2. x = [ip |-> x["ip"], old |-> x["old"], placeholder |-> x["placeholder"], online |-> x["online"], ifs |-> x["ifs"]]
  BY <1>1
<1>3. c.is \in DevRow /\ c.was \in DevRow
  BY DEF DevCopy
<1>4. QED
  BY <1>1, <1>2, <1>3 DEF DevRow

\* The same of a record.
LEMMA WrittenDisc ==
  ASSUME NEW row \in DiscRow, NEW c \in DiscCopy, NEW x, x = Written(row, c)
  PROVE  /\ x \in DiscRow
         /\ x.ip = (IF c.is.ip = c.was.ip THEN row.ip ELSE c.is.ip)
         /\ x.mac = (IF c.is.mac = c.was.mac THEN row.mac ELSE c.is.mac)
         /\ x.online = (IF c.is.online = c.was.online THEN row.online ELSE c.is.online)
<1>1. /\ DOMAIN x = {"mac", "ip", "online"}
      /\ \A f \in {"mac", "ip", "online"} :
           x[f] = IF c.is[f] = c.was[f] THEN row[f] ELSE c.is[f]
      /\ x = [f \in DOMAIN x |-> x[f]]
  BY DEF Written, DiscRow
<1>2. x = [mac |-> x["mac"], ip |-> x["ip"], online |-> x["online"]]
  BY <1>1
<1>3. c.is \in DiscRow /\ c.was \in DiscRow
  BY DEF DiscCopy
<1>4. QED
  BY <1>1, <1>2, <1>3 DEF DiscRow

\* Ids of discovered hosts, also those a session has loaded, are below the next one.
Below(w) == \A r \in DOMAIN w.tab.disc \cup DOMAIN w.disc : r < w.tab.next

FlushIds(w) == w.tab.next .. w.tab.next + Len(w.new) - 1
FlushedDev(w) == WrittenAll(w.tab.dev, w.dev)
FlushedDisc(w) == WrittenAll(w.tab.disc, w.disc)
FlushWorks(w) ==
  /\ ~Clash(w.tab.dev, FlushedDev(w)) /\ ~Clash(w.tab.disc, FlushedDisc(w))
  /\ DOMAIN w.disc \subseteq DOMAIN w.tab.disc
  /\ \A r \in FlushIds(w) : \A q \in DOMAIN w.tab.disc : FlushedDisc(w)[q].ip # w.new[r - w.tab.next + 1].ip

\* A flush leaves tables of rows.
LEMMA FlushedTypes ==
  ASSUME NEW w \in View
  PROVE  /\ FlushedDev(w) \in [Devices -> DevRow]
         /\ FlushedDisc(w) \in [DOMAIN w.tab.disc -> DiscRow]
         /\ \A d \in Devices : FlushedDev(w)[d] =
              IF d \in DOMAIN w.dev /\ w.dev[d].is # w.dev[d].was THEN Written(w.tab.dev[d], w.dev[d]) ELSE w.tab.dev[d]
         /\ \A r \in DOMAIN w.tab.disc : FlushedDisc(w)[r] =
              IF r \in DOMAIN w.disc /\ w.disc[r].is # w.disc[r].was THEN Written(w.tab.disc[r], w.disc[r]) ELSE w.tab.disc[r]
<1>1. w.dev \in [DOMAIN w.dev -> DevCopy] /\ w.disc \in [DOMAIN w.disc -> DiscCopy]
  BY DevCopiesFacts, DiscCopiesFacts DEF View, SessionWith
<1>2. w.tab.dev \in [Devices -> DevRow] /\ w.tab.disc \in [DOMAIN w.tab.disc -> DiscRow]
  BY DiscsFacts DEF View, SessionWith, Tables
<1>3. \A d \in Devices : FlushedDev(w)[d] =
        IF d \in DOMAIN w.dev /\ w.dev[d].is # w.dev[d].was THEN Written(w.tab.dev[d], w.dev[d]) ELSE w.tab.dev[d]
  BY <1>2 DEF FlushedDev, WrittenAll, Changed
<1>4. \A r \in DOMAIN w.tab.disc : FlushedDisc(w)[r] =
        IF r \in DOMAIN w.disc /\ w.disc[r].is # w.disc[r].was THEN Written(w.tab.disc[r], w.disc[r]) ELSE w.tab.disc[r]
  BY <1>2 DEF FlushedDisc, WrittenAll, Changed
<1>5. \A d \in Devices : FlushedDev(w)[d] \in DevRow
  BY <1>1, <1>2, <1>3, WrittenDev
<1>6. \A r \in DOMAIN w.tab.disc : FlushedDisc(w)[r] \in DiscRow
  BY <1>1, <1>2, <1>4, WrittenDisc
<1>7. /\ FlushedDev(w) = [d \in Devices |-> FlushedDev(w)[d]]
      /\ FlushedDisc(w) = [r \in DOMAIN w.tab.disc |-> FlushedDisc(w)[r]]
  BY <1>2 DEF FlushedDev, FlushedDisc, WrittenAll
<1>8. QED
  BY <1>3, <1>4, <1>5, <1>6, <1>7

\* db.flush(), field by field.
LEMMA FlushFacts ==
  ASSUME NEW w \in View, Below(w), w.failed = None, NEW v, v = Flush(w)
  PROVE  /\ v \in View
         /\ v.batch = w.batch /\ v.hosts = w.hosts /\ v.news = w.news /\ v.alone = w.alone /\ v.odd = w.odd
         /\ v.busy = w.busy
         /\ v.failed = None <=> FlushWorks(w)
         /\ v.failed # None => v.tab = w.tab
         /\ v.failed = None =>
              /\ v.wrote /\ v.new = <<>>
              /\ v.tab.dev = FlushedDev(w)
              /\ v.tab.next = w.tab.next + Len(w.new)
              /\ DOMAIN v.tab.disc = DOMAIN w.tab.disc \cup FlushIds(w)
              /\ \A r \in DOMAIN w.tab.disc : v.tab.disc[r] = FlushedDisc(w)[r]
              /\ \A r \in FlushIds(w) : v.tab.disc[r] = w.new[r - w.tab.next + 1]
              /\ DOMAIN v.dev = DOMAIN w.dev
              /\ \A d \in DOMAIN w.dev : v.dev[d].was = w.dev[d].is /\ v.dev[d].is = w.dev[d].is
              /\ DOMAIN v.disc = DOMAIN w.disc
              /\ \A r \in DOMAIN w.disc : v.disc[r].was = w.disc[r].is /\ v.disc[r].is = w.disc[r].is
         /\ Below(v)
<1>0. /\ w.tab \in Tables /\ w.new \in Seq(DiscRow) /\ w.tab.next \in Nat /\ Len(w.new) \in Nat
      /\ w.dev \in [DOMAIN w.dev -> DevCopy] /\ DOMAIN w.dev \in SUBSET Devices
      /\ w.disc \in [DOMAIN w.disc -> DiscCopy] /\ DOMAIN w.disc \in SUBSET Nat
      /\ DOMAIN w.tab.disc \in SUBSET Nat
  BY DevCopiesFacts, DiscCopiesFacts, DiscsFacts DEF View, SessionWith, Tables
<1> DEFINE inserted(r) == w.new[r - w.tab.next + 1]
           disc == [r \in DOMAIN FlushedDisc(w) \cup FlushIds(w) |->
                      IF r \in FlushIds(w) THEN inserted(r) ELSE FlushedDisc(w)[r]]
           devs == [x \in DOMAIN w.dev |-> [was |-> w.dev[x].is, is |-> w.dev[x].is]]
           discs == [x \in DOMAIN w.disc |-> [was |-> w.disc[x].is, is |-> w.disc[x].is]]
           t == [dev |-> FlushedDev(w), next |-> w.tab.next + Len(w.new), disc |-> disc]
           done == [w EXCEPT !.tab = t, !.dev = devs, !.disc = discs, !.new = <<>>, !.wrote = TRUE]
<1>1. \/ v = [w EXCEPT !.failed = "devices"] /\ ~FlushWorks(w)
      \/ v = [w EXCEPT !.failed = "discovered"] /\ ~FlushWorks(w)
      \/ v = done /\ FlushWorks(w)
  <2>1. DOMAIN FlushedDisc(w) = DOMAIN w.tab.disc
    BY FlushedTypes
  <2>2. CASE Clash(w.tab.dev, FlushedDev(w))
    BY <2>2, SMTT(60) DEF Flush, FlushedDev, FlushWorks
  <2>3. CASE ~Clash(w.tab.dev, FlushedDev(w)) /\ ~FlushWorks(w)
    BY <2>1, <2>3, ZenonT(60) DEF Flush, FlushedDev, FlushedDisc, FlushIds, FlushWorks
  <2>4. CASE FlushWorks(w)
    BY <2>1, <2>4 DEF Flush, FlushedDev, FlushedDisc, FlushIds, FlushWorks
  <2>5. QED
    BY <2>2, <2>3, <2>4
<1>2. CASE v # done \/ ~FlushWorks(w)
  BY <1>1, <1>2, AddressesAssumption DEF View, SessionWith, Failures, Below
<1>3. CASE v = done /\ FlushWorks(w)
  <2>1. FlushIds(w) \in SUBSET Nat /\ \A r \in FlushIds(w) : inserted(r) \in DiscRow /\ r >= w.tab.next /\ r < t.next
    BY <1>0 DEF FlushIds
  <2>2. disc \in [DOMAIN w.tab.disc \cup FlushIds(w) -> DiscRow]
    BY <2>1, FlushedTypes
  <2>3. disc \in Discs
    BY <1>0, <2>1, <2>2, DiscsMade
  <2>4. devs \in [DOMAIN w.dev -> DevCopy] /\ discs \in [DOMAIN w.disc -> DiscCopy]
    BY <1>0 DEF DevCopy, DiscCopy
  <2>5. devs \in DevCopies /\ discs \in DiscCopies
    BY <1>0, <2>4, DevCopiesMade, DiscCopiesMade
  <2>6. t \in Tables
    BY <1>0, <2>3, FlushedTypes DEF Tables
  <2>7. /\ v.tab = t /\ v.dev = devs /\ v.disc = discs /\ v.new = <<>> /\ v.wrote /\ v.failed = None
        /\ v.batch = w.batch /\ v.hosts = w.hosts /\ v.news = w.news /\ v.alone = w.alone /\ v.odd = w.odd
        /\ v.busy = w.busy
    <3> HIDE DEF t, devs, discs
    <3> QED
      BY <1>3 DEF View, SessionWith
  <2>8. v \in View
    <3>1. <<>> \in Seq(DiscRow)
      OBVIOUS
    <3> HIDE DEF t, devs, discs
    <3>2. QED
      BY <1>3, <2>5, <2>6, <3>1 DEF View, SessionWith
  <2>9. \A r \in DOMAIN w.tab.disc : r \notin FlushIds(w)
    BY <1>0, <2>1 DEF Below
  <2>10. DOMAIN FlushedDisc(w) = DOMAIN w.tab.disc
    BY FlushedTypes
  <2>11. Below(v)
    BY <1>0, <2>1, <2>7, <2>10 DEF Below
  <2>12. /\ v.tab.dev = FlushedDev(w) /\ v.tab.next = w.tab.next + Len(w.new) /\ v.tab.disc = disc
    BY <2>7
  <2>13. /\ DOMAIN v.tab.disc = DOMAIN w.tab.disc \cup FlushIds(w)
         /\ \A r \in DOMAIN w.tab.disc : v.tab.disc[r] = FlushedDisc(w)[r]
         /\ \A r \in FlushIds(w) : v.tab.disc[r] = w.new[r - w.tab.next + 1]
    BY <2>9, <2>10, <2>12
  <2>14. /\ DOMAIN v.dev = DOMAIN w.dev
         /\ \A d \in DOMAIN w.dev : v.dev[d].was = w.dev[d].is /\ v.dev[d].is = w.dev[d].is
         /\ DOMAIN v.disc = DOMAIN w.disc
         /\ \A r \in DOMAIN w.disc : v.disc[r].was = w.disc[r].is /\ v.disc[r].is = w.disc[r].is
    BY <2>7
  <2> HIDE DEF disc, devs, discs, t, done
  <2>15. QED
    BY <1>3, <2>7, <2>8, <2>11, <2>12, <2>13, <2>14
<1>4. QED
  BY <1>2, <1>3

Less == OpToRel(<, Nat)

\* A non-empty set of numbers has a least one.
LEMMA LeastFacts ==
  ASSUME NEW S, S \subseteq Nat, S # {}
  PROVE  \E x \in S : \A y \in S : x <= y
<1>1. IsWellFoundedOn(Less, Nat)
  BY NatLessThanWellFounded DEF Less
<1>2. \E x \in S : \A y \in S : ~(<<y, x>> \in Less)
  BY <1>1, WFMin
<1>3. PICK x \in S : \A y \in S : ~(<<y, x>> \in Less)
  BY <1>2
<1>4. \A y \in Nat : y < x => <<y, x>> \in Less
  BY DEF Less, OpToRel
<1>5. ASSUME NEW y \in S PROVE x <= y
  <2>1. x \in Nat /\ y \in Nat /\ ~(y < x)
    BY <1>3, <1>4
  <2>2. QED
    BY <2>1
<1>6. QED
  BY <1>5

\* The other devices never hold all placeholders.
LEMMA PlaceholderLeft ==
  ASSUME NEW w \in View, NEW d \in Devices
  PROVE  \E p \in Placeholders : HolderOf(w, p) \subseteq {d}
<1> SUFFICES ASSUME \A p \in Placeholders : \E e \in Devices \ {d} : w.tab.dev[e].ip = p PROVE FALSE
  BY DEF HolderOf
<1> DEFINE holder == [p \in Placeholders |-> CHOOSE e \in Devices \ {d} : w.tab.dev[e].ip = p]
<1>1. \A p \in Placeholders : holder[p] \in Devices \ {d} /\ w.tab.dev[holder[p]].ip = p
  OBVIOUS
<1>2. holder \in Injection(Placeholders, Devices \ {d})
  <2>1. holder \in [Placeholders -> Devices \ {d}]
    BY <1>1
  <2>2. \A p, q \in Placeholders : holder[p] = holder[q] => p = q
    BY <1>1
  <2> HIDE DEF holder
  <2>3. QED
    BY <2>1, <2>2 DEF Injection, IsInjective
<1>3. IsFiniteSet(Devices) /\ Cardinality(Placeholders) >= Cardinality(Devices)
  BY DevicesAssumption, AddressesAssumption
<1>4. IsFiniteSet(Devices \ {d}) /\ Cardinality(Devices \ {d}) = Cardinality(Devices) - 1
  BY <1>3, FS_RemoveElement
<1>5. IsFiniteSet(Placeholders) /\ Cardinality(Placeholders) <= Cardinality(Devices \ {d})
  BY <1>2, <1>4, FS_Injection
<1>6. Cardinality(Devices) \in Nat /\ Cardinality(Placeholders) \in Nat
  BY <1>3, <1>5, FS_CardinalityType
<1>7. QED
  BY <1>3, <1>4, <1>5, <1>6

\* _find_safe_placeholder_ip finds an address that no other device holds.
LEMMA SafePlaceholderFacts ==
  ASSUME NEW w \in View, NEW d \in Devices
  PROVE  LET p == SafePlaceholder(w, d)
         IN  /\ p \in Place /\ HolderOf(w, p) \subseteq {d}
             /\ p \in Placeholders \/ p = LoadedDev(w, d).old
<1> DEFINE free(a) == HolderOf(w, a) \subseteq {d}
           left == {p \in Placeholders : free(p)}
           first(p) == free(p) /\ \A q \in Placeholders : free(q) => p <= q
           lowest == CHOOSE p \in Placeholders : first(p)
           old == LoadedDev(w, d).old
<1>1. left # {} /\ left \subseteq Nat
  BY PlaceholderLeft, AddressesAssumption
<1>2. PICK p \in left : \A q \in left : p <= q
  BY <1>1, LeastFacts
<1>3. p \in Placeholders /\ first(p)
  BY <1>2
<1>4. lowest \in Placeholders /\ free(lowest)
  <2> HIDE DEF first
  <2>1. lowest \in Placeholders /\ first(lowest)
    BY <1>3
  <2>2. QED
    BY <2>1 DEF first
<1>5. old \in Place \cup {None}
  BY LoadedType DEF DevRow
<1>6. SafePlaceholder(w, d) = IF old # None /\ free(old) THEN old ELSE lowest
  BY DEF SafePlaceholder
<1>7. QED
  BY <1>4, <1>5, <1>6, AddressesAssumption DEF Place

-----------------------------------------------------------------------------
(* The discovered hosts.                                                     *)

There(w, h, r) == {q \in DOMAIN w.tab.disc : w.tab.disc[q].ip = h.ip} \ {r}
Gone(w, h, r) == {q \in DOMAIN w.disc : w.disc[q].is.ip = h.ip} \ {r}

\* Only records of the table are matched.
LEMMA MatchedDiscFacts ==
  ASSUME NEW w, NEW h
  PROVE  MatchedDisc(w, h) \subseteq DOMAIN w.tab.disc
BY DEF MatchedDisc

\* A new record.
LEMMA UpsertedNew ==
  ASSUME NEW w \in View, NEW h \in Host, NEW v, v = Upserted(w, h, {})
  PROVE  /\ v \in View
         /\ v.tab = w.tab /\ v.batch = w.batch /\ v.hosts = w.hosts /\ v.dev = w.dev /\ v.disc = w.disc
         /\ v.news = w.news /\ v.wrote = w.wrote /\ v.failed = w.failed /\ v.alone = w.alone /\ v.odd = w.odd
         /\ v.busy = w.busy
         /\ v.new = Append(w.new, [mac |-> h.mac, ip |-> h.ip, online |-> TRUE])
<1>1. [mac |-> h.mac, ip |-> h.ip, online |-> TRUE] \in DiscRow
  BY DEF Host, DiscRow
<1> DEFINE row == [mac |-> h.mac, ip |-> h.ip, online |-> TRUE]
<1>2. Append(w.new, row) \in Seq(DiscRow)
  BY <1>1 DEF View, SessionWith
<1>3. v = [w EXCEPT !.new = Append(w.new, row)]
  BY DEF Upserted
<1> HIDE DEF row
<1>4. v \in View /\ v.new = Append(w.new, row)
  BY <1>2, <1>3 DEF View, SessionWith
<1>5. QED
  BY <1>3, <1>4 DEF View, SessionWith, row

\* A record that is where the host is, or moves there.
FoundAt(w, h, v, r) ==
  /\ v \in View
  /\ v.batch = w.batch /\ v.hosts = w.hosts /\ v.dev = w.dev /\ v.new = w.new
  /\ v.news = w.news /\ v.failed = w.failed /\ v.alone = w.alone /\ v.odd = w.odd
  /\ v.busy = w.busy
  /\ v.tab.dev = w.tab.dev /\ v.tab.next = w.tab.next
  /\ LoadedDisc(w, r).ip = h.ip => v.tab = w.tab /\ v.wrote = w.wrote /\ DOMAIN v.disc = DOMAIN w.disc \cup {r}
  /\ LoadedDisc(w, r).ip # h.ip =>
       /\ v.wrote
       /\ DOMAIN v.tab.disc = DOMAIN w.tab.disc \ There(w, h, r)
       /\ DOMAIN v.disc = (DOMAIN w.disc \cup {r}) \ Gone(w, h, r)
  /\ \A q \in DOMAIN v.tab.disc : v.tab.disc[q] = w.tab.disc[q]
  /\ r \in DOMAIN v.tab.disc
  /\ r \in DOMAIN v.disc /\ v.disc[r].is = [LoadedDisc(w, r) EXCEPT !.ip = h.ip, !.online = TRUE]
  /\ v.disc[r].was = IF r \in DOMAIN w.disc THEN w.disc[r].was ELSE w.tab.disc[r]
  /\ \A q \in DOMAIN v.disc : q # r => q \in DOMAIN w.disc /\ v.disc[q] = w.disc[q]

\* A matched record is found where the answer came from.
LEMMA UpsertedFound ==
  ASSUME NEW w \in View, NEW h \in Host, NEW M \in SUBSET DOMAIN w.tab.disc, M # {}, NEW v, v = Upserted(w, h, M)
  PROVE  \E r \in M : FoundAt(w, h, v, r)
<1> DEFINE r == CHOOSE r \in M : TRUE
           row == LoadedDisc(w, r)
           next == [row EXCEPT !.ip = h.ip, !.online = TRUE]
           moved == SetDisc(w, r, next)
           tabs == [q \in DOMAIN w.tab.disc \ There(w, h, r) |-> w.tab.disc[q]]
           discs == [q \in DOMAIN moved.disc \ Gone(w, h, r) |-> moved.disc[q]]
           done == [moved EXCEPT !.tab.disc = [q \in DOMAIN @ \ There(w, h, r) |-> @[q]],
                                 !.disc = [q \in DOMAIN @ \ Gone(w, h, r) |-> @[q]],
                                 !.wrote = TRUE]
<1>1. r \in M /\ r \in DOMAIN w.tab.disc
  OBVIOUS
<1>2. v = IF row.ip = h.ip THEN moved ELSE done
  BY DEF Upserted, There, Gone
<1>3. row \in DiscRow /\ next \in DiscRow
  BY <1>1, LoadedType DEF DiscRow, Host
<1> HIDE DEF r, row, next
<1>4. /\ moved \in View
      /\ moved.tab = w.tab /\ moved.batch = w.batch /\ moved.hosts = w.hosts /\ moved.dev = w.dev /\ moved.new = w.new
      /\ moved.news = w.news /\ moved.wrote = w.wrote /\ moved.failed = w.failed /\ moved.alone = w.alone
      /\ moved.odd = w.odd /\ moved.busy = w.busy
      /\ DOMAIN moved.disc = DOMAIN w.disc \cup {r}
      /\ moved.disc[r].is = next
      /\ moved.disc[r].was = IF r \in DOMAIN w.disc THEN w.disc[r].was ELSE w.tab.disc[r]
      /\ \A q \in DOMAIN w.disc : q # r => moved.disc[q] = w.disc[q]
  BY <1>1, <1>3, SetDiscFacts
<1> HIDE DEF moved
<1>5. CASE row.ip = h.ip
  <2>1. v = moved
    BY <1>2, <1>5
  <2>2. \A q : q \in DOMAIN v.disc /\ q # r => q \in DOMAIN w.disc /\ v.disc[q] = w.disc[q]
    BY <1>4, <2>1
  <2>3. FoundAt(w, h, v, r)
    BY <1>1, <1>4, <1>5, <2>1, <2>2 DEF FoundAt, row, next
  <2>4. QED
    BY <1>1, <2>3
<1>6. CASE row.ip # h.ip
  <2>1. w.tab \in Tables /\ moved.tab \in Tables /\ w.tab.disc \in Discs /\ moved.disc \in DiscCopies
    BY <1>4 DEF View, SessionWith, Tables
  <2>2. /\ DOMAIN w.tab.disc \in SUBSET Nat /\ w.tab.disc \in [DOMAIN w.tab.disc -> DiscRow]
        /\ DOMAIN moved.disc \in SUBSET Nat /\ moved.disc \in [DOMAIN moved.disc -> DiscCopy]
    BY <2>1, DiscsFacts, DiscCopiesFacts
  <2>3. tabs \in Discs
    <3>1. DOMAIN w.tab.disc \ There(w, h, r) \in SUBSET Nat /\ tabs \in [DOMAIN w.tab.disc \ There(w, h, r) -> DiscRow]
      BY <2>2
    <3>2. QED
      BY <3>1, DiscsMade
  <2>4. discs \in DiscCopies
    <3>1. DOMAIN moved.disc \ Gone(w, h, r) \in SUBSET Nat /\ discs \in [DOMAIN moved.disc \ Gone(w, h, r) -> DiscCopy]
      BY <2>2
    <3>2. QED
      BY <3>1, DiscCopiesMade
  <2>5. v = [moved EXCEPT !.tab = [w.tab EXCEPT !.disc = tabs], !.disc = discs, !.wrote = TRUE]
    BY <1>2, <1>4, <1>6
  <2>6. /\ DOMAIN tabs = DOMAIN w.tab.disc \ There(w, h, r) /\ \A q \in DOMAIN tabs : tabs[q] = w.tab.disc[q]
        /\ DOMAIN discs = DOMAIN moved.disc \ Gone(w, h, r) /\ \A q \in DOMAIN discs : discs[q] = moved.disc[q]
    OBVIOUS
  <2> HIDE DEF tabs, discs
  <2>7. [w.tab EXCEPT !.disc = tabs] \in Tables /\ [w.tab EXCEPT !.disc = tabs].disc = tabs
        /\ [w.tab EXCEPT !.disc = tabs].dev = w.tab.dev /\ [w.tab EXCEPT !.disc = tabs].next = w.tab.next
    BY <2>1, <2>3 DEF Tables
  <2> DEFINE t == [w.tab EXCEPT !.disc = tabs]
  <2> HIDE DEF t
  <2>8. v \in View /\ v.tab = t /\ v.disc = discs /\ v.wrote
        /\ v.batch = w.batch /\ v.hosts = w.hosts /\ v.dev = w.dev /\ v.new = w.new
        /\ v.news = w.news /\ v.failed = w.failed /\ v.alone = w.alone /\ v.odd = w.odd
        /\ v.busy = w.busy
    BY <1>4, <2>4, <2>5, <2>7, ZenonT(60) DEF View, SessionWith, t
  <2>9. r \notin There(w, h, r) /\ r \notin Gone(w, h, r)
    BY DEF There, Gone
  <2>10. /\ DOMAIN v.tab.disc = DOMAIN w.tab.disc \ There(w, h, r)
         /\ DOMAIN v.disc = (DOMAIN w.disc \cup {r}) \ Gone(w, h, r)
         /\ \A q \in DOMAIN v.tab.disc : v.tab.disc[q] = w.tab.disc[q]
         /\ v.tab.dev = w.tab.dev /\ v.tab.next = w.tab.next
    BY <1>4, <2>6, <2>7, <2>8 DEF t
  <2>11. /\ r \in DOMAIN v.disc /\ v.disc[r] = moved.disc[r] /\ r \in DOMAIN v.tab.disc
         /\ \A q \in DOMAIN v.disc : q # r => q \in DOMAIN w.disc /\ v.disc[q] = w.disc[q]
    BY <1>1, <1>4, <2>6, <2>8, <2>9, <2>10
  <2>12. FoundAt(w, h, v, r)
    BY <1>4, <1>6, <2>8, <2>10, <2>11, ZenonT(60) DEF FoundAt, row, next
  <2>13. QED
    BY <1>1, <2>12
<1>7. QED
  BY <1>5, <1>6

-----------------------------------------------------------------------------
(* The devices.                                                              *)

\* What of a session the syncing of an answer leaves alone.
Frame(w, v) ==
  v.batch = w.batch /\ v.hosts = w.hosts /\ v.alone = w.alone /\ v.odd = w.odd /\ v.busy = w.busy

\* A session leaves the tables alone until it writes.
Writes(w, v) == (w.wrote => v.wrote) /\ (~v.wrote => v.tab = w.tab)

Ips(D) == {g.ip : g \in D}

BackRow(w, d) == [LoadedDev(w, d) EXCEPT !.placeholder = FALSE, !.online = TRUE]
AsideRow(w, c) == [LoadedDev(w, c) EXCEPT !.ip = SafePlaceholder(w, c), !.placeholder = TRUE, !.online = FALSE]

\* u is w with device d moved to the address of the answer h.
MovedDev(w, h, d, u) ==
  /\ u \in View /\ Frame(w, u)
  /\ u.tab = w.tab /\ u.disc = w.disc /\ u.new = w.new /\ u.wrote = w.wrote /\ u.failed = w.failed
  /\ DOMAIN u.dev = DOMAIN w.dev \cup {d}
  /\ u.dev[d].was = IF d \in DOMAIN w.dev THEN w.dev[d].was ELSE w.tab.dev[d]
  /\ \A e \in DOMAIN w.dev : e # d => u.dev[e] = w.dev[e]
  /\ \A e \in Devices : e # d => LoadedDev(u, e) = LoadedDev(w, e)
  /\ \A r : LoadedDisc(u, r) = LoadedDisc(w, r)
  /\ u.dev[d].is = LoadedDev(u, d)
  /\ LoadedDev(u, d).ip = h.ip /\ LoadedDev(u, d).old = LoadedDev(w, d).ip
  /\ ~LoadedDev(u, d).placeholder /\ LoadedDev(u, d).online /\ LoadedDev(u, d).ifs = LoadedDev(w, d).ifs
  /\ u.news = IF Mac[d] = h.mac THEN w.news \cup {[kind |-> "moved", dev |-> d, ip |-> h.ip]} ELSE w.news

Telling(w, news) == [w EXCEPT !.news = news]

\* News change nothing else.
LEMMA WithNews ==
  ASSUME NEW w \in View, NEW news \in SUBSET NewsOf, NEW v, v = Telling(w, news)
  PROVE  /\ v \in View /\ v.dev = w.dev /\ v.tab = w.tab /\ v.disc = w.disc /\ v.new = w.new /\ v.wrote = w.wrote
         /\ v.failed = w.failed /\ Frame(w, v) /\ v.news = news
BY DEF View, SessionWith, Frame, Telling

\* What _update_dashboard_device writes of a device that moves, once its way is clear.
LEMMA MovedDevMade ==
  ASSUME NEW w \in View, NEW h \in Host, NEW d \in Devices,
         LoadedDev(w, d).online, ~LoadedDev(w, d).placeholder,
         NEW m, m = SetDev(w, d, [LoadedDev(w, d) EXCEPT !.old = LoadedDev(w, d).ip, !.ip = h.ip]),
         NEW u, u = IF Mac[d] # h.mac THEN m
                    ELSE [m EXCEPT !.news = @ \cup {[kind |-> "moved", dev |-> d, ip |-> h.ip]}]
  PROVE  MovedDev(w, h, d, u)
<1> DEFINE row == [LoadedDev(w, d) EXCEPT !.old = LoadedDev(w, d).ip, !.ip = h.ip]
           told == [kind |-> "moved", dev |-> d, ip |-> h.ip]
<1>1. LoadedDev(w, d) \in DevRow
  BY LoadedType
<1>2. /\ row \in DevRow /\ row.ip = h.ip /\ row.old = LoadedDev(w, d).ip
      /\ ~row.placeholder /\ row.online /\ row.ifs = LoadedDev(w, d).ifs
  BY <1>1 DEF DevRow, Host, Place
<1>3. told \in NewsOf
  BY DEF NewsOf, Host
<1> HIDE DEF row, told
<1>4. /\ m \in View /\ Frame(w, m)
      /\ m.tab = w.tab /\ m.disc = w.disc /\ m.new = w.new /\ m.wrote = w.wrote /\ m.failed = w.failed
      /\ m.news = w.news
      /\ DOMAIN m.dev = DOMAIN w.dev \cup {d}
      /\ m.dev[d].was = IF d \in DOMAIN w.dev THEN w.dev[d].was ELSE w.tab.dev[d]
      /\ \A e \in DOMAIN w.dev : e # d => m.dev[e] = w.dev[e]
      /\ m.dev[d].is = row
      /\ \A e \in Devices : LoadedDev(m, e) = IF e = d THEN row ELSE LoadedDev(w, e)
      /\ \A r : LoadedDisc(m, r) = LoadedDisc(w, r)
  BY <1>2, SetDevFacts DEF row, Frame
<1>5. /\ u \in View /\ u.dev = m.dev /\ u.tab = m.tab /\ u.disc = m.disc /\ u.new = m.new /\ u.wrote = m.wrote
      /\ u.failed = m.failed /\ Frame(m, u)
      /\ u.news = IF Mac[d] = h.mac THEN w.news \cup {told} ELSE w.news
  <2>1. m.news \cup {told} \in SUBSET NewsOf
    BY <1>3, <1>4 DEF View, SessionWith
  <2>2. u = IF Mac[d] # h.mac THEN m ELSE Telling(m, m.news \cup {told})
    BY DEF told, Telling
  <2>3. CASE Mac[d] = h.mac
    BY ONLY <1>4, <2>1, <2>2, <2>3, WithNews
  <2>4. CASE Mac[d] # h.mac
    BY ONLY <1>4, <2>2, <2>4 DEF Frame
  <2>5. QED
    BY ONLY <2>3, <2>4
<1>6. /\ \A e : LoadedDev(u, e) = LoadedDev(m, e)
      /\ \A r : LoadedDisc(u, r) = LoadedDisc(m, r)
  BY ONLY <1>5 DEF LoadedDev, LoadedDisc
<1>7. d \in DOMAIN u.dev /\ LoadedDev(u, d) = row /\ u.dev[d].is = row
  BY ONLY <1>4, <1>5, <1>6, d \in Devices
<1>8. \A e \in Devices : e # d => LoadedDev(u, e) = LoadedDev(w, e)
  BY ONLY <1>4, <1>6
<1>9. QED
  BY ONLY <1>2, <1>4, <1>5, <1>6, <1>7, <1>8 DEF MovedDev, Frame, told

\* What _update_dashboard_device does, case by case.
LEMMA UpdatedBack ==
  ASSUME NEW w, NEW h, NEW d, LoadedDev(w, d).ip = h.ip
  PROVE  Updated(w, h, d) = SetDev(w, d, BackRow(w, d))
BY DEF Updated, BackRow

\* A device that is back keeps its addresses.
LEMMA BackFacts ==
  ASSUME NEW w \in View, NEW d \in Devices
  PROVE  BackRow(w, d) \in DevRow /\ BackRow(w, d).ip = LoadedDev(w, d).ip /\ BackRow(w, d).old = LoadedDev(w, d).old
         /\ BackRow(w, d).ifs = LoadedDev(w, d).ifs /\ BackRow(w, d).online /\ ~BackRow(w, d).placeholder
BY LoadedType DEF BackRow, DevRow

\* How _resolve_ip_conflict leaves a device: at its old address or a placeholder, which
\* nobody else has.
Aside(w, c, row) ==
  /\ row \in DevRow /\ row.old = LoadedDev(w, c).old /\ row.ifs = LoadedDev(w, c).ifs
  /\ row.placeholder /\ ~row.online
  /\ HolderOf(w, row.ip) \subseteq {c}
  /\ row.ip \in Placeholders \/ row.ip = row.old

\* So does _resolve_ip_conflict.
LEMMA AsideFacts ==
  ASSUME NEW w \in View, NEW c \in Devices
  PROVE  Aside(w, c, AsideRow(w, c))
<1> DEFINE p == SafePlaceholder(w, c)
<1>1. /\ LoadedDev(w, c) \in DevRow /\ p \in Place
      /\ HolderOf(w, p) \subseteq {c} /\ (p \in Placeholders \/ p = LoadedDev(w, c).old)
  BY LoadedType, SafePlaceholderFacts
<1> HIDE DEF p
<1>2. AsideRow(w, c) = [LoadedDev(w, c) EXCEPT !.ip = p, !.placeholder = TRUE, !.online = FALSE]
  BY DEF AsideRow, p
<1> DEFINE row == AsideRow(w, c)
<1>3. /\ row \in DevRow /\ row.old = LoadedDev(w, c).old /\ row.ifs = LoadedDev(w, c).ifs
      /\ row.placeholder /\ ~row.online /\ row.ip = p
  BY ONLY <1>1, <1>2 DEF DevRow
<1> HIDE DEF row
<1>4. HolderOf(w, row.ip) \subseteq {c} /\ (row.ip \in Placeholders \/ row.ip = row.old)
  BY ONLY <1>1, <1>3
<1>5. Aside(w, c, row)
  BY ONLY <1>3, <1>4 DEF Aside
<1>6. QED
  BY <1>5 DEF row

\* Nobody holds the address: the device moves there.
LEMMA UpdatedFree ==
  ASSUME NEW w \in View, w.failed = None, NEW h \in Host, NEW d \in Devices, LoadedDev(w, d).ip # h.ip,
         HolderOf(w, h.ip) \ {d} = {}
  PROVE  MovedDev(w, h, d, Updated(w, h, d))
<1> DEFINE back == SetDev(w, d, BackRow(w, d))
           u == Updated(w, h, d)
           m == SetDev(back, d, [LoadedDev(back, d) EXCEPT !.old = LoadedDev(back, d).ip, !.ip = h.ip])
<1>1. BackRow(w, d) \in DevRow
  BY BackFacts
<1> HIDE DEF back
<1>2. /\ back \in View /\ Frame(w, back)
      /\ back.tab = w.tab /\ back.disc = w.disc /\ back.new = w.new /\ back.wrote = w.wrote /\ back.failed = w.failed
      /\ back.news = w.news
      /\ DOMAIN back.dev = DOMAIN w.dev \cup {d}
      /\ back.dev[d].was = IF d \in DOMAIN w.dev THEN w.dev[d].was ELSE w.tab.dev[d]
      /\ \A e \in DOMAIN w.dev : e # d => back.dev[e] = w.dev[e]
      /\ \A e \in Devices : LoadedDev(back, e) = IF e = d THEN BackRow(w, d) ELSE LoadedDev(w, e)
      /\ \A r : LoadedDisc(back, r) = LoadedDisc(w, r)
  BY <1>1, SetDevFacts DEF back, Frame
<1>3. Resolved(back, h.ip, d) = back
  BY <1>2 DEF Resolved, HolderOf
<1>4. u = IF Mac[d] # h.mac THEN m ELSE [m EXCEPT !.news = @ \cup {[kind |-> "moved", dev |-> d, ip |-> h.ip]}]
  BY <1>2, <1>3 DEF Updated, BackRow, back
<1> HIDE DEF u
<1>5. MovedDev(back, h, d, u)
  BY <1>2, <1>4, BackFacts, MovedDevMade, ZenonT(60)
<1>6. MovedDev(w, h, d, u)
  BY <1>2, <1>5, BackFacts DEF MovedDev, Frame
<1>7. QED
  BY <1>6 DEF u

\* q is w with device d back and device c moved out of its way, before the flush.
Clearing(w, d, c, q) ==
  /\ q \in View /\ Frame(w, q) /\ (Below(w) => Below(q))
  /\ q.tab = w.tab /\ q.disc = w.disc /\ q.new = w.new /\ q.news = w.news /\ q.wrote = w.wrote /\ q.failed = w.failed
  /\ DOMAIN q.dev = DOMAIN w.dev \cup {d, c}
  /\ \A e \in {d, c} : q.dev[e].was = IF e \in DOMAIN w.dev THEN w.dev[e].was ELSE w.tab.dev[e]
  /\ \A e \in DOMAIN w.dev : e \notin {d, c} => q.dev[e] = w.dev[e]
  /\ \A e \in {d, c} : q.dev[e].is = LoadedDev(q, e)
  /\ LoadedDev(q, d) = BackRow(w, d) /\ Aside(w, c, LoadedDev(q, c))
  /\ \A e \in Devices : e \notin {d, c} => LoadedDev(q, e) = LoadedDev(w, e)
  /\ \A r : LoadedDisc(q, r) = LoadedDisc(w, r)

\* Somebody does: one of them gives way, the session flushes, and the device moves.
LEMMA UpdatedTaken ==
  ASSUME NEW w \in View, w.failed = None, Below(w), NEW h \in Host, NEW d \in Devices, LoadedDev(w, d).ip # h.ip,
         HolderOf(w, h.ip) \ {d} # {}
  PROVE  \E c \in HolderOf(w, h.ip) \ {d}, q \in View :
           /\ Clearing(w, d, c, q)
           /\ IF Flush(q).failed # None THEN Updated(w, h, d) = Flush(q)
              ELSE MovedDev(Flush(q), h, d, Updated(w, h, d))
<1> DEFINE back == SetDev(w, d, BackRow(w, d))
           other == HolderOf(w, h.ip) \ {d}
           c == CHOOSE c \in other : TRUE
           q == SetDev(back, c, AsideRow(back, c))
           u == Updated(w, h, d)
           f == Flush(q)
           m == SetDev(f, d, [LoadedDev(f, d) EXCEPT !.old = LoadedDev(f, d).ip, !.ip = h.ip])
<1>1. BackRow(w, d) \in DevRow
  BY BackFacts
<1>2. c \in other /\ c \in Devices /\ c # d
  BY DEF HolderOf
<1>0. Updated(w, h, d) =
        LET clear == Resolved(back, h.ip, d)
            here == LoadedDev(clear, d)
            moved == SetDev(clear, d, [here EXCEPT !.old = here.ip, !.ip = h.ip])
        IN  IF clear.failed # None THEN clear
            ELSE IF Mac[d] # h.mac THEN moved
            ELSE [moved EXCEPT !.news = @ \cup {[kind |-> "moved", dev |-> d, ip |-> h.ip]}]
  BY DEF Updated, BackRow
<1> HIDE DEF back
<1>3. /\ back \in View /\ Frame(w, back)
      /\ back.tab = w.tab /\ back.disc = w.disc /\ back.new = w.new /\ back.wrote = w.wrote /\ back.failed = w.failed
      /\ back.news = w.news
      /\ DOMAIN back.dev = DOMAIN w.dev \cup {d}
      /\ back.dev[d].is = BackRow(w, d)
      /\ back.dev[d].was = IF d \in DOMAIN w.dev THEN w.dev[d].was ELSE w.tab.dev[d]
      /\ \A e \in DOMAIN w.dev : e # d => back.dev[e] = w.dev[e]
      /\ \A e \in Devices : LoadedDev(back, e) = IF e = d THEN BackRow(w, d) ELSE LoadedDev(w, e)
      /\ \A r : LoadedDisc(back, r) = LoadedDisc(w, r)
  BY <1>1, SetDevFacts DEF back, Frame
<1>4. HolderOf(back, h.ip) = HolderOf(w, h.ip) /\ \A a : HolderOf(back, a) = HolderOf(w, a)
  BY <1>3 DEF HolderOf
<1> DEFINE row == AsideRow(back, c)
<1>5. row \in DevRow /\ Aside(w, c, row)
  <2>1. Aside(back, c, row)
    BY <1>2, <1>3, AsideFacts
  <2> HIDE DEF row
  <2>2. LoadedDev(back, c) = LoadedDev(w, c)
    BY <1>2, <1>3
  <2>3. QED
    BY <1>4, <2>1, <2>2 DEF Aside
<1>6. Resolved(back, h.ip, d) = f
  BY <1>2, <1>4 DEF Resolved, AsideRow
<1> HIDE DEF q, c, other, row
<1>7. /\ q \in View /\ Frame(back, q)
      /\ q.tab = w.tab /\ q.disc = w.disc /\ q.new = w.new /\ q.wrote = w.wrote /\ q.failed = w.failed
      /\ q.news = w.news
      /\ DOMAIN q.dev = DOMAIN back.dev \cup {c}
      /\ q.dev[c].is = row
      /\ q.dev[c].was = IF c \in DOMAIN back.dev THEN back.dev[c].was ELSE back.tab.dev[c]
      /\ \A e \in DOMAIN back.dev : e # c => q.dev[e] = back.dev[e]
      /\ \A e \in Devices : LoadedDev(q, e) = IF e = c THEN row ELSE LoadedDev(back, e)
      /\ \A r : LoadedDisc(q, r) = LoadedDisc(back, r)
  BY <1>2, <1>3, <1>5, SetDevFacts DEF q, row, Frame
<1>8. Clearing(w, d, c, q)
  <2>1. Below(w) => Below(q)
    BY <1>7 DEF Below
  <2>2. DOMAIN q.dev = DOMAIN w.dev \cup {d, c}
    BY <1>3, <1>7
  <2>3. /\ \A e \in {d, c} : q.dev[e].was = IF e \in DOMAIN w.dev THEN w.dev[e].was ELSE w.tab.dev[e]
        /\ \A e \in DOMAIN w.dev : e \notin {d, c} => q.dev[e] = w.dev[e]
        /\ \A e \in {d, c} : q.dev[e].is = LoadedDev(q, e)
    <3>1. d \in DOMAIN back.dev /\ d \in DOMAIN q.dev /\ c \in DOMAIN q.dev /\ q.dev[d] = back.dev[d]
      BY <1>2, <1>3, <1>7
    <3>2. q.dev[d].was = IF d \in DOMAIN w.dev THEN w.dev[d].was ELSE w.tab.dev[d]
      BY <1>3, <3>1
    <3>3. q.dev[c].was = IF c \in DOMAIN w.dev THEN w.dev[c].was ELSE w.tab.dev[c]
      BY <1>2, <1>3, <1>7
    <3>4. LoadedDev(q, d) = q.dev[d].is /\ LoadedDev(q, c) = q.dev[c].is
      BY <3>1 DEF LoadedDev
    <3>5. \A e \in DOMAIN w.dev : e \notin {d, c} => q.dev[e] = w.dev[e]
      BY <1>3, <1>7
    <3>6. QED
      BY ONLY <3>2, <3>3, <3>4, <3>5
  <2>4. /\ LoadedDev(q, d) = BackRow(w, d) /\ Aside(w, c, LoadedDev(q, c))
        /\ \A e \in Devices : e \notin {d, c} => LoadedDev(q, e) = LoadedDev(w, e)
        /\ \A r : LoadedDisc(q, r) = LoadedDisc(w, r)
    BY <1>2, <1>3, <1>5, <1>7
  <2>5. Frame(w, q)
    BY <1>3, <1>7 DEF Frame
  <2>6. QED
    BY ONLY <1>7, <2>1, <2>2, <2>3, <2>4, <2>5 DEF Clearing
<1> HIDE DEF f
<1>9. IF f.failed # None THEN u = f
      ELSE u = IF Mac[d] # h.mac THEN m ELSE [m EXCEPT !.news = @ \cup {[kind |-> "moved", dev |-> d, ip |-> h.ip]}]
  BY <1>0, <1>6
<1>10. CASE f.failed # None
  BY <1>2, <1>7, <1>8, <1>9, <1>10 DEF f, other
<1>11. CASE f.failed = None
  <2>1. q.failed = None /\ Below(q)
    BY <1>7, <1>8 DEF Clearing
  <2>2. /\ f \in View /\ DOMAIN f.dev = DOMAIN q.dev
        /\ \A e \in DOMAIN q.dev : f.dev[e].is = q.dev[e].is
    BY <1>7, <1>11, <2>1, FlushFacts DEF f
  <2>3. LoadedDev(f, d) = BackRow(w, d)
    BY <1>8, <2>2 DEF Clearing, LoadedDev
  <2>4. LoadedDev(f, d).online /\ ~LoadedDev(f, d).placeholder
    BY <2>3, BackFacts
  <2>5. u = IF Mac[d] # h.mac THEN m ELSE [m EXCEPT !.news = @ \cup {[kind |-> "moved", dev |-> d, ip |-> h.ip]}]
    BY <1>9, <1>11
  <2> HIDE DEF u
  <2>6. MovedDev(f, h, d, u)
    BY <2>2, <2>4, <2>5, MovedDevMade
  <2>7. QED
    BY <1>2, <1>7, <1>8, <1>11, <2>6 DEF f, u, other
<1>12. QED
  BY <1>10, <1>11

-----------------------------------------------------------------------------
(* Addresses are unique, and nothing is loaded or inserted that is not.      *)

OneEach(rows) == \A x, y \in DOMAIN rows : rows[x].ip = rows[y].ip => x = y

\* What holds while no flush has failed, after the answers D of the batch.
Base(w, D) ==
  /\ w \in View /\ Below(w) /\ w.failed = None
  /\ OneEach(w.tab.dev) /\ OneEach(w.tab.disc)
  /\ \A i \in DOMAIN w.new : w.new[i].ip \in Ips(D)
  /\ \A i, j \in DOMAIN w.new : w.new[i].ip = w.new[j].ip => i = j

\* What an operation leaves of it.
After(w, v, D) ==
  /\ v \in View /\ Frame(w, v) /\ v.tab.next >= w.tab.next
  /\ v.failed = None => Base(v, D) /\ Writes(w, v)

\* UPDATEs in the order of the ids that meet no address in use leave each used once.
LEMMA NoClashKeeps ==
  ASSUME NEW before, NEW after, DOMAIN after = DOMAIN before, DOMAIN before \subseteq Nat,
         OneEach(before), ~Clash(before, after)
  PROVE  OneEach(after)
<1> SUFFICES ASSUME NEW x \in DOMAIN before, NEW y \in DOMAIN before, after[x].ip = after[y].ip, x < y
             PROVE  FALSE
  BY DEF OneEach
<1>1. after[y].ip = before[y].ip
  BY DEF Clash
<1>2. after[x].ip = before[x].ip
  BY <1>1 DEF Clash
<1>3. QED
  BY <1>1, <1>2 DEF OneEach

\* The kinds of what a session sees.
LEMMA TabFacts ==
  ASSUME NEW w \in View
  PROVE  /\ w.tab \in Tables /\ w.tab.next \in Nat /\ w.new \in Seq(DiscRow) /\ Len(w.new) \in Nat
         /\ DOMAIN w.new = 1 .. Len(w.new)
         /\ DOMAIN w.tab.dev = Devices /\ Devices \subseteq Nat /\ DOMAIN w.tab.disc \subseteq Nat
         /\ w.tab.dev \in [Devices -> DevRow] /\ w.tab.disc \in [DOMAIN w.tab.disc -> DiscRow]
         /\ w.dev \in [DOMAIN w.dev -> DevCopy] /\ DOMAIN w.dev \subseteq Devices
         /\ w.disc \in [DOMAIN w.disc -> DiscCopy] /\ DOMAIN w.disc \subseteq Nat
         /\ w.batch \in Seq(Host) /\ w.hosts \in Seq(Host) /\ w.wrote \in BOOLEAN /\ w.failed \in Failures
         /\ w.news \subseteq NewsOf /\ w.odd \subseteq Kinds
<1>1. w.tab \in Tables /\ w.tab.disc \in Discs /\ w.dev \in DevCopies /\ w.disc \in DiscCopies
  BY DEF View, SessionWith, Tables
<1>2. DOMAIN w.tab.disc \in SUBSET Nat /\ w.tab.disc \in [DOMAIN w.tab.disc -> DiscRow]
  BY <1>1, DiscsFacts
<1>3. w.dev \in [DOMAIN w.dev -> DevCopy] /\ DOMAIN w.dev \in SUBSET Devices
  BY <1>1, DevCopiesFacts
<1>4. w.disc \in [DOMAIN w.disc -> DiscCopy] /\ DOMAIN w.disc \in SUBSET Nat
  BY <1>1, DiscCopiesFacts
<1>5. QED
  BY <1>1, <1>2, <1>3, <1>4, DevicesAssumption DEF View, SessionWith, Tables

\* A flush that works leaves each address used once.
LEMMA FlushBase ==
  ASSUME NEW w, NEW D, Base(w, D), NEW v, v = Flush(w)
  PROVE  After(w, v, D)
<1>1. w \in View /\ Below(w) /\ w.failed = None
  BY DEF Base
<1>2. /\ v \in View /\ Frame(w, v)
      /\ v.failed # None => v.tab = w.tab
      /\ v.failed = None => FlushWorks(w)
      /\ v.failed = None =>
              /\ v.wrote /\ v.new = <<>>
              /\ v.tab.dev = FlushedDev(w)
              /\ v.tab.next = w.tab.next + Len(w.new)
              /\ DOMAIN v.tab.disc = DOMAIN w.tab.disc \cup FlushIds(w)
              /\ \A r \in DOMAIN w.tab.disc : v.tab.disc[r] = FlushedDisc(w)[r]
              /\ \A r \in FlushIds(w) : v.tab.disc[r] = w.new[r - w.tab.next + 1]
      /\ Below(v)
  BY <1>1, FlushFacts DEF Frame
<1>3. /\ w.tab.next \in Nat /\ Len(w.new) \in Nat /\ DOMAIN w.new = 1 .. Len(w.new)
      /\ DOMAIN w.tab.dev = Devices /\ Devices \subseteq Nat /\ DOMAIN w.tab.disc \subseteq Nat
  BY <1>1, TabFacts
<1>4. CASE v.failed # None
  BY <1>2, <1>3, <1>4 DEF After
<1>5. CASE v.failed = None
  <2>1. OneEach(v.tab.dev)
    <3>1. DOMAIN FlushedDev(w) = Devices /\ ~Clash(w.tab.dev, FlushedDev(w)) /\ OneEach(w.tab.dev)
      BY <1>1, <1>2, <1>5, FlushedTypes DEF FlushWorks, Base
    <3>2. OneEach(FlushedDev(w))
      BY <1>3, <3>1, NoClashKeeps
    <3>3. QED
      BY <1>2, <1>5, <3>2
  <2>2. OneEach(FlushedDisc(w)) /\ DOMAIN FlushedDisc(w) = DOMAIN w.tab.disc
    <3>1. DOMAIN FlushedDisc(w) = DOMAIN w.tab.disc /\ ~Clash(w.tab.disc, FlushedDisc(w)) /\ OneEach(w.tab.disc)
      BY <1>1, <1>2, <1>5, FlushedTypes DEF FlushWorks, Base
    <3>2. QED
      BY <1>3, <3>1, NoClashKeeps
  <2>3. \A r \in FlushIds(w) : r - w.tab.next + 1 \in DOMAIN w.new /\ r \in Nat
    BY <1>3 DEF FlushIds
  <2>4. \A q, r \in FlushIds(w) : v.tab.disc[q].ip = v.tab.disc[r].ip => q = r
    <3> SUFFICES ASSUME NEW q \in FlushIds(w), NEW r \in FlushIds(w), v.tab.disc[q].ip = v.tab.disc[r].ip
                 PROVE  q = r
      OBVIOUS
    <3>1. w.new[q - w.tab.next + 1].ip = w.new[r - w.tab.next + 1].ip
      BY <1>2, <1>5
    <3>2. q - w.tab.next + 1 = r - w.tab.next + 1
      BY <2>3, <3>1 DEF Base
    <3>3. QED
      BY <1>3, <2>3, <3>2, SMTT(60)
  <2>5. \A q \in DOMAIN w.tab.disc, r \in FlushIds(w) : v.tab.disc[q].ip # v.tab.disc[r].ip
    BY <1>2, <1>5 DEF FlushWorks
  <2>6. OneEach(v.tab.disc)
    BY <1>2, <1>5, <2>2, <2>4, <2>5 DEF OneEach
  <2>7. Base(v, D)
    BY <1>2, <1>5, <2>1, <2>6 DEF Base
  <2>8. QED
    BY <1>2, <1>3, <1>5, <2>7 DEF After, Writes
<1>6. QED
  BY <1>4, <1>5

\* The answer is listed, and announced or not.
Lists(w, h, v) == v = Listed(w, h, TRUE) \/ v = Listed(w, h, FALSE)

\* A host that is not known is to be inserted.
LEMMA ListedNew ==
  ASSUME NEW w \in View, NEW h \in Host, MatchedDisc(w, h) = {}, NEW v, Lists(w, h, v)
  PROVE  /\ v \in View /\ Frame(w, v)
         /\ v.tab = w.tab /\ v.dev = w.dev /\ v.disc = w.disc /\ v.wrote = w.wrote /\ v.failed = w.failed
         /\ v.new = Append(w.new, [mac |-> h.mac, ip |-> h.ip, online |-> TRUE])
         /\ \/ v.news = w.news \cup {[kind |-> "new", mac |-> h.mac, ip |-> h.ip]}
            \/ v.news = w.news
<1> DEFINE told == [kind |-> "new", mac |-> h.mac, ip |-> h.ip]
           u == Upserted(w, h, {})
<1>1. told \in NewsOf
  BY DEF NewsOf, Host
<1>2. v = Telling(u, u.news \cup {told}) \/ v = u
  BY DEF Lists, Listed, Telling
<1> HIDE DEF told, u
<1>3. /\ u \in View /\ Frame(w, u)
      /\ u.tab = w.tab /\ u.dev = w.dev /\ u.disc = w.disc /\ u.wrote = w.wrote /\ u.failed = w.failed
      /\ u.new = Append(w.new, [mac |-> h.mac, ip |-> h.ip, online |-> TRUE])
      /\ u.news = w.news
  BY UpsertedNew DEF u, Frame
<1>4. u.news \cup {told} \in SUBSET NewsOf
  BY <1>1, <1>3, TabFacts
<1>5. CASE v = Telling(u, u.news \cup {told})
  <2>1. /\ v \in View /\ v.dev = u.dev /\ v.tab = u.tab /\ v.disc = u.disc /\ v.new = u.new /\ v.wrote = u.wrote
        /\ v.failed = u.failed /\ Frame(u, v) /\ v.news = u.news \cup {told}
    BY ONLY <1>3, <1>4, <1>5, WithNews
  <2>2. QED
    BY <1>3, <2>1 DEF Frame, told
<1>6. CASE v = u
  BY <1>3, <1>6
<1>7. QED
  BY <1>2, <1>5, <1>6

\* One that is known has its record moved to it.
LEMMA ListedFound ==
  ASSUME NEW w \in View, NEW h \in Host, MatchedDisc(w, h) # {}, NEW v, Lists(w, h, v)
  PROVE  \E r \in MatchedDisc(w, h) : r \in DOMAIN w.tab.disc /\ FoundAt(w, h, v, r)
<1>1. v = Upserted(w, h, MatchedDisc(w, h))
  BY DEF Lists, Listed
<1>2. MatchedDisc(w, h) \in SUBSET DOMAIN w.tab.disc
  BY MatchedDiscFacts
<1>3. QED
  BY <1>1, <1>2, UpsertedFound

\* Listing an answer inserts nothing twice.
LEMMA ListedBase ==
  ASSUME NEW w, NEW D, NEW h \in Host, Base(w, D), h.ip \notin Ips(D), NEW v, Lists(w, h, v)
  PROVE  /\ Base(v, D \cup {h}) /\ Frame(w, v) /\ Writes(w, v)
         /\ v.dev = w.dev /\ v.tab.dev = w.tab.dev /\ v.tab.next = w.tab.next
<1>0. w \in View /\ Below(w) /\ w.failed = None
  BY DEF Base
<1>1. CASE MatchedDisc(w, h) = {}
  <2>0. /\ v \in View /\ Frame(w, v)
        /\ v.tab = w.tab /\ v.dev = w.dev /\ v.disc = w.disc /\ v.wrote = w.wrote /\ v.failed = w.failed
        /\ v.new = Append(w.new, [mac |-> h.mac, ip |-> h.ip, online |-> TRUE])
    BY <1>0, <1>1, ListedNew
  <2> DEFINE row == [mac |-> h.mac, ip |-> h.ip, online |-> TRUE]
  <2>1. /\ v \in View /\ Frame(w, v)
        /\ v.tab = w.tab /\ v.dev = w.dev /\ v.disc = w.disc /\ v.wrote = w.wrote /\ v.failed = w.failed
        /\ v.new = Append(w.new, row)
    BY <2>0
  <2>2. /\ w.new \in Seq(DiscRow) /\ DOMAIN w.new = 1 .. Len(w.new) /\ Len(w.new) \in Nat
        /\ row.ip = h.ip
    BY <1>0, TabFacts
  <2> HIDE DEF row
  <2>3. /\ DOMAIN v.new = 1 .. Len(w.new) + 1
        /\ \A i \in DOMAIN w.new : v.new[i] = w.new[i]
        /\ v.new[Len(w.new) + 1].ip = h.ip
    BY <2>1, <2>2
  <2>4. \A i \in DOMAIN v.new : i \in DOMAIN w.new \/ i = Len(w.new) + 1
    BY <2>2, <2>3
  <2>5. \A i \in DOMAIN w.new : w.new[i].ip \in Ips(D) /\ w.new[i].ip # h.ip
    BY DEF Base
  <2>6. \A i \in DOMAIN v.new : v.new[i].ip \in Ips(D \cup {h})
    BY <2>3, <2>4, <2>5 DEF Ips
  <2>7. \A i, j \in DOMAIN v.new : v.new[i].ip = v.new[j].ip => i = j
    <3>1. \A i, j \in DOMAIN w.new : w.new[i].ip = w.new[j].ip => i = j
      BY DEF Base
    <3>2. QED
      BY <2>3, <2>4, <2>5, <3>1
  <2>8. Below(v) /\ OneEach(v.tab.dev) /\ OneEach(v.tab.disc)
    BY <1>0, <2>1 DEF Below, Base
  <2>9. QED
    BY <1>0, <2>1, <2>6, <2>7, <2>8 DEF Base, Writes
<1>2. CASE MatchedDisc(w, h) # {}
  <2>1. PICK r \in DOMAIN w.tab.disc : FoundAt(w, h, v, r)
    BY <1>0, <1>2, ListedFound
  <2>2. /\ v \in View /\ Frame(w, v) /\ v.failed = None
        /\ v.dev = w.dev /\ v.new = w.new /\ v.tab.dev = w.tab.dev /\ v.tab.next = w.tab.next
        /\ w.wrote => v.wrote
        /\ ~v.wrote => v.tab = w.tab
    BY <1>0, <2>1 DEF FoundAt, Frame
  <2>3. /\ DOMAIN v.tab.disc \subseteq DOMAIN w.tab.disc
        /\ \A q \in DOMAIN v.tab.disc : v.tab.disc[q] = w.tab.disc[q]
        /\ DOMAIN v.disc \subseteq DOMAIN w.disc \cup {r}
    BY <2>1 DEF FoundAt
  <2>4. Below(v)
    BY <1>0, <2>2, <2>3 DEF Below
  <2>5. OneEach(v.tab.disc) /\ OneEach(v.tab.dev)
    BY <2>2, <2>3 DEF Base, OneEach
  <2>6. \A i \in DOMAIN v.new : v.new[i].ip \in Ips(D \cup {h})
    BY <2>2 DEF Base, Ips
  <2>7. \A i, j \in DOMAIN v.new : v.new[i].ip = v.new[j].ip => i = j
    BY <2>2 DEF Base
  <2>8. Base(v, D \cup {h})
    BY ONLY <2>2, <2>4, <2>5, <2>6, <2>7 DEF Base
  <2>9. Writes(w, v)
    BY ONLY <2>2 DEF Writes
  <2>10. QED
    BY ONLY <2>2, <2>8, <2>9
<1>3. QED
  BY <1>1, <1>2

\* What _attach_interface flushes.
IfsRow(w, h, d) == [LoadedDev(w, d) EXCEPT !.ifs = @ \cup {h.ip}]
Attaching(w, h, d) == SetDev(w, d, IfsRow(w, h, d))

\* Only the interfaces of that device change.
LEMMA AttachingFacts ==
  ASSUME NEW w \in View, NEW h \in Host, NEW d \in Devices, NEW q, q = Attaching(w, h, d)
  PROVE  /\ q \in View /\ Frame(w, q) /\ (Below(w) => Below(q))
         /\ q.tab = w.tab /\ q.disc = w.disc /\ q.new = w.new /\ q.news = w.news /\ q.wrote = w.wrote
         /\ q.failed = w.failed
         /\ DOMAIN q.dev = DOMAIN w.dev \cup {d}
         /\ q.dev[d].is = LoadedDev(q, d)
         /\ q.dev[d].was = IF d \in DOMAIN w.dev THEN w.dev[d].was ELSE w.tab.dev[d]
         /\ \A e \in DOMAIN w.dev : e # d => q.dev[e] = w.dev[e]
         /\ \A e \in Devices : e # d => LoadedDev(q, e) = LoadedDev(w, e)
         /\ LoadedDev(q, d) = IfsRow(w, h, d)
         /\ \A r : LoadedDisc(q, r) = LoadedDisc(w, r)
         /\ Attached(w, h, d) = Flush(q)
         /\ IfsRow(w, h, d) \in DevRow
         /\ IfsRow(w, h, d).ip = LoadedDev(w, d).ip /\ IfsRow(w, h, d).old = LoadedDev(w, d).old
         /\ IfsRow(w, h, d).placeholder = LoadedDev(w, d).placeholder
         /\ IfsRow(w, h, d).online = LoadedDev(w, d).online
         /\ IfsRow(w, h, d).ifs = LoadedDev(w, d).ifs \cup {h.ip}
<1>1. LoadedDev(w, d) \in DevRow
  BY LoadedType
<1> DEFINE row == IfsRow(w, h, d)
<1>2. /\ row \in DevRow /\ row.ip = LoadedDev(w, d).ip /\ row.old = LoadedDev(w, d).old
      /\ row.placeholder = LoadedDev(w, d).placeholder /\ row.online = LoadedDev(w, d).online
      /\ row.ifs = LoadedDev(w, d).ifs \cup {h.ip}
  BY <1>1 DEF IfsRow, DevRow, Host
<1>3. Attached(w, h, d) = Flush(q)
  BY DEF Attached, Attaching, IfsRow
<1>4. q = SetDev(w, d, row)
  BY DEF Attaching
<1> HIDE DEF row
<1>5. /\ q \in View /\ Frame(w, q)
      /\ q.tab = w.tab /\ q.disc = w.disc /\ q.new = w.new /\ q.news = w.news /\ q.wrote = w.wrote
      /\ q.failed = w.failed
      /\ DOMAIN q.dev = DOMAIN w.dev \cup {d}
      /\ q.dev[d].is = row
      /\ q.dev[d].was = IF d \in DOMAIN w.dev THEN w.dev[d].was ELSE w.tab.dev[d]
      /\ \A e \in DOMAIN w.dev : e # d => q.dev[e] = w.dev[e]
      /\ \A e \in Devices : LoadedDev(q, e) = IF e = d THEN row ELSE LoadedDev(w, e)
      /\ \A r : LoadedDisc(q, r) = LoadedDisc(w, r)
  BY <1>2, <1>4, SetDevFacts DEF Frame
<1>6. Below(w) => Below(q)
  BY <1>5 DEF Below
<1>7. QED
  BY <1>2, <1>3, <1>5, <1>6 DEF row

\* Storing an interface leaves each address used once.
LEMMA AttachedBase ==
  ASSUME NEW w, NEW D, NEW h \in Host, NEW d \in Devices, Base(w, D), NEW v, v = Attached(w, h, d)
  PROVE  After(w, v, D)
<1> DEFINE q == Attaching(w, h, d)
<1>1. /\ q \in View /\ Frame(w, q) /\ Below(q) /\ q.tab = w.tab /\ q.new = w.new /\ q.wrote = w.wrote
      /\ q.failed = w.failed /\ v = Flush(q)
  BY AttachingFacts DEF Base
<1> HIDE DEF q
<1>2. Base(q, D)
  BY <1>1 DEF Base
<1>3. After(q, v, D)
  BY <1>1, <1>2, FlushBase
<1>4. QED
  BY <1>1, <1>3 DEF After, Frame, Writes

\* So does moving a device.
LEMMA UpdatedBase ==
  ASSUME NEW w, NEW D, NEW h \in Host, NEW d \in Devices, Base(w, D), NEW v, v = Updated(w, h, d)
  PROVE  After(w, v, D)
<1>0. w \in View /\ Below(w) /\ w.failed = None /\ w.tab.next \in Nat
  BY TabFacts DEF Base
<1>1. CASE LoadedDev(w, d).ip = h.ip
  <2>1. v = SetDev(w, d, BackRow(w, d)) /\ BackRow(w, d) \in DevRow
    BY <1>0, <1>1, UpdatedBack, BackFacts
  <2>2. /\ v \in View /\ Frame(w, v) /\ v.tab = w.tab /\ v.new = w.new /\ v.wrote = w.wrote /\ v.failed = w.failed
        /\ v.disc = w.disc
    BY <1>0, <2>1, SetDevFacts DEF Frame
  <2>3. QED
    BY <1>0, <2>2 DEF After, Base, Writes, Below
<1>2. CASE LoadedDev(w, d).ip # h.ip /\ HolderOf(w, h.ip) \ {d} = {}
  <2>1. MovedDev(w, h, d, v)
    BY <1>0, <1>2, UpdatedFree
  <2>2. QED
    BY <1>0, <2>1 DEF MovedDev, After, Base, Writes, Below
<1>3. CASE LoadedDev(w, d).ip # h.ip /\ HolderOf(w, h.ip) \ {d} # {}
  <2>1. PICK c \in HolderOf(w, h.ip) \ {d}, q \in View :
           /\ Clearing(w, d, c, q)
           /\ IF Flush(q).failed # None THEN v = Flush(q)
              ELSE MovedDev(Flush(q), h, d, v)
    BY <1>0, <1>3, UpdatedTaken
  <2> DEFINE f == Flush(q)
  <2>2. Frame(w, q) /\ q.tab = w.tab /\ q.wrote = w.wrote /\ Base(q, D)
    BY <1>0, <2>1 DEF Clearing, Base
  <2>3. After(q, f, D)
    BY <2>2, FlushBase
  <2>4. f.failed # None => v = f
    BY <2>1
  <2>5. f.failed = None => MovedDev(f, h, d, v)
    BY <2>1
  <2> HIDE DEF f
  <2>6. CASE f.failed # None
    BY <2>2, <2>3, <2>4, <2>6 DEF After, Frame, Writes
  <2>7. CASE f.failed = None
    <3>1. Base(f, D) /\ Writes(w, f) /\ Frame(w, f) /\ f.tab.next >= w.tab.next
      BY <2>2, <2>3, <2>7 DEF After, Frame, Writes
    <3>2. v \in View /\ Frame(w, v) /\ v.tab = f.tab /\ v.wrote = f.wrote /\ v.new = f.new /\ v.disc = f.disc
          /\ v.failed = None
      BY <2>5, <2>7, <3>1 DEF MovedDev, Frame
    <3>3. Base(v, D)
      BY <3>1, <3>2 DEF Base, Below
    <3>4. QED
      BY <3>1, <3>2, <3>3 DEF After, Writes
  <2>8. QED
    BY <2>6, <2>7
<1>4. QED
  BY <1>1, <1>2, <1>3

\* The branches of _sync_host_internal.
Known(w, h) == \E e \in Devices : h.ip \in w.tab.dev[e].ifs
Branch(w, h, v) ==
  \/ Known(w, h) /\ Lists(w, h, v)
  \/ /\ ~Known(w, h)
     /\ \/ \E d \in Matched(w, h) :
             \/ /\ Kept(w, h, d) /\ IsGateway(h.ip)
                /\ IF Attached(w, h, d).failed = None THEN Lists(Attached(w, h, d), h, v)
                                                      ELSE v = Attached(w, h, d)
             \/ Kept(w, h, d) /\ ~IsGateway(h.ip) /\ Lists(w, h, v)
             \/ ~Kept(w, h, d) /\ \E u : Lists(w, h, u) /\ v = Updated(u, h, d)
        \/ Matched(w, h) = {} /\ Lists(w, h, v)

\* _sync_host_internal takes one of these branches.
LEMMA SyncedBranch ==
  ASSUME NEW w, NEW h
  PROVE  Branch(w, h, Synced(w, h))
<1> DEFINE dev == Matched(w, h)
           the == CHOOSE d \in dev : TRUE
<1>1. Known(w, h) <=> {d \in Devices : h.ip \in w.tab.dev[d].ifs} # {}
  BY DEF Known
<1>2. CASE Known(w, h)
  BY <1>1, <1>2 DEF Branch, Synced, Lists
<1>3. CASE ~Known(w, h) /\ dev = {}
  BY <1>1, <1>3 DEF Branch, Synced, Lists
<1>4. CASE ~Known(w, h) /\ dev # {}
  <2>1. the \in Matched(w, h)
    BY <1>4
  <2> DEFINE v == Synced(w, h)
             attached == Attached(w, h, the)
             u == Listed(w, h, FALSE)
  <2>2. /\ Lists(attached, h, Listed(attached, h, FALSE))
        /\ Lists(w, h, Listed(w, h, TRUE)) /\ Lists(w, h, u)
    BY DEF Lists
  <2>3. \/ Kept(w, h, the) /\ IsGateway(h.ip) /\ v = IF attached.failed = None THEN Listed(attached, h, FALSE) ELSE attached
        \/ Kept(w, h, the) /\ ~IsGateway(h.ip) /\ v = Listed(w, h, TRUE)
        \/ ~Kept(w, h, the) /\ v = Updated(u, h, the)
    BY <1>1, <1>4 DEF Synced
  <2> HIDE DEF v, the, dev, u
  <2>4. \/ Kept(w, h, the) /\ IsGateway(h.ip) /\ IF attached.failed = None THEN Lists(attached, h, v) ELSE v = attached
        \/ Kept(w, h, the) /\ ~IsGateway(h.ip) /\ Lists(w, h, v)
        \/ ~Kept(w, h, the) /\ Lists(w, h, u) /\ v = Updated(u, h, the)
    BY <2>2, <2>3
  <2>5. Branch(w, h, v)
    BY ONLY <1>4, <2>1, <2>4 DEF Branch
  <2>6. QED
    BY <2>5 DEF v
<1>5. QED
  BY <1>2, <1>3, <1>4

\* So does the next answer, whichever branch it takes.
LEMMA SyncedBase ==
  ASSUME NEW w, NEW D, NEW h \in Host, Base(w, D), h.ip \notin Ips(D)
  PROVE  After(w, Synced(w, h), D \cup {h})
<1> DEFINE v == Synced(w, h)
<1>0. Branch(w, h, v) /\ w.tab.next \in Nat
  BY SyncedBranch, TabFacts DEF Base
<1> HIDE DEF v
<1>1. ASSUME Lists(w, h, v) PROVE After(w, v, D \cup {h})
  <2>1. /\ Base(v, D \cup {h}) /\ Frame(w, v) /\ Writes(w, v) /\ v.tab.next = w.tab.next
    BY <1>1, ListedBase
  <2>2. v \in View
    BY <2>1 DEF Base
  <2>3. QED
    BY <1>0, <2>1, <2>2 DEF After
<1>2. ASSUME NEW d \in Matched(w, h), Kept(w, h, d), NEW u, u = Attached(w, h, d),
             IF u.failed = None THEN Lists(u, h, v) ELSE v = u
      PROVE  After(w, v, D \cup {h})
  <2>1. d \in Devices
    BY <1>2 DEF Matched, HolderOf, OwnerOf
  <2>2. After(w, u, D)
    BY <1>2, <2>1, AttachedBase
  <2>3. CASE u.failed # None
    BY <1>2, <2>2, <2>3 DEF After
  <2>4. CASE u.failed = None
    <3>1. Base(u, D) /\ Frame(w, u) /\ Writes(w, u) /\ u.tab.next >= w.tab.next
      BY <2>2, <2>4 DEF After
    <3>2. Base(v, D \cup {h}) /\ Frame(u, v) /\ Writes(u, v) /\ v.tab.next = u.tab.next
      BY <1>2, <2>4, <3>1, ListedBase
    <3>3. Writes(w, v)
      BY <3>1, <3>2 DEF Writes
    <3>4. QED
      BY <3>1, <3>2, <3>3 DEF After, Frame, Base
  <2>5. QED
    BY <2>3, <2>4
<1>3. ASSUME NEW d \in Matched(w, h), NEW u, Lists(w, h, u), v = Updated(u, h, d)
      PROVE  After(w, v, D \cup {h})
  <2>1. d \in Devices
    BY <1>3 DEF Matched, HolderOf, OwnerOf
  <2>2. Base(u, D \cup {h}) /\ Frame(w, u) /\ Writes(w, u) /\ u.tab.next = w.tab.next
    BY <1>3, ListedBase
  <2>3. After(u, v, D \cup {h})
    BY <1>3, <2>1, <2>2, UpdatedBase
  <2>4. v.failed = None => Writes(w, v)
    BY <2>2, <2>3 DEF After, Writes
  <2>5. QED
    BY <2>2, <2>3, <2>4 DEF After, Frame
<1>4. After(w, v, D \cup {h})
  BY <1>0, <1>1, <1>2, <1>3 DEF Branch
<1>5. QED
  BY <1>4 DEF v

-----------------------------------------------------------------------------
(* What a batch that is not odd rules out.                                   *)

\* None of the odd cases holds.
LEMMA CalmFacts ==
  ASSUME NEW w, Odd(w) = {}
  PROVE  ~Several(w.batch) /\ ~HandedOver(w) /\ ~Returning(w) /\ ~Parked(w) /\ ~Shared(w)
<1>1. \A o \in {"several", "handover", "returning", "parked", "shared"} :
        ~(\/ o = "several" /\ Several(w.batch)
          \/ o = "handover" /\ HandedOver(w)
          \/ o = "returning" /\ Returning(w)
          \/ o = "parked" /\ Parked(w)
          \/ o = "shared" /\ Shared(w))
  BY DEF Odd
<1>2. QED
  BY <1>1

\* h is an answer that none of D gave, in a batch with one answer an address, and one a MAC
\* in each subnet.
Fresh(w, D, h) ==
  /\ h \in Host /\ h \in Heard(w.batch) /\ D \subseteq Heard(w.batch) /\ h.ip \notin Ips(D)
  /\ \A f, g \in Heard(w.batch) : (f.ip = g.ip => f = g) /\ (f.mac = g.mac => f = g \/ Across(f.ip, g.ip))

\* A device whose address answers for another MAC does not answer itself.
LEMMA OtherDevice ==
  ASSUME NEW w, NEW D, NEW h, Odd(w) = {}, Fresh(w, D, h), NEW d \in Devices, w.tab.dev[d].ip = h.ip, Mac[d] # h.mac
  PROVE  \A g \in Heard(w.batch) : g.mac # Mac[d]
<1> SUFFICES ASSUME NEW g \in Heard(w.batch), g.mac = Mac[d] PROVE FALSE
  OBVIOUS
<1>1. g.ip # h.ip
  BY DEF Fresh
<1>2. Away(w.batch, Mac[d], h.ip) /\ OtherAt(w.batch, Mac[d], h.ip)
  BY <1>1 DEF Away, OtherAt, Fresh
<1>3. QED
  BY <1>2, CalmFacts DEF HandedOver

\* A device that answers at its address, and is not there or not back, answers nowhere else.
LEMMA OnlyDevice ==
  ASSUME NEW w, NEW D, NEW h, Odd(w) = {}, Fresh(w, D, h), NEW d \in Devices, w.tab.dev[d].ip = h.ip, Mac[d] = h.mac,
         ~w.tab.dev[d].online \/ w.tab.dev[d].placeholder \/ LoadedDev(w, d).ip # h.ip
  PROVE  \A g \in Heard(w.batch) : g.mac = Mac[d] => g = h
<1> SUFFICES ASSUME NEW g \in Heard(w.batch), g.mac = Mac[d], g # h PROVE FALSE
  OBVIOUS
<1>1. g.ip # h.ip
  BY DEF Fresh
<1>2. Away(w.batch, Mac[d], h.ip) /\ HeardAt(w.batch, Mac[d], h.ip)
  BY <1>1 DEF Away, HeardAt, Fresh
<1>3. QED
  BY <1>2, CalmFacts DEF Returning

\* The same of the discovered hosts.
LEMMA OtherRecord ==
  ASSUME NEW w, NEW D, NEW h, Odd(w) = {}, Fresh(w, D, h), NEW g \in Heard(w.batch),
         NEW r \in DOMAIN w.tab.disc, w.tab.disc[r].ip = g.ip, w.tab.disc[r].mac # g.mac
  PROVE  \A k \in Heard(w.batch) : k.mac # w.tab.disc[r].mac
<1> SUFFICES ASSUME NEW k \in Heard(w.batch), k.mac = w.tab.disc[r].mac PROVE FALSE
  OBVIOUS
<1>1. k.ip # g.ip
  BY DEF Fresh
<1>2. Away(w.batch, w.tab.disc[r].mac, g.ip) /\ OtherAt(w.batch, w.tab.disc[r].mac, g.ip)
  BY <1>1 DEF Away, OtherAt
<1>3. QED
  BY <1>2, CalmFacts DEF HandedOver

\* And of a host that is back.
LEMMA OnlyRecord ==
  ASSUME NEW w, NEW D, NEW h, Odd(w) = {}, Fresh(w, D, h), NEW g \in Heard(w.batch),
         NEW r \in DOMAIN w.tab.disc, w.tab.disc[r].ip = g.ip, w.tab.disc[r].mac = g.mac,
         ~w.tab.disc[r].online \/ LoadedDisc(w, r).ip # g.ip
  PROVE  \A k \in Heard(w.batch) : k.mac = g.mac => k = g
<1> SUFFICES ASSUME NEW k \in Heard(w.batch), k.mac = g.mac, k # g PROVE FALSE
  OBVIOUS
<1>1. k.ip # g.ip
  BY DEF Fresh
<1>2. Away(w.batch, w.tab.disc[r].mac, g.ip) /\ HeardAt(w.batch, w.tab.disc[r].mac, g.ip)
  BY <1>1 DEF Away, HeardAt
<1>3. QED
  BY <1>2, CalmFacts DEF Returning

\* A device is matched by its address or its MAC, and by its MAC alone if another has the address.
LEMMA MatchedHow ==
  ASSUME NEW w \in View, OneEach(w.tab.dev), NEW h, NEW d \in Matched(w, h)
  PROVE  /\ d \in Devices /\ (w.tab.dev[d].ip = h.ip \/ Mac[d] = h.mac)
         /\ \A c \in HolderOf(w, h.ip) \ {d} :
              c \in Devices /\ Mac[d] = h.mac /\ w.tab.dev[d].ip # h.ip /\ Mac[c] # h.mac /\ w.tab.dev[c].ip = h.ip
<1>0. DOMAIN w.tab.dev = Devices
  BY TabFacts
<1>1. d \in HolderOf(w, h.ip) \/ (d \in OwnerOf(h.mac) /\ HolderOf(w, h.ip) \cap OwnerOf(h.mac) = {})
  BY DEF Matched
<1>2. QED
  BY <1>0, <1>1 DEF HolderOf, OwnerOf, OneEach

-----------------------------------------------------------------------------
(* What a batch has announced is so, or will be when it is flushed.          *)

\* d has lost ip to a device that was announced to move there.
TakenNews(w, d, ip) == \E n \in w.news : n.kind = "moved" /\ n.dev # d /\ n.ip = ip

\* A loaded device: what it changes, and what it knows of its address.
CopyOf(w, D, d) ==
  LET c == w.dev[d] IN
  /\ c.is.ip # c.was.ip =>
       /\ c.is.ip \in Ips(D)
       /\ c.was.ip \in Ips(D) \/ ([ip |-> c.is.ip, mac |-> Mac[d]] \in D /\ c.is.online /\ ~c.is.placeholder)
  /\ c.is.ip = c.was.ip => c.is.ip \in Ips(D) \/ w.tab.dev[d].ip = c.is.ip
  /\ c.is.placeholder => c.was.placeholder
\* Until the session writes, others may move the device.
HeldStill(w, D, d) == w.dev[d].is.ip = w.dev[d].was.ip => w.dev[d].is.ip \in Ips(D) \/ w.wrote

MovedStays(w, D, n) ==
  /\ [ip |-> n.ip, mac |-> Mac[n.dev]] \in D /\ n.dev \in DOMAIN w.dev
  /\ w.dev[n.dev].is.ip = n.ip /\ w.dev[n.dev].is.online /\ ~w.dev[n.dev].is.placeholder
  /\ w.dev[n.dev].is.ip # w.dev[n.dev].was.ip \/ (w.wrote /\ w.tab.dev[n.dev].ip = n.ip)

\* T: the devices as they were committed when the batch began to write.
LostTo(w, T, d) == ~T[d].placeholder /\ w.tab.dev[d].placeholder => TakenNews(w, d, T[d].ip)
GoneFrom(w, D, T, d) ==
  ~T[d].placeholder => w.tab.dev[d].ip = T[d].ip \/ w.tab.dev[d].ip \in Ips(D) \/ TakenNews(w, d, T[d].ip)

ToldDev(w, D, T) ==
  /\ \A d \in DOMAIN w.dev : CopyOf(w, D, d) /\ HeldStill(w, D, d)
  /\ \A n \in w.news : n.kind = "moved" => MovedStays(w, D, n)
  /\ \A d \in Devices : LostTo(w, T, d) /\ GoneFrom(w, D, T, d)

\* What answers from elsewhere, or loses its address, was not moved by the batch before.
Movable(w, D, h, d) ==
  /\ \A n \in w.news : n.kind = "moved" => n.dev # d /\ n.dev \notin HolderOf(w, h.ip)
  /\ LET was == IF d \in DOMAIN w.dev THEN w.dev[d].was ELSE w.tab.dev[d]
     IN  was.ip # h.ip /\ (was.ip \in Ips(D) \/ Mac[d] = h.mac)

\* The device of the next answer was not moved by the batch, nor was who holds that address.
LEMMA MovableFacts ==
  ASSUME NEW w, NEW D, NEW h, NEW T, Base(w, D), ToldDev(w, D, T), Odd(w) = {}, Fresh(w, D, h),
         NEW d \in Matched(w, h), ~Kept(w, h, d), LoadedDev(w, d).ip # h.ip
  PROVE  Movable(w, D, h, d)
<1>0. /\ w \in View /\ OneEach(w.tab.dev) /\ d \in Devices /\ (w.tab.dev[d].ip = h.ip \/ Mac[d] = h.mac)
      /\ \A c \in HolderOf(w, h.ip) \ {d} :
              c \in Devices /\ Mac[d] = h.mac /\ w.tab.dev[d].ip # h.ip /\ Mac[c] # h.mac /\ w.tab.dev[c].ip = h.ip
  BY MatchedHow DEF Base
\* It did not answer before: it would be kept.
<1>1. ASSUME d \in DOMAIN w.dev, [ip |-> w.dev[d].is.ip, mac |-> Mac[d]] \in D,
             w.dev[d].is.online, ~w.dev[d].is.placeholder
      PROVE  FALSE
  <2> DEFINE g == [ip |-> w.dev[d].is.ip, mac |-> Mac[d]]
  <2>1. LoadedDev(w, d) = w.dev[d].is
    BY <1>1 DEF LoadedDev
  <2>2. g \in Heard(w.batch) /\ g.mac = Mac[d] /\ g.ip = LoadedDev(w, d).ip /\ g # h
    BY <1>1, <2>1 DEF Fresh
  <2> HIDE DEF g
  <2>3. CASE w.tab.dev[d].ip = h.ip
    <3>1. Mac[d] = h.mac
      BY <1>0, <2>2, <2>3, OtherDevice
    <3>2. QED
      BY <1>0, <2>2, <2>3, <3>1, OnlyDevice
  <2>4. CASE w.tab.dev[d].ip # h.ip
    <3>1. Mac[d] = h.mac
      BY <1>0, <2>4
    <3>2. Across(LoadedDev(w, d).ip, h.ip)
      BY <2>2, <3>1 DEF Fresh
    <3>3. d \notin HolderOf(w, h.ip)
      BY <2>4 DEF HolderOf
    <3>4. QED
      BY <1>1, <2>1, <3>2, <3>3 DEF Kept
  <2>5. QED
    BY <2>3, <2>4
<1>2. ASSUME NEW n \in w.news, n.kind = "moved" PROVE n.dev # d /\ n.dev \notin HolderOf(w, h.ip)
  <2>1. MovedStays(w, D, n)
    BY <1>2 DEF ToldDev
  <2>2. n.dev # d
    BY <1>1, <2>1 DEF MovedStays
  <2>3. ASSUME n.dev \in HolderOf(w, h.ip) PROVE FALSE
    <3>1. n.dev \in Devices /\ Mac[n.dev] # h.mac /\ w.tab.dev[n.dev].ip = h.ip
      BY <1>0, <2>2, <2>3
    <3>2. [ip |-> n.ip, mac |-> Mac[n.dev]] \in Heard(w.batch)
      BY <2>1 DEF MovedStays, Fresh
    <3>3. QED
      BY <3>1, <3>2, OtherDevice
  <2>4. QED
    BY <2>2, <2>3
<1>3. CASE d \in DOMAIN w.dev
  <2>1. LoadedDev(w, d) = w.dev[d].is /\ CopyOf(w, D, d)
    BY <1>3 DEF LoadedDev, ToldDev
  <2>2. CASE w.dev[d].is.ip # w.dev[d].was.ip
    <3>1. w.dev[d].was.ip \in Ips(D)
      BY <1>1, <1>3, <2>1, <2>2 DEF CopyOf
    <3>2. QED
      BY <1>2, <1>3, <3>1 DEF Movable, Fresh
  <2>3. CASE w.dev[d].is.ip = w.dev[d].was.ip
    <3>1. w.dev[d].was.ip # h.ip
      BY <2>1, <2>3
    <3>2. w.dev[d].was.ip \in Ips(D) \/ Mac[d] = h.mac
      BY <1>0, <2>1, <2>3 DEF CopyOf
    <3>3. QED
      BY <1>2, <1>3, <3>1, <3>2 DEF Movable
  <2>4. QED
    BY <2>2, <2>3
<1>4. CASE d \notin DOMAIN w.dev
  BY <1>0, <1>2, <1>4 DEF Movable, LoadedDev
<1>5. QED
  BY <1>3, <1>4

\* A row after the flush: what was changed is the session's, the rest the table's.
Merged(before, c, after) ==
  /\ after.ip = IF c.is.ip = c.was.ip THEN before.ip ELSE c.is.ip
  /\ after.old = IF c.is.old = c.was.old THEN before.old ELSE c.is.old
  /\ after.placeholder = IF c.is.placeholder = c.was.placeholder THEN before.placeholder ELSE c.is.placeholder
  /\ after.online = IF c.is.online = c.was.online THEN before.online ELSE c.is.online
  /\ after.ifs = IF c.is = c.was THEN before.ifs ELSE before.ifs \cup c.is.ifs

\* A flush merges what the session changed into what the table has by then.
LEMMA FlushedRow ==
  ASSUME NEW w, NEW D, Base(w, D), NEW v, v = Flush(w), v.failed = None
  PROVE  /\ \A d \in Devices : d \notin DOMAIN w.dev => v.tab.dev[d] = w.tab.dev[d]
         /\ \A d \in DOMAIN w.dev : Merged(w.tab.dev[d], w.dev[d], v.tab.dev[d])
         /\ DOMAIN v.dev = DOMAIN w.dev
         /\ \A d \in DOMAIN w.dev : v.dev[d].was = w.dev[d].is /\ v.dev[d].is = w.dev[d].is
         /\ \A d \in Devices : LoadedDev(v, d) = IF d \in DOMAIN w.dev THEN w.dev[d].is ELSE v.tab.dev[d]
         /\ v.wrote /\ v.news = w.news /\ v.new = <<>> /\ v.batch = w.batch
<1>1. w \in View /\ Below(w) /\ w.failed = None
  BY DEF Base
<1>2. /\ v.wrote /\ v.news = w.news /\ v.tab.dev = FlushedDev(w) /\ v.new = <<>> /\ v.batch = w.batch
      /\ DOMAIN v.dev = DOMAIN w.dev
      /\ \A d \in DOMAIN w.dev : v.dev[d].was = w.dev[d].is /\ v.dev[d].is = w.dev[d].is
  BY <1>1, FlushFacts
<1>3. /\ \A d \in Devices : v.tab.dev[d] =
           IF d \in DOMAIN w.dev /\ w.dev[d].is # w.dev[d].was THEN Written(w.tab.dev[d], w.dev[d]) ELSE w.tab.dev[d]
  BY <1>1, <1>2, FlushedTypes
<1>4. w.tab.dev \in [Devices -> DevRow] /\ w.dev \in [DOMAIN w.dev -> DevCopy] /\ DOMAIN w.dev \subseteq Devices
  BY <1>1, TabFacts
<1>5. ASSUME NEW d \in DOMAIN w.dev PROVE Merged(w.tab.dev[d], w.dev[d], v.tab.dev[d])
  <2>1. d \in Devices /\ w.tab.dev[d] \in DevRow /\ w.dev[d] \in DevCopy
    BY <1>4, <1>5
  <2>2. CASE w.dev[d].is = w.dev[d].was
    <3>1. v.tab.dev[d] = w.tab.dev[d]
      BY <1>3, <2>1, <2>2
    <3>2. QED
      BY <2>2, <3>1 DEF Merged
  <2>3. CASE w.dev[d].is # w.dev[d].was
    <3>1. v.tab.dev[d] = Written(w.tab.dev[d], w.dev[d])
      BY <1>3, <2>1, <2>3
    <3>2. QED
      BY <2>1, <2>3, <3>1, WrittenDev, SMTT(60) DEF Merged
  <2>4. QED
    BY <2>2, <2>3
<1>6. \A d \in Devices : LoadedDev(v, d) = IF d \in DOMAIN w.dev THEN w.dev[d].is ELSE v.tab.dev[d]
  BY <1>2 DEF LoadedDev
<1>7. QED
  BY <1>2, <1>3, <1>5, <1>6

\* Nothing of the devices but more news of others and more answers.
LEMMA ToldDevKeeps ==
  ASSUME NEW w, NEW v, NEW D, NEW B, NEW T, ToldDev(w, D, T), D \subseteq B,
         v.dev = w.dev, v.tab.dev = w.tab.dev, w.wrote => v.wrote, w.news \subseteq v.news,
         \A n \in v.news : n.kind = "moved" => n \in w.news
  PROVE  ToldDev(v, B, T)
<1>1. Ips(D) \subseteq Ips(B)
  BY DEF Ips
<1>2. \A d \in DOMAIN v.dev : CopyOf(v, B, d) /\ HeldStill(v, B, d)
  BY <1>1 DEF ToldDev, CopyOf, HeldStill
<1>3. \A n \in v.news : n.kind = "moved" => MovedStays(v, B, n)
  BY DEF ToldDev, MovedStays
<1>4. \A d, ip : TakenNews(w, d, ip) => TakenNews(v, d, ip)
  BY DEF TakenNews
<1>5. \A d \in Devices : LostTo(v, T, d) /\ GoneFrom(v, B, T, d)
  BY <1>1, <1>4 DEF ToldDev, LostTo, GoneFrom
<1>6. QED
  BY <1>2, <1>3, <1>5 DEF ToldDev

\* What a flush makes of a device.
LEMMA FlushedTold ==
  ASSUME NEW w, NEW D, NEW T, Base(w, D), NEW v, v = Flush(w), v.failed = None,
         NEW d \in Devices, d \in DOMAIN w.dev => CopyOf(w, D, d), LostTo(w, T, d), GoneFrom(w, D, T, d)
  PROVE  /\ d \in DOMAIN v.dev => CopyOf(v, D, d) /\ HeldStill(v, D, d)
         /\ LostTo(v, T, d) /\ GoneFrom(v, D, T, d)
<1>1. /\ d \notin DOMAIN w.dev => v.tab.dev[d] = w.tab.dev[d]
      /\ d \in DOMAIN w.dev => Merged(w.tab.dev[d], w.dev[d], v.tab.dev[d])
      /\ DOMAIN v.dev = DOMAIN w.dev
      /\ d \in DOMAIN w.dev => v.dev[d].was = w.dev[d].is /\ v.dev[d].is = w.dev[d].is
      /\ v.wrote /\ v.news = w.news
  BY FlushedRow
<1>2. \A ip : TakenNews(v, d, ip) <=> TakenNews(w, d, ip)
  BY <1>1 DEF TakenNews
<1>3. CASE d \notin DOMAIN w.dev
  BY <1>1, <1>2, <1>3 DEF LostTo, GoneFrom
<1>4. CASE d \in DOMAIN w.dev
  <2>1. CopyOf(w, D, d)
    BY <1>4
  <2>2. CopyOf(v, D, d) /\ HeldStill(v, D, d)
    BY <1>1, <1>4, <2>1 DEF CopyOf, HeldStill, Merged
  <2>3. v.tab.dev[d].placeholder => w.tab.dev[d].placeholder
    <3>1. w.dev[d].is \in DevRow /\ w.dev[d].was \in DevRow
      BY <1>4, TabFacts DEF Base, DevCopy
    <3>2. w.dev[d].is.placeholder \in BOOLEAN /\ w.dev[d].was.placeholder \in BOOLEAN
      BY <3>1 DEF DevRow
    <3>3. QED
      BY <1>1, <1>4, <2>1, <3>2 DEF CopyOf, Merged
  <2>4. LostTo(v, T, d)
    BY <1>2, <2>3 DEF LostTo
  <2>5. v.tab.dev[d].ip = w.tab.dev[d].ip \/ v.tab.dev[d].ip \in Ips(D)
    BY <1>1, <1>4, <2>1 DEF CopyOf, Merged
  <2>6. GoneFrom(v, D, T, d)
    BY <1>2, <2>5 DEF GoneFrom
  <2>7. QED
    BY <2>2, <2>4, <2>6
<1>5. QED
  BY <1>3, <1>4

\* The commit's flush.
LEMMA FlushedNews ==
  ASSUME NEW w, NEW D, Base(w, D), NEW v, v = Flush(w), v.failed = None,
         NEW n, n \in w.news, n.kind = "moved", MovedStays(w, D, n)
  PROVE  MovedStays(v, D, n) /\ v.tab.dev[n.dev].ip = n.ip
<1>1. n.dev \in DOMAIN w.dev
  BY DEF MovedStays
<1>2. /\ Merged(w.tab.dev[n.dev], w.dev[n.dev], v.tab.dev[n.dev])
      /\ DOMAIN v.dev = DOMAIN w.dev /\ v.wrote
      /\ v.dev[n.dev].is = w.dev[n.dev].is
  BY <1>1, FlushedRow
<1>3. v.tab.dev[n.dev].ip = n.ip
  BY <1>2 DEF MovedStays, Merged
<1>4. QED
  BY <1>2, <1>3 DEF MovedStays

\* Storing an interface takes back nothing that was announced.
LEMMA AttachedTold ==
  ASSUME NEW w, NEW D, NEW T, NEW h \in Host, NEW d \in Devices, Base(w, D), ToldDev(w, D, T),
         NEW v, v = Attached(w, h, d), v.failed = None
  PROVE  ToldDev(v, D, T)
<1> DEFINE q == Attaching(w, h, d)
<1>1. /\ q \in View /\ Below(q) /\ q.tab = w.tab /\ q.new = w.new /\ q.wrote = w.wrote /\ q.news = w.news
      /\ q.failed = w.failed /\ v = Flush(q)
      /\ DOMAIN q.dev = DOMAIN w.dev \cup {d}
      /\ q.dev[d].is = IfsRow(w, h, d)
      /\ q.dev[d].was = IF d \in DOMAIN w.dev THEN w.dev[d].was ELSE w.tab.dev[d]
      /\ \A e \in DOMAIN w.dev : e # d => q.dev[e] = w.dev[e]
      /\ IfsRow(w, h, d).ip = LoadedDev(w, d).ip
      /\ IfsRow(w, h, d).placeholder = LoadedDev(w, d).placeholder
      /\ IfsRow(w, h, d).online = LoadedDev(w, d).online
  BY AttachingFacts DEF Base
<1> HIDE DEF q
<1>2. Base(q, D)
  BY <1>1 DEF Base
<1>3. ASSUME NEW e \in DOMAIN q.dev PROVE CopyOf(q, D, e)
  <2>1. CASE e # d
    BY <1>1, <1>3, <2>1 DEF ToldDev, CopyOf
  <2>2. CASE e = d /\ d \in DOMAIN w.dev
    <3>1. CopyOf(w, D, d) /\ LoadedDev(w, d) = w.dev[d].is
      BY <2>2 DEF ToldDev, LoadedDev
    <3>2. QED
      BY <1>1, <2>2, <3>1 DEF CopyOf
  <2>3. CASE e = d /\ d \notin DOMAIN w.dev
    BY <1>1, <2>3 DEF CopyOf, LoadedDev
  <2>4. QED
    BY <2>1, <2>2, <2>3
<1>4. ASSUME NEW n \in w.news, n.kind = "moved" PROVE MovedStays(q, D, n)
  <2>1. MovedStays(w, D, n)
    BY <1>4 DEF ToldDev
  <2>2. n.dev = d => LoadedDev(w, d) = w.dev[d].is
    BY <2>1 DEF MovedStays, LoadedDev
  <2>3. QED
    BY <1>1, <2>1, <2>2 DEF MovedStays
<1>5. \A e, ip : TakenNews(q, e, ip) <=> TakenNews(w, e, ip)
  BY <1>1 DEF TakenNews
<1>6. \A e \in Devices : LostTo(q, T, e) /\ GoneFrom(q, D, T, e)
  BY <1>1, <1>5 DEF ToldDev, LostTo, GoneFrom
<1>7. \A e \in Devices : /\ e \in DOMAIN v.dev => CopyOf(v, D, e) /\ HeldStill(v, D, e)
                         /\ LostTo(v, T, e) /\ GoneFrom(v, D, T, e)
  BY <1>1, <1>2, <1>3, <1>6, FlushedTold
<1>8. \A n \in q.news : n.kind = "moved" => MovedStays(v, D, n)
  BY <1>1, <1>2, <1>4, FlushedNews
<1>9. v.news = q.news /\ DOMAIN v.dev \subseteq Devices
  <2>1. DOMAIN q.dev \subseteq Devices
    BY <1>1, TabFacts
  <2>2. QED
    BY <1>1, <1>2, <2>1, FlushedRow
<1>10. QED
  BY <1>7, <1>8, <1>9 DEF ToldDev

Was(w, d) == IF d \in DOMAIN w.dev THEN w.dev[d].was ELSE w.tab.dev[d]

\* Once the way is clear, the device moves.
LEMMA MovedTold ==
  ASSUME NEW w, NEW B, NEW T, NEW h \in Host, NEW d \in Devices, w \in View, NEW v, MovedDev(w, h, d, v),
         h \in B, Was(w, d).ip # h.ip, Was(w, d).ip \in Ips(B) \/ Mac[d] = h.mac,
         \A e \in DOMAIN w.dev : e # d => CopyOf(w, B, e) /\ HeldStill(w, B, e),
         \A n \in w.news : n.kind = "moved" => n.dev # d /\ MovedStays(w, B, n),
         \A e \in Devices : LostTo(v, T, e) /\ GoneFrom(v, B, T, e)
  PROVE  ToldDev(v, B, T)
<1>1. /\ v.tab = w.tab /\ v.wrote = w.wrote /\ DOMAIN v.dev = DOMAIN w.dev \cup {d}
      /\ v.dev[d].was = Was(w, d)
      /\ \A e \in DOMAIN w.dev : e # d => v.dev[e] = w.dev[e]
      /\ v.dev[d].is.ip = h.ip /\ ~v.dev[d].is.placeholder /\ v.dev[d].is.online
      /\ v.news = IF Mac[d] = h.mac THEN w.news \cup {[kind |-> "moved", dev |-> d, ip |-> h.ip]} ELSE w.news
  BY DEF MovedDev, Was
<1>2. h = [ip |-> h.ip, mac |-> h.mac] /\ h.ip \in Ips(B)
  BY DEF Host, Ips
<1>3. ASSUME NEW e \in DOMAIN v.dev PROVE CopyOf(v, B, e) /\ HeldStill(v, B, e)
  <2>1. CASE e = d
    BY <1>1, <1>2, <2>1 DEF CopyOf, HeldStill
  <2>2. CASE e # d
    <3>1. e \in DOMAIN w.dev /\ v.dev[e] = w.dev[e] /\ CopyOf(w, B, e) /\ HeldStill(w, B, e)
      BY <1>1, <1>3, <2>2
    <3>2. QED
      BY <1>1, <3>1 DEF CopyOf, HeldStill
  <2>3. QED
    BY <2>1, <2>2
<1>4. ASSUME NEW n \in v.news, n.kind = "moved" PROVE MovedStays(v, B, n)
  <2>1. CASE n \in w.news
    <3>1. n.dev # d /\ MovedStays(w, B, n)
      BY <1>4, <2>1
    <3>2. n.dev \in DOMAIN w.dev /\ n.dev \in DOMAIN v.dev /\ v.dev[n.dev] = w.dev[n.dev]
      BY <1>1, <3>1 DEF MovedStays
    <3>3. QED
      BY <1>1, <3>1, <3>2 DEF MovedStays
  <2>2. CASE Mac[d] = h.mac /\ n.dev = d /\ n.ip = h.ip
    BY <1>1, <1>2, <2>2 DEF MovedStays
  <2>3. n \in w.news \/ (Mac[d] = h.mac /\ n = [kind |-> "moved", dev |-> d, ip |-> h.ip])
    BY <1>1
  <2>4. QED
    BY <2>1, <2>2, <2>3
<1>5. QED
  BY <1>3, <1>4 DEF ToldDev

\* Whoever has the address did not answer, and had it at the start or has lost it before.
Displaced(w, B, T, h, d) ==
  \A c \in HolderOf(w, h.ip) \ {d} :
    /\ Mac[d] = h.mac /\ \A g \in B : g.mac # Mac[c]
    /\ ~T[c].placeholder => T[c].ip = h.ip \/ TakenNews(w, c, T[c].ip)

\* Nor does moving a device of which the batch has announced nothing.
LEMMA UpdatedTold ==
  ASSUME NEW w, NEW B, NEW D, NEW T, NEW h \in Host, NEW d \in Devices, Base(w, B), ToldDev(w, B, T),
         h \in B, D \subseteq B, LoadedDev(w, d).ip # h.ip => Movable(w, D, h, d) /\ Displaced(w, B, T, h, d),
         NEW v, v = Updated(w, h, d), v.failed = None
  PROVE  ToldDev(v, B, T)
<1>0. w \in View /\ Below(w) /\ w.failed = None
  BY DEF Base
<1>1. CASE LoadedDev(w, d).ip = h.ip
  <2>1. v = SetDev(w, d, BackRow(w, d)) /\ BackRow(w, d) \in DevRow
    BY <1>0, <1>1, UpdatedBack, BackFacts
  <2>2. /\ v.tab = w.tab /\ v.wrote = w.wrote /\ v.news = w.news
        /\ DOMAIN v.dev = DOMAIN w.dev \cup {d} /\ v.dev[d].is = BackRow(w, d) /\ v.dev[d].was = Was(w, d)
        /\ \A e \in DOMAIN w.dev : e # d => v.dev[e] = w.dev[e]
    BY <1>0, <2>1, SetDevFacts DEF Was
  <2>3. v.dev[d].is.ip = h.ip /\ v.dev[d].is.online /\ ~v.dev[d].is.placeholder
    BY <1>0, <1>1, <2>2, BackFacts
  <2>4. d \in DOMAIN w.dev => w.dev[d].is.ip = h.ip
    BY <1>1 DEF LoadedDev
  <2>5. h.ip \in Ips(B)
    BY DEF Ips
  <2>6. ASSUME NEW e \in DOMAIN v.dev PROVE CopyOf(v, B, e) /\ HeldStill(v, B, e)
    <3>1. CASE e # d
      <4>1. e \in DOMAIN w.dev /\ v.dev[e] = w.dev[e] /\ CopyOf(w, B, e) /\ HeldStill(w, B, e)
        BY <2>2, <2>6, <3>1 DEF ToldDev
      <4>2. QED
        BY <2>2, <4>1 DEF CopyOf, HeldStill
    <3>2. CASE e = d /\ d \in DOMAIN w.dev
      <4>1. CopyOf(w, B, d)
        BY <3>2 DEF ToldDev
      <4>2. QED
        BY <2>2, <2>3, <2>4, <2>5, <3>2, <4>1 DEF CopyOf, HeldStill, Was
    <3>3. CASE e = d /\ d \notin DOMAIN w.dev
      <4>1. v.dev[d].was.ip = h.ip
        BY <1>1, <2>2, <3>3 DEF Was, LoadedDev
      <4>2. QED
        BY <2>3, <2>5, <3>3, <4>1 DEF CopyOf, HeldStill
    <3>4. QED
      BY <3>1, <3>2, <3>3
  <2>7. ASSUME NEW n \in v.news, n.kind = "moved" PROVE MovedStays(v, B, n)
    <3>1. MovedStays(w, B, n)
      BY <2>2, <2>7 DEF ToldDev
    <3>2. CASE n.dev # d
      BY <2>2, <3>1, <3>2 DEF MovedStays
    <3>3. CASE n.dev = d
      BY <2>2, <2>3, <2>4, <3>1, <3>3 DEF MovedStays, Was
    <3>4. QED
      BY <3>2, <3>3
  <2>8. \A e \in Devices : LostTo(v, T, e) /\ GoneFrom(v, B, T, e)
    <3>1. \A e, ip : TakenNews(v, e, ip) <=> TakenNews(w, e, ip)
      BY <2>2 DEF TakenNews
    <3>2. QED
      BY <2>2, <3>1 DEF ToldDev, LostTo, GoneFrom
  <2>9. QED
    BY <2>6, <2>7, <2>8 DEF ToldDev
<1>2. CASE LoadedDev(w, d).ip # h.ip /\ HolderOf(w, h.ip) \ {d} = {}
  <2>1. MovedDev(w, h, d, v)
    BY <1>0, <1>2, UpdatedFree
  <2>2. v.tab = w.tab /\ w.news \subseteq v.news
    BY <2>1 DEF MovedDev
  <2>3. \A e, ip : TakenNews(w, e, ip) => TakenNews(v, e, ip)
    BY <2>2 DEF TakenNews
  <2>4. \A e \in Devices : LostTo(v, T, e) /\ GoneFrom(v, B, T, e)
    BY <2>2, <2>3 DEF ToldDev, LostTo, GoneFrom
  <2>5. /\ Was(w, d).ip # h.ip /\ (Was(w, d).ip \in Ips(B) \/ Mac[d] = h.mac)
        /\ \A n \in w.news : n.kind = "moved" => n.dev # d /\ MovedStays(w, B, n)
    BY <1>2 DEF Movable, ToldDev, Was, Ips
  <2>6. \A e \in DOMAIN w.dev : e # d => CopyOf(w, B, e) /\ HeldStill(w, B, e)
    BY DEF ToldDev
  <2>7. QED
    BY <1>0, <2>1, <2>4, <2>5, <2>6, MovedTold
<1>3. CASE LoadedDev(w, d).ip # h.ip /\ HolderOf(w, h.ip) \ {d} # {}
  <2>1. PICK c \in HolderOf(w, h.ip) \ {d}, q \in View :
           /\ Clearing(w, d, c, q)
           /\ IF Flush(q).failed # None THEN v = Flush(q)
              ELSE MovedDev(Flush(q), h, d, v)
    BY <1>0, <1>3, UpdatedTaken
  <2> DEFINE f == Flush(q)
  <2>2. f.failed = None /\ MovedDev(f, h, d, v)
    BY <2>1
  <2>3. q.tab = w.tab /\ q.wrote = w.wrote /\ q.news = w.news /\ Base(q, B)
    BY <1>0, <2>1 DEF Clearing, Base
  <2>4. c \in Devices /\ c # d /\ w.tab.dev[c].ip = h.ip
    BY <2>1 DEF HolderOf
  <2>5. f \in View
    BY <2>2, <2>3, FlushBase DEF After
  <2>6. /\ \A e \in Devices : e \notin DOMAIN q.dev => f.tab.dev[e] = w.tab.dev[e]
        /\ \A e \in DOMAIN q.dev : Merged(w.tab.dev[e], q.dev[e], f.tab.dev[e])
        /\ DOMAIN f.dev = DOMAIN q.dev
        /\ \A e \in DOMAIN q.dev : f.dev[e].was = q.dev[e].is /\ f.dev[e].is = q.dev[e].is
        /\ f.wrote /\ f.news = w.news
    BY <2>2, <2>3, FlushedRow
  <2>7. /\ DOMAIN q.dev = DOMAIN w.dev \cup {d, c}
        /\ q.dev[d].was = Was(w, d) /\ q.dev[c].was = Was(w, c)
        /\ q.dev[d].is = BackRow(w, d) /\ Aside(w, c, q.dev[c].is)
        /\ \A e \in DOMAIN w.dev : e # d /\ e # c => q.dev[e] = w.dev[e]
    BY <2>1, <2>4 DEF Clearing, Was
  <2>8. BackRow(w, d).ip = LoadedDev(w, d).ip /\ BackRow(w, d).online /\ ~BackRow(w, d).placeholder
    BY <1>0, BackFacts
  <2>9. /\ \A n \in w.news : n.kind = "moved" => n.dev # d /\ n.dev # c /\ MovedStays(w, B, n)
        /\ Mac[d] = h.mac /\ \A g \in B : g.mac # Mac[c]
        /\ ~T[c].placeholder => T[c].ip = h.ip \/ TakenNews(w, c, T[c].ip)
    BY <1>3, <2>1 DEF Movable, ToldDev, Displaced
  <2>10. Was(f, d).ip # h.ip
    BY <1>3, <2>6, <2>7, <2>8 DEF Was
  <2>11. ASSUME NEW e \in DOMAIN q.dev, e # c PROVE CopyOf(q, B, e)
    <3>1. CASE e # d
      BY <2>3, <2>7, <2>11, <3>1 DEF ToldDev, CopyOf
    <3>2. CASE e = d /\ d \in DOMAIN w.dev
      <4>1. CopyOf(w, B, d) /\ LoadedDev(w, d) = w.dev[d].is
        BY <3>2 DEF ToldDev, LoadedDev
      <4>2. QED
        BY <2>3, <2>7, <2>8, <3>2, <4>1 DEF CopyOf, Was
    <3>3. CASE e = d /\ d \notin DOMAIN w.dev
      BY <2>3, <2>7, <2>8, <3>3 DEF CopyOf, Was, LoadedDev
    <3>4. QED
      BY <3>1, <3>2, <3>3
  <2>12. \A e, ip : TakenNews(q, e, ip) <=> TakenNews(w, e, ip)
    BY <2>3 DEF TakenNews
  <2>13. \A e \in Devices : LostTo(q, T, e) /\ GoneFrom(q, B, T, e)
    BY <2>3, <2>12 DEF ToldDev, LostTo, GoneFrom
  <2>14. \A e \in Devices : e # c => /\ e \in DOMAIN f.dev => CopyOf(f, B, e) /\ HeldStill(f, B, e)
                                     /\ LostTo(f, T, e) /\ GoneFrom(f, B, T, e)
    BY <2>2, <2>3, <2>6, <2>11, <2>13, FlushedTold
  <2>15. CopyOf(f, B, c) /\ HeldStill(f, B, c)
    <3>1. f.dev[c].was = q.dev[c].is /\ f.dev[c].is = q.dev[c].is /\ Merged(w.tab.dev[c], q.dev[c], f.tab.dev[c])
      BY <2>6, <2>7
    <3>2. f.tab.dev[c].ip = IF q.dev[c].is.ip = q.dev[c].was.ip THEN h.ip ELSE q.dev[c].is.ip
      BY <2>4, <3>1 DEF Merged
    <3>3. q.dev[c].was.ip = h.ip \/ q.dev[c].was.ip \in Ips(B)
      <4>1. CASE c \notin DOMAIN w.dev
        BY <2>4, <2>7, <4>1 DEF Was
      <4>2. CASE c \in DOMAIN w.dev
        <5>1. CopyOf(w, B, c) /\ q.dev[c].was = w.dev[c].was
          BY <2>7, <4>2 DEF ToldDev, Was
        <5>2. [ip |-> w.dev[c].is.ip, mac |-> Mac[c]] \notin B
          BY <2>9
        <5>3. QED
          BY <2>4, <5>1, <5>2 DEF CopyOf
      <4>3. QED
        BY <4>1, <4>2
    <3>4. h.ip \in Ips(B)
      BY DEF Ips
    <3>5. QED
      BY <2>6, <3>1, <3>2, <3>3, <3>4 DEF CopyOf, HeldStill
  <2>16. ASSUME NEW n \in f.news, n.kind = "moved" PROVE n.dev # d /\ MovedStays(f, B, n)
    <3>1. n \in w.news /\ n.dev # d /\ n.dev # c /\ MovedStays(w, B, n)
      BY <2>6, <2>9, <2>16
    <3>2. MovedStays(q, B, n)
      BY <2>3, <2>7, <3>1 DEF MovedStays
    <3>3. f = Flush(q) /\ n \in q.news
      BY <2>3, <3>1
    <3> HIDE DEF f
    <3>4. MovedStays(f, B, n)
      BY <2>2, <2>3, <2>16, <3>2, <3>3, FlushedNews
    <3>5. QED
      BY <3>1, <3>4
  <2>17. v.tab = f.tab /\ v.news = f.news \cup {[kind |-> "moved", dev |-> d, ip |-> h.ip]}
    BY <2>2, <2>9 DEF MovedDev
  <2>18. \A e, ip : TakenNews(f, e, ip) => TakenNews(v, e, ip)
    BY <2>17 DEF TakenNews
  <2>19. TakenNews(v, c, h.ip)
    <3> DEFINE n == [kind |-> "moved", dev |-> d, ip |-> h.ip]
    <3>1. n \in v.news /\ n.kind = "moved" /\ n.dev = d /\ n.ip = h.ip
      BY <2>17
    <3>2. QED
      BY <2>4, <3>1 DEF TakenNews
  <2>20. ~T[c].placeholder => TakenNews(v, c, T[c].ip)
    <3>1. w.news \subseteq v.news
      BY <2>6, <2>17
    <3>2. \A ip : TakenNews(w, c, ip) => TakenNews(v, c, ip)
      BY ONLY <3>1 DEF TakenNews
    <3>3. QED
      BY <2>9, <2>19, <3>2
  <2>21. \A e \in Devices : LostTo(v, T, e) /\ GoneFrom(v, B, T, e)
    <3>1. LostTo(v, T, c) /\ GoneFrom(v, B, T, c)
      BY <2>20 DEF LostTo, GoneFrom
    <3>2. ASSUME NEW e \in Devices, e # c PROVE LostTo(v, T, e) /\ GoneFrom(v, B, T, e)
      <4>1. LostTo(f, T, e) /\ GoneFrom(f, B, T, e)
        BY <2>14, <3>2
      <4>2. v.tab = f.tab
        BY <2>17
      <4> HIDE DEF f
      <4>3. QED
        BY <2>18, <4>1, <4>2 DEF LostTo, GoneFrom
    <3>3. QED
      BY <3>1, <3>2
  <2>22. DOMAIN f.dev \subseteq Devices
    BY <2>5, TabFacts
  <2>23. \A e \in DOMAIN f.dev : e # d => CopyOf(f, B, e) /\ HeldStill(f, B, e)
    BY <2>14, <2>15, <2>22
  <2> HIDE DEF f
  <2>24. QED
    BY <2>2, <2>5, <2>9, <2>10, <2>16, <2>21, <2>23, MovedTold
<1>4. QED
  BY <1>1, <1>2, <1>3

NewRow(n) == [mac |-> n.mac, ip |-> n.ip, online |-> TRUE]
NewStays(w, D, n) ==
  /\ [ip |-> n.ip, mac |-> n.mac] \in D
  /\ \/ \E i \in DOMAIN w.new : w.new[i] = NewRow(n)
     \/ w.wrote /\ \E r \in DOMAIN w.tab.disc \ DOMAIN w.disc : w.tab.disc[r] = NewRow(n)
ToldDisc(w, D) == \A n \in w.news : n.kind = "new" => NewStays(w, D, n)

\* New hosts stay announced truly as long as the records are left alone.
LEMMA ToldDiscKeeps ==
  ASSUME NEW w, NEW v, NEW D, ToldDisc(w, D), v.tab = w.tab, v.disc = w.disc, v.new = w.new, w.wrote => v.wrote,
         \A n \in v.news : n.kind = "new" => n \in w.news
  PROVE  ToldDisc(v, D)
BY DEF ToldDisc, NewStays

\* What is to be inserted is inserted by the flush.
LEMMA FlushedNew ==
  ASSUME NEW w, NEW D, Base(w, D), NEW v, v = Flush(w), v.failed = None, ToldDisc(w, D)
  PROVE  ToldDisc(v, D)
<1>1. w \in View /\ Below(w) /\ w.failed = None
  BY DEF Base
<1>2. /\ v.wrote /\ v.news = w.news
      /\ DOMAIN v.tab.disc = DOMAIN w.tab.disc \cup FlushIds(w)
      /\ \A r \in DOMAIN w.tab.disc : v.tab.disc[r] = FlushedDisc(w)[r]
      /\ \A r \in FlushIds(w) : v.tab.disc[r] = w.new[r - w.tab.next + 1]
      /\ DOMAIN v.disc = DOMAIN w.disc
  BY <1>1, FlushFacts
<1>3. \A r \in DOMAIN w.tab.disc \ DOMAIN w.disc : v.tab.disc[r] = w.tab.disc[r]
  BY <1>1, <1>2, FlushedTypes
<1>4. /\ w.tab.next \in Nat /\ Len(w.new) \in Nat /\ DOMAIN w.new = 1 .. Len(w.new)
      /\ DOMAIN w.disc \subseteq Nat
  BY <1>1, TabFacts
<1>5. ASSUME NEW n \in v.news, n.kind = "new" PROVE NewStays(v, D, n)
  <2>1. NewStays(w, D, n)
    BY <1>2, <1>5 DEF ToldDisc
  <2>2. CASE \E i \in DOMAIN w.new : w.new[i] = NewRow(n)
    <3>1. PICK i \in DOMAIN w.new : w.new[i] = NewRow(n)
      BY <2>2
    <3> DEFINE r == w.tab.next + i - 1
    <3>2. r \in FlushIds(w) /\ r - w.tab.next + 1 = i /\ r >= w.tab.next /\ r \in Nat
      BY <1>4, <3>1 DEF FlushIds
    <3>3. r \notin DOMAIN w.disc
      BY <1>1, <1>4, <3>2 DEF Below
    <3> HIDE DEF r
    <3>4. r \in DOMAIN v.tab.disc \ DOMAIN v.disc /\ v.tab.disc[r] = NewRow(n)
      BY <1>2, <3>1, <3>2, <3>3
    <3>5. QED
      BY <1>2, <2>1, <3>4 DEF NewStays
  <2>3. CASE \E r \in DOMAIN w.tab.disc \ DOMAIN w.disc : w.tab.disc[r] = NewRow(n)
    BY <1>2, <1>3, <2>1, <2>3 DEF NewStays
  <2>4. QED
    BY <2>1, <2>2, <2>3 DEF NewStays
<1>6. QED
  BY <1>5 DEF ToldDisc

\* A record is matched by its address, or by its MAC unless the box is live there.
LEMMA MatchedDiscHow ==
  ASSUME NEW w, NEW h, NEW r \in MatchedDisc(w, h)
  PROVE  /\ r \in DOMAIN w.tab.disc
         /\ w.tab.disc[r].ip = h.ip \/ (w.tab.disc[r].mac = h.mac /\ ~LiveElsewhere(LoadedDisc(w, r), h.ip))
BY DEF MatchedDisc

\* Listing an answer announces at most that answer, and only if it is new.
LEMMA ListedNews ==
  ASSUME NEW w \in View, NEW h \in Host, NEW v, Lists(w, h, v)
  PROVE  /\ w.news \subseteq v.news
         /\ \A n \in v.news : n \in w.news \/ (n.kind = "new" /\ n.ip = h.ip /\ n.mac = h.mac /\ MatchedDisc(w, h) = {})
<1>1. CASE MatchedDisc(w, h) = {}
  <2>1. \/ v.news = w.news \cup {[kind |-> "new", mac |-> h.mac, ip |-> h.ip]}
        \/ v.news = w.news
    BY <1>1, ListedNew
  <2>2. QED
    BY <1>1, <2>1
<1>2. CASE MatchedDisc(w, h) # {}
  <2>1. PICK r \in MatchedDisc(w, h) : FoundAt(w, h, v, r)
    BY <1>2, ListedFound
  <2>2. v.news = w.news
    BY <2>1 DEF FoundAt
  <2>3. QED
    BY <2>2
<1>3. QED
  BY <1>1, <1>2

\* A new host stays where it was announced when the next answer is listed,
LEMMA ListedToldDisc ==
  ASSUME NEW w, NEW D, NEW h, Base(w, D), Fresh(w, D, h), ToldDisc(w, D), NEW v, Lists(w, h, v)
  PROVE  ToldDisc(v, D \cup {h})
<1>0. w \in View /\ h \in Host /\ h.ip \notin Ips(D) /\ h = [ip |-> h.ip, mac |-> h.mac]
  BY DEF Base, Fresh, Host
<1>1. CASE MatchedDisc(w, h) = {}
  <2> DEFINE row == [mac |-> h.mac, ip |-> h.ip, online |-> TRUE]
  <2>1. v.tab = w.tab /\ v.disc = w.disc /\ v.wrote = w.wrote /\ v.new = Append(w.new, row)
    BY <1>0, <1>1, ListedNew
  <2>2. /\ w.new \in Seq(DiscRow) /\ DOMAIN w.new = 1 .. Len(w.new) /\ Len(w.new) \in Nat
    BY <1>0, TabFacts
  <2>3. \A n : n.ip = h.ip /\ n.mac = h.mac => NewRow(n) = row
    BY DEF NewRow
  <2> HIDE DEF row
  <2>4. /\ DOMAIN v.new = 1 .. Len(w.new) + 1
        /\ \A i \in DOMAIN w.new : v.new[i] = w.new[i] /\ i \in DOMAIN v.new
        /\ Len(w.new) + 1 \in DOMAIN v.new /\ v.new[Len(w.new) + 1] = row
    BY <2>1, <2>2
  <2>5. ASSUME NEW n \in v.news, n.kind = "new" PROVE NewStays(v, D \cup {h}, n)
    <3>1. CASE n \in w.news
      <4>1. NewStays(w, D, n)
        BY <2>5, <3>1 DEF ToldDisc
      <4>2. QED
        BY <2>1, <2>4, <4>1 DEF NewStays
    <3>2. CASE n.ip = h.ip /\ n.mac = h.mac
      BY <1>0, <2>3, <2>4, <3>2 DEF NewStays
    <3>3. QED
      BY <1>0, <2>5, <3>1, <3>2, ListedNews
  <2>6. QED
    BY <2>5 DEF ToldDisc
<1>2. CASE MatchedDisc(w, h) # {}
  <2>1. PICK r \in MatchedDisc(w, h) : r \in DOMAIN w.tab.disc /\ FoundAt(w, h, v, r)
    BY <1>0, <1>2, ListedFound
  <2>2. /\ v.news = w.news /\ v.new = w.new /\ (w.wrote => v.wrote)
        /\ DOMAIN w.tab.disc \ There(w, h, r) \subseteq DOMAIN v.tab.disc
        /\ \A q \in DOMAIN v.tab.disc : v.tab.disc[q] = w.tab.disc[q]
        /\ DOMAIN v.disc \subseteq DOMAIN w.disc \cup {r}
    BY <2>1 DEF FoundAt
  <2>3. ASSUME NEW n \in w.news, n.kind = "new" PROVE NewStays(v, D \cup {h}, n)
    <3>1. NewStays(w, D, n)
      BY <2>3 DEF ToldDisc
    <3>2. CASE \E i \in DOMAIN w.new : w.new[i] = NewRow(n)
      BY <2>2, <3>1, <3>2 DEF NewStays
    <3>3. CASE w.wrote /\ \E q \in DOMAIN w.tab.disc \ DOMAIN w.disc : w.tab.disc[q] = NewRow(n)
      <4>1. PICK q \in DOMAIN w.tab.disc \ DOMAIN w.disc : w.tab.disc[q] = NewRow(n)
        BY <3>3
      <4>2. w.tab.disc[q].ip = n.ip /\ w.tab.disc[q].mac = n.mac /\ w.tab.disc[q].online
        BY <4>1 DEF NewRow
      <4> DEFINE g == [ip |-> n.ip, mac |-> n.mac]
      <4>3. g \in D /\ g.ip = n.ip /\ g.mac = n.mac
        BY <3>1 DEF NewStays
      <4> HIDE DEF g
      <4>4. n.ip # h.ip /\ g # h /\ g \in Heard(w.batch)
        BY <1>0, <4>3 DEF Ips, Fresh
      <4>5. q \in DOMAIN v.tab.disc /\ v.tab.disc[q] = NewRow(n)
        BY <2>2, <4>1, <4>2, <4>4 DEF There
      <4>6. q # r
        <5> SUFFICES ASSUME q = r PROVE FALSE
          OBVIOUS
        <5>1. LoadedDisc(w, q) = w.tab.disc[q]
          BY <4>1 DEF LoadedDisc
        <5>2. n.mac = h.mac /\ ~LiveElsewhere(w.tab.disc[q], h.ip)
          BY <4>2, <4>4, <5>1, MatchedDiscHow
        <5>3. Across(n.ip, h.ip)
          BY <4>3, <4>4, <5>2 DEF Fresh
        <5>4. QED
          BY <4>2, <4>4, <5>2, <5>3 DEF LiveElsewhere
      <4>7. QED
        BY <2>2, <3>1, <3>3, <4>1, <4>5, <4>6 DEF NewStays
    <3>4. QED
      BY <3>1, <3>2, <3>3 DEF NewStays
  <2>4. QED
    BY <2>2, <2>3 DEF ToldDisc
<1>3. QED
  BY <1>1, <1>2

\* when an interface is stored,
LEMMA AttachedToldDisc ==
  ASSUME NEW w, NEW D, NEW h \in Host, NEW d \in Devices, Base(w, D), ToldDisc(w, D),
         NEW v, v = Attached(w, h, d), v.failed = None
  PROVE  ToldDisc(v, D)
<1> DEFINE q == Attaching(w, h, d)
<1>1. /\ q \in View /\ Below(q) /\ q.tab = w.tab /\ q.new = w.new /\ q.wrote = w.wrote /\ q.news = w.news
      /\ q.disc = w.disc /\ q.failed = w.failed /\ v = Flush(q)
  BY AttachingFacts DEF Base
<1> HIDE DEF q
<1>2. Base(q, D)
  BY <1>1 DEF Base
<1>3. ToldDisc(q, D)
  BY <1>1, ToldDiscKeeps
<1>4. QED
  BY <1>1, <1>2, <1>3, FlushedNew

\* when a device moves,
LEMMA MovedToldDisc ==
  ASSUME NEW w, NEW B, NEW h, NEW d, NEW v, MovedDev(w, h, d, v), ToldDisc(w, B)
  PROVE  ToldDisc(v, B)
<1>1. v.tab = w.tab /\ v.disc = w.disc /\ v.new = w.new /\ v.wrote = w.wrote
  BY DEF MovedDev
<1>2. \A n \in v.news : n.kind = "new" => n \in w.news
  BY DEF MovedDev
<1>3. QED
  BY <1>1, <1>2, ToldDiscKeeps

\* and when one gives way to it.
LEMMA UpdatedToldDisc ==
  ASSUME NEW w, NEW B, NEW h \in Host, NEW d \in Devices, Base(w, B), ToldDisc(w, B),
         NEW v, v = Updated(w, h, d), v.failed = None
  PROVE  ToldDisc(v, B)
<1>0. w \in View /\ Below(w) /\ w.failed = None
  BY DEF Base
<1>1. CASE LoadedDev(w, d).ip = h.ip
  <2>1. v = SetDev(w, d, BackRow(w, d)) /\ BackRow(w, d) \in DevRow
    BY <1>0, <1>1, UpdatedBack, BackFacts
  <2>2. v.tab = w.tab /\ v.disc = w.disc /\ v.new = w.new /\ v.wrote = w.wrote /\ v.news = w.news
    BY <1>0, <2>1, SetDevFacts
  <2>3. QED
    BY <2>2, ToldDiscKeeps
<1>2. CASE LoadedDev(w, d).ip # h.ip /\ HolderOf(w, h.ip) \ {d} = {}
  BY <1>0, <1>2, UpdatedFree, MovedToldDisc
<1>3. CASE LoadedDev(w, d).ip # h.ip /\ HolderOf(w, h.ip) \ {d} # {}
  <2>1. PICK c \in HolderOf(w, h.ip) \ {d}, q \in View :
           /\ Clearing(w, d, c, q)
           /\ IF Flush(q).failed # None THEN v = Flush(q)
              ELSE MovedDev(Flush(q), h, d, v)
    BY <1>0, <1>3, UpdatedTaken
  <2> DEFINE f == Flush(q)
  <2>2. f.failed = None /\ MovedDev(f, h, d, v) /\ f = Flush(q)
    BY <2>1
  <2> HIDE DEF f
  <2>3. q.tab = w.tab /\ q.disc = w.disc /\ q.new = w.new /\ q.wrote = w.wrote /\ q.news = w.news /\ Base(q, B)
    BY <1>0, <2>1 DEF Clearing, Base
  <2>4. ToldDisc(q, B)
    BY <2>3, ToldDiscKeeps
  <2>5. ToldDisc(f, B)
    BY <2>2, <2>3, <2>4, FlushedNew
  <2>6. QED
    BY <2>2, <2>5, MovedToldDisc
<1>4. QED
  BY <1>1, <1>2, <1>3

Told0(w, D, T) == ToldDev(w, D, T) /\ ToldDisc(w, D)

\* What was announced is still so after the next answer.
LEMMA SyncedTold ==
  ASSUME NEW w, NEW D, NEW h, NEW T, Base(w, D), Told0(w, D, T), Odd(w) = {}, Fresh(w, D, h),
         NEW v, v = Synced(w, h), v.failed = None
  PROVE  Told0(v, D \cup {h}, T)
<1> DEFINE B == D \cup {h}
<1>0. /\ Branch(w, h, v) /\ w \in View /\ OneEach(w.tab.dev) /\ h \in Host /\ h.ip \notin Ips(D)
  BY SyncedBranch DEF Base, Fresh
\* Listing leaves the devices alone.
<1>1. ASSUME NEW x, NEW u, Base(x, D), Told0(x, D, T), Fresh(x, D, h), Lists(x, h, u)
      PROVE  Told0(u, B, T)
  <2>0. u.dev = x.dev /\ u.tab.dev = x.tab.dev /\ Writes(x, u)
    <3>1. h \in Host /\ h.ip \notin Ips(D) /\ Base(x, D) /\ Lists(x, h, u)
      BY <1>0, <1>1
    <3>2. QED
      <4>1. Base(u, D \cup {h}) /\ Frame(x, u) /\ Writes(x, u)
             /\ u.dev = x.dev /\ u.tab.dev = x.tab.dev /\ u.tab.next = x.tab.next
        BY ONLY <3>1, ListedBase
      <4>2. QED
        BY ONLY <4>1
  <2>1. u.dev = x.dev /\ u.tab.dev = x.tab.dev /\ (x.wrote => u.wrote)
    BY <2>0 DEF Writes
  <2>2. x.news \subseteq u.news /\ \A n \in u.news : n.kind = "moved" => n \in x.news
    BY <1>0, <1>1, ListedNews DEF Base
  <2>3. ToldDev(u, B, T)
    BY <1>1, <2>1, <2>2, ToldDevKeeps DEF Told0
  <2>4. ToldDisc(u, B)
    BY <1>1, ListedToldDisc DEF Told0
  <2>5. QED
    BY <2>3, <2>4 DEF Told0
<1>2. ASSUME NEW d \in Matched(w, h), NEW u, u = Attached(w, h, d), IF u.failed = None THEN Lists(u, h, v) ELSE v = u
      PROVE  Told0(v, B, T)
  <2>1. d \in Devices /\ u.failed = None /\ Lists(u, h, v)
    BY <1>0, <1>2, MatchedHow
  <2>2. Base(u, D) /\ Frame(w, u)
    BY <1>0, <1>2, <2>1, AttachedBase DEF After
  <2>3. Told0(u, D, T)
    BY <1>0, <1>2, <2>1, AttachedTold, AttachedToldDisc DEF Told0
  <2>4. Fresh(u, D, h)
    BY <2>2 DEF Fresh, Frame
  <2>5. QED
    BY <1>1, <2>1, <2>2, <2>3, <2>4
<1>3. ASSUME NEW d \in Matched(w, h), ~Kept(w, h, d), NEW u, Lists(w, h, u), v = Updated(u, h, d)
      PROVE  Told0(v, B, T)
  <2>1. /\ d \in Devices
        /\ \A c \in HolderOf(w, h.ip) \ {d} :
              c \in Devices /\ Mac[d] = h.mac /\ w.tab.dev[d].ip # h.ip /\ Mac[c] # h.mac /\ w.tab.dev[c].ip = h.ip
    BY <1>0, <1>3, MatchedHow
  <2>2. Base(u, B) /\ u.dev = w.dev /\ u.tab.dev = w.tab.dev
    BY <1>0, <1>3, ListedBase
  <2>3. Told0(u, B, T)
    BY <1>1, <1>3
  <2>4. w.news \subseteq u.news /\ \A n \in u.news : n.kind = "moved" => n \in w.news
    BY <1>0, <1>3, ListedNews
  <2>5. \A e : LoadedDev(u, e) = LoadedDev(w, e)
    BY <2>2 DEF LoadedDev
  <2>6. HolderOf(u, h.ip) = HolderOf(w, h.ip)
    BY <2>2 DEF HolderOf
  <2>7. ASSUME LoadedDev(u, d).ip # h.ip PROVE Movable(u, D, h, d) /\ Displaced(u, B, T, h, d)
    <3>1. Movable(w, D, h, d)
      BY <1>3, <2>5, <2>7, MovableFacts DEF Told0
    <3>2. Movable(u, D, h, d)
      BY <2>2, <2>4, <2>6, <3>1 DEF Movable
    <3>3. ASSUME NEW c \in HolderOf(w, h.ip) \ {d}
          PROVE  /\ Mac[d] = h.mac /\ \A g \in B : g.mac # Mac[c]
                 /\ ~T[c].placeholder => T[c].ip = h.ip \/ TakenNews(u, c, T[c].ip)
      <4>1. c \in Devices /\ Mac[d] = h.mac /\ Mac[c] # h.mac /\ w.tab.dev[c].ip = h.ip
        BY <2>1, <3>3
      <4>2. \A g \in B : g.mac # Mac[c]
        BY <4>1, OtherDevice DEF Fresh
      <4>3. \A ip : TakenNews(w, c, ip) => TakenNews(u, c, ip)
        BY <2>4 DEF TakenNews
      <4>4. GoneFrom(w, D, T, c)
        BY <4>1 DEF Told0, ToldDev
      <4>5. QED
        BY <1>0, <4>1, <4>2, <4>3, <4>4 DEF GoneFrom
    <3>4. QED
      BY <2>6, <3>2, <3>3 DEF Displaced
  <2>8. ToldDev(v, B, T)
    BY <1>0, <1>3, <2>1, <2>2, <2>3, <2>7, UpdatedTold DEF Told0
  <2>9. ToldDisc(v, B)
    BY <1>0, <1>3, <2>1, <2>2, <2>3, UpdatedToldDisc DEF Told0
  <2>10. QED
    BY <2>8, <2>9 DEF Told0
<1> HIDE DEF B
<1>4. Told0(v, B, T)
  BY <1>0, <1>1, <1>2, <1>3 DEF Branch
<1>5. QED
  BY <1>4 DEF B

-----------------------------------------------------------------------------
(* A batch that is alone and not odd: nothing it loaded is stale, and what it *)
(* will write meets no address in use.                                        *)

FlushableDev(w) ==
  /\ \A d \in DOMAIN w.dev : w.dev[d].was = w.tab.dev[d] /\ w.tab.dev[d].ifs \subseteq w.dev[d].is.ifs
  /\ \A d, e \in Devices : d # e =>
       /\ LoadedDev(w, d).ip # LoadedDev(w, e).ip
       /\ LoadedDev(w, d).ip # w.tab.dev[d].ip => LoadedDev(w, d).ip # w.tab.dev[e].ip
FlushableDisc(w) ==
  /\ \A r \in DOMAIN w.disc : r \in DOMAIN w.tab.disc /\ w.disc[r].was = w.tab.disc[r]
  /\ \A q, r \in DOMAIN w.tab.disc : q # r =>
       /\ LoadedDisc(w, q).ip # LoadedDisc(w, r).ip
       /\ LoadedDisc(w, q).ip # w.tab.disc[q].ip => LoadedDisc(w, q).ip # w.tab.disc[r].ip
  /\ \A i \in DOMAIN w.new : \A r \in DOMAIN w.tab.disc : LoadedDisc(w, r).ip # w.new[i].ip

\* UPDATEs that put every row where no other row is or was meet no address in use.
LEMMA NoClash ==
  ASSUME NEW before, NEW after,
         \A x, y \in DOMAIN before : x # y =>
           /\ after[x].ip # after[y].ip
           /\ after[x].ip # before[x].ip => after[x].ip # before[y].ip
  PROVE  ~Clash(before, after)
<1> SUFFICES ASSUME NEW x \in DOMAIN before, NEW y \in DOMAIN before, x # y, after[x].ip # before[x].ip,
                    after[x].ip = IF y < x THEN after[y].ip ELSE before[y].ip
             PROVE  FALSE
  BY Zenon DEF Clash
<1>1. after[x].ip = after[y].ip \/ after[x].ip = before[y].ip
  OBVIOUS
<1>2. QED
  BY <1>1

\* A flush of copies that are not stale writes the devices as they were loaded,
LEMMA FlushedDevLoaded ==
  ASSUME NEW w \in View, FlushableDev(w)
  PROVE  \A d \in Devices : FlushedDev(w)[d] = LoadedDev(w, d)
<1>1. /\ w.tab.dev \in [Devices -> DevRow] /\ w.dev \in [DOMAIN w.dev -> DevCopy]
  BY TabFacts
<1> SUFFICES ASSUME NEW d \in Devices PROVE FlushedDev(w)[d] = LoadedDev(w, d)
  OBVIOUS
<1>2. FlushedDev(w)[d] =
        IF d \in DOMAIN w.dev /\ w.dev[d].is # w.dev[d].was THEN Written(w.tab.dev[d], w.dev[d]) ELSE w.tab.dev[d]
  BY FlushedTypes
<1>3. CASE d \notin DOMAIN w.dev
  BY <1>2, <1>3 DEF LoadedDev
<1>4. CASE d \in DOMAIN w.dev /\ w.dev[d].is = w.dev[d].was
  BY <1>2, <1>4 DEF LoadedDev, FlushableDev
<1>5. CASE d \in DOMAIN w.dev /\ w.dev[d].is # w.dev[d].was
  <2> DEFINE x == Written(w.tab.dev[d], w.dev[d])
             is == w.dev[d].is
  <2>1. is \in DevRow /\ w.dev[d] \in DevCopy /\ w.dev[d].was = w.tab.dev[d] /\ w.tab.dev[d] \in DevRow
    BY <1>1, <1>5 DEF DevCopy, FlushableDev
  <2>1a. x = Written(w.tab.dev[d], w.dev[d]) /\ is = w.dev[d].is
    OBVIOUS
  <2> HIDE DEF x, is
  <2>2. /\ x \in DevRow
        /\ x.ip = (IF is.ip = w.dev[d].was.ip THEN w.tab.dev[d].ip ELSE is.ip)
        /\ x.old = (IF is.old = w.dev[d].was.old THEN w.tab.dev[d].old ELSE is.old)
        /\ x.placeholder = (IF is.placeholder = w.dev[d].was.placeholder THEN w.tab.dev[d].placeholder ELSE is.placeholder)
        /\ x.online = (IF is.online = w.dev[d].was.online THEN w.tab.dev[d].online ELSE is.online)
        /\ x.ifs = w.tab.dev[d].ifs \cup is.ifs
    BY <2>1, <2>1a, WrittenDev, SMTT(60)
  <2>3. w.tab.dev[d].ifs \subseteq is.ifs
    BY <1>5, <2>1a DEF FlushableDev
  <2>4. x.ip = is.ip /\ x.old = is.old /\ x.ifs = is.ifs
    BY <2>1, <2>2, <2>3
  <2>5a. x.placeholder = is.placeholder
    BY <2>1, <2>2
  <2>5b. x.online = is.online
    BY <2>1, <2>2
  <2>5. x = is
    BY <2>1, <2>2, <2>4, <2>5a, <2>5b DEF DevRow
  <2>6. QED
    BY <1>2, <1>5, <2>5 DEF x, is, LoadedDev
<1>6. QED
  BY <1>3, <1>4, <1>5

\* and the records.
LEMMA FlushedDiscLoaded ==
  ASSUME NEW w \in View, FlushableDisc(w)
  PROVE  \A r \in DOMAIN w.tab.disc : FlushedDisc(w)[r] = LoadedDisc(w, r)
<1>1. /\ w.tab.disc \in [DOMAIN w.tab.disc -> DiscRow] /\ w.disc \in [DOMAIN w.disc -> DiscCopy]
  BY TabFacts
<1> SUFFICES ASSUME NEW d \in DOMAIN w.tab.disc PROVE FlushedDisc(w)[d] = LoadedDisc(w, d)
  OBVIOUS
<1>2. FlushedDisc(w)[d] =
        IF d \in DOMAIN w.disc /\ w.disc[d].is # w.disc[d].was THEN Written(w.tab.disc[d], w.disc[d]) ELSE w.tab.disc[d]
  BY FlushedTypes
<1>3. CASE d \notin DOMAIN w.disc
  BY <1>2, <1>3 DEF LoadedDisc
<1>4. CASE d \in DOMAIN w.disc /\ w.disc[d].is = w.disc[d].was
  BY <1>2, <1>4 DEF LoadedDisc, FlushableDisc
<1>5. CASE d \in DOMAIN w.disc /\ w.disc[d].is # w.disc[d].was
  <2> DEFINE x == Written(w.tab.disc[d], w.disc[d])
             is == w.disc[d].is
  <2>1. is \in DiscRow /\ w.disc[d] \in DiscCopy /\ w.disc[d].was = w.tab.disc[d] /\ w.tab.disc[d] \in DiscRow
    BY <1>1, <1>5 DEF DiscCopy, FlushableDisc
  <2>2. /\ x \in DiscRow
        /\ x.ip = (IF is.ip = w.disc[d].was.ip THEN w.tab.disc[d].ip ELSE is.ip)
        /\ x.mac = (IF is.mac = w.disc[d].was.mac THEN w.tab.disc[d].mac ELSE is.mac)
        /\ x.online = (IF is.online = w.disc[d].was.online THEN w.tab.disc[d].online ELSE is.online)
    BY <2>1, WrittenDisc
  <2> HIDE DEF x, is
  <2>4. x.ip = is.ip /\ x.mac = is.mac /\ x.online = is.online
    BY <2>1, <2>2
  <2>5. x = is
    BY <2>1, <2>2, <2>4 DEF DiscRow
  <2>6. QED
    BY <1>2, <1>5, <2>5 DEF x, is, LoadedDisc
<1>6. QED
  BY <1>3, <1>4, <1>5

\* Such a flush works, and writes what the session has loaded.
LEMMA FlushAlone ==
  ASSUME NEW w, NEW D, Base(w, D), FlushableDev(w), FlushableDisc(w), NEW v, v = Flush(w)
  PROVE  /\ v.failed = None /\ Base(v, D) /\ Frame(w, v) /\ v.wrote /\ v.news = w.news /\ v.new = <<>>
         /\ \A d \in Devices : v.tab.dev[d] = LoadedDev(w, d) /\ LoadedDev(v, d) = LoadedDev(w, d)
         /\ DOMAIN v.dev = DOMAIN w.dev
         /\ \A d \in DOMAIN v.dev : v.dev[d].was = v.tab.dev[d] /\ v.dev[d].is = v.tab.dev[d]
         /\ DOMAIN v.tab.disc = DOMAIN w.tab.disc \cup FlushIds(w)
         /\ \A r \in DOMAIN w.tab.disc : v.tab.disc[r] = LoadedDisc(w, r) /\ r \notin FlushIds(w)
         /\ \A r \in FlushIds(w) : r - w.tab.next + 1 \in DOMAIN w.new /\ v.tab.disc[r] = w.new[r - w.tab.next + 1]
         /\ \A i \in DOMAIN w.new : \E r \in FlushIds(w) : r - w.tab.next + 1 = i
         /\ \A r \in DOMAIN v.disc : r \in DOMAIN v.tab.disc /\ v.disc[r].was = v.tab.disc[r] /\ v.disc[r].is = v.tab.disc[r]
         /\ \A r \in DOMAIN v.tab.disc : LoadedDisc(v, r) = v.tab.disc[r]
<1>1. w \in View /\ Below(w) /\ w.failed = None
  BY DEF Base
<1>2. \A d \in Devices : FlushedDev(w)[d] = LoadedDev(w, d)
  BY <1>1, FlushedDevLoaded
<1>3. \A r \in DOMAIN w.tab.disc : FlushedDisc(w)[r] = LoadedDisc(w, r)
  BY <1>1, FlushedDiscLoaded
<1>4. /\ DOMAIN w.tab.dev = Devices /\ w.tab.next \in Nat /\ Len(w.new) \in Nat /\ DOMAIN w.new = 1 .. Len(w.new)
      /\ DOMAIN w.dev \subseteq Devices
  BY <1>1, TabFacts
<1>5. FlushWorks(w)
  <2>1. ~Clash(w.tab.dev, FlushedDev(w))
    BY <1>2, <1>4, NoClash DEF FlushableDev
  <2>2. ~Clash(w.tab.disc, FlushedDisc(w))
    BY <1>3, NoClash DEF FlushableDisc
  <2>3. DOMAIN w.disc \subseteq DOMAIN w.tab.disc
    BY DEF FlushableDisc
  <2>4. \A r \in FlushIds(w) : r - w.tab.next + 1 \in DOMAIN w.new
    BY <1>4 DEF FlushIds
  <2>5. \A r \in FlushIds(w) : \A q \in DOMAIN w.tab.disc : FlushedDisc(w)[q].ip # w.new[r - w.tab.next + 1].ip
    BY <1>3, <2>4 DEF FlushableDisc
  <2>6. QED
    BY <2>1, <2>2, <2>3, <2>5 DEF FlushWorks
<1>6. v.failed = None
  BY <1>1, <1>5, FlushFacts
<1>7. /\ v.news = w.news /\ v.wrote /\ v.new = <<>>
      /\ v.tab.dev = FlushedDev(w)
      /\ DOMAIN v.tab.disc = DOMAIN w.tab.disc \cup FlushIds(w)
      /\ \A r \in DOMAIN w.tab.disc : v.tab.disc[r] = FlushedDisc(w)[r]
      /\ \A r \in FlushIds(w) : v.tab.disc[r] = w.new[r - w.tab.next + 1]
      /\ DOMAIN v.dev = DOMAIN w.dev
      /\ \A d \in DOMAIN w.dev : v.dev[d].was = w.dev[d].is /\ v.dev[d].is = w.dev[d].is
      /\ DOMAIN v.disc = DOMAIN w.disc
      /\ \A r \in DOMAIN w.disc : v.disc[r].was = w.disc[r].is /\ v.disc[r].is = w.disc[r].is
  BY <1>1, <1>6, FlushFacts
<1>8. Base(v, D) /\ Frame(w, v)
  BY <1>6, FlushBase DEF After
<1>9. /\ \A d \in Devices : v.tab.dev[d] = LoadedDev(w, d)
      /\ \A d \in DOMAIN v.dev : d \in Devices /\ LoadedDev(w, d) = w.dev[d].is
      /\ \A r \in DOMAIN w.tab.disc : v.tab.disc[r] = LoadedDisc(w, r)
      /\ \A r \in DOMAIN v.disc : r \in DOMAIN w.tab.disc /\ LoadedDisc(w, r) = w.disc[r].is
  BY <1>2, <1>3, <1>4, <1>7 DEF LoadedDev, LoadedDisc, FlushableDisc
<1>10. \A d \in DOMAIN v.dev : v.dev[d].was = v.tab.dev[d] /\ v.dev[d].is = v.tab.dev[d]
  BY <1>7, <1>9
<1>11. \A r \in DOMAIN v.disc : r \in DOMAIN v.tab.disc /\ v.disc[r].was = v.tab.disc[r] /\ v.disc[r].is = v.tab.disc[r]
  BY <1>7, <1>9
<1>12. /\ \A r \in DOMAIN w.tab.disc : r \notin FlushIds(w)
       /\ \A r \in FlushIds(w) : r - w.tab.next + 1 \in DOMAIN w.new
       /\ \A i \in DOMAIN w.new : \E r \in FlushIds(w) : r - w.tab.next + 1 = i
  <2>1. DOMAIN w.tab.disc \subseteq Nat
    BY <1>1, TabFacts
  <2>2. ASSUME NEW i \in DOMAIN w.new PROVE \E r \in FlushIds(w) : r - w.tab.next + 1 = i
    <3> DEFINE r == w.tab.next + i - 1
    <3>1. r \in FlushIds(w) /\ r - w.tab.next + 1 = i
      BY <1>4 DEF FlushIds
    <3>2. QED
      BY <3>1
  <2>3. QED
    BY <1>1, <1>4, <2>1, <2>2, SMTT(60) DEF FlushIds, Below
<1>13. \A d \in Devices : LoadedDev(v, d) = LoadedDev(w, d)
  BY <1>9, <1>10 DEF LoadedDev
<1>14. \A r \in DOMAIN v.tab.disc : LoadedDisc(v, r) = v.tab.disc[r]
  BY <1>11 DEF LoadedDisc
<1>15. QED
  BY <1>6, <1>7, <1>8, <1>9, <1>10, <1>11, <1>12, <1>13, <1>14

\* What a batch that is alone has loaded: no row is stale, and only a device or a record
\* that answered elsewhere is to move, to where nobody is.
GoodCopy(w, D, d) ==
  LET c == w.dev[d]  row == w.tab.dev[d] IN
  /\ c.was = row /\ c.is.ifs = row.ifs
  /\ c.is.ip # row.ip => /\ [ip |-> c.is.ip, mac |-> Mac[d]] \in D
                         /\ \A e \in Devices : w.tab.dev[e].ip # c.is.ip
  /\ c.is.ip = row.ip => c.is.old = row.old
GoodDev(w, D) ==
  /\ \A d \in DOMAIN w.dev : GoodCopy(w, D, d)
  /\ \A d, e \in Devices : LoadedDev(w, d).ip = LoadedDev(w, e).ip => d = e

GoodRecord(w, D, r) ==
  LET c == w.disc[r]  row == w.tab.disc[r] IN
  /\ r \in DOMAIN w.tab.disc
  /\ c.was = row /\ c.is.mac = row.mac
  /\ row.online => c.is.online
  /\ c.is.ip # row.ip => /\ [ip |-> c.is.ip, mac |-> row.mac] \in D /\ c.is.online
                         /\ \A q \in DOMAIN w.tab.disc : w.tab.disc[q].ip # c.is.ip
  /\ c.is.online # row.online => c.is.ip \in Ips(D)
\* A record the batch inserts, at an address no other will have.
GoodNew(w, D, i) ==
  /\ [ip |-> w.new[i].ip, mac |-> w.new[i].mac] \in D /\ w.new[i].online
  /\ \A r \in DOMAIN w.tab.disc : LoadedDisc(w, r).ip # w.new[i].ip
\* Who answered from ip is a discovered host, or will be.
IsListed(w, ip) ==
  \/ \E r \in DOMAIN w.tab.disc : LoadedDisc(w, r).ip = ip
  \/ \E i \in DOMAIN w.new : w.new[i].ip = ip
GoodDisc(w, D) ==
  /\ \A r \in DOMAIN w.disc : GoodRecord(w, D, r)
  /\ \A q, r \in DOMAIN w.tab.disc : LoadedDisc(w, q).ip = LoadedDisc(w, r).ip => q = r
  /\ \A i \in DOMAIN w.new : GoodNew(w, D, i)
  /\ \A g \in D : IsListed(w, g.ip)

\* Such copies can be flushed.
LEMMA GoodDevFlushable ==
  ASSUME NEW w, NEW D, Base(w, D), GoodDev(w, D)
  PROVE  FlushableDev(w)
<1>1. /\ w \in View /\ OneEach(w.tab.dev) /\ DOMAIN w.tab.dev = Devices /\ DOMAIN w.dev \subseteq Devices
  BY TabFacts DEF Base
<1>2. \A d \in DOMAIN w.dev : w.dev[d].was = w.tab.dev[d] /\ w.tab.dev[d].ifs \subseteq w.dev[d].is.ifs
  BY DEF GoodDev, GoodCopy
<1>3. ASSUME NEW d \in Devices, NEW e \in Devices, d # e,
             LoadedDev(w, d).ip # w.tab.dev[d].ip
      PROVE  LoadedDev(w, d).ip # w.tab.dev[e].ip
  BY <1>3 DEF GoodDev, GoodCopy, LoadedDev
<1>4. QED
  BY <1>2, <1>3 DEF FlushableDev, GoodDev

\* So can such records.
LEMMA GoodDiscFlushable ==
  ASSUME NEW w, NEW D, Base(w, D), GoodDisc(w, D)
  PROVE  FlushableDisc(w)
<1>2. \A r \in DOMAIN w.disc : r \in DOMAIN w.tab.disc /\ w.disc[r].was = w.tab.disc[r]
  BY DEF GoodDisc, GoodRecord
<1>3. ASSUME NEW d \in DOMAIN w.tab.disc, NEW e \in DOMAIN w.tab.disc, d # e,
             LoadedDisc(w, d).ip # w.tab.disc[d].ip
      PROVE  LoadedDisc(w, d).ip # w.tab.disc[e].ip
  BY <1>3 DEF GoodDisc, GoodRecord, LoadedDisc
<1>4. \A i \in DOMAIN w.new : \A r \in DOMAIN w.tab.disc : LoadedDisc(w, r).ip # w.new[i].ip
  BY DEF GoodDisc, GoodNew
<1>5. \A q, r \in DOMAIN w.tab.disc : q # r => LoadedDisc(w, q).ip # LoadedDisc(w, r).ip
  BY DEF GoodDisc
<1>6. QED
  BY <1>2, <1>3, <1>4, <1>5 DEF FlushableDisc

\* What the records are for the next answer h: who is recorded at its address stays there,
\* who has its MAC and answered before is live elsewhere, and if its address is recorded
\* with another MAC its own has not answered and is not live elsewhere.
StaysAt(w, h) == \A r \in DOMAIN w.tab.disc : w.tab.disc[r].ip = h.ip => LoadedDisc(w, r).ip = h.ip
LiveIfHeard(w, D, h) ==
  \A r \in DOMAIN w.tab.disc :
    LoadedDisc(w, r).ip \in Ips(D) /\ LoadedDisc(w, r).mac = h.mac => LiveElsewhere(LoadedDisc(w, r), h.ip)
NewHere(w, D, h) ==
  (\E r \in DOMAIN w.tab.disc : LoadedDisc(w, r).ip = h.ip /\ LoadedDisc(w, r).mac # h.mac)
    => /\ \A g \in D : g.mac # h.mac
       /\ \A q \in DOMAIN w.tab.disc : LoadedDisc(w, q).mac = h.mac => ~LiveElsewhere(LoadedDisc(w, q), h.ip)
CalmDisc(w, D, h) == StaysAt(w, h) /\ LiveIfHeard(w, D, h) /\ NewHere(w, D, h)

\* What a record is if it was loaded, and what it is if it is not to move.
LEMMA RecordFacts ==
  ASSUME NEW w, NEW D, GoodDisc(w, D), NEW r \in DOMAIN w.tab.disc
  PROVE  /\ LoadedDisc(w, r).mac = w.tab.disc[r].mac
         /\ w.tab.disc[r].online => LoadedDisc(w, r).online
         /\ LoadedDisc(w, r).ip # w.tab.disc[r].ip =>
              /\ [ip |-> LoadedDisc(w, r).ip, mac |-> w.tab.disc[r].mac] \in D /\ LoadedDisc(w, r).online
              /\ LoadedDisc(w, r).ip \in Ips(D)
              /\ \A q \in DOMAIN w.tab.disc : w.tab.disc[q].ip # LoadedDisc(w, r).ip
         /\ LoadedDisc(w, r).online # w.tab.disc[r].online => LoadedDisc(w, r).ip \in Ips(D)
<1>1. CASE r \notin DOMAIN w.disc
  BY <1>1 DEF LoadedDisc
<1>2. CASE r \in DOMAIN w.disc
  <2>1. GoodRecord(w, D, r) /\ LoadedDisc(w, r) = w.disc[r].is
    BY <1>2 DEF GoodDisc, LoadedDisc
  <2>2. ASSUME [ip |-> w.disc[r].is.ip, mac |-> w.tab.disc[r].mac] \in D PROVE w.disc[r].is.ip \in Ips(D)
    BY <2>2 DEF Ips
  <2>3. QED
    BY <2>1, <2>2 DEF GoodRecord
<1>3. QED
  BY <1>1, <1>2

\* In a batch that is not odd every answer finds the records so.
LEMMA CalmDiscFacts ==
  ASSUME NEW w, NEW D, NEW h, Odd(w) = {}, Fresh(w, D, h), GoodDisc(w, D)
  PROVE  CalmDisc(w, D, h)
<1>0. /\ h \in Heard(w.batch) /\ D \subseteq Heard(w.batch) /\ h.ip \notin Ips(D)
      /\ \A f, g \in Heard(w.batch) : (f.ip = g.ip => f = g) /\ (f.mac = g.mac => f = g \/ Across(f.ip, g.ip))
  BY DEF Fresh
<1>1. \A g \in D : g.ip # h.ip /\ g.ip \in Ips(D) /\ g # h
  BY <1>0 DEF Ips
<1>2. ASSUME NEW r \in DOMAIN w.tab.disc, w.tab.disc[r].ip = h.ip, LoadedDisc(w, r).ip # h.ip PROVE FALSE
  <2> DEFINE g == [ip |-> LoadedDisc(w, r).ip, mac |-> w.tab.disc[r].mac]
  <2>1. g \in D /\ g.mac = w.tab.disc[r].mac /\ g.ip # h.ip
    BY <1>2, RecordFacts
  <2> HIDE DEF g
  <2>2. CASE w.tab.disc[r].mac # h.mac
    BY <1>0, <1>2, <2>1, <2>2, OtherRecord
  <2>3. CASE w.tab.disc[r].mac = h.mac
    BY <1>0, <1>2, <2>1, <2>3, OnlyRecord
  <2>4. QED
    BY <2>2, <2>3
<1>3. StaysAt(w, h)
  BY <1>2 DEF StaysAt
<1>4. ASSUME NEW r \in DOMAIN w.tab.disc, LoadedDisc(w, r).ip \in Ips(D), LoadedDisc(w, r).mac = h.mac
      PROVE  LiveElsewhere(LoadedDisc(w, r), h.ip)
  <2> DEFINE row == LoadedDisc(w, r)
  <2>1. PICK g \in D : g.ip = row.ip
    BY <1>4 DEF Ips
  <2>2. w.tab.disc[r].mac = h.mac
    BY <1>4, RecordFacts
  <2>3. g.mac = h.mac /\ row.online
    <3>1. CASE row.ip # w.tab.disc[r].ip
      <4> DEFINE k == [ip |-> row.ip, mac |-> w.tab.disc[r].mac]
      <4>1. k \in D /\ row.online /\ k.ip = row.ip /\ k.mac = w.tab.disc[r].mac
        BY <3>1, RecordFacts
      <4> HIDE DEF k, row
      <4>2. k = g
        BY <1>0, <2>1, <4>1
      <4>3. QED
        BY <2>2, <4>1, <4>2
    <3>2. CASE row.ip = w.tab.disc[r].ip
      <4>1. g \in Heard(w.batch) /\ w.tab.disc[r].ip = g.ip
        BY <1>0, <2>1, <3>2
      <4>2. g.mac = w.tab.disc[r].mac
        BY <1>0, <2>2, <4>1, OtherRecord
      <4>3. w.tab.disc[r].online
        BY <1>0, <1>1, <2>1, <2>2, <4>1, <4>2, OnlyRecord
      <4>4. QED
        BY <2>2, <4>2, <4>3, RecordFacts
    <3>3. QED
      BY <3>1, <3>2
  <2>4. row.ip # h.ip /\ Across(row.ip, h.ip)
    BY <1>0, <1>1, <2>1, <2>3
  <2>5. QED
    BY <2>3, <2>4 DEF LiveElsewhere
<1>5. LiveIfHeard(w, D, h)
  BY <1>4 DEF LiveIfHeard
<1>6. ASSUME NEW r \in DOMAIN w.tab.disc, LoadedDisc(w, r).ip = h.ip, LoadedDisc(w, r).mac # h.mac
      PROVE  /\ \A g \in D : g.mac # h.mac
             /\ \A q \in DOMAIN w.tab.disc : LoadedDisc(w, q).mac = h.mac => ~LiveElsewhere(LoadedDisc(w, q), h.ip)
  <2>1. w.tab.disc[r].ip = h.ip /\ w.tab.disc[r].mac # h.mac
    BY <1>0, <1>6, RecordFacts, ZenonT(60)
  <2>2. /\ \A g \in Heard(w.batch) : ~(g.mac = h.mac /\ Across(g.ip, h.ip))
        /\ \A q \in DOMAIN w.tab.disc : ~(w.tab.disc[q].mac = h.mac /\ LiveElsewhere(w.tab.disc[q], h.ip))
    BY <1>0, <2>1, CalmFacts DEF Shared
  <2>3. \A g \in D : g.mac # h.mac
    BY <1>0, <1>1, <2>2
  <2>4. ASSUME NEW q \in DOMAIN w.tab.disc, LoadedDisc(w, q).mac = h.mac, LiveElsewhere(LoadedDisc(w, q), h.ip)
        PROVE  FALSE
    <3>1. w.tab.disc[q].mac = h.mac
      BY <2>4, RecordFacts
    <3>2. LoadedDisc(w, q).ip = w.tab.disc[q].ip
      <4> DEFINE k == [ip |-> LoadedDisc(w, q).ip, mac |-> w.tab.disc[q].mac]
      <4>1. LoadedDisc(w, q).ip # w.tab.disc[q].ip => k \in D /\ k.mac = h.mac
        BY <3>1, RecordFacts
      <4>2. QED
        BY <2>3, <4>1
    <3>3. LoadedDisc(w, q).online # w.tab.disc[q].online
      BY <2>2, <2>4, <3>1, <3>2 DEF LiveElsewhere
    <3>4. PICK g \in D : g.ip = LoadedDisc(w, q).ip
      BY <3>3, RecordFacts, ZenonT(60) DEF Ips
    <3>5. g \in Heard(w.batch) /\ w.tab.disc[q].ip = g.ip /\ w.tab.disc[q].mac # g.mac
      BY <1>0, <2>3, <3>1, <3>2, <3>4
    <3>6. QED
      BY <1>0, <3>1, <3>5, OtherRecord
  <2>5. QED
    BY <2>3, <2>4
<1>7. NewHere(w, D, h)
  BY <1>6 DEF NewHere
<1>8. QED
  BY <1>3, <1>5, <1>7 DEF CalmDisc

\* A flush leaves all that.
LEMMA FlushedGood ==
  ASSUME NEW w, NEW D, NEW h, Base(w, D), FlushableDev(w), GoodDisc(w, D), NEW v, v = Flush(w)
  PROVE  /\ v.failed = None /\ Base(v, D) /\ Frame(w, v)
         /\ \A d \in Devices : v.tab.dev[d] = LoadedDev(w, d) /\ LoadedDev(v, d) = LoadedDev(w, d)
         /\ DOMAIN v.dev = DOMAIN w.dev
         /\ \A d \in DOMAIN v.dev : v.dev[d].was = v.tab.dev[d] /\ v.dev[d].is = v.tab.dev[d]
         /\ GoodDev(v, D) /\ GoodDisc(v, D)
         /\ Fresh(w, D, h) /\ CalmDisc(w, D, h) => CalmDisc(v, D, h)
<1>1. FlushableDisc(w)
  BY GoodDiscFlushable
<1>2. /\ v.failed = None /\ Base(v, D) /\ Frame(w, v) /\ v.new = <<>>
      /\ \A d \in Devices : v.tab.dev[d] = LoadedDev(w, d) /\ LoadedDev(v, d) = LoadedDev(w, d)
      /\ DOMAIN v.dev = DOMAIN w.dev
      /\ \A d \in DOMAIN v.dev : v.dev[d].was = v.tab.dev[d] /\ v.dev[d].is = v.tab.dev[d]
      /\ DOMAIN v.tab.disc = DOMAIN w.tab.disc \cup FlushIds(w)
      /\ \A r \in DOMAIN w.tab.disc : v.tab.disc[r] = LoadedDisc(w, r) /\ r \notin FlushIds(w)
      /\ \A r \in FlushIds(w) : r - w.tab.next + 1 \in DOMAIN w.new /\ v.tab.disc[r] = w.new[r - w.tab.next + 1]
      /\ \A i \in DOMAIN w.new : \E r \in FlushIds(w) : r - w.tab.next + 1 = i
      /\ \A r \in DOMAIN v.disc : r \in DOMAIN v.tab.disc /\ v.disc[r].was = v.tab.disc[r] /\ v.disc[r].is = v.tab.disc[r]
      /\ \A r \in DOMAIN v.tab.disc : LoadedDisc(v, r) = v.tab.disc[r]
  BY <1>1, FlushAlone
<1>3. GoodDev(v, D)
  <2>1. \A d \in DOMAIN v.dev : GoodCopy(v, D, d)
    BY <1>2 DEF GoodCopy
  <2>2. OneEach(v.tab.dev) /\ DOMAIN v.tab.dev = Devices
    BY <1>2, TabFacts DEF Base
  <2>3. \A d, e \in Devices : LoadedDev(v, d).ip = LoadedDev(v, e).ip => d = e
    BY <1>2, <2>2 DEF OneEach
  <2>4. QED
    BY <2>1, <2>3 DEF GoodDev
\* The records of the flushed session: those it had, and the new ones.
<1>4. ASSUME NEW r \in DOMAIN v.tab.disc
      PROVE  \/ r \in DOMAIN w.tab.disc /\ LoadedDisc(v, r) = LoadedDisc(w, r)
             \/ \E i \in DOMAIN w.new : LoadedDisc(v, r) = w.new[i]
  BY <1>2
<1>5. GoodDisc(v, D)
  <2>1. \A r \in DOMAIN v.disc : GoodRecord(v, D, r)
    BY <1>2 DEF GoodRecord
  <2>2. \A q, r \in DOMAIN v.tab.disc : LoadedDisc(v, q).ip = LoadedDisc(v, r).ip => q = r
    BY <1>2 DEF Base, OneEach
  <2>3. \A i \in DOMAIN v.new : GoodNew(v, D, i)
    BY <1>2
  <2>4. ASSUME NEW g \in D PROVE IsListed(v, g.ip)
    <3>1. IsListed(w, g.ip)
      BY DEF GoodDisc
    <3>2. CASE \E r \in DOMAIN w.tab.disc : LoadedDisc(w, r).ip = g.ip
      BY <1>2, <3>2 DEF IsListed
    <3>3. CASE \E i \in DOMAIN w.new : w.new[i].ip = g.ip
      <4>1. PICK i \in DOMAIN w.new : w.new[i].ip = g.ip
        BY <3>3
      <4>2. PICK r \in FlushIds(w) : r - w.tab.next + 1 = i
        BY <1>2
      <4>3. r \in DOMAIN v.tab.disc /\ LoadedDisc(v, r).ip = g.ip
        BY <1>2, <4>1, <4>2
      <4>4. QED
        BY <4>3 DEF IsListed
    <3>4. QED
      BY <3>1, <3>2, <3>3 DEF IsListed
  <2>5. QED
    BY <2>1, <2>2, <2>3, <2>4 DEF GoodDisc
<1>6. \A i \in DOMAIN w.new : [ip |-> w.new[i].ip, mac |-> w.new[i].mac] \in D /\ w.new[i].online
  BY DEF GoodDisc, GoodNew
<1>7. ASSUME Fresh(w, D, h), CalmDisc(w, D, h) PROVE CalmDisc(v, D, h)
  <2>1. StaysAt(v, h)
    BY <1>2 DEF StaysAt
  <2>2. ASSUME NEW i \in DOMAIN w.new
        PROVE  /\ w.new[i].ip # h.ip /\ w.new[i].online
               /\ w.new[i].mac = h.mac => LiveElsewhere(w.new[i], h.ip) /\ \E g \in D : g.mac = h.mac
    <3> DEFINE g == [ip |-> w.new[i].ip, mac |-> w.new[i].mac]
    <3>1. g \in D /\ g.ip = w.new[i].ip /\ g.mac = w.new[i].mac /\ w.new[i].online
      BY <1>6
    <3> HIDE DEF g
    <3>2. g \in Heard(w.batch) /\ g.ip # h.ip /\ h \in Heard(w.batch)
      BY <1>7, <3>1 DEF Fresh, Ips
    <3>3. g.mac = h.mac => Across(g.ip, h.ip)
      BY <1>7, <3>2 DEF Fresh
    <3>4. QED
      BY <3>1, <3>2, <3>3 DEF LiveElsewhere
  <2>3. LiveIfHeard(v, D, h)
    <3> SUFFICES ASSUME NEW r \in DOMAIN v.tab.disc, LoadedDisc(v, r).ip \in Ips(D), LoadedDisc(v, r).mac = h.mac
                 PROVE  LiveElsewhere(LoadedDisc(v, r), h.ip)
      BY DEF LiveIfHeard
    <3>1. CASE r \in DOMAIN w.tab.disc /\ LoadedDisc(v, r) = LoadedDisc(w, r)
      BY <1>7, <3>1 DEF CalmDisc, LiveIfHeard
    <3>2. CASE \E i \in DOMAIN w.new : LoadedDisc(v, r) = w.new[i]
      BY <2>2, <3>2
    <3>3. QED
      BY <1>4, <3>1, <3>2
  <2>4. NewHere(v, D, h)
    <3> SUFFICES ASSUME NEW r \in DOMAIN v.tab.disc, LoadedDisc(v, r).ip = h.ip, LoadedDisc(v, r).mac # h.mac
                 PROVE  /\ \A g \in D : g.mac # h.mac
                        /\ \A q \in DOMAIN v.tab.disc : LoadedDisc(v, q).mac = h.mac => ~LiveElsewhere(LoadedDisc(v, q), h.ip)
      BY DEF NewHere
    <3>1. r \in DOMAIN w.tab.disc /\ LoadedDisc(v, r) = LoadedDisc(w, r)
      BY <1>4, <2>2
    <3>2. /\ \A g \in D : g.mac # h.mac
          /\ \A q \in DOMAIN w.tab.disc : LoadedDisc(w, q).mac = h.mac => ~LiveElsewhere(LoadedDisc(w, q), h.ip)
      BY <1>7, <3>1 DEF CalmDisc, NewHere
    <3>3. ASSUME NEW q \in DOMAIN v.tab.disc, LoadedDisc(v, q).mac = h.mac PROVE ~LiveElsewhere(LoadedDisc(v, q), h.ip)
      BY <1>4, <2>2, <3>2, <3>3
    <3>4. QED
      BY <3>2, <3>3
  <2>5. QED
    BY <2>1, <2>3, <2>4 DEF CalmDisc
<1>8. QED
  BY <1>2, <1>3, <1>5, <1>7

\* An answer whose address is recorded is matched.
LEMMA UnmatchedNowhere ==
  ASSUME NEW w, NEW D, NEW h, Fresh(w, D, h), GoodDisc(w, D), CalmDisc(w, D, h), MatchedDisc(w, h) = {}
  PROVE  \A r \in DOMAIN w.tab.disc : LoadedDisc(w, r).ip # h.ip
<1> SUFFICES ASSUME NEW r \in DOMAIN w.tab.disc, LoadedDisc(w, r).ip = h.ip PROVE FALSE
  OBVIOUS
<1> DEFINE at == {q \in DOMAIN w.tab.disc : w.tab.disc[q].ip = h.ip}
           exact == {q \in at : w.tab.disc[q].mac = h.mac}
           others == {q \in DOMAIN w.tab.disc : w.tab.disc[q].mac = h.mac} \ at
           far == {q \in others : Cardinality(others) = 1 /\ ~LiveElsewhere(LoadedDisc(w, q), h.ip)}
<1>1. w.tab.disc[r].ip = h.ip
  <2>1. h.ip \notin Ips(D)
    BY DEF Fresh
  <2>2. QED
    BY <2>1, RecordFacts
<1>2. r \in at
  BY <1>1
<1>3. exact = {} /\ Cardinality(others) = 1 /\ far = {}
  <2>1. MatchedDisc(w, h) =
          CASE exact # {} -> exact
            [] at # {} /\ exact = {} /\ (Cardinality(others) # 1 \/ h.mac \in site.unraid) -> at
            [] OTHER -> far
    BY Zenon DEF MatchedDisc
  <2>2. at # {}
    BY <1>2
  <2> HIDE DEF at, exact, others, far
  <2>3. QED
    BY <2>1, <2>2
<1>4. others # {}
  <2> HIDE DEF others
  <2>1. others = {} => Cardinality(others) = 0
    BY FS_EmptySet
  <2>2. QED
    BY <1>3, <2>1
<1>5. PICK q \in others : TRUE
  BY <1>4
<1>6. q \in DOMAIN w.tab.disc /\ w.tab.disc[q].mac = h.mac /\ LiveElsewhere(LoadedDisc(w, q), h.ip)
  BY <1>3, <1>5
<1>7. LoadedDisc(w, q).mac = h.mac
  BY <1>6, RecordFacts
<1>8. LoadedDisc(w, r).mac # h.mac
  <2>1. LoadedDisc(w, r).mac = w.tab.disc[r].mac
    BY RecordFacts
  <2>2. w.tab.disc[r].mac # h.mac
    BY <1>2, <1>3
  <2>3. QED
    BY <2>1, <2>2
<1>9. QED
  BY <1>6, <1>7, <1>8 DEF CalmDisc, NewHere

\* What the records are once an answer is listed.
LEMMA ListedGood ==
  ASSUME NEW w, NEW D, NEW h, Base(w, D), Fresh(w, D, h), GoodDisc(w, D), CalmDisc(w, D, h), NEW v, Lists(w, h, v)
  PROVE  GoodDisc(v, D \cup {h})
<1> DEFINE B == D \cup {h}
           host == [ip |-> h.ip, mac |-> h.mac]
<1>0. /\ w \in View /\ h \in Host /\ h.ip \notin Ips(D) /\ D \subseteq B /\ h \in B
      /\ Ips(D) \subseteq Ips(B) /\ h.ip \in Ips(B)
  BY DEF Base, Fresh, Ips
<1>h. host = h
  BY <1>0 DEF Host
<1>1. /\ \A r \in DOMAIN w.disc : GoodRecord(w, D, r)
      /\ \A q, r \in DOMAIN w.tab.disc : LoadedDisc(w, q).ip = LoadedDisc(w, r).ip => q = r
      /\ \A i \in DOMAIN w.new : GoodNew(w, D, i)
      /\ \A g \in D : IsListed(w, g.ip)
  BY DEF GoodDisc
<1>2. /\ w.disc \in [DOMAIN w.disc -> DiscCopy] /\ w.tab.disc \in [DOMAIN w.tab.disc -> DiscRow]
      /\ w.new \in Seq(DiscRow) /\ DOMAIN w.new = 1 .. Len(w.new) /\ Len(w.new) \in Nat
  BY <1>0, TabFacts
<1> HIDE DEF B, host
<1>3. CASE MatchedDisc(w, h) = {}
  <2> DEFINE row == [mac |-> h.mac, ip |-> h.ip, online |-> TRUE]
  <2>1. v.tab = w.tab /\ v.disc = w.disc /\ v.new = Append(w.new, row)
    BY <1>0, <1>3, ListedNew
  <2>2. \A r \in DOMAIN w.tab.disc : LoadedDisc(v, r) = LoadedDisc(w, r)
    BY <2>1 DEF LoadedDisc
  <2>3. \A r \in DOMAIN w.tab.disc : LoadedDisc(w, r).ip # h.ip
    BY <1>3, UnmatchedNowhere
  <2>4. row.ip = h.ip /\ row.mac = h.mac /\ row.online /\ row \in DiscRow
    BY <1>0 DEF Host, DiscRow
  <2> HIDE DEF row
  <2>5. /\ DOMAIN v.new = DOMAIN w.new \cup {Len(w.new) + 1}
        /\ v.new[Len(w.new) + 1] = row
        /\ \A i \in DOMAIN w.new : v.new[i] = w.new[i]
    BY <1>2, <2>1, <2>4
  <2>6. \A r \in DOMAIN v.disc : GoodRecord(v, B, r)
    <3>1. \A r \in DOMAIN v.disc : GoodRecord(w, D, r)
      BY <1>1, <2>1
    <3>2. QED
      BY <1>0, <2>1, <3>1 DEF GoodRecord
  <2>7. \A q, r \in DOMAIN v.tab.disc : LoadedDisc(v, q).ip = LoadedDisc(v, r).ip => q = r
    BY <1>1, <2>1, <2>2
  <2>8. \A i \in DOMAIN v.new : GoodNew(v, B, i)
    <3>1. ASSUME NEW i \in DOMAIN w.new PROVE GoodNew(v, B, i)
      BY <1>0, <1>1, <2>1, <2>2, <2>5 DEF GoodNew
    <3>2. GoodNew(v, B, Len(w.new) + 1)
      BY <1>0, <1>h, <2>1, <2>2, <2>3, <2>4, <2>5 DEF GoodNew, host
    <3>3. QED
      BY <2>5, <3>1, <3>2
  <2>9. \A g \in B : IsListed(v, g.ip)
    <3>1. \A g \in D : IsListed(v, g.ip)
      <4>1. \A g \in D : IsListed(w, g.ip)
        BY <1>1
      <4>2. QED
        BY <2>1, <2>2, <2>5, <4>1 DEF IsListed
    <3>2. IsListed(v, h.ip)
      BY <2>4, <2>5 DEF IsListed
    <3>3. QED
      BY <3>1, <3>2 DEF B
  <2>10. GoodDisc(v, B)
    BY <2>6, <2>7, <2>8, <2>9 DEF GoodDisc
  <2>11. QED
    BY <2>10 DEF B
<1>4. CASE MatchedDisc(w, h) # {}
  <2>1. PICK r \in MatchedDisc(w, h) : r \in DOMAIN w.tab.disc /\ FoundAt(w, h, v, r)
    BY <1>0, <1>4, ListedFound
  <2>2. /\ v.new = w.new
        /\ LoadedDisc(w, r).ip = h.ip => v.tab = w.tab /\ DOMAIN v.disc = DOMAIN w.disc \cup {r}
        /\ LoadedDisc(w, r).ip # h.ip =>
             /\ DOMAIN v.tab.disc = DOMAIN w.tab.disc \ There(w, h, r)
             /\ DOMAIN v.disc = (DOMAIN w.disc \cup {r}) \ Gone(w, h, r)
        /\ \A q \in DOMAIN v.tab.disc : v.tab.disc[q] = w.tab.disc[q]
        /\ r \in DOMAIN v.tab.disc
        /\ r \in DOMAIN v.disc /\ v.disc[r].is = [LoadedDisc(w, r) EXCEPT !.ip = h.ip, !.online = TRUE]
        /\ v.disc[r].was = IF r \in DOMAIN w.disc THEN w.disc[r].was ELSE w.tab.disc[r]
        /\ \A q \in DOMAIN v.disc : q # r => q \in DOMAIN w.disc /\ v.disc[q] = w.disc[q]
    BY <2>1 DEF FoundAt
  <2>3. v.disc[r].is.ip = h.ip /\ v.disc[r].is.online /\ v.disc[r].is.mac = w.tab.disc[r].mac
    <3>1. LoadedDisc(w, r) \in DiscRow
      BY <1>0, <2>1, LoadedType
    <3>2. LoadedDisc(w, r).mac = w.tab.disc[r].mac
      BY <2>1, RecordFacts
    <3>3. QED
      BY <2>2, <3>1, <3>2 DEF DiscRow
  <2>4. v.disc[r].was = w.tab.disc[r]
    BY <1>1, <2>2 DEF GoodRecord
\* Who had the address is gone, and with it what was loaded of it.
  <2>5. \A q \in DOMAIN w.tab.disc : w.tab.disc[q].ip = h.ip <=> LoadedDisc(w, q).ip = h.ip
    <3>1. ASSUME NEW q \in DOMAIN w.tab.disc, LoadedDisc(w, q).ip = h.ip PROVE w.tab.disc[q].ip = h.ip
      BY <1>0, <3>1, RecordFacts
    <3>2. QED
      BY <3>1 DEF CalmDisc, StaysAt
  <2>6. /\ DOMAIN v.tab.disc \subseteq DOMAIN w.tab.disc
        /\ \A q \in DOMAIN v.tab.disc : q # r => LoadedDisc(w, q).ip # h.ip
        /\ \A q \in DOMAIN w.tab.disc : LoadedDisc(w, q).ip # h.ip => q \in DOMAIN v.tab.disc
    <3>1. CASE LoadedDisc(w, r).ip = h.ip
      BY <1>1, <2>1, <2>2, <3>1
    <3>2. CASE LoadedDisc(w, r).ip # h.ip
      BY <2>1, <2>2, <2>5, <3>2 DEF There
    <3>3. QED
      BY <3>1, <3>2
  <2>7. \A q \in DOMAIN v.disc : q \in DOMAIN v.tab.disc
    <3> SUFFICES ASSUME NEW q \in DOMAIN v.disc, q # r PROVE q \in DOMAIN v.tab.disc
      BY <2>2
    <3>1. q \in DOMAIN w.disc /\ GoodRecord(w, D, q) /\ LoadedDisc(w, q) = w.disc[q].is
      BY <1>1, <2>2 DEF LoadedDisc
    <3>2. q \in DOMAIN w.tab.disc
      BY <3>1 DEF GoodRecord
    <3>3. CASE LoadedDisc(w, r).ip = h.ip
      BY <2>2, <3>2, <3>3
    <3>4. CASE LoadedDisc(w, r).ip # h.ip
      BY <2>2, <2>6, <3>1, <3>2, <3>4 DEF Gone
    <3>5. QED
      BY <3>3, <3>4
  <2>8. \A q \in DOMAIN v.tab.disc : q # r => LoadedDisc(v, q) = LoadedDisc(w, q)
    <3> SUFFICES ASSUME NEW q \in DOMAIN v.tab.disc, q # r PROVE LoadedDisc(v, q) = LoadedDisc(w, q)
      OBVIOUS
    <3>1. CASE q \in DOMAIN v.disc
      BY <2>2, <3>1 DEF LoadedDisc
    <3>2. CASE q \notin DOMAIN v.disc
      <4>1. q \notin DOMAIN w.disc
        <5>1. CASE LoadedDisc(w, r).ip = h.ip
          BY <2>2, <3>2, <5>1
        <5>2. CASE LoadedDisc(w, r).ip # h.ip
          BY <2>2, <2>6, <3>2, <5>2 DEF Gone, LoadedDisc
        <5>3. QED
          BY <5>1, <5>2
      <4>2. QED
        BY <2>2, <3>2, <4>1 DEF LoadedDisc
    <3>3. QED
      BY <3>1, <3>2
  <2>9. LoadedDisc(v, r) = v.disc[r].is
    BY <2>2 DEF LoadedDisc
\* A record that answered stays: a live box is not matched elsewhere.
  <2>10. LoadedDisc(w, r).ip # h.ip => LoadedDisc(w, r).ip \notin Ips(D) /\ w.tab.disc[r].ip # h.ip /\ w.tab.disc[r].mac = h.mac
    <3> SUFFICES ASSUME LoadedDisc(w, r).ip # h.ip
                 PROVE  LoadedDisc(w, r).ip \notin Ips(D) /\ w.tab.disc[r].ip # h.ip /\ w.tab.disc[r].mac = h.mac
      OBVIOUS
    <3>1. w.tab.disc[r].ip # h.ip
      BY <2>1, <2>5
    <3>2. w.tab.disc[r].mac = h.mac /\ ~LiveElsewhere(LoadedDisc(w, r), h.ip)
      BY <2>1, <3>1, MatchedDiscHow
    <3>3. LoadedDisc(w, r).mac = h.mac
      BY <2>1, <3>2, RecordFacts
    <3>4. QED
      BY <2>1, <3>1, <3>2, <3>3 DEF CalmDisc, LiveIfHeard
  <2>11. GoodRecord(v, B, r)
    <3>1. w.tab.disc[r] = v.tab.disc[r]
      BY <2>2
    <3>2. CASE LoadedDisc(w, r).ip = h.ip
      <4>1. w.tab.disc[r].ip = h.ip
        BY <2>1, <2>5, <3>2
      <4>2. QED
        BY <1>0, <2>2, <2>3, <2>4, <3>1, <4>1 DEF GoodRecord
    <3>3. CASE LoadedDisc(w, r).ip # h.ip
      <4>1. [ip |-> v.disc[r].is.ip, mac |-> v.tab.disc[r].mac] \in B
        BY <1>0, <1>h, <2>3, <2>10, <3>1, <3>3 DEF host
      <4>2. \A q \in DOMAIN v.tab.disc : v.tab.disc[q].ip # v.disc[r].is.ip
        BY <2>2, <2>3, <2>5, <2>6, <2>10, <3>3
      <4>3. QED
        BY <1>0, <2>2, <2>3, <2>4, <3>1, <4>1, <4>2 DEF GoodRecord
    <3>4. QED
      BY <3>2, <3>3
  <2>12. ASSUME NEW q \in DOMAIN v.disc, q # r PROVE GoodRecord(v, B, q)
    <3>1. GoodRecord(w, D, q) /\ v.disc[q] = w.disc[q] /\ q \in DOMAIN v.tab.disc /\ v.tab.disc[q] = w.tab.disc[q]
      BY <1>1, <2>2, <2>7, <2>12
    <3>2. \A k \in DOMAIN v.tab.disc : k \in DOMAIN w.tab.disc /\ v.tab.disc[k] = w.tab.disc[k]
      BY <2>2, <2>6
    <3>3. QED
      BY <1>0, <3>1, <3>2 DEF GoodRecord
  <2>13. \A k, q \in DOMAIN v.tab.disc : LoadedDisc(v, k).ip = LoadedDisc(v, q).ip => k = q
    BY <1>1, <2>3, <2>6, <2>8, <2>9
  <2>14. ASSUME NEW i \in DOMAIN v.new PROVE GoodNew(v, B, i)
    <3>1. i \in DOMAIN w.new /\ v.new[i] = w.new[i] /\ GoodNew(w, D, i)
      BY <1>1, <2>2, <2>14
    <3>2. w.new[i].ip \in Ips(D)
      BY <3>1 DEF Base
    <3>3. QED
      BY <1>0, <2>3, <2>6, <2>8, <2>9, <3>1, <3>2 DEF GoodNew
  <2>15. \A g \in B : IsListed(v, g.ip)
    <3>1. ASSUME NEW g \in D PROVE IsListed(v, g.ip)
      <4>1. IsListed(w, g.ip) /\ g.ip \in Ips(D)
        BY <1>1 DEF Ips
      <4>2. CASE \E i \in DOMAIN w.new : w.new[i].ip = g.ip
        BY <2>2, <4>2 DEF IsListed
      <4>3. CASE \E q \in DOMAIN w.tab.disc : LoadedDisc(w, q).ip = g.ip
        <5>1. PICK q \in DOMAIN w.tab.disc : LoadedDisc(w, q).ip = g.ip
          BY <4>3
        <5>2. q # r /\ LoadedDisc(w, q).ip # h.ip
          BY <1>0, <2>10, <4>1, <5>1
        <5>3. q \in DOMAIN v.tab.disc /\ LoadedDisc(v, q).ip = g.ip
          BY <2>6, <2>8, <5>1, <5>2
        <5>4. QED
          BY <5>3 DEF IsListed
      <4>4. QED
        BY <4>1, <4>2, <4>3 DEF IsListed
    <3>2. IsListed(v, h.ip)
      BY <2>2, <2>3, <2>9, ZenonT(60) DEF IsListed
    <3>3. QED
      BY <3>1, <3>2 DEF B
  <2>16. GoodDisc(v, B)
    BY <2>11, <2>12, <2>13, <2>14, <2>15 DEF GoodDisc
  <2>17. QED
    BY <2>16 DEF B
<1>5. QED
  BY <1>3, <1>4

\* Only the records, and what is to be inserted, matter to this.
LEMMA GoodDiscKeeps ==
  ASSUME NEW w, NEW D, NEW v, v.tab = w.tab, v.disc = w.disc, v.new = w.new
  PROVE  /\ GoodDisc(w, D) => GoodDisc(v, D)
         /\ \A h : CalmDisc(w, D, h) => CalmDisc(v, D, h)
<1>1. \A r : LoadedDisc(v, r) = LoadedDisc(w, r)
  BY DEF LoadedDisc
<1>2. ASSUME GoodDisc(w, D) PROVE GoodDisc(v, D)
  <2>1. \A r \in DOMAIN v.disc : GoodRecord(v, D, r)
    <3>1. \A r \in DOMAIN v.disc : GoodRecord(w, D, r)
      BY <1>2 DEF GoodDisc
    <3>2. QED
      BY <3>1 DEF GoodRecord
  <2>2. \A i \in DOMAIN v.new : GoodNew(v, D, i)
    <3>1. \A i \in DOMAIN v.new : GoodNew(w, D, i)
      BY <1>2 DEF GoodDisc
    <3>2. QED
      BY <1>1, <3>1 DEF GoodNew
  <2>3. \A g \in D : IsListed(v, g.ip)
    <3>1. \A g \in D : IsListed(w, g.ip)
      BY <1>2 DEF GoodDisc
    <3>2. QED
      BY <1>1, <3>1 DEF IsListed
  <2>4. \A q, r \in DOMAIN v.tab.disc : LoadedDisc(v, q).ip = LoadedDisc(v, r).ip => q = r
    BY <1>1, <1>2 DEF GoodDisc
  <2>5. QED
    BY <2>1, <2>2, <2>3, <2>4 DEF GoodDisc
<1>3. ASSUME NEW h, CalmDisc(w, D, h) PROVE CalmDisc(v, D, h)
  <2>1. StaysAt(v, h)
    BY <1>1, <1>3 DEF CalmDisc, StaysAt
  <2>2. LiveIfHeard(v, D, h)
    BY <1>1, <1>3 DEF CalmDisc, LiveIfHeard
  <2>3. NewHere(v, D, h)
    BY <1>1, <1>3 DEF CalmDisc, NewHere
  <2>4. QED
    BY <2>1, <2>2, <2>3 DEF CalmDisc
<1>4. QED
  BY <1>2, <1>3

\* The interface of a gateway is stored, and with it all that was pending.
LEMMA AttachedGood ==
  ASSUME NEW w, NEW D, NEW h, NEW d \in Devices, Base(w, D), Fresh(w, D, h), GoodDev(w, D), GoodDisc(w, D),
         CalmDisc(w, D, h), NEW v, v = Attached(w, h, d)
  PROVE  /\ v.failed = None /\ Base(v, D) /\ Frame(w, v)
         /\ GoodDev(v, D) /\ GoodDisc(v, D) /\ CalmDisc(v, D, h)
         /\ \A e \in Devices :
              /\ v.tab.dev[e] = LoadedDev(v, e)
              /\ LoadedDev(v, e).ip = LoadedDev(w, e).ip
              /\ LoadedDev(v, e).placeholder = LoadedDev(w, e).placeholder
              /\ LoadedDev(v, e).online = LoadedDev(w, e).online
              /\ LoadedDev(w, e).ifs \subseteq LoadedDev(v, e).ifs
         /\ h.ip \in LoadedDev(v, d).ifs
<1> DEFINE q == Attaching(w, h, d)
<1>0. w \in View /\ h \in Host /\ Below(w) /\ w.failed = None /\ q = Attaching(w, h, d)
  BY DEF Base, Fresh
<1> HIDE DEF q
<1>1. /\ q \in View /\ Frame(w, q) /\ (Below(w) => Below(q))
      /\ q.tab = w.tab /\ q.disc = w.disc /\ q.new = w.new /\ q.failed = w.failed
      /\ DOMAIN q.dev = DOMAIN w.dev \cup {d}
      /\ q.dev[d].is = LoadedDev(q, d)
      /\ q.dev[d].was = IF d \in DOMAIN w.dev THEN w.dev[d].was ELSE w.tab.dev[d]
      /\ \A e \in DOMAIN w.dev : e # d => q.dev[e] = w.dev[e]
      /\ \A e \in Devices : e # d => LoadedDev(q, e) = LoadedDev(w, e)
      /\ LoadedDev(q, d) = IfsRow(w, h, d)
      /\ Attached(w, h, d) = Flush(q)
      /\ IfsRow(w, h, d).ip = LoadedDev(w, d).ip
      /\ IfsRow(w, h, d).placeholder = LoadedDev(w, d).placeholder
      /\ IfsRow(w, h, d).online = LoadedDev(w, d).online
      /\ IfsRow(w, h, d).ifs = LoadedDev(w, d).ifs \cup {h.ip}
  BY <1>0, AttachingFacts
<1>2. Base(q, D)
  BY <1>0, <1>1 DEF Base
<1>3. Fresh(q, D, h)
  BY <1>1 DEF Fresh, Frame
<1>4. GoodDisc(q, D) /\ CalmDisc(q, D, h)
  BY <1>1, GoodDiscKeeps
<1>5. FlushableDev(q)
  <2>1. FlushableDev(w)
    BY GoodDevFlushable
  <2>2. w.tab.dev[d].ifs \subseteq LoadedDev(w, d).ifs
    BY <2>1 DEF FlushableDev, LoadedDev
  <2>3. \A e \in DOMAIN q.dev : q.dev[e].was = q.tab.dev[e] /\ q.tab.dev[e].ifs \subseteq q.dev[e].is.ifs
    BY <1>1, <2>1, <2>2 DEF FlushableDev
  <2>4. \A e \in Devices : LoadedDev(q, e).ip = LoadedDev(w, e).ip
    BY <1>1
  <2>5. QED
    BY <1>1, <2>1, <2>3, <2>4 DEF FlushableDev
<1>6. v = Flush(q)
  BY <1>1
<1>7. /\ v.failed = None /\ Base(v, D) /\ Frame(q, v)
      /\ \A e \in Devices : v.tab.dev[e] = LoadedDev(q, e) /\ LoadedDev(v, e) = LoadedDev(q, e)
      /\ GoodDev(v, D) /\ GoodDisc(v, D) /\ CalmDisc(v, D, h)
  BY <1>2, <1>3, <1>4, <1>5, <1>6, FlushedGood
<1>8. Frame(w, v)
  BY <1>1, <1>7 DEF Frame
<1>9. ASSUME NEW e \in Devices
      PROVE  /\ v.tab.dev[e] = LoadedDev(v, e)
             /\ LoadedDev(v, e).ip = LoadedDev(w, e).ip
             /\ LoadedDev(v, e).placeholder = LoadedDev(w, e).placeholder
             /\ LoadedDev(v, e).online = LoadedDev(w, e).online
             /\ LoadedDev(w, e).ifs \subseteq LoadedDev(v, e).ifs
  BY <1>1, <1>7
<1>10. h.ip \in LoadedDev(v, d).ifs
  BY <1>1, <1>7
<1>11. QED
  BY <1>7, <1>8, <1>9, <1>10

\* The device d of the answer h: it is known by its address or its MAC, is not pending to
\* leave that address, and whoever else has the address does not answer, nor does anyone
\* from the address that one had before.
CalmDev(w, h, d) ==
  /\ w.tab.dev[d].ip = h.ip \/ Mac[d] = h.mac
  /\ LoadedDev(w, d).ip # h.ip => w.tab.dev[d].ip # h.ip
  /\ \A c \in HolderOf(w, h.ip) \ {d} :
       \A g \in Heard(w.batch) : g.mac # Mac[c] /\ g.ip # w.tab.dev[c].old

\* A device is moved out of the way of the answer h.
Parks(w, v, h, e) ==
  /\ LoadedDev(v, e).placeholder /\ v.tab.dev[e] = LoadedDev(v, e) /\ w.tab.dev[e].ip = h.ip
  /\ \A g \in Heard(w.batch) : g.mac # Mac[e] /\ g.ip # LoadedDev(v, e).ip

\* What the answer h of device d does to the devices.
Placed(w, v, h, d) ==
  /\ LoadedDev(v, d).ip = h.ip /\ ~LoadedDev(v, d).placeholder /\ LoadedDev(v, d).online
  /\ \A e \in Devices \ {d} :
       \/ LoadedDev(v, e) = LoadedDev(w, e) /\ v.tab.dev[e] \in {w.tab.dev[e], LoadedDev(v, e)}
       \/ Parks(w, v, h, e)
  /\ \A e \in Devices : v.tab.dev[e].ifs = w.tab.dev[e].ifs /\ LoadedDev(v, e).ifs = LoadedDev(w, e).ifs

\* A device that is not to move is where it was.
LEMMA DeviceFacts ==
  ASSUME NEW w, NEW D, GoodDev(w, D), NEW d \in Devices
  PROVE  /\ LoadedDev(w, d).ifs = w.tab.dev[d].ifs
         /\ LoadedDev(w, d).ip = w.tab.dev[d].ip => LoadedDev(w, d).old = w.tab.dev[d].old
         /\ LoadedDev(w, d).ip # w.tab.dev[d].ip =>
              /\ [ip |-> LoadedDev(w, d).ip, mac |-> Mac[d]] \in D
              /\ LoadedDev(w, d).ip \in Ips(D)
              /\ \A e \in Devices : w.tab.dev[e].ip # LoadedDev(w, d).ip
         /\ d \in DOMAIN w.dev => w.dev[d].was = w.tab.dev[d]
<1>1. CASE d \notin DOMAIN w.dev
  BY <1>1 DEF LoadedDev
<1>2. CASE d \in DOMAIN w.dev
  <2>1. GoodCopy(w, D, d) /\ LoadedDev(w, d) = w.dev[d].is
    BY <1>2 DEF GoodDev, LoadedDev
  <2>2. ASSUME [ip |-> w.dev[d].is.ip, mac |-> Mac[d]] \in D PROVE w.dev[d].is.ip \in Ips(D)
    BY <2>2 DEF Ips
  <2>3. QED
    BY <2>1, <2>2 DEF GoodCopy
<1>3. QED
  BY <1>1, <1>2

\* The device is there: it is back.
LEMMA UpdatedGoodBack ==
  ASSUME NEW w, NEW B, NEW D, NEW h, NEW d \in Devices, Base(w, B), Fresh(w, D, h), B = D \cup {h},
         GoodDev(w, D), LoadedDev(w, d).ip = h.ip, NEW v, v = Updated(w, h, d)
  PROVE  /\ v.failed = None /\ GoodDev(v, B) /\ Placed(w, v, h, d)
         /\ v.tab = w.tab /\ v.disc = w.disc /\ v.new = w.new
<1>0. w \in View /\ D \subseteq B /\ w.failed = None
  BY DEF Base
<1>1. BackRow(w, d) \in DevRow /\ BackRow(w, d).ip = LoadedDev(w, d).ip /\ BackRow(w, d).old = LoadedDev(w, d).old
      /\ BackRow(w, d).ifs = LoadedDev(w, d).ifs /\ BackRow(w, d).online /\ ~BackRow(w, d).placeholder
  BY <1>0, BackFacts
<1>2. v = SetDev(w, d, BackRow(w, d))
  BY UpdatedBack
<1>3. /\ v.tab = w.tab /\ v.disc = w.disc /\ v.new = w.new /\ v.failed = w.failed
      /\ DOMAIN v.dev = DOMAIN w.dev \cup {d}
      /\ v.dev[d].is = BackRow(w, d)
      /\ v.dev[d].was = IF d \in DOMAIN w.dev THEN w.dev[d].was ELSE w.tab.dev[d]
      /\ \A e \in DOMAIN w.dev : e # d => v.dev[e] = w.dev[e]
      /\ \A e \in Devices : LoadedDev(v, e) = IF e = d THEN BackRow(w, d) ELSE LoadedDev(w, e)
  BY <1>0, <1>1, <1>2, SetDevFacts
<1>4. GoodCopy(v, B, d)
  BY <1>0, <1>1, <1>3, DeviceFacts DEF GoodCopy
<1>5. ASSUME NEW e \in DOMAIN w.dev, e # d PROVE GoodCopy(v, B, e)
  <2>1. GoodCopy(w, D, e)
    BY DEF GoodDev
  <2>2. QED
    BY <1>0, <1>3, <1>5, <2>1 DEF GoodCopy
<1>6. \A x, y \in Devices : LoadedDev(v, x).ip = LoadedDev(v, y).ip => x = y
  BY <1>1, <1>3 DEF GoodDev
<1>7. GoodDev(v, B)
  BY <1>3, <1>4, <1>5, <1>6 DEF GoodDev
<1>8. Placed(w, v, h, d)
  BY <1>1, <1>3 DEF Placed
<1>9. QED
  BY <1>0, <1>3, <1>7, <1>8

\* Nobody holds the address.
LEMMA UpdatedGoodFree ==
  ASSUME NEW w, NEW B, NEW D, NEW h, NEW d \in Devices, Base(w, B), Fresh(w, D, h), B = D \cup {h},
         GoodDev(w, D), LoadedDev(w, d).ip # h.ip, HolderOf(w, h.ip) \ {d} = {}, CalmDev(w, h, d),
         NEW v, v = Updated(w, h, d)
  PROVE  /\ v.failed = None /\ GoodDev(v, B) /\ Placed(w, v, h, d)
         /\ v.tab = w.tab /\ v.disc = w.disc /\ v.new = w.new
<1>0. w \in View /\ D \subseteq B /\ w.failed = None /\ h \in Host /\ h.ip \notin Ips(D) /\ h \in B
  BY DEF Base, Fresh
<1>1. MovedDev(w, h, d, v)
  BY <1>0, UpdatedFree
<1>2. /\ v.tab = w.tab /\ v.disc = w.disc /\ v.new = w.new /\ v.failed = w.failed
      /\ DOMAIN v.dev = DOMAIN w.dev \cup {d}
      /\ v.dev[d].was = IF d \in DOMAIN w.dev THEN w.dev[d].was ELSE w.tab.dev[d]
      /\ \A e \in DOMAIN w.dev : e # d => v.dev[e] = w.dev[e]
      /\ \A e \in Devices : e # d => LoadedDev(v, e) = LoadedDev(w, e)
      /\ v.dev[d].is = LoadedDev(v, d)
      /\ LoadedDev(v, d).ip = h.ip
      /\ ~LoadedDev(v, d).placeholder /\ LoadedDev(v, d).online /\ LoadedDev(v, d).ifs = LoadedDev(w, d).ifs
  BY <1>1 DEF MovedDev
<1>3. w.tab.dev[d].ip # h.ip /\ Mac[d] = h.mac /\ \A e \in Devices : w.tab.dev[e].ip # h.ip
  BY DEF CalmDev, HolderOf
<1>3a. ASSUME NEW e \in Devices
      PROVE  /\ LoadedDev(w, e).ifs = w.tab.dev[e].ifs
             /\ LoadedDev(w, e).ip # w.tab.dev[e].ip => LoadedDev(w, e).ip \in Ips(D)
             /\ e \in DOMAIN w.dev => w.dev[e].was = w.tab.dev[e]
  BY DeviceFacts, ZenonT(60)
<1>4. GoodCopy(v, B, d)
  <2>1. [ip |-> h.ip, mac |-> Mac[d]] = h
    BY <1>0, <1>3 DEF Host
  <2>2. v.dev[d].was = v.tab.dev[d]
    BY <1>2, <1>3a
  <2>3. v.dev[d].is.ifs = v.tab.dev[d].ifs
    BY <1>2, <1>3a
  <2>4. QED
    BY <1>0, <1>2, <1>3, <2>1, <2>2, <2>3 DEF GoodCopy
<1>5. ASSUME NEW e \in DOMAIN w.dev, e # d PROVE GoodCopy(v, B, e)
  <2>1. GoodCopy(w, D, e)
    BY DEF GoodDev
  <2>2. QED
    BY <1>0, <1>2, <1>5, <2>1 DEF GoodCopy
<1>6. \A e \in Devices : LoadedDev(w, e).ip # h.ip
  BY <1>0, <1>3, <1>3a
<1>7. \A x, y \in Devices : LoadedDev(v, x).ip = LoadedDev(v, y).ip => x = y
  BY <1>2, <1>6 DEF GoodDev
<1>8. GoodDev(v, B)
  BY <1>2, <1>4, <1>5, <1>7 DEF GoodDev
<1>9. Placed(w, v, h, d)
  BY <1>2 DEF Placed
<1>10. QED
  BY <1>0, <1>2, <1>8, <1>9

\* A displaced device has not been asked to move, and its new address is nobody's.
LEMMA ClearingGood ==
  ASSUME NEW w, NEW B, NEW D, NEW h, NEW d \in Devices, NEW c \in HolderOf(w, h.ip) \ {d}, NEW q,
         Base(w, B), Fresh(w, D, h), GoodDev(w, D), LoadedDev(w, d).ip # h.ip, CalmDev(w, h, d), Clearing(w, d, c, q)
  PROVE  /\ FlushableDev(q) /\ Base(q, B)
         /\ LoadedDev(q, c).ip # h.ip
         /\ \A g \in Heard(w.batch) : g.mac # Mac[c] /\ g.ip # LoadedDev(q, c).ip
<1>0. /\ w \in View /\ D \subseteq Heard(w.batch) /\ h \in Heard(w.batch) /\ h.ip \notin Ips(D)
      /\ OneEach(w.tab.dev) /\ DOMAIN w.tab.dev = Devices /\ DOMAIN w.dev \subseteq Devices
      /\ w.batch \in Seq(Host)
  BY TabFacts DEF Base, Fresh
<1>1. /\ c \in Devices /\ c # d /\ w.tab.dev[c].ip = h.ip /\ w.tab.dev[d].ip # h.ip
      /\ \A g \in Heard(w.batch) : g.mac # Mac[c] /\ g.ip # w.tab.dev[c].old
  BY DEF CalmDev, HolderOf
<1>2. ASSUME NEW e \in Devices
      PROVE  /\ LoadedDev(w, e).ifs = w.tab.dev[e].ifs
             /\ LoadedDev(w, e).ip = w.tab.dev[e].ip => LoadedDev(w, e).old = w.tab.dev[e].old
             /\ LoadedDev(w, e).ip # w.tab.dev[e].ip =>
                  /\ [ip |-> LoadedDev(w, e).ip, mac |-> Mac[e]] \in D
                  /\ LoadedDev(w, e).ip \in Ips(D)
                  /\ \A x \in Devices : w.tab.dev[x].ip # LoadedDev(w, e).ip
             /\ e \in DOMAIN w.dev => w.dev[e].was = w.tab.dev[e]
  BY DeviceFacts
<1>3. /\ q \in View /\ Frame(w, q) /\ (Below(w) => Below(q))
      /\ q.tab = w.tab /\ q.new = w.new /\ q.failed = w.failed
      /\ DOMAIN q.dev = DOMAIN w.dev \cup {d, c}
      /\ \A e \in {d, c} : q.dev[e].was = IF e \in DOMAIN w.dev THEN w.dev[e].was ELSE w.tab.dev[e]
      /\ \A e \in DOMAIN w.dev : e \notin {d, c} => q.dev[e] = w.dev[e]
      /\ \A e \in {d, c} : q.dev[e].is = LoadedDev(q, e)
      /\ LoadedDev(q, d) = BackRow(w, d) /\ Aside(w, c, LoadedDev(q, c))
      /\ \A e \in Devices : e \notin {d, c} => LoadedDev(q, e) = LoadedDev(w, e)
  BY DEF Clearing
<1>4. BackRow(w, d).ip = LoadedDev(w, d).ip /\ BackRow(w, d).ifs = LoadedDev(w, d).ifs
  BY <1>0, BackFacts
<1> DEFINE p == LoadedDev(q, c).ip
<1>5. /\ HolderOf(w, p) \subseteq {c} /\ (p \in Placeholders \/ p = LoadedDev(w, c).old)
      /\ LoadedDev(q, c).ifs = LoadedDev(w, c).ifs
  BY <1>3 DEF Aside
<1>6. LoadedDev(w, c).ip = w.tab.dev[c].ip /\ LoadedDev(w, c).old = w.tab.dev[c].old
  <2> DEFINE k == [ip |-> LoadedDev(w, c).ip, mac |-> Mac[c]]
  <2>1. LoadedDev(w, c).ip # w.tab.dev[c].ip => k \in Heard(w.batch) /\ k.mac = Mac[c]
    BY <1>0, <1>1, <1>2
  <2>2. LoadedDev(w, c).ip = w.tab.dev[c].ip
    BY <1>1, <2>1
  <2>3. QED
    BY <1>1, <1>2, <2>2
<1>7. \A g \in Heard(w.batch) : g.ip \in Addresses
  <2>1. \A i \in DOMAIN w.batch : w.batch[i] \in Host
    BY <1>0
  <2>2. QED
    BY <2>1 DEF Heard, Host
<1>8. \A g \in Heard(w.batch) : g.ip # p
  BY <1>1, <1>5, <1>6, <1>7, AddressesAssumption
<1>9. p # h.ip
  BY <1>0, <1>8
<1>10. \A e \in Devices \ {c} : LoadedDev(w, e).ip # p /\ w.tab.dev[e].ip # p
  <2> SUFFICES ASSUME NEW e \in Devices \ {c} PROVE LoadedDev(w, e).ip # p /\ w.tab.dev[e].ip # p
    OBVIOUS
  <2>1. w.tab.dev[e].ip # p
    BY <1>5 DEF HolderOf
  <2>2. \A a \in Ips(D) : a # p
    BY <1>0, <1>8 DEF Ips
  <2>3. QED
    BY <1>2, <2>1, <2>2
<1>11. \A e \in Devices \ {c} : LoadedDev(q, e).ip = LoadedDev(w, e).ip
  BY <1>1, <1>3, <1>4
<1>12. \A e \in Devices : LoadedDev(q, e).ifs = w.tab.dev[e].ifs
  BY <1>1, <1>2, <1>3, <1>4, <1>5, ZenonT(60)
<1>13. \A e \in DOMAIN q.dev : e \in Devices /\ q.dev[e].was = q.tab.dev[e] /\ q.dev[e].is = LoadedDev(q, e)
  <2>1. \A e \in DOMAIN q.dev : e \in Devices
    BY <1>0, <1>1, <1>3
  <2>2. \A e \in DOMAIN q.dev : q.dev[e].is = LoadedDev(q, e)
    BY DEF LoadedDev
  <2>3. ASSUME NEW e \in DOMAIN q.dev PROVE q.dev[e].was = q.tab.dev[e]
    <3>1. CASE e \in {d, c}
      BY <1>2, <1>3, <2>1, <3>1, ZenonT(60)
    <3>2. CASE e \notin {d, c}
      BY <1>2, <1>3, <2>1, <3>2
    <3>3. QED
      BY <3>1, <3>2
  <2>4. QED
    BY <2>1, <2>2, <2>3
<1> HIDE DEF p
<1>14. FlushableDev(q)
  <2>1. \A e \in DOMAIN q.dev : q.dev[e].was = q.tab.dev[e] /\ q.tab.dev[e].ifs \subseteq q.dev[e].is.ifs
    BY <1>3, <1>12, <1>13
  <2>2. ASSUME NEW x \in Devices, NEW y \in Devices, x # y
        PROVE  LoadedDev(q, x).ip # LoadedDev(q, y).ip
    <3>1. CASE x # c /\ y # c
      <4>1. LoadedDev(w, x).ip # LoadedDev(w, y).ip
        BY <2>2 DEF GoodDev
      <4>2. QED
        BY <1>11, <3>1, <4>1
    <3>2. CASE x = c
      BY <1>10, <1>11, <2>2, <3>2 DEF p
    <3>3. CASE y = c
      BY <1>10, <1>11, <2>2, <3>3 DEF p
    <3>4. QED
      BY <3>1, <3>2, <3>3
  <2>3. ASSUME NEW x \in Devices, NEW y \in Devices, x # y, LoadedDev(q, x).ip # q.tab.dev[x].ip
        PROVE  LoadedDev(q, x).ip # q.tab.dev[y].ip
    <3>1. CASE x = c
      <4>1. q.tab = w.tab
        BY <1>3
      <4>2. w.tab.dev[y].ip # LoadedDev(q, c).ip
        BY <1>10, <2>3, <3>1 DEF p
      <4>3. QED
        BY <3>1, <4>1, <4>2
    <3>2. CASE x # c
      <4>1. LoadedDev(q, x).ip = LoadedDev(w, x).ip /\ q.tab = w.tab
        BY <1>3, <1>11, <3>2
      <4>2. \A e \in Devices : w.tab.dev[e].ip # LoadedDev(w, x).ip
        BY <1>2, <2>3, <4>1
      <4>3. QED
        BY <4>1, <4>2
    <3>3. QED
      BY <3>1, <3>2
  <2>4. QED
    BY <2>1, <2>2, <2>3 DEF FlushableDev
<1>15. Base(q, B)
  BY <1>3 DEF Base
<1>16. QED
  BY <1>1, <1>8, <1>9, <1>14, <1>15 DEF p

\* Somebody does, and gives way.
LEMMA UpdatedGoodTaken ==
  ASSUME NEW w, NEW B, NEW D, NEW h, NEW d \in Devices, Base(w, B), Fresh(w, D, h), B = D \cup {h},
         GoodDev(w, D), GoodDisc(w, B), LoadedDev(w, d).ip # h.ip, HolderOf(w, h.ip) \ {d} # {}, CalmDev(w, h, d),
         NEW v, v = Updated(w, h, d)
  PROVE  v.failed = None /\ GoodDev(v, B) /\ Placed(w, v, h, d) /\ GoodDisc(v, B)
<1>0. w \in View /\ w.failed = None /\ Below(w) /\ h \in Host /\ h.ip \notin Ips(D) /\ h \in B
  BY DEF Base, Fresh
<1>1. PICK c \in HolderOf(w, h.ip) \ {d}, q \in View :
         /\ Clearing(w, d, c, q)
         /\ IF Flush(q).failed # None THEN Updated(w, h, d) = Flush(q)
            ELSE MovedDev(Flush(q), h, d, Updated(w, h, d))
  BY <1>0, UpdatedTaken
<1>2. /\ FlushableDev(q) /\ Base(q, B)
      /\ LoadedDev(q, c).ip # h.ip
      /\ \A g \in Heard(w.batch) : g.mac # Mac[c] /\ g.ip # LoadedDev(q, c).ip
  BY <1>1, ClearingGood
<1>3. /\ q.tab = w.tab /\ q.disc = w.disc /\ q.new = w.new
      /\ DOMAIN q.dev = DOMAIN w.dev \cup {d, c}
      /\ LoadedDev(q, d) = BackRow(w, d) /\ Aside(w, c, LoadedDev(q, c))
      /\ \A e \in Devices : e \notin {d, c} => LoadedDev(q, e) = LoadedDev(w, e)
  BY <1>1 DEF Clearing
<1>4. GoodDisc(q, B)
  BY <1>3, GoodDiscKeeps
<1> DEFINE f == Flush(q)
<1>5. f = Flush(q)
  OBVIOUS
<1> HIDE DEF f
<1>6. /\ f.failed = None
      /\ \A e \in Devices : f.tab.dev[e] = LoadedDev(q, e) /\ LoadedDev(f, e) = LoadedDev(q, e)
      /\ DOMAIN f.dev = DOMAIN q.dev
      /\ \A e \in DOMAIN f.dev : f.dev[e].was = f.tab.dev[e] /\ f.dev[e].is = f.tab.dev[e]
      /\ GoodDev(f, B) /\ GoodDisc(f, B)
  BY <1>2, <1>4, <1>5, FlushedGood
<1>7. MovedDev(f, h, d, v)
  BY <1>1, <1>5, <1>6
<1>8. /\ v.tab = f.tab /\ v.disc = f.disc /\ v.new = f.new /\ v.failed = f.failed
      /\ DOMAIN v.dev = DOMAIN f.dev \cup {d}
      /\ v.dev[d].was = IF d \in DOMAIN f.dev THEN f.dev[d].was ELSE f.tab.dev[d]
      /\ \A e \in DOMAIN f.dev : e # d => v.dev[e] = f.dev[e]
      /\ \A e \in Devices : e # d => LoadedDev(v, e) = LoadedDev(f, e)
      /\ v.dev[d].is = LoadedDev(v, d)
      /\ LoadedDev(v, d).ip = h.ip
      /\ ~LoadedDev(v, d).placeholder /\ LoadedDev(v, d).online /\ LoadedDev(v, d).ifs = LoadedDev(f, d).ifs
  BY <1>7 DEF MovedDev
<1>9. /\ c \in Devices /\ c # d /\ w.tab.dev[c].ip = h.ip /\ w.tab.dev[d].ip # h.ip /\ Mac[d] = h.mac
  BY DEF CalmDev, HolderOf
<1>10. BackRow(w, d).ip = LoadedDev(w, d).ip /\ BackRow(w, d).ifs = LoadedDev(w, d).ifs
  BY <1>0, BackFacts
<1>11. LoadedDev(q, c).placeholder /\ LoadedDev(q, c).ifs = LoadedDev(w, c).ifs
  BY <1>3 DEF Aside
<1>12. ASSUME NEW e \in Devices
       PROVE  /\ LoadedDev(w, e).ifs = w.tab.dev[e].ifs
              /\ LoadedDev(w, e).ip # w.tab.dev[e].ip => LoadedDev(w, e).ip \in Ips(D)
  BY DeviceFacts
\* After the flush nobody is at the address.
<1>13. ASSUME NEW e \in Devices PROVE f.tab.dev[e].ip # h.ip /\ LoadedDev(f, e).ip # h.ip
  <2>1. LoadedDev(q, e).ip # h.ip
    <3>1. CASE e = c
      BY <1>2, <3>1
    <3>2. CASE e = d
      BY <1>3, <1>10, <3>2
    <3>3. CASE e \notin {c, d}
      <4>1. w.tab.dev[e].ip # h.ip
        BY <1>0, <1>9, <3>3, TabFacts DEF Base, OneEach
      <4>2. LoadedDev(w, e).ip # h.ip
        BY <1>0, <1>12, <4>1
      <4>3. QED
        BY <1>3, <3>3, <4>2
    <3>4. QED
      BY <3>1, <3>2, <3>3
  <2>2. QED
    BY <1>6, <2>1
<1>14. GoodDev(v, B)
  <2>1. GoodCopy(v, B, d)
    <3>1. [ip |-> h.ip, mac |-> Mac[d]] = h
      BY <1>0, <1>9 DEF Host
    <3>2. v.dev[d].was = v.tab.dev[d]
      BY <1>6, <1>8
    <3>3. v.dev[d].is.ifs = v.tab.dev[d].ifs
      BY <1>6, <1>8
    <3>4. QED
      BY <1>0, <1>8, <1>13, <3>1, <3>2, <3>3 DEF GoodCopy
  <2>2. ASSUME NEW e \in DOMAIN f.dev, e # d PROVE GoodCopy(v, B, e)
    <3>1. GoodCopy(f, B, e)
      BY <1>6 DEF GoodDev
    <3>2. QED
      BY <1>8, <2>2, <3>1 DEF GoodCopy
  <2>3. \A x, y \in Devices : LoadedDev(v, x).ip = LoadedDev(v, y).ip => x = y
    BY <1>6, <1>8, <1>13 DEF GoodDev
  <2>4. QED
    BY <1>8, <2>1, <2>2, <2>3 DEF GoodDev
<1>15. GoodDisc(v, B)
  BY <1>6, <1>8, GoodDiscKeeps
<1>16. Placed(w, v, h, d)
  <2>1. \A e \in Devices : LoadedDev(q, e).ifs = LoadedDev(w, e).ifs
    BY <1>3, <1>10, <1>11
  <2>2. \A e \in Devices : v.tab.dev[e].ifs = w.tab.dev[e].ifs /\ LoadedDev(v, e).ifs = LoadedDev(w, e).ifs
    BY <1>6, <1>8, <1>12, <2>1
  <2>3. Parks(w, v, h, c)
    BY <1>2, <1>6, <1>8, <1>9, <1>11 DEF Parks
  <2>4. ASSUME NEW e \in Devices \ {d}, e # c
        PROVE  LoadedDev(v, e) = LoadedDev(w, e) /\ v.tab.dev[e] \in {w.tab.dev[e], LoadedDev(v, e)}
    BY <1>3, <1>6, <1>8, <2>4
  <2>5. QED
    BY <1>8, <2>2, <2>3, <2>4 DEF Placed
<1>17. QED
  BY <1>6, <1>8, <1>14, <1>15, <1>16

\* The device of an answer moves there, or is back there.
LEMMA UpdatedGood ==
  ASSUME NEW w, NEW B, NEW D, NEW h, NEW d \in Devices, Base(w, B), Fresh(w, D, h), B = D \cup {h},
         GoodDev(w, D), GoodDisc(w, B), CalmDev(w, h, d), NEW v, v = Updated(w, h, d)
  PROVE  v.failed = None /\ GoodDev(v, B) /\ Placed(w, v, h, d) /\ GoodDisc(v, B)
<1>1. CASE LoadedDev(w, d).ip = h.ip
  BY <1>1, UpdatedGoodBack, GoodDiscKeeps
<1>2. CASE LoadedDev(w, d).ip # h.ip /\ HolderOf(w, h.ip) \ {d} = {}
  BY <1>2, UpdatedGoodFree, GoodDiscKeeps
<1>3. CASE LoadedDev(w, d).ip # h.ip /\ HolderOf(w, h.ip) \ {d} # {}
  BY <1>3, UpdatedGoodTaken
<1>4. QED
  BY <1>1, <1>2, <1>3

\* In a batch that is not odd every answer that moves a device finds the devices so.
LEMMA CalmDevFacts ==
  ASSUME NEW w, NEW D, NEW h, NEW T, Base(w, D), ToldDev(w, D, T), GoodDev(w, D), Odd(w) = {}, Fresh(w, D, h),
         NEW d \in Matched(w, h), ~Kept(w, h, d)
  PROVE  CalmDev(w, h, d)
<1>1. /\ w \in View /\ OneEach(w.tab.dev) /\ d \in Devices /\ (w.tab.dev[d].ip = h.ip \/ Mac[d] = h.mac)
      /\ \A c \in HolderOf(w, h.ip) \ {d} :
              c \in Devices /\ Mac[d] = h.mac /\ w.tab.dev[d].ip # h.ip /\ Mac[c] # h.mac /\ w.tab.dev[c].ip = h.ip
  BY MatchedHow DEF Base
<1>2. ASSUME LoadedDev(w, d).ip # h.ip PROVE w.tab.dev[d].ip # h.ip
  <2>1. Movable(w, D, h, d)
    BY <1>2, MovableFacts
  <2>2. d \in DOMAIN w.dev => w.dev[d].was = w.tab.dev[d]
    BY DEF GoodDev, GoodCopy
  <2>3. QED
    BY <2>1, <2>2 DEF Movable
<1>3. ASSUME NEW c \in HolderOf(w, h.ip) \ {d}, NEW g \in Heard(w.batch)
      PROVE  g.mac # Mac[c] /\ g.ip # w.tab.dev[c].old
  <2>1. c \in Devices /\ Mac[c] # h.mac /\ w.tab.dev[c].ip = h.ip /\ h \in Heard(w.batch)
    BY <1>1 DEF Fresh
  <2>2. g.mac # Mac[c]
    BY <2>1, OtherDevice
  <2>3. OtherAt(w.batch, Mac[c], w.tab.dev[c].ip)
    BY <2>1 DEF OtherAt
  <2>4. ~Parked(w)
    BY CalmFacts
  <2>5. QED
    BY <2>1, <2>2, <2>3, <2>4 DEF Parked
<1>4. QED
  BY <1>1, <1>2, <1>3 DEF CalmDev

\* The interface of a gateway is stored.
Stores(w, v, h, d) ==
  /\ \A e \in Devices :
       /\ v.tab.dev[e] = LoadedDev(v, e)
       /\ LoadedDev(v, e).ip = LoadedDev(w, e).ip
       /\ LoadedDev(v, e).placeholder = LoadedDev(w, e).placeholder
       /\ LoadedDev(v, e).online = LoadedDev(w, e).online
       /\ LoadedDev(w, e).ifs \subseteq LoadedDev(v, e).ifs
  /\ h.ip \in LoadedDev(v, d).ifs

\* What an answer does to the devices: it leaves them alone, stores an interface, or moves
\* one, and perhaps another out of its way.
DevStep(w, v, h) ==
  \/ /\ v.dev = w.dev /\ v.tab.dev = w.tab.dev
     /\ Known(w, h) \/ Matched(w, h) = {} \/ \E d \in Matched(w, h) : Kept(w, h, d) /\ ~IsGateway(h.ip)
  \/ \E d \in Matched(w, h) : Kept(w, h, d) /\ Stores(w, v, h, d)
  \/ \E d \in Matched(w, h) : ~Kept(w, h, d) /\ CalmDev(w, h, d) /\ Placed(w, v, h, d)

\* The next answer of a batch that is alone and not odd never fails it.
LEMMA SyncedGood ==
  ASSUME NEW w, NEW D, NEW h, NEW T, Base(w, D), ToldDev(w, D, T), GoodDev(w, D), GoodDisc(w, D),
         Odd(w) = {}, Fresh(w, D, h), NEW v, v = Synced(w, h)
  PROVE  v.failed = None /\ GoodDev(v, D \cup {h}) /\ GoodDisc(v, D \cup {h}) /\ DevStep(w, v, h)
<1> DEFINE B == D \cup {h}
<1>0. /\ Branch(w, h, v) /\ w \in View /\ OneEach(w.tab.dev) /\ h \in Host /\ h.ip \notin Ips(D)
      /\ D \subseteq B /\ B = D \cup {h}
  BY SyncedBranch DEF Base, Fresh
<1>1. CalmDisc(w, D, h)
  BY CalmDiscFacts
<1> HIDE DEF B
\* Listing leaves the devices alone.
<1>2. ASSUME NEW x, NEW u, Base(x, D), GoodDev(x, D), GoodDisc(x, D), CalmDisc(x, D, h), Fresh(x, D, h), Lists(x, h, u)
      PROVE  /\ Base(u, B) /\ Frame(x, u) /\ u.dev = x.dev /\ u.tab.dev = x.tab.dev
             /\ \A e : LoadedDev(u, e) = LoadedDev(x, e)
             /\ GoodDev(u, D) /\ GoodDev(u, B) /\ GoodDisc(u, B) /\ u.failed = None
  <2>1. Base(u, B) /\ Frame(x, u) /\ u.dev = x.dev /\ u.tab.dev = x.tab.dev
    <3>1. h \in Host /\ h.ip \notin Ips(D) /\ Base(x, D) /\ Lists(x, h, u)
      BY <1>0, <1>2
    <3>2. Base(u, D \cup {h}) /\ Frame(x, u) /\ Writes(x, u)
             /\ u.dev = x.dev /\ u.tab.dev = x.tab.dev /\ u.tab.next = x.tab.next
      BY ONLY <3>1, ListedBase
    <3>3. QED
      BY <1>0, <3>2
  <2>2. \A e : LoadedDev(u, e) = LoadedDev(x, e)
    BY <2>1 DEF LoadedDev
  <2>3. \A e \in DOMAIN u.dev : GoodCopy(u, D, e) /\ GoodCopy(u, B, e)
    <3>1. \A e \in DOMAIN u.dev : GoodCopy(x, D, e)
      BY <1>2, <2>1 DEF GoodDev
    <3>2. QED
      BY <1>0, <2>1, <3>1 DEF GoodCopy
  <2>4. GoodDev(u, D) /\ GoodDev(u, B)
    BY <1>2, <2>2, <2>3 DEF GoodDev
  <2>5. GoodDisc(u, B)
    BY <1>0, <1>2, ListedGood
  <2>6. QED
    BY <2>1, <2>2, <2>4, <2>5 DEF Base
<1>3. ASSUME Lists(w, h, v) PROVE v.failed = None /\ GoodDev(v, B) /\ GoodDisc(v, B) /\ v.dev = w.dev /\ v.tab.dev = w.tab.dev
  BY <1>1, <1>2, <1>3
<1>4. ASSUME NEW d \in Matched(w, h), NEW u, u = Attached(w, h, d), IF u.failed = None THEN Lists(u, h, v) ELSE v = u
      PROVE  v.failed = None /\ GoodDev(v, B) /\ GoodDisc(v, B) /\ Stores(w, v, h, d)
  <2>1. d \in Devices
    BY <1>0, <1>4, MatchedHow
  <2>2. /\ u.failed = None /\ Base(u, D) /\ Frame(w, u)
        /\ GoodDev(u, D) /\ GoodDisc(u, D) /\ CalmDisc(u, D, h)
        /\ Stores(w, u, h, d)
    <3>1. /\ u.failed = None /\ Base(u, D) /\ Frame(w, u)
          /\ GoodDev(u, D) /\ GoodDisc(u, D) /\ CalmDisc(u, D, h)
          /\ \A e \in Devices :
              /\ u.tab.dev[e] = LoadedDev(u, e)
              /\ LoadedDev(u, e).ip = LoadedDev(w, e).ip
              /\ LoadedDev(u, e).placeholder = LoadedDev(w, e).placeholder
              /\ LoadedDev(u, e).online = LoadedDev(w, e).online
              /\ LoadedDev(w, e).ifs \subseteq LoadedDev(u, e).ifs
          /\ h.ip \in LoadedDev(u, d).ifs
      BY <1>1, <1>4, <2>1, AttachedGood
    <3>2. QED
      BY <3>1 DEF Stores
  <2>3. Fresh(u, D, h) /\ Lists(u, h, v)
    BY <1>4, <2>2 DEF Fresh, Frame
  <2>4. /\ v.dev = u.dev /\ v.tab.dev = u.tab.dev /\ \A e : LoadedDev(v, e) = LoadedDev(u, e)
        /\ GoodDev(v, B) /\ GoodDisc(v, B) /\ v.failed = None
    BY <1>2, <2>2, <2>3
  <2>5. Stores(w, v, h, d)
    BY <2>2, <2>4 DEF Stores
  <2>6. QED
    BY <2>4, <2>5
<1>5. ASSUME NEW d \in Matched(w, h), ~Kept(w, h, d), NEW u, Lists(w, h, u), v = Updated(u, h, d)
      PROVE  v.failed = None /\ GoodDev(v, B) /\ GoodDisc(v, B) /\ CalmDev(w, h, d) /\ Placed(w, v, h, d)
  <2>1. d \in Devices
    BY <1>0, <1>5, MatchedHow
  <2>2. CalmDev(w, h, d)
    BY <1>5, CalmDevFacts
  <2>3. /\ Base(u, B) /\ Frame(w, u) /\ u.dev = w.dev /\ u.tab.dev = w.tab.dev
        /\ \A e : LoadedDev(u, e) = LoadedDev(w, e)
        /\ GoodDev(u, D) /\ GoodDisc(u, B)
    BY <1>1, <1>2, <1>5
  <2>4. CalmDev(u, h, d) /\ Fresh(u, D, h)
    BY <2>2, <2>3 DEF CalmDev, Frame, HolderOf, Fresh
  <2>5. v.failed = None /\ GoodDev(v, B) /\ Placed(u, v, h, d) /\ GoodDisc(v, B)
    BY <1>0, <1>5, <2>1, <2>3, <2>4, UpdatedGood
  <2>6. Placed(w, v, h, d)
    BY <2>3, <2>5 DEF Placed, Parks, Frame
  <2>7. QED
    BY <2>2, <2>5, <2>6
<1>6. v.failed = None /\ GoodDev(v, B) /\ GoodDisc(v, B) /\ DevStep(w, v, h)
  BY <1>0, <1>3, <1>4, <1>5 DEF Branch, DevStep
<1>7. QED
  BY <1>6 DEF B

-----------------------------------------------------------------------------
(* What a batch that is alone does to the devices.                           *)

\* The device d, whose MAC answered with g, is where FollowsMac wants it.
FollowsAt(w, g, d) ==
  \/ LoadedDev(w, d).ifs # {} \/ IsGateway(LoadedDev(w, d).ip)
  \/ LoadedDev(w, d).ip = g.ip /\ ~LoadedDev(w, d).placeholder
  \/ \E e \in Devices : g.ip \in w.tab.dev[e].ifs
  \/ ~LoadedDev(w, d).placeholder /\ LoadedDev(w, d).online /\ Across(LoadedDev(w, d).ip, g.ip)
Follows(w, D) ==
  \A g \in D, d \in Devices : Mac[d] = g.mac /\ g.mac \notin site.unraid => FollowsAt(w, g, d)

\* T: the devices before the batch.  Who was online is there and in its subnet, or was moved
\* out of the way.
Stays(w, T) ==
  \A d \in Devices : T[d].online /\ ~T[d].placeholder =>
    LoadedDev(w, d).placeholder \/ (LoadedDev(w, d).online /\ ~Across(T[d].ip, LoadedDev(w, d).ip))
\* Who was moved out of the way does not answer in this batch.
AsideQuiet(w, T) ==
  \A d \in Devices : LoadedDev(w, d).placeholder /\ ~T[d].placeholder =>
    /\ w.tab.dev[d].ip = LoadedDev(w, d).ip
    /\ \A g \in Heard(w.batch) : g.mac # Mac[d] /\ g.ip # LoadedDev(w, d).ip

\* The device whose MAC answers is matched, unless the MAC is that of an Unraid server.
LEMMA MatchedOwner ==
  ASSUME NEW w \in View, OneEach(w.tab.dev), NEW h, NEW d \in Devices, Mac[d] = h.mac, h.mac \notin site.unraid
  PROVE  Matched(w, h) = {d}
<1> DEFINE holder == HolderOf(w, h.ip)
           owner == OwnerOf(h.mac)
           moves == \A e \in owner : h.mac \notin site.unraid \/ LoadedDev(w, e).ip = h.ip
<1>1. owner = {d}
  BY DevicesAssumption DEF OwnerOf, Injective
<1>2. \A x, y \in holder : x = y
  BY TabFacts DEF HolderOf, OneEach
<1>3. moves
  OBVIOUS
<1>4. Matched(w, h) =
        CASE holder \cap owner # {} -> holder
          [] holder # {} /\ holder \cap owner = {} /\ (owner = {} \/ h.mac \in site.unraid) -> holder
          [] OTHER -> IF moves THEN owner ELSE {}
  BY Zenon DEF Matched
<1> HIDE DEF holder, owner, moves
<1>5. CASE holder \cap owner # {}
  <2>1. Matched(w, h) = holder
    BY <1>4, <1>5
  <2>2. d \in holder
    BY <1>1, <1>5
  <2>3. QED
    BY <1>2, <2>1, <2>2
<1>6. CASE holder \cap owner = {}
  <2>1. Matched(w, h) = owner
    BY <1>1, <1>3, <1>4, <1>6
  <2>2. QED
    BY <1>1, <2>1
<1>7. QED
  BY <1>5, <1>6

\* The devices that answered are where they should be after the next answer as well.
LEMMA SyncedFollows ==
  ASSUME NEW w, NEW D, NEW h, NEW v, Base(w, D), Fresh(w, D, h), GoodDev(w, D), Follows(w, D), DevStep(w, v, h)
  PROVE  Follows(v, D \cup {h})
<1>0. /\ w \in View /\ OneEach(w.tab.dev) /\ h \in Heard(w.batch) /\ D \subseteq Heard(w.batch)
      /\ \A g \in D : g.ip # h.ip
  BY DEF Base, Fresh, Ips
<1>1. ASSUME NEW e \in Devices PROVE LoadedDev(w, e).ifs = w.tab.dev[e].ifs
  BY DeviceFacts
<1> SUFFICES ASSUME NEW g \in D \cup {h}, NEW d \in Devices, Mac[d] = g.mac, g.mac \notin site.unraid
             PROVE  FollowsAt(v, g, d)
  BY DEF Follows
<1>2. g = h => Matched(w, h) = {d}
  BY <1>0, MatchedOwner
<1>3. g \in D => FollowsAt(w, g, d)
  BY DEF Follows
<1>4. CASE v.dev = w.dev /\ v.tab.dev = w.tab.dev
           /\ (Known(w, h) \/ Matched(w, h) = {} \/ \E x \in Matched(w, h) : Kept(w, h, x) /\ ~IsGateway(h.ip))
  <2>1. LoadedDev(v, d) = LoadedDev(w, d)
    BY <1>4 DEF LoadedDev
  <2>2. CASE g \in D
    BY <1>3, <1>4, <2>1, <2>2 DEF FollowsAt
  <2>3. CASE g = h
    <3>1. CASE Known(w, h)
      BY <1>4, <2>3, <3>1 DEF Known, FollowsAt
    <3>2. CASE Kept(w, h, d) /\ ~IsGateway(h.ip)
      BY <2>1, <2>3, <3>2 DEF Kept, FollowsAt
    <3>3. QED
      BY <1>2, <1>4, <2>3, <3>1, <3>2
  <2>4. QED
    BY <2>2, <2>3
<1>5. ASSUME NEW x \in Matched(w, h), Stores(w, v, h, x) PROVE FollowsAt(v, g, d)
  <2>1. /\ \A e \in Devices : w.tab.dev[e].ifs \subseteq v.tab.dev[e].ifs /\ v.tab.dev[e] = LoadedDev(v, e)
        /\ LoadedDev(v, d).ip = LoadedDev(w, d).ip
        /\ LoadedDev(v, d).placeholder = LoadedDev(w, d).placeholder
        /\ LoadedDev(v, d).online = LoadedDev(w, d).online
        /\ LoadedDev(w, d).ifs \subseteq LoadedDev(v, d).ifs
        /\ h.ip \in LoadedDev(v, x).ifs
    BY <1>1, <1>5 DEF Stores
  <2>2. CASE g \in D
    <3>1. FollowsAt(w, g, d)
      BY <1>3, <2>2
    <3>2. LoadedDev(w, d).ifs # {} => LoadedDev(v, d).ifs # {}
      BY <2>1
    <3>3. (\E e \in Devices : g.ip \in w.tab.dev[e].ifs) => (\E e \in Devices : g.ip \in v.tab.dev[e].ifs)
      BY <2>1
    <3>4. QED
      BY <2>1, <3>1, <3>2, <3>3 DEF FollowsAt
  <2>3. CASE g = h
    <3>1. x = d
      BY <1>2, <1>5, <2>3
    <3>2. QED
      BY <2>1, <3>1 DEF FollowsAt
  <2>4. QED
    BY <2>2, <2>3
<1>6. ASSUME NEW x \in Matched(w, h), CalmDev(w, h, x), Placed(w, v, h, x) PROVE FollowsAt(v, g, d)
  <2>0. x \in Devices
    BY <1>0, <1>6, MatchedHow
  <2>1. /\ LoadedDev(v, x).ip = h.ip /\ ~LoadedDev(v, x).placeholder /\ LoadedDev(v, x).online
        /\ \A e \in Devices \ {x} : LoadedDev(v, e) = LoadedDev(w, e) \/ Parks(w, v, h, e)
        /\ \A e \in Devices : v.tab.dev[e].ifs = w.tab.dev[e].ifs /\ LoadedDev(v, e).ifs = LoadedDev(w, e).ifs
    BY <1>6 DEF Placed
  <2>2. CASE g = h
    <3>1. x = d
      BY <1>2, <1>6, <2>2
    <3>2. QED
      BY <2>1, <2>2, <3>1 DEF FollowsAt
  <2>3. CASE g \in D /\ d # x
    <3>1. g \in Heard(w.batch) /\ g.mac = Mac[d]
      BY <1>0, <2>3
    <3>2. ~Parks(w, v, h, d)
      BY <3>1 DEF Parks
    <3>3. LoadedDev(v, d) = LoadedDev(w, d)
      BY <2>1, <2>3, <3>2
    <3>4. QED
      BY <1>3, <2>1, <2>3, <3>3 DEF FollowsAt
  <2>4. CASE g \in D /\ d = x
    <3>1. CASE LoadedDev(w, d).ip = h.ip
      <4>1. FollowsAt(w, g, d)
        BY <1>3, <2>4
      <4>2. QED
        BY <1>0, <2>1, <2>4, <3>1, <4>1 DEF FollowsAt
    <3>2. CASE LoadedDev(w, d).ip # h.ip
      <4>1. Mac[d] = h.mac
        BY <1>6, <2>4, <3>2 DEF CalmDev
      <4>2. Across(g.ip, h.ip)
        BY <1>0, <2>4, <4>1 DEF Fresh
      <4>3. Across(h.ip, g.ip)
        BY <4>2 DEF Across
      <4>4. QED
        BY <2>1, <2>4, <4>3 DEF FollowsAt
    <3>3. QED
      BY <3>1, <3>2
  <2>5. QED
    BY <2>2, <2>3, <2>4
<1>7. QED
  BY <1>4, <1>5, <1>6 DEF DevStep

\* No device leaves its subnet by the next answer, unless it gave way.
LEMMA SyncedStays ==
  ASSUME NEW w, NEW D, NEW h, NEW v, NEW T, Base(w, D), Fresh(w, D, h), Frame(w, v),
         Stays(w, T), AsideQuiet(w, T), DevStep(w, v, h), T \in [Devices -> DevRow]
  PROVE  Stays(v, T) /\ AsideQuiet(v, T)
<1>0. w \in View /\ OneEach(w.tab.dev) /\ h \in Heard(w.batch) /\ v.batch = w.batch
  BY DEF Base, Fresh, Frame
<1>1. CASE v.dev = w.dev /\ v.tab.dev = w.tab.dev
  <2>1. \A e : LoadedDev(v, e) = LoadedDev(w, e)
    BY <1>1 DEF LoadedDev
  <2>2. QED
    BY <1>0, <1>1, <2>1 DEF Stays, AsideQuiet
<1>2. ASSUME NEW x, Stores(w, v, h, x) PROVE Stays(v, T) /\ AsideQuiet(v, T)
  BY <1>0, <1>2 DEF Stores, Stays, AsideQuiet
<1>3. ASSUME NEW x \in Matched(w, h), ~Kept(w, h, x), CalmDev(w, h, x), Placed(w, v, h, x)
      PROVE  Stays(v, T) /\ AsideQuiet(v, T)
  <2>1. /\ LoadedDev(v, x).ip = h.ip /\ ~LoadedDev(v, x).placeholder /\ LoadedDev(v, x).online
        /\ \A e \in Devices \ {x} :
             \/ LoadedDev(v, e) = LoadedDev(w, e) /\ v.tab.dev[e] \in {w.tab.dev[e], LoadedDev(v, e)}
             \/ Parks(w, v, h, e)
    BY <1>3 DEF Placed
  <2>2. x \in Devices /\ (w.tab.dev[x].ip = h.ip \/ Mac[x] = h.mac)
    BY <1>0, <1>3, MatchedHow
  <2>3. T[x].online /\ ~T[x].placeholder => ~Across(T[x].ip, h.ip)
    <3> SUFFICES ASSUME T[x].online, ~T[x].placeholder PROVE ~Across(T[x].ip, h.ip)
      OBVIOUS
    <3>1. ~LoadedDev(w, x).placeholder
      BY <1>0, <2>2 DEF AsideQuiet
    <3>2. LoadedDev(w, x).online /\ ~Across(T[x].ip, LoadedDev(w, x).ip)
      BY <2>2, <3>1 DEF Stays
    <3>3. CASE LoadedDev(w, x).ip = h.ip
      BY <3>2, <3>3
    <3>4. CASE LoadedDev(w, x).ip # h.ip
      <4>1. x \notin HolderOf(w, h.ip)
        BY <1>3, <3>4 DEF CalmDev, HolderOf
      <4>2. ~Across(LoadedDev(w, x).ip, h.ip)
        BY <1>3, <3>1, <3>2, <3>4, <4>1 DEF Kept
      <4>3. QED
        BY <3>2, <4>2 DEF Across
    <3>5. QED
      BY <3>3, <3>4
  <2>4. ASSUME NEW e \in Devices, e # x, T[e].online, ~T[e].placeholder
        PROVE  LoadedDev(v, e).placeholder \/ (LoadedDev(v, e).online /\ ~Across(T[e].ip, LoadedDev(v, e).ip))
    BY <2>1, <2>4 DEF Stays, Parks
  <2>5. Stays(v, T)
    BY <2>1, <2>3, <2>4 DEF Stays
  <2>6. ASSUME NEW e \in Devices, LoadedDev(v, e).placeholder, ~T[e].placeholder
        PROVE  /\ v.tab.dev[e].ip = LoadedDev(v, e).ip
               /\ \A g \in Heard(v.batch) : g.mac # Mac[e] /\ g.ip # LoadedDev(v, e).ip
    <3>1. e # x
      BY <2>1, <2>6
    <3>2. CASE Parks(w, v, h, e)
      BY <1>0, <3>2 DEF Parks
    <3>3. CASE LoadedDev(v, e) = LoadedDev(w, e) /\ v.tab.dev[e] \in {w.tab.dev[e], LoadedDev(v, e)}
      BY <1>0, <2>6, <3>3 DEF AsideQuiet
    <3>4. QED
      BY <2>1, <3>1, <3>2, <3>3
  <2>7. AsideQuiet(v, T)
    BY <2>6 DEF AsideQuiet
  <2>8. QED
    BY <2>5, <2>7
<1>4. QED
  BY <1>1, <1>2, <1>3 DEF DevStep

-----------------------------------------------------------------------------
(* The states.                                                               *)

\* A session as it is kept, with the tables it sees.
Seen(x, t) == [x EXCEPT !.tab = t]

TabOK(t) ==
  /\ t \in Tables /\ OneEach(t.dev) /\ OneEach(t.disc)
  /\ \A r \in DOMAIN t.disc : r < t.next

BatchOK(b) == \A f, g \in Heard(b) : f.ip = g.ip => f = g
OnceEach(b) == \A i, j \in DOMAIN b : b[i].ip = b[j].ip => i = j
\* The answers to come are the last of the batch.
Suffix(b, hosts) ==
  /\ Len(hosts) <= Len(b)
  /\ \A i \in 1 .. Len(hosts) : hosts[i] = b[Len(b) - Len(hosts) + i]

\* The view of a session differs from it by the tables alone.
LEMMA SeenFacts ==
  ASSUME NEW x \in Session, NEW t \in Tables, NEW v, v = Seen(x, t)
  PROVE  /\ v \in View /\ v.tab = t /\ v.dev = x.dev /\ v.disc = x.disc /\ v.new = x.new /\ v.news = x.news
         /\ v.wrote = x.wrote /\ v.failed = x.failed /\ v.batch = x.batch /\ v.hosts = x.hosts
         /\ v.alone = x.alone /\ v.odd = x.odd /\ v.busy = x.busy
BY DEF Session, View, SessionWith, Seen

\* What is said of a session below does not depend on the answers to come, nor on who else
\* is at work.
Alike(w, v) ==
  /\ v \in View /\ v.tab = w.tab /\ v.dev = w.dev /\ v.disc = w.disc /\ v.new = w.new /\ v.news = w.news
  /\ v.wrote = w.wrote /\ v.failed = w.failed /\ v.batch = w.batch

\* So it holds of both of two such views.
LEMMA AlikeKeeps ==
  ASSUME NEW w, NEW v, NEW D, NEW T, Alike(w, v)
  PROVE  /\ Base(w, D) => Base(v, D)
         /\ Told0(w, D, T) => Told0(v, D, T)
         /\ GoodDev(w, D) => GoodDev(v, D)
         /\ GoodDisc(w, D) => GoodDisc(v, D)
         /\ Follows(w, D) => Follows(v, D)
         /\ Stays(w, T) => Stays(v, T)
         /\ AsideQuiet(w, T) => AsideQuiet(v, T)
<1>0. /\ v \in View /\ v.tab = w.tab /\ v.dev = w.dev /\ v.disc = w.disc /\ v.new = w.new /\ v.news = w.news
      /\ v.wrote = w.wrote /\ v.failed = w.failed /\ v.batch = w.batch
  BY DEF Alike
<1>1. \A d : LoadedDev(v, d) = LoadedDev(w, d)
  BY <1>0 DEF LoadedDev
<1>2. Base(w, D) => Base(v, D)
  BY <1>0 DEF Base, Below
<1>3. Told0(w, D, T) => Told0(v, D, T)
  <2>1. ToldDev(w, D, T) => ToldDev(v, D, T)
    BY <1>0, ToldDevKeeps
  <2>2. ToldDisc(w, D) => ToldDisc(v, D)
    BY <1>0, ToldDiscKeeps
  <2>3. QED
    BY <2>1, <2>2 DEF Told0
<1>4. GoodDev(w, D) => GoodDev(v, D)
  BY <1>0, <1>1 DEF GoodDev, GoodCopy
<1>5. GoodDisc(w, D) => GoodDisc(v, D)
  BY <1>0, GoodDiscKeeps
<1>6. Follows(w, D) => Follows(v, D)
  BY <1>0, <1>1 DEF Follows, FollowsAt
<1>7. (Stays(w, T) => Stays(v, T)) /\ (AsideQuiet(w, T) => AsideQuiet(v, T))
  BY <1>0, <1>1 DEF Stays, AsideQuiet
<1>8. QED
  BY <1>2, <1>3, <1>4, <1>5, <1>6, <1>7

\* The answers of the batch b that were synced, when hosts are to come.
Given(b, hosts) == {b[i] : i \in 1 .. Len(b) - Len(hosts)}

\* The next answer of a batch.
LEMMA NextAnswer ==
  ASSUME NEW b \in Seq(Host), NEW hosts \in Seq(Host), hosts # <<>>, Suffix(b, hosts), OnceEach(b), BatchOK(b),
         NEW w, w.batch = b, NEW D, D = Given(b, hosts)
  PROVE  /\ Odd(w) = {} => Fresh(w, D, Head(hosts))
         /\ Head(hosts).ip \notin Ips(D) /\ Head(hosts) \in Host
         /\ Tail(hosts) \in Seq(Host) /\ Suffix(b, Tail(hosts))
         /\ Given(b, Tail(hosts)) = D \cup {Head(hosts)}
<1> DEFINE h == Head(hosts)
           k == Len(b) - Len(hosts)
<1>1. /\ Len(b) \in Nat /\ Len(hosts) \in Nat /\ Len(hosts) > 0 /\ Len(hosts) <= Len(b)
      /\ DOMAIN b = 1 .. Len(b) /\ \A i \in 1 .. Len(b) : b[i] \in Host
  BY DEF Suffix
<1>2. /\ Tail(hosts) \in Seq(Host) /\ Len(Tail(hosts)) = Len(hosts) - 1
      /\ \A i \in 1 .. Len(hosts) - 1 : Tail(hosts)[i] = hosts[i + 1]
      /\ h = hosts[1]
  BY <1>1
<1>3. k \in Nat /\ k + 1 \in 1 .. Len(b) /\ h = b[k + 1]
  BY <1>1, <1>2 DEF Suffix
<1>4. h \in Host
  BY <1>1, <1>3
<1>5. Suffix(b, Tail(hosts))
  <2>1. ASSUME NEW i \in 1 .. Len(Tail(hosts)) PROVE Tail(hosts)[i] = b[Len(b) - Len(Tail(hosts)) + i]
    <3>1. i \in 1 .. Len(hosts) - 1 /\ i + 1 \in 1 .. Len(hosts)
      BY <1>1, <1>2
    <3>2. Tail(hosts)[i] = hosts[i + 1] /\ hosts[i + 1] = b[Len(b) - Len(hosts) + (i + 1)]
      BY <1>2, <3>1 DEF Suffix
    <3>3. Len(b) - Len(hosts) + (i + 1) = Len(b) - Len(Tail(hosts)) + i
      BY <1>1, <1>2, <3>1
    <3>4. QED
      BY <3>2, <3>3
  <2>2. QED
    BY <1>1, <1>2, <2>1 DEF Suffix
<1>6. Given(b, Tail(hosts)) = D \cup {h}
  <2>1. 1 .. Len(b) - Len(Tail(hosts)) = (1 .. k) \cup {k + 1}
    BY <1>1, <1>2, <1>3
  <2>2. QED
    BY <1>3, <2>1 DEF Given
<1>7. h.ip \notin Ips(D)
  <2>1. ASSUME NEW i \in 1 .. k PROVE b[i].ip # h.ip
    BY <1>1, <1>3 DEF OnceEach
  <2>2. QED
    BY <2>1 DEF Ips, Given
<1>8. h \in Heard(b) /\ D \subseteq Heard(b)
  BY <1>1, <1>3 DEF Heard, Given
<1>9. ASSUME Odd(w) = {} PROVE Fresh(w, D, h)
  <2>1. \A f, g \in Heard(b) : f.mac = g.mac => f = g \/ Across(f.ip, g.ip)
    BY <1>9, CalmFacts DEF Several
  <2>2. QED
    BY <1>4, <1>7, <1>8, <2>1 DEF Fresh, BatchOK
<1>10. QED
  BY <1>2, <1>4, <1>5, <1>6, <1>7, <1>9

DoneOf(x) == Given(x.batch, x.hosts)

\* A batch that is alone and not odd: it will not fail, and is right about where the devices are.
AloneGood(w, D, T) == GoodDev(w, D) /\ GoodDisc(w, D) /\ Follows(w, D) /\ Stays(w, T) /\ AsideQuiet(w, T)

\* What holds of the session x at work, which sees the tables t while T are the devices as
\* they are committed.
Going(x, t, T) ==
  /\ x \in Session /\ x.busy
  /\ OnceEach(x.batch) /\ BatchOK(x.batch)
  /\ x.failed # None => x.hosts = <<>>
  /\ x.failed = None =>
       /\ Suffix(x.batch, x.hosts) /\ Base(Seen(x, t), DoneOf(x))
       /\ x.odd = {} => Told0(Seen(x, t), DoneOf(x), T)
  /\ x.alone /\ x.odd = {} => x.failed = None /\ AloneGood(Seen(x, t), DoneOf(x), T)

\* Before its first answer.
LEMMA GoingStarts ==
  ASSUME NEW b \in Seq(Host), OnceEach(b), BatchOK(b), NEW alone \in BOOLEAN, NEW t, TabOK(t), NEW x,
         x = [busy |-> TRUE, tab |-> None, batch |-> b, hosts |-> b,
              dev |-> <<>>, disc |-> <<>>, new |-> <<>>, news |-> {}, wrote |-> FALSE, failed |-> None,
              alone |-> alone, odd |-> {}]
  PROVE  Going(x, t, t.dev)
<1> DEFINE w == Seen(x, t)
           D == DoneOf(x)
<1>1. x \in Session
  <2>1. <<>> \in DevCopies /\ <<>> \in DiscCopies
    <3>1. <<>> \in [{} -> DevCopy] /\ <<>> \in [{} -> DiscCopy]
      OBVIOUS
    <3>2. QED
      BY <3>1, DevCopiesMade, DiscCopiesMade
  <2>2. <<>> \in Seq(DiscRow) /\ {} \in SUBSET NewsOf /\ {} \in SUBSET Kinds /\ None \in Failures /\ None \in {None}
    BY DEF Failures
  <2>3. QED
    BY <2>1, <2>2 DEF Session, SessionWith
<1>2. t \in Tables /\ OneEach(t.dev) /\ OneEach(t.disc) /\ \A r \in DOMAIN t.disc : r < t.next
  BY DEF TabOK
<1>3. /\ w \in View /\ w.tab = t /\ w.dev = <<>> /\ w.disc = <<>> /\ w.new = <<>> /\ w.news = {}
      /\ w.wrote = FALSE /\ w.failed = None /\ w.batch = b
  <2>1. w = Seen(x, t)
    OBVIOUS
  <2> HIDE DEF w
  <2>2. /\ w \in View /\ w.tab = t /\ w.dev = x.dev /\ w.disc = x.disc /\ w.new = x.new /\ w.news = x.news
        /\ w.wrote = x.wrote /\ w.failed = x.failed /\ w.batch = x.batch /\ w.hosts = x.hosts
        /\ w.alone = x.alone /\ w.odd = x.odd /\ w.busy = x.busy
    BY ONLY <1>1, <1>2, <2>1, SeenFacts
  <2>3. /\ x.dev = <<>> /\ x.disc = <<>> /\ x.new = <<>> /\ x.news = {}
        /\ x.wrote = FALSE /\ x.failed = None /\ x.batch = b
    OBVIOUS
  <2>4. QED
    BY ONLY <2>2, <2>3
<1>4. D = {}
  <2>1. x.batch = b /\ x.hosts = b /\ Len(b) \in Nat
    OBVIOUS
  <2>2. 1 .. Len(b) - Len(b) = {}
    BY <2>1
  <2>3. QED
    BY <2>1, <2>2 DEF DoneOf, Given
<1>5. Suffix(b, b)
  BY DEF Suffix
<1> HIDE DEF w, D
<1>6. DOMAIN w.dev = {} /\ DOMAIN w.disc = {} /\ DOMAIN w.new = {}
  BY <1>3
<1>7. /\ \A d : LoadedDev(w, d) = t.dev[d]
      /\ \A r : LoadedDisc(w, r) = t.disc[r]
  BY <1>3, <1>6 DEF LoadedDev, LoadedDisc
<1>8. Base(w, D)
  BY <1>2, <1>3, <1>6 DEF Base, Below
<1>9. Told0(w, D, t.dev)
  BY <1>3, <1>6 DEF Told0, ToldDev, ToldDisc, LostTo, GoneFrom
<1>10. DOMAIN t.dev = Devices
  BY <1>3, TabFacts
<1>11. GoodDev(w, D)
  BY <1>2, <1>6, <1>7, <1>10 DEF GoodDev, OneEach
<1>12. GoodDisc(w, D)
  BY <1>2, <1>3, <1>4, <1>6, <1>7 DEF GoodDisc, OneEach
<1>13. Follows(w, D)
  BY <1>4 DEF Follows
<1>14. Stays(w, t.dev) /\ AsideQuiet(w, t.dev)
  BY <1>7 DEF Stays, AsideQuiet, Across
<1>15. AloneGood(w, D, t.dev)
  BY <1>11, <1>12, <1>13, <1>14 DEF AloneGood
<1>16. QED
  BY <1>1, <1>5, <1>8, <1>9, <1>15 DEF Going, w, D

\* Others come to work.
LEMMA GoingTogether ==
  ASSUME NEW x, NEW t, NEW T, t \in Tables, Going(x, t, T), NEW y, y = [x EXCEPT !.alone = FALSE]
  PROVE  Going(y, t, T)
<1>1. x \in Session
  BY DEF Going
<1>2. /\ y \in Session /\ y.busy = x.busy /\ y.batch = x.batch /\ y.hosts = x.hosts /\ y.failed = x.failed
      /\ y.odd = x.odd /\ ~y.alone
      /\ y.dev = x.dev /\ y.disc = x.disc /\ y.new = x.new /\ y.news = x.news /\ y.wrote = x.wrote
  BY <1>1 DEF Session, SessionWith
<1>3. Alike(Seen(x, t), Seen(y, t))
  <2>1. /\ Seen(x, t) \in View /\ Seen(x, t).tab = t /\ Seen(x, t).dev = x.dev /\ Seen(x, t).disc = x.disc
        /\ Seen(x, t).new = x.new /\ Seen(x, t).news = x.news /\ Seen(x, t).wrote = x.wrote
        /\ Seen(x, t).failed = x.failed /\ Seen(x, t).batch = x.batch
    <3> DEFINE v == Seen(x, t)
    <3>1. v = Seen(x, t)
      OBVIOUS
    <3> HIDE DEF v
    <3>2. /\ v \in View /\ v.tab = t /\ v.dev = x.dev /\ v.disc = x.disc /\ v.new = x.new /\ v.news = x.news
          /\ v.wrote = x.wrote /\ v.failed = x.failed /\ v.batch = x.batch /\ v.hosts = x.hosts
          /\ v.alone = x.alone /\ v.odd = x.odd /\ v.busy = x.busy
      BY <1>1, <3>1, SeenFacts
    <3>3. QED
      BY <3>2 DEF v
  <2>2. /\ Seen(y, t) \in View /\ Seen(y, t).tab = t /\ Seen(y, t).dev = y.dev /\ Seen(y, t).disc = y.disc
        /\ Seen(y, t).new = y.new /\ Seen(y, t).news = y.news /\ Seen(y, t).wrote = y.wrote
        /\ Seen(y, t).failed = y.failed /\ Seen(y, t).batch = y.batch
    <3> DEFINE v == Seen(y, t)
    <3>1. v = Seen(y, t) /\ y \in Session /\ t \in Tables
      BY <1>2
    <3> HIDE DEF v
    <3>2. /\ v \in View /\ v.tab = t /\ v.dev = y.dev /\ v.disc = y.disc /\ v.new = y.new /\ v.news = y.news
          /\ v.wrote = y.wrote /\ v.failed = y.failed /\ v.batch = y.batch /\ v.hosts = y.hosts
          /\ v.alone = y.alone /\ v.odd = y.odd /\ v.busy = y.busy
      BY ONLY <3>1, SeenFacts
    <3>3. QED
      BY <3>2 DEF v
  <2>3. QED
    BY <1>2, <2>1, <2>2 DEF Alike
<1>4. DoneOf(y) = DoneOf(x)
  BY <1>2 DEF DoneOf
<1>5. QED
  BY <1>2, <1>3, <1>4, AlikeKeeps DEF Going

\* What the next answer makes of the session x: v is what it sees before, w after.
Answered(x, t, T, v, w, B) ==
  /\ After(v, w, B) /\ v \in View /\ v.wrote = x.wrote /\ v.tab = t
  /\ Tail(x.hosts) \in Seq(Host) /\ Suffix(x.batch, Tail(x.hosts))
  /\ Given(x.batch, Tail(x.hosts)) = B
  /\ w.batch = x.batch /\ w.hosts = x.hosts /\ w.alone = x.alone /\ w.odd = x.odd /\ w.busy = x.busy
  /\ x.odd = {} /\ Odd(v) = {} /\ w.failed = None => Told0(w, B, T)
  /\ x.alone /\ x.odd = {} /\ Odd(v) = {} => w.failed = None /\ AloneGood(w, B, T)

\* The next answer.
LEMMA GoingNext ==
  ASSUME NEW x, NEW t \in Tables, NEW T \in [Devices -> DevRow], Going(x, t, T), x.hosts # <<>>,
         NEW v, v = Seen(x, t), NEW w, w = Synced(v, Head(x.hosts)), NEW B, B = DoneOf(x) \cup {Head(x.hosts)}
  PROVE  Answered(x, t, T, v, w, B)
<1> DEFINE h == Head(x.hosts)
           D == DoneOf(x)
<1>1. /\ x \in Session /\ x.failed = None /\ OnceEach(x.batch) /\ BatchOK(x.batch) /\ Suffix(x.batch, x.hosts)
      /\ Base(v, D) /\ (x.odd = {} => Told0(v, D, T))
      /\ x.alone /\ x.odd = {} => AloneGood(v, D, T)
  BY DEF Going
<1>2. x.batch \in Seq(Host) /\ x.hosts \in Seq(Host)
  BY <1>1 DEF Session, SessionWith
<1>3. /\ v \in View /\ v.tab = t /\ v.dev = x.dev /\ v.disc = x.disc /\ v.new = x.new /\ v.news = x.news
      /\ v.wrote = x.wrote /\ v.failed = x.failed /\ v.batch = x.batch /\ v.hosts = x.hosts
      /\ v.alone = x.alone /\ v.odd = x.odd /\ v.busy = x.busy
  BY ONLY <1>1, v = Seen(x, t), t \in Tables, SeenFacts
<1>4. D = Given(x.batch, x.hosts)
  BY DEF DoneOf
<1> HIDE DEF D
<1>5. /\ Odd(v) = {} => Fresh(v, D, h)
      /\ h.ip \notin Ips(D) /\ h \in Host
      /\ Tail(x.hosts) \in Seq(Host) /\ Suffix(x.batch, Tail(x.hosts))
      /\ Given(x.batch, Tail(x.hosts)) = D \cup {h}
  <2>1. x.hosts # <<>> /\ v.batch = x.batch
    BY <1>3
  <2>2. /\ Odd(v) = {} => Fresh(v, D, Head(x.hosts))
        /\ Head(x.hosts).ip \notin Ips(D) /\ Head(x.hosts) \in Host
        /\ Tail(x.hosts) \in Seq(Host) /\ Suffix(x.batch, Tail(x.hosts))
        /\ Given(x.batch, Tail(x.hosts)) = D \cup {Head(x.hosts)}
    <3> DEFINE b == x.batch
               hosts == x.hosts
    <3>1. /\ b \in Seq(Host) /\ hosts \in Seq(Host) /\ hosts # <<>> /\ Suffix(b, hosts) /\ OnceEach(b) /\ BatchOK(b)
          /\ v.batch = b /\ D = Given(b, hosts)
      BY <1>1, <1>2, <1>4, <2>1
    <3> HIDE DEF b, hosts
    <3>2. /\ Odd(v) = {} => Fresh(v, D, Head(hosts))
          /\ Head(hosts).ip \notin Ips(D) /\ Head(hosts) \in Host
          /\ Tail(hosts) \in Seq(Host) /\ Suffix(b, Tail(hosts))
          /\ Given(b, Tail(hosts)) = D \cup {Head(hosts)}
      BY ONLY <3>1, NextAnswer
    <3>3. QED
      BY <3>2 DEF b, hosts
  <2>3. QED
    BY <2>2
<1>6. h.ip \notin Ips(D) /\ w = Synced(v, h) /\ B = D \cup {h}
  BY <1>5 DEF D
<1> HIDE DEF h
<1>7. After(v, w, B)
  BY <1>1, <1>5, <1>6, SyncedBase
<1>8. /\ w.batch = x.batch /\ w.hosts = x.hosts /\ w.alone = x.alone /\ w.odd = x.odd /\ w.busy = x.busy
      /\ Frame(v, w)
  BY <1>3, <1>7 DEF After, Frame
<1>9. ASSUME x.odd = {}, Odd(v) = {}, w.failed = None PROVE Told0(w, B, T)
  BY <1>1, <1>5, <1>6, <1>9, SyncedTold
<1>10. ASSUME x.alone, x.odd = {}, Odd(v) = {} PROVE w.failed = None /\ AloneGood(w, B, T)
  <2>1. ToldDev(v, D, T) /\ GoodDev(v, D) /\ GoodDisc(v, D) /\ Follows(v, D) /\ Stays(v, T) /\ AsideQuiet(v, T)
    <3>1. Told0(v, D, T) /\ AloneGood(v, D, T)
      BY ONLY <1>1, <1>10
    <3>2. QED
      BY ONLY <3>1 DEF Told0, AloneGood
  <2>2. w.failed = None /\ GoodDev(w, B) /\ GoodDisc(w, B) /\ DevStep(v, w, h)
    <3>1. /\ Base(v, D) /\ ToldDev(v, D, T) /\ GoodDev(v, D) /\ GoodDisc(v, D)
          /\ Odd(v) = {} /\ Fresh(v, D, h) /\ w = Synced(v, h)
      BY <1>1, <1>5, <1>6, <1>10, <2>1
    <3>2. w.failed = None /\ GoodDev(w, D \cup {h}) /\ GoodDisc(w, D \cup {h}) /\ DevStep(v, w, h)
      BY ONLY <3>1, SyncedGood
    <3>3. QED
      BY ONLY <1>6, <3>2
  <2>3. Follows(w, B)
    BY <1>1, <1>5, <1>6, <1>10, <2>1, <2>2, SyncedFollows
  <2>4. Stays(w, T) /\ AsideQuiet(w, T)
    BY <1>1, <1>5, <1>8, <1>10, <2>1, <2>2, SyncedStays
  <2>5. QED
    BY <2>2, <2>3, <2>4 DEF AloneGood
<1>11. QED
  BY <1>3, <1>5, <1>6, <1>7, <1>8, <1>9, <1>10 DEF Answered

\* How the next answer leaves the session x: y is kept of it, w was its view.
Passed(x, t, T, w, lost, y) ==
  /\ y.busy /\ y.alone = x.alone /\ y.wrote = (w.wrote /\ ~lost)
  /\ y.failed = w.failed /\ (y.failed # None => ~y.wrote)
  /\ lost => \A u : Going(y, u, T)
  /\ ~lost => /\ Going(y, w.tab, T) /\ TabOK(w.tab) /\ w.tab.next >= t.next
              /\ x.wrote => w.wrote
              /\ ~w.wrote => w.tab = t

\* A session after its next answer, lost if a flush failed.
LEMMA GoingSynced ==
  ASSUME NEW x, NEW t \in Tables, NEW T \in [Devices -> DevRow], Going(x, t, T), x.hosts # <<>>,
         NEW v, v = Seen(x, t), NEW w, w = Synced(v, Head(x.hosts)), NEW lost, lost = (w.failed # None),
         NEW y, y = [w EXCEPT !.tab = None, !.hosts = IF lost THEN <<>> ELSE Tail(@), !.wrote = @ /\ ~lost,
                              !.odd = @ \cup Odd(v)]
  PROVE  Passed(x, t, T, w, lost, y)
<1> DEFINE B == DoneOf(x) \cup {Head(x.hosts)}
           hosts == IF lost THEN <<>> ELSE Tail(x.hosts)
           odd == x.odd \cup Odd(v)
           wrote == w.wrote /\ ~lost
<1>1. /\ After(v, w, B) /\ v \in View /\ v.wrote = x.wrote /\ v.tab = t
      /\ Tail(x.hosts) \in Seq(Host) /\ Suffix(x.batch, Tail(x.hosts))
      /\ Given(x.batch, Tail(x.hosts)) = B
      /\ w.batch = x.batch /\ w.hosts = x.hosts /\ w.alone = x.alone /\ w.odd = x.odd /\ w.busy = x.busy
      /\ x.odd = {} /\ Odd(v) = {} /\ w.failed = None => Told0(w, B, T)
      /\ x.alone /\ x.odd = {} /\ Odd(v) = {} => w.failed = None /\ AloneGood(w, B, T)
  <2>1. B = DoneOf(x) \cup {Head(x.hosts)}
    OBVIOUS
  <2> HIDE DEF B
  <2>2. /\ Going(x, t, T) /\ x.hosts # <<>> /\ v = Seen(x, t) /\ w = Synced(v, Head(x.hosts)) /\ t \in Tables
        /\ T \in [Devices -> DevRow]
    OBVIOUS
  <2>3. Answered(x, t, T, v, w, B)
    BY ONLY <2>1, <2>2, GoingNext
  <2>4. QED
    BY ONLY <2>3 DEF Answered
<1> HIDE DEF B
<1>2. w \in View /\ w.wrote \in BOOLEAN /\ lost \in BOOLEAN
  BY <1>1 DEF After, View, SessionWith
<1>3. /\ hosts \in Seq(Host) /\ odd \in SUBSET Kinds /\ wrote \in BOOLEAN
  <2>1. Odd(v) \subseteq Kinds
    BY DEF Odd, Kinds
  <2>2. x.odd \subseteq Kinds
    BY <1>1, <1>2, TabFacts
  <2>3. <<>> \in Seq(Host)
    OBVIOUS
  <2>4. QED
    BY <1>1, <1>2, <2>1, <2>2, <2>3
<1>4. y = [w EXCEPT !.tab = None, !.hosts = hosts, !.wrote = wrote, !.odd = odd]
  BY <1>1
<1> HIDE DEF hosts, odd, wrote
<1>5. /\ y \in Session
      /\ y.hosts = hosts /\ y.odd = odd /\ y.wrote = wrote /\ y.batch = w.batch /\ y.dev = w.dev /\ y.disc = w.disc
      /\ y.new = w.new /\ y.news = w.news /\ y.failed = w.failed /\ y.alone = w.alone /\ y.busy = w.busy
  BY <1>2, <1>3, <1>4 DEF View, Session, SessionWith
<1>6. /\ x.busy /\ OnceEach(x.batch) /\ BatchOK(x.batch)
  BY DEF Going
<1>7. /\ y.busy /\ y.alone = x.alone /\ y.wrote = (w.wrote /\ ~lost)
      /\ y.failed = w.failed /\ (y.failed # None => ~y.wrote)
  BY <1>1, <1>5, <1>6 DEF wrote
<1>8. odd = {} => x.odd = {} /\ Odd(v) = {}
  BY DEF odd
<1>9. ASSUME lost PROVE \A u : Going(y, u, T)
  <2>1. y.failed # None /\ y.hosts = <<>>
    BY <1>5, <1>9 DEF hosts
  <2>2. ~(y.alone /\ y.odd = {})
    BY <1>1, <1>5, <1>8, <1>9
  <2>3. QED
    BY <1>1, <1>5, <1>6, <1>7, <2>1, <2>2 DEF Going
<1>10. ASSUME ~lost
       PROVE  /\ Going(y, w.tab, T) /\ TabOK(w.tab) /\ w.tab.next >= t.next
              /\ x.wrote => w.wrote
              /\ ~w.wrote => w.tab = t
  <2>1. /\ w.failed = None /\ Base(w, B) /\ Writes(v, w) /\ w.tab.next >= t.next
    BY <1>1, <1>10 DEF After
  <2>2. w.tab \in Tables /\ TabOK(w.tab)
    BY <1>2, <2>1, TabFacts DEF TabOK, Base, Below
  <2> DEFINE z == Seen(y, w.tab)
  <2>3. z = Seen(y, w.tab)
    OBVIOUS
  <2> HIDE DEF z
  <2>4. /\ z \in View /\ z.tab = w.tab /\ z.dev = y.dev /\ z.disc = y.disc /\ z.new = y.new /\ z.news = y.news
        /\ z.wrote = y.wrote /\ z.failed = y.failed /\ z.batch = y.batch
    BY ONLY <1>5, <2>2, <2>3, SeenFacts
  <2>5. y.wrote = w.wrote
    BY <1>2, <1>7, <1>10
  <2>6. Alike(w, z)
    BY <1>5, <2>4, <2>5 DEF Alike
  <2>7. DoneOf(y) = B
    <3>1. y.batch = x.batch /\ y.hosts = Tail(x.hosts)
      BY <1>1, <1>5, <1>10 DEF hosts
    <3>2. QED
      BY ONLY <1>1, <3>1 DEF DoneOf
  <2>8. Suffix(y.batch, y.hosts)
    BY <1>1, <1>5, <1>10 DEF hosts
  <2>9. Base(z, B) /\ (y.odd = {} => Told0(z, B, T))
    BY <1>1, <1>5, <1>8, <2>1, <2>6, AlikeKeeps
  <2>10. y.alone /\ y.odd = {} => AloneGood(z, B, T)
    <3>1. y.alone /\ y.odd = {} => AloneGood(w, B, T)
      BY <1>1, <1>5, <1>8, SMTT(60)
    <3>2. QED
      BY <2>6, <3>1, AlikeKeeps DEF AloneGood
  <2>11. Going(y, w.tab, T)
    BY <1>1, <1>5, <1>6, <2>1, <2>3, <2>7, <2>8, <2>9, <2>10 DEF Going
  <2>12. QED
    BY <1>1, <2>1, <2>2, <2>11 DEF Writes
<1>11. QED
  BY <1>7, <1>9, <1>10 DEF Passed

\* Another session commits: what this one has loaded may be stale, but what it has announced
\* will be so, as it has not written yet.
LEMMA GoingElsewhere ==
  ASSUME NEW x, NEW t \in Tables, NEW T, Going(x, t, T), ~x.wrote, ~x.alone, NEW u, TabOK(u), u.next >= t.next
  PROVE  Going(x, u, u.dev)
<1> DEFINE v == Seen(x, t)
           w == Seen(x, u)
           D == DoneOf(x)
<1>1. x \in Session /\ u \in Tables /\ v = Seen(x, t) /\ w = Seen(x, u)
  BY DEF Going, TabOK
<1> HIDE DEF v, w, D
<1>2. /\ v \in View /\ v.tab = t /\ v.dev = x.dev /\ v.disc = x.disc /\ v.new = x.new /\ v.news = x.news
      /\ v.wrote = x.wrote /\ v.failed = x.failed /\ v.batch = x.batch
  BY ONLY <1>1, t \in Tables, SeenFacts
<1>3. /\ w \in View /\ w.tab = u /\ w.dev = x.dev /\ w.disc = x.disc /\ w.new = x.new /\ w.news = x.news
      /\ w.wrote = x.wrote /\ w.failed = x.failed /\ w.batch = x.batch
  BY ONLY <1>1, SeenFacts
<1>4. ASSUME x.failed = None PROVE Base(w, D)
  <2>1. Base(v, D)
    BY <1>1, <1>4 DEF Going, D
  <2>2. t.next \in Nat /\ u.next \in Nat /\ DOMAIN w.disc \subseteq Nat
    BY <1>2, <1>3, TabFacts
  <2>3. Below(w)
    BY <1>2, <1>3, <2>1, <2>2 DEF Base, Below, TabOK
  <2>4. QED
    BY <1>2, <1>3, <1>4, <2>1, <2>3 DEF Base, TabOK
<1>5. ASSUME x.failed = None, x.odd = {} PROVE Told0(w, D, u.dev)
  <2>1. ToldDev(v, D, T) /\ ToldDisc(v, D)
    BY <1>1, <1>5 DEF Going, D, Told0
  <2>2. ~v.wrote /\ ~w.wrote
    BY <1>2, <1>3
  <2>3. ASSUME NEW d \in DOMAIN w.dev PROVE CopyOf(w, D, d) /\ HeldStill(w, D, d)
    <3>1. CopyOf(v, D, d) /\ HeldStill(v, D, d)
      BY <1>2, <1>3, <2>1, <2>3 DEF ToldDev
    <3>2. QED
      BY <1>2, <1>3, <2>2, <3>1 DEF CopyOf, HeldStill
  <2>4. ASSUME NEW n \in w.news, n.kind = "moved" PROVE MovedStays(w, D, n)
    <3>1. MovedStays(v, D, n)
      BY <1>2, <1>3, <2>1, <2>4 DEF ToldDev
    <3>2. QED
      BY <1>2, <1>3, <2>2, <3>1 DEF MovedStays
  <2>5. ASSUME NEW d \in Devices PROVE LostTo(w, u.dev, d) /\ GoneFrom(w, D, u.dev, d)
    BY <1>3 DEF LostTo, GoneFrom
  <2>6. ASSUME NEW n \in w.news, n.kind = "new" PROVE NewStays(w, D, n)
    <3>1. NewStays(v, D, n)
      BY <1>2, <1>3, <2>1, <2>6 DEF ToldDisc
    <3>2. QED
      BY <1>2, <1>3, <2>2, <3>1 DEF NewStays
  <2>7. QED
    BY <2>3, <2>4, <2>5, <2>6 DEF Told0, ToldDev, ToldDisc
<1>6. QED
  BY <1>4, <1>5 DEF Going, D, w

-----------------------------------------------------------------------------
(* The commit of a batch.                                                    *)

\* What the news say is in the tables t.
TrueNews(news, t) ==
  \A n \in news :
    \/ n.kind = "new" /\ \E r \in DOMAIN t.disc : t.disc[r].mac = n.mac /\ t.disc[r].ip = n.ip
    \/ n.kind = "moved" /\ t.dev[n.dev].ip = n.ip
\* Who is a placeholder in t and was none in T has lost its address to another.
TakenIn(T, t) ==
  \A d \in Devices : ~T[d].placeholder /\ t.dev[d].placeholder => \E e \in Devices \ {d} : t.dev[e].ip = T[d].ip
AllListed(b, t) == \A h \in Heard(b) : \E r \in DOMAIN t.disc : t.disc[r].ip = h.ip
AllFollow(b, t) ==
  \A h \in Heard(b), d \in Devices :
    Mac[d] = h.mac /\ h.mac \notin site.unraid /\ t.dev[d].ifs = {} /\ ~IsGateway(t.dev[d].ip) =>
      \/ t.dev[d].ip = h.ip /\ ~t.dev[d].placeholder
      \/ \E e \in Devices : h.ip \in t.dev[e].ifs
      \/ ~t.dev[d].placeholder /\ t.dev[d].online /\ Across(t.dev[d].ip, h.ip)
InSubnet(T, t) ==
  \A d \in Devices : T[d].online /\ ~T[d].placeholder => ~Across(T[d].ip, t.dev[d].ip) \/ t.dev[d].placeholder

\* The session x, all answers synced, flushes the rest into w.
Committed(x, t, T, w) ==
  /\ w.news \subseteq NewsOf /\ w.failed \in Failures /\ t.next \in Nat
  /\ w.failed = None => TabOK(w.tab) /\ w.tab.next >= t.next
  /\ w.failed = None /\ x.odd = {} => TrueNews(w.news, w.tab) /\ TakenIn(T, w.tab)
  /\ x.alone /\ x.odd = {} =>
       w.failed = None /\ AllListed(x.batch, w.tab) /\ AllFollow(x.batch, w.tab) /\ InSubnet(T, w.tab)

\* The last flush: what was announced is so, and a plain batch is stored in full.
LEMMA GoingCommits ==
  ASSUME NEW x, NEW t \in Tables, NEW T, Going(x, t, T), x.hosts = <<>>, x.failed = None,
         NEW w, w = Flush(Seen(x, t))
  PROVE  Committed(x, t, T, w)
<1> DEFINE v == Seen(x, t)
           D == DoneOf(x)
<1>1. /\ x \in Session /\ v = Seen(x, t) /\ w = Flush(v) /\ Base(v, D)
      /\ x.odd = {} => ToldDev(v, D, T) /\ ToldDisc(v, D)
      /\ x.alone /\ x.odd = {} => GoodDev(v, D) /\ GoodDisc(v, D) /\ Follows(v, D) /\ Stays(v, T)
  BY DEF Going, Told0, AloneGood
<1>2. D = Heard(x.batch)
  <2>1. x.batch \in Seq(Host)
    BY <1>1 DEF Session, SessionWith
  <2>2. 1 .. Len(x.batch) - Len(x.hosts) = DOMAIN x.batch
    BY <2>1
  <2>3. QED
    BY <2>2 DEF DoneOf, Given, Heard
<1> HIDE DEF v, D
<1>3. v \in View /\ v.tab = t /\ v.news = x.news /\ v.failed = None
  <2>1. /\ v \in View /\ v.tab = t /\ v.dev = x.dev /\ v.disc = x.disc /\ v.new = x.new /\ v.news = x.news
        /\ v.wrote = x.wrote /\ v.failed = x.failed /\ v.batch = x.batch
    BY ONLY <1>1, t \in Tables, SeenFacts
  <2>2. QED
    BY <2>1
<1>4. After(v, w, D)
  BY ONLY <1>1, FlushBase
<1>5. w \in View /\ w.tab.next >= t.next /\ (w.failed = None => Base(w, D))
  BY <1>3, <1>4 DEF After
<1>6. /\ w.news \subseteq NewsOf /\ w.failed \in Failures /\ t.next \in Nat
      /\ w.failed = None => TabOK(w.tab)
  <2>1. w.news \subseteq NewsOf /\ w.failed \in Failures /\ w.tab \in Tables
    BY <1>5, TabFacts
  <2>2. t.next \in Nat
    BY <1>3, TabFacts
  <2>3. QED
    BY <1>5, <2>1, <2>2 DEF Base, TabOK, Below
<1>7. ASSUME w.failed = None, x.odd = {} PROVE TrueNews(w.news, w.tab) /\ TakenIn(T, w.tab)
  <2>1. w.news = v.news /\ w.new = <<>>
    <3>1. /\ \A d \in Devices : d \notin DOMAIN v.dev => w.tab.dev[d] = v.tab.dev[d]
          /\ \A d \in DOMAIN v.dev : Merged(v.tab.dev[d], v.dev[d], w.tab.dev[d])
          /\ DOMAIN w.dev = DOMAIN v.dev
          /\ \A d \in DOMAIN v.dev : w.dev[d].was = v.dev[d].is /\ w.dev[d].is = v.dev[d].is
          /\ \A d \in Devices : LoadedDev(w, d) = IF d \in DOMAIN v.dev THEN v.dev[d].is ELSE w.tab.dev[d]
          /\ w.wrote /\ w.news = v.news /\ w.new = <<>> /\ w.batch = v.batch
      BY ONLY <1>1, <1>7, FlushedRow
    <3>2. QED
      BY ONLY <3>1
  <2>2. ASSUME NEW n \in w.news, n.kind = "moved" PROVE n.dev \in Devices /\ w.tab.dev[n.dev].ip = n.ip
    <3>1. n \in NewsOf
      BY <1>6, <2>2
    <3>2. MovedStays(v, D, n)
      BY <1>1, <1>7, <2>1, <2>2 DEF ToldDev
    <3>3. MovedStays(w, D, n) /\ w.tab.dev[n.dev].ip = n.ip
      <4>1. Base(v, D) /\ w = Flush(v) /\ w.failed = None /\ n \in v.news /\ n.kind = "moved" /\ MovedStays(v, D, n)
        BY <1>1, <1>7, <2>1, <2>2, <3>2
      <4>2. QED
        BY ONLY <4>1, FlushedNews
    <3>4. n.dev \in Devices
      BY <3>1, <2>2 DEF NewsOf
    <3>5. QED
      BY <3>3, <3>4
  <2>3. ASSUME NEW n \in w.news, n.kind = "new"
        PROVE  \E r \in DOMAIN w.tab.disc : w.tab.disc[r].mac = n.mac /\ w.tab.disc[r].ip = n.ip
    <3>1. ToldDisc(w, D)
      BY <1>1, <1>7, FlushedNew
    <3>2. NewStays(w, D, n)
      BY <2>3, <3>1 DEF ToldDisc
    <3>3. PICK r \in DOMAIN w.tab.disc : w.tab.disc[r] = NewRow(n)
      BY <2>1, <3>2 DEF NewStays
    <3>4. QED
      BY <3>3 DEF NewRow
  <2>4. \A n \in w.news : n.kind = "new" \/ n.kind = "moved"
    BY <1>6 DEF NewsOf
  <2>5. TrueNews(w.news, w.tab)
    BY <2>2, <2>3, <2>4 DEF TrueNews
  <2>6. ASSUME NEW d \in Devices, ~T[d].placeholder, w.tab.dev[d].placeholder
        PROVE  \E e \in Devices \ {d} : w.tab.dev[e].ip = T[d].ip
    <3>1. (d \in DOMAIN v.dev => CopyOf(v, D, d)) /\ LostTo(v, T, d) /\ GoneFrom(v, D, T, d)
      BY <1>1, <1>7 DEF ToldDev
    <3>2. /\ d \in DOMAIN w.dev => CopyOf(w, D, d) /\ HeldStill(w, D, d)
          /\ LostTo(w, T, d) /\ GoneFrom(w, D, T, d)
      BY ONLY <1>1, <1>7, <3>1, d \in Devices, FlushedTold
    <3>3. PICK n \in w.news : n.kind = "moved" /\ n.dev # d /\ n.ip = T[d].ip
      BY <2>6, <3>2 DEF LostTo, TakenNews
    <3>4. QED
      BY <2>2, <3>3
  <2>7. QED
    BY <2>5, <2>6 DEF TakenIn
<1>8. ASSUME x.alone, x.odd = {}
      PROVE  w.failed = None /\ AllListed(x.batch, w.tab) /\ AllFollow(x.batch, w.tab) /\ InSubnet(T, w.tab)
  <2>1. GoodDev(v, D) /\ GoodDisc(v, D) /\ Follows(v, D) /\ Stays(v, T)
    BY <1>1, <1>8
  <2>2. FlushableDev(v) /\ FlushableDisc(v)
    BY <1>1, <2>1, GoodDevFlushable, GoodDiscFlushable
  <2>3. /\ w.failed = None /\ Base(w, D) /\ Frame(v, w) /\ w.wrote /\ w.news = v.news /\ w.new = <<>>
        /\ \A d \in Devices : w.tab.dev[d] = LoadedDev(v, d) /\ LoadedDev(w, d) = LoadedDev(v, d)
        /\ DOMAIN w.dev = DOMAIN v.dev
        /\ \A d \in DOMAIN w.dev : w.dev[d].was = w.tab.dev[d] /\ w.dev[d].is = w.tab.dev[d]
        /\ DOMAIN w.tab.disc = DOMAIN v.tab.disc \cup FlushIds(v)
        /\ \A r \in DOMAIN v.tab.disc : w.tab.disc[r] = LoadedDisc(v, r) /\ r \notin FlushIds(v)
        /\ \A r \in FlushIds(v) : r - v.tab.next + 1 \in DOMAIN v.new /\ w.tab.disc[r] = v.new[r - v.tab.next + 1]
        /\ \A i \in DOMAIN v.new : \E r \in FlushIds(v) : r - v.tab.next + 1 = i
        /\ \A r \in DOMAIN w.disc : r \in DOMAIN w.tab.disc /\ w.disc[r].was = w.tab.disc[r] /\ w.disc[r].is = w.tab.disc[r]
        /\ \A r \in DOMAIN w.tab.disc : LoadedDisc(w, r) = w.tab.disc[r]
    BY ONLY <1>1, <2>2, FlushAlone
  <2>4. ASSUME NEW h \in D PROVE \E r \in DOMAIN w.tab.disc : w.tab.disc[r].ip = h.ip
    <3>1. IsListed(v, h.ip)
      BY <2>1 DEF GoodDisc
    <3>2. CASE \E r \in DOMAIN v.tab.disc : LoadedDisc(v, r).ip = h.ip
      BY <2>3, <3>2
    <3>3. CASE \E i \in DOMAIN v.new : v.new[i].ip = h.ip
      <4>1. PICK i \in DOMAIN v.new : v.new[i].ip = h.ip
        BY <3>3
      <4>2. PICK r \in FlushIds(v) : r - v.tab.next + 1 = i
        BY <2>3
      <4>3. QED
        BY <2>3, <4>1, <4>2
    <3>4. QED
      BY <3>1, <3>2, <3>3 DEF IsListed
  <2>5. \A d \in Devices : w.tab.dev[d] = LoadedDev(v, d) /\ LoadedDev(v, d).ifs = v.tab.dev[d].ifs
    <3>1. ASSUME NEW d \in Devices PROVE LoadedDev(v, d).ifs = v.tab.dev[d].ifs
      BY <2>1, DeviceFacts
    <3>2. QED
      BY <2>3, <3>1
  <2>6. AllFollow(x.batch, w.tab)
    BY <1>2, <2>1, <2>5 DEF AllFollow, Follows, FollowsAt
  <2>7. InSubnet(T, w.tab)
    BY <2>1, <2>5 DEF InSubnet, Stays
  <2>8. QED
    BY <1>2, <2>3, <2>4, <2>6, <2>7 DEF AllListed
<1>9. QED
  BY <1>5, <1>6, <1>7, <1>8 DEF Committed

-----------------------------------------------------------------------------
(* The invariant.                                                            *)

TablesSeen(s) == IF writer = s THEN work ELSE tab
SessInv(s) == Going(sess[s], TablesSeen(s), tab.dev)

\* A session at work; it holds the write lock from its first flush until it commits or fails.
Held(s) ==
  /\ s \notin Busy => sess[s] = Idle
  /\ s \in Busy => /\ SessInv(s)
                   /\ sess[s].alone => Busy = {s}
                   /\ sess[s].failed # None => ~sess[s].wrote
  /\ writer = s <=> s \in Busy /\ sess[s].wrote

IInv ==
  /\ site \in Sites /\ answers \in 0 .. MaxAnswers
  /\ TabOK(tab) /\ TabOK(work) /\ work.next >= tab.next
  /\ writer \in Sessions \cup {None} /\ (writer = None => work = tab)
  /\ sess = [s \in Sessions |-> sess[s]]
  /\ \A s \in Sessions : Held(s)
  /\ last.outcome \in {"none", "stored", "devices", "discovered", "locked"} /\ last.news \subseteq NewsOf

\* What is said of a session in one step is said of it after the next.
LEMMA Carried ==
  ASSUME NEW s, NEW x, NEW t, NEW T, site' = site, sess'[s] = x, t = TablesSeen(s)', T = tab'.dev, Going(x, t, T)
  PROVE  SessInv(s)'
  BY DEF SessInv, Going, BatchOK, AloneGood, Follows, FollowsAt, Stays, Across, Segment, IsGateway

\* There is a highest id.
LEMMA MaxId == \E d \in Devices \cup {0} : \A e \in Devices : e <= d
<1>1. PICK n \in Nat : ExistsSurjection(1 .. n, Devices)
  BY DevicesAssumption, FS_NatSurjection
<1>2. PICK f \in [1 .. n -> Devices] : \A d \in Devices : \E i \in 1 .. n : f[i] = d
  BY <1>1 DEF ExistsSurjection, Surjection
<1>3. Devices \subseteq Nat
  BY DevicesAssumption
<1> DEFINE Bounded(k) == \E d \in Devices \cup {0} : \A i \in 1 .. k : f[i] <= d
           K == {k \in 0 .. n : ~Bounded(k)}
<1>4. Bounded(0)
  OBVIOUS
<1>5. ASSUME NEW k \in 1 .. n, Bounded(k - 1) PROVE Bounded(k)
  <2>1. PICK d \in Devices \cup {0} : \A i \in 1 .. (k - 1) : f[i] <= d
    BY <1>5
  <2>2. f[k] \in Devices /\ f[k] \in Nat /\ d \in Nat /\ \A i \in 1 .. n : f[i] \in Nat
    <3>1. \A i \in 1 .. n : f[i] \in Devices
      OBVIOUS
    <3>2. d \in Devices \/ d = 0
      OBVIOUS
    <3>3. \A e \in Devices : e \in Nat
      BY <1>3
    <3>4. d \in Nat
      BY <3>2, <3>3
    <3>5. QED
      BY <3>1, <3>3, <3>4
  <2>3. \A i \in 1 .. k : i = k \/ i \in 1 .. (k - 1)
    OBVIOUS
  <2>4. CASE f[k] <= d
    BY <2>1, <2>3, <2>4
  <2>5. CASE d <= f[k]
    <3>1. \A i \in 1 .. k : f[i] <= f[k]
      BY <2>1, <2>2, <2>3, <2>5
    <3>2. QED
      BY <2>2, <3>1
  <2>6. QED
    BY <2>2, <2>4, <2>5
<1>6. K \subseteq Nat /\ \A k : k \in K <=> k \in 0 .. n /\ ~Bounded(k)
  OBVIOUS
<1> HIDE DEF Bounded, K
<1>7. K = {}
  <2>1. SUFFICES ASSUME K # {} PROVE FALSE
    OBVIOUS
  <2>2. \E k \in K : \A j \in K : k <= j
    BY ONLY <1>6, <2>1, LeastFacts
  <2>3. PICK k \in K : \A j \in K : k <= j
    BY <2>2
  <2>4. k \in 1 .. n /\ k - 1 \in 0 .. n /\ ~(k <= k - 1)
    BY <1>4, <1>6, <2>3
  <2>5. Bounded(k - 1)
    BY <1>6, <2>3, <2>4
  <2>6. QED
    BY <1>5, <1>6, <2>3, <2>4, <2>5
<1>8. Bounded(n)
  BY <1>6, <1>7
<1>9. PICK d \in Devices \cup {0} : \A i \in 1 .. n : f[i] <= d
  BY <1>8 DEF Bounded
<1>10. QED
  BY <1>2, <1>9

\* The first tables are fine.
LEMMA InitTab == Init => TabOK(tab)
<1> SUFFICES ASSUME Init PROVE TabOK(tab)
  OBVIOUS
<1> DEFINE max == CHOOSE d \in Devices \cup {0} : \A e \in Devices : e <= d
<1>0. \E d : d = max
  OBVIOUS
<1>1. PICK highest : highest = max
  BY <1>0
<1>b. highest \in Devices \cup {0} /\ \A e \in Devices : e <= highest
  BY <1>1, MaxId
<1> DEFINE R == [d \in Devices |-> [mac |-> Mac[d], ip |-> Home[d], online |-> d \notin site.offline]]
           D == [d \in Devices |-> [ip |-> Home[d], old |-> None, placeholder |-> FALSE,
                                    online |-> d \notin site.offline, ifs |-> {}]]
<1>2. /\ Devices \in SUBSET Nat /\ highest \in Nat /\ \A d \in Devices : Home[d] \in Addresses /\ Mac[d] \in Macs
      /\ \A d, e \in Devices : Home[d] = Home[e] => d = e
  <2>1. Devices \subseteq Nat /\ Home \in [Devices -> Addresses] /\ Mac \in [Devices -> Macs] /\ Injective(Home)
    BY DevicesAssumption
  <2>2. highest \in Nat
    BY <1>b, <2>1
  <2>3. \A d, e \in Devices : Home[d] = Home[e] => d = e
    BY <2>1 DEF Injective
  <2>4. QED
    BY ONLY <2>1, <2>2, <2>3
<1>3. tab = [dev |-> D, disc |-> R, next |-> 1 + highest]
  BY <1>1 DEF Init
<1> HIDE DEF max
<1>4. R \in [Devices -> DiscRow]
  BY <1>2 DEF DiscRow
<1>5. D \in [Devices -> DevRow]
  BY <1>2 DEF DevRow, Place
<1>6. R \in Discs
  BY <1>2, <1>4, DiscsMade
<1>7. /\ \A d, e \in Devices : R[d].ip = R[e].ip => d = e
      /\ \A d, e \in Devices : D[d].ip = D[e].ip => d = e
      /\ DOMAIN R = Devices /\ DOMAIN D = Devices
  BY <1>2
<1> HIDE DEF R, D
<1>8. tab \in Tables /\ tab.dev = D /\ tab.disc = R /\ tab.next = 1 + highest
  BY <1>2, <1>3, <1>5, <1>6 DEF Tables
<1>9. \A r \in Devices : r < tab.next
  BY <1>b, <1>2, <1>8
<1>10. QED
  BY <1>7, <1>8, <1>9 DEF TabOK, OneEach

\* No session is at work at first.
LEMMA InitInv == Init => IInv
<1> SUFFICES ASSUME Init PROVE IInv
  OBVIOUS
<1>1. TabOK(tab)
  BY InitTab
<1>2. tab.next \in Nat /\ work = tab /\ work.next >= tab.next
  BY <1>1 DEF TabOK, Tables, Init
<1>3. site \in Sites /\ answers \in 0 .. MaxAnswers
  BY BoundsAssumption DEF Init
<1>4. Busy = {} /\ sess = [s \in Sessions |-> sess[s]] /\ \A s \in Sessions : sess[s] = Idle
  BY DEF Init, Busy, Idle
<1>5. writer = None /\ None \notin Sessions
  BY AddressesAssumption DEF Init
<1>6. \A s \in Sessions : Held(s)
  BY <1>4, <1>5 DEF Held
<1>7. last.outcome = "none" /\ last.news = {}
  BY DEF Init, NothingEnded
<1>8. QED
  BY <1>1, <1>2, <1>3, <1>4, <1>5, <1>6, <1>7 DEF IInv

\* A session begins, and those at work are no longer alone.
LEMMA StartKeeps ==
  ASSUME IInv, NEW s \in Sessions, NEW b \in Batches, Start(s, b)
  PROVE  IInv'
<1>1. /\ s \notin Busy /\ answers + Len(b) <= MaxAnswers /\ answers' = answers + Len(b)
      /\ last' = NothingEnded /\ site' = site /\ tab' = tab /\ work' = work /\ writer' = writer
  BY DEF Start
<1>2. b \in Seq(Host) /\ Len(b) \in Nat /\ OnceEach(b) /\ BatchOK(b)
  <2>1. b \in Seq(Host) /\ \A i, j \in DOMAIN b : b[i].ip = b[j].ip => i = j
    BY DEF Batches
  <2>2. BatchOK(b)
    BY <2>1 DEF BatchOK, Heard
  <2>3. QED
    BY <2>1, <2>2 DEF OnceEach
<1>3. PICK alone \in BOOLEAN : alone = (Busy = {})
  OBVIOUS
<1> DEFINE x == [busy |-> TRUE, tab |-> None, batch |-> b, hosts |-> b,
                 dev |-> <<>>, disc |-> <<>>, new |-> <<>>, news |-> {}, wrote |-> FALSE, failed |-> None,
                 alone |-> alone, odd |-> {}]
           y(t) == [sess[t] EXCEPT !.alone = FALSE]
<1>4. /\ sess' = [t \in Sessions |-> sess'[t]] /\ sess'[s] = x
      /\ \A t \in Busy : t # s => sess'[t] = y(t)
      /\ \A t \in Sessions : t # s /\ t \notin Busy => sess'[t] = sess[t]
  BY <1>3 DEF Start, Busy
<1>5. TabOK(tab) /\ tab \in Tables
  BY DEF IInv, TabOK
<1>6. Going(x, tab, tab.dev)
  <2>1. x = [busy |-> TRUE, tab |-> None, batch |-> b, hosts |-> b,
              dev |-> <<>>, disc |-> <<>>, new |-> <<>>, news |-> {}, wrote |-> FALSE, failed |-> None,
              alone |-> alone, odd |-> {}]
    OBVIOUS
  <2> HIDE DEF x
  <2>2. QED
    BY ONLY <1>2, <1>5, <2>1, alone \in BOOLEAN, GoingStarts
<1>7. x.busy /\ x.alone = alone /\ x.failed = None /\ ~x.wrote
  OBVIOUS
<1>8. ASSUME NEW t \in Busy
      PROVE  /\ Going(y(t), TablesSeen(t), tab.dev) /\ t \in Sessions
             /\ y(t).busy /\ ~y(t).alone /\ y(t).failed = sess[t].failed /\ y(t).wrote = sess[t].wrote
  <2>1. t \in Sessions
    BY DEF Busy
  <2>2. Going(sess[t], TablesSeen(t), tab.dev)
    BY <2>1 DEF IInv, Held, SessInv
  <2>3. sess[t] \in Session /\ sess[t].busy
    BY <2>2 DEF Going
  <2>4. TablesSeen(t) \in Tables
    BY DEF IInv, TabOK, TablesSeen
  <2>5. Going(y(t), TablesSeen(t), tab.dev)
    BY <2>2, <2>4, GoingTogether
  <2>6. y(t).busy /\ ~y(t).alone /\ y(t).failed = sess[t].failed /\ y(t).wrote = sess[t].wrote
    BY <2>3 DEF Session, SessionWith
  <2>7. QED
    BY <2>1, <2>5, <2>6
<1> HIDE DEF x, y
<1>9. Busy' = Busy \cup {s}
  <2>1. \A t \in Sessions : t # s /\ t \notin Busy => ~sess'[t].busy
    BY <1>4 DEF Busy
  <2>2. \A t \in Sessions : t \in Busy' <=> sess'[t].busy
    BY DEF Busy
  <2>3. \A t \in Sessions : t \in Busy' <=> t \in Busy \/ t = s
    BY <1>4, <1>7, <1>8, <2>1, <2>2
  <2>4. Busy \subseteq Sessions /\ Busy' \subseteq Sessions
    BY DEF Busy
  <2>5. QED
    BY <2>3, <2>4
<1>10. ASSUME NEW t \in Sessions PROVE Held(t)'
  <2>1. Held(t)
    BY DEF IInv
  <2>2. TablesSeen(t)' = TablesSeen(t) /\ tab'.dev = tab.dev
    BY <1>1 DEF TablesSeen
  <2>3. CASE t = s
    <3>1. writer # s
      BY <1>1, <2>1, <2>3 DEF Held
    <3>2. TablesSeen(s)' = tab
      BY <1>1, <3>1 DEF TablesSeen
    <3>3. SessInv(s)'
      BY <1>1, <1>4, <1>6, <3>2, Carried
    <3>4. sess'[s].alone => Busy' = {s}
      BY <1>3, <1>4, <1>7, <1>9
    <3>5. QED
      BY <1>1, <1>4, <1>7, <1>9, <2>3, <3>1, <3>3, <3>4 DEF Held
  <2>4. CASE t \in Busy
    <3>1. t # s /\ sess'[t] = y(t)
      BY <1>1, <1>4, <2>4
    <3>2. SessInv(t)'
      <4>1. Going(y(t), TablesSeen(t), tab.dev)
        BY <1>8, <2>4
      <4>2. QED
        BY <1>1, <2>2, <3>1, <4>1, Carried
    <3>3. QED
      BY <1>1, <1>8, <1>9, <2>1, <2>4, <3>1, <3>2 DEF Held
  <2>5. CASE t # s /\ t \notin Busy
    BY <1>1, <1>4, <1>9, <2>1, <2>5 DEF Held
  <2>6. QED
    BY <2>3, <2>4, <2>5
<1>11. answers' \in 0 .. MaxAnswers
  BY <1>1, <1>2, BoundsAssumption DEF IInv
<1>12. last'.outcome = "none" /\ last'.news = {}
  BY <1>1 DEF NothingEnded
<1>13. QED
  BY <1>1, <1>4, <1>10, <1>11, <1>12 DEF IInv

\* A session syncs an answer: it takes the write lock with its first flush, and gives it back
\* if one fails.
LEMMA SyncKeeps ==
  ASSUME IInv, NEW s \in Sessions, Sync(s)
  PROVE  IInv'
<1> DEFINE x == sess[s]
           t == TablesSeen(s)
           v == Seen(x, t)
           w == Synced(v, Head(x.hosts))
           lost == w.failed # None
           y == [w EXCEPT !.tab = None, !.hosts = IF lost THEN <<>> ELSE Tail(@), !.wrote = @ /\ ~lost,
                          !.odd = @ \cup Odd(v)]
           T == tab.dev
<1>1. /\ s \in Busy /\ x.hosts # <<>> /\ (w.wrote \/ lost => writer \in {None, s})
      /\ sess' = [sess EXCEPT ![s] = y]
      /\ writer' = IF w.wrote /\ ~lost THEN s ELSE IF writer = s THEN None ELSE writer
      /\ work' = IF w.wrote /\ ~lost THEN w.tab ELSE IF writer = s THEN tab ELSE work
      /\ last' = NothingEnded /\ site' = site /\ tab' = tab /\ answers' = answers
  <2>1. At(s) = v
    BY DEF At, Seen, TablesSeen
  <2>2. QED
    BY <2>1 DEF Sync, MayWrite
<1>2. /\ v = Seen(x, t) /\ w = Synced(v, Head(x.hosts)) /\ lost = (w.failed # None) /\ T = tab.dev /\ t = TablesSeen(s)
      /\ y = [w EXCEPT !.tab = None, !.hosts = IF lost THEN <<>> ELSE Tail(@), !.wrote = @ /\ ~lost,
                       !.odd = @ \cup Odd(v)]
  OBVIOUS
<1>3. Held(s) /\ SessInv(s) /\ sess = [r \in Sessions |-> sess[r]]
  BY <1>1 DEF IInv, Held
<1>4. t \in Tables /\ TabOK(tab) /\ TabOK(work) /\ T \in [Devices -> DevRow] /\ tab.next \in Nat /\ Going(x, t, T)
  BY <1>3 DEF IInv, TabOK, TablesSeen, Tables, SessInv
<1>5. x.alone => Busy = {s}
  BY <1>1, <1>3 DEF Held
<1>6. writer = s <=> x.wrote
  BY <1>1, <1>3 DEF Held
<1>7. s # None /\ (writer = None => work = tab) /\ work.next >= tab.next /\ writer \in Sessions \cup {None}
  BY AddressesAssumption DEF IInv
<1> HIDE DEF v, w, lost, y, T, t, x
<1>8. /\ y.busy /\ y.alone = x.alone /\ y.wrote = (w.wrote /\ ~lost)
      /\ y.failed = w.failed /\ (y.failed # None => ~y.wrote)
      /\ lost => \A u : Going(y, u, T)
      /\ ~lost => /\ Going(y, w.tab, T) /\ TabOK(w.tab) /\ w.tab.next >= t.next
                  /\ x.wrote => w.wrote
                  /\ ~w.wrote => w.tab = t
  <2>1. Passed(x, t, T, w, lost, y)
    BY ONLY <1>1, <1>2, <1>4, GoingSynced
  <2>2. QED
    BY ONLY <2>1 DEF Passed
<1>9. sess' = [r \in Sessions |-> IF r = s THEN y ELSE sess[r]]
  BY <1>1, <1>3
<1>10. Busy' = Busy
  <2>1. x.busy
    BY <1>1 DEF Busy, x
  <2>2. QED
    BY <1>8, <1>9, <2>1 DEF Busy, x
<1>11. /\ TabOK(work') /\ work'.next >= tab.next /\ writer' \in Sessions \cup {None} /\ (writer' = None => work' = tab)
  <2>1. CASE w.wrote /\ ~lost
    <3>1. TabOK(w.tab) /\ w.tab.next >= t.next
      BY <1>8, <2>1
    <3>2. t.next >= tab.next /\ t.next \in Nat /\ w.tab.next \in Nat
      <4>1. t = work \/ t = tab
        BY <1>2 DEF TablesSeen
      <4>2. QED
        BY <1>4, <1>7, <3>1, <4>1 DEF TabOK, Tables
    <3>3. QED
      BY <1>1, <1>4, <1>7, <2>1, <3>1, <3>2
  <2>2. CASE ~(w.wrote /\ ~lost)
    BY <1>1, <1>4, <1>7, <2>2
  <2>3. QED
    BY <2>1, <2>2
<1>12. ASSUME NEW r \in Sessions PROVE Held(r)'
  <2>1. Held(r) /\ r # None
    BY AddressesAssumption DEF IInv
  <2>2. CASE r = s
    <3>1. SessInv(s)'
      <4>1. sess'[s] = y /\ site' = site /\ T = tab'.dev
        BY <1>1, <1>2, <1>9
      <4>2. Going(y, TablesSeen(s)', T)
        <5>1. CASE lost
          BY <1>8, <5>1
        <5>2. CASE ~lost /\ w.wrote
          <6>1. TablesSeen(s)' = w.tab
            BY <1>1, <5>2 DEF TablesSeen
          <6>2. QED
            BY <1>8, <5>2, <6>1
        <5>3. CASE ~lost /\ ~w.wrote
          <6>1. writer # s /\ writer' = writer /\ t = tab
            BY <1>1, <1>2, <1>6, <1>8, <5>3 DEF TablesSeen
          <6>2. TablesSeen(s)' = w.tab
            BY <1>1, <1>8, <5>3, <6>1 DEF TablesSeen
          <6>3. QED
            BY <1>8, <5>3, <6>2
        <5>4. QED
          BY <5>1, <5>2, <5>3
      <4>3. QED
        BY ONLY <4>1, <4>2, Carried
    <3>2. writer' = s <=> y.wrote
      BY <1>1, <1>6, <1>7, <1>8
    <3>3. QED
      BY <1>1, <1>5, <1>8, <1>9, <1>10, <2>2, <3>1, <3>2 DEF Held
  <2>3. CASE r # s
    <3>1. sess'[r] = sess[r]
      BY <1>9, <2>3
    <3>2. writer' = r <=> writer = r
      BY <1>1, <1>7, <2>1, <2>3
    <3>3. TablesSeen(r)' = TablesSeen(r)
      <4>1. CASE writer = r
        <5>1. ~(w.wrote \/ lost)
          BY <1>1, <1>7, <2>1, <2>3, <4>1
        <5>2. QED
          BY <1>1, <2>3, <4>1, <5>1 DEF TablesSeen
      <4>2. CASE writer # r
        BY <1>1, <3>2, <4>2 DEF TablesSeen
      <4>3. QED
        BY <4>1, <4>2
    <3>4. ASSUME r \in Busy PROVE SessInv(r)'
      <4>1. Going(sess[r], TablesSeen(r), tab.dev)
        BY <2>1, <3>4 DEF Held, SessInv
      <4>2. QED
        BY <1>1, <3>1, <3>3, <4>1, Carried
    <3>5. QED
      BY <1>10, <2>1, <3>1, <3>2, <3>4 DEF Held
  <2>4. QED
    BY <2>2, <2>3
<1>13. last'.outcome = "none" /\ last'.news = {}
  BY <1>1 DEF NothingEnded
<1>14. QED
  BY <1>1, <1>4, <1>9, <1>11, <1>12, <1>13 DEF IInv

\* A session ends; what the others see has not changed, or is committed.
LEMMA LeftBy ==
  ASSUME IInv, NEW s \in Sessions, sess' = [sess EXCEPT ![s] = Idle], site' = site, answers' = answers,
         TabOK(tab'), TabOK(work'), work'.next >= tab'.next, writer' \in Sessions \cup {None},
         writer' = None => work' = tab', writer' # s, \A r \in Sessions \ {s} : writer' = r <=> writer = r,
         \A r \in Busy \ {s} : Going(sess[r], TablesSeen(r)', tab'.dev),
         last'.outcome \in {"none", "stored", "devices", "discovered", "locked"}, last'.news \subseteq NewsOf
  PROVE  IInv'
<1>1. sess' = [r \in Sessions |-> IF r = s THEN Idle ELSE sess[r]]
  BY DEF IInv
<1>2. Busy' = Busy \ {s}
  BY <1>1 DEF Busy, Idle
<1>3. ASSUME NEW r \in Sessions PROVE Held(r)'
  <2>1. Held(r)
    BY DEF IInv
  <2>2. CASE r = s
    BY <1>1, <1>2, <2>2 DEF Held
  <2>3. CASE r # s
    <3>1. sess'[r] = sess[r]
      BY <1>1, <2>3
    <3>2. ASSUME r \in Busy PROVE SessInv(r)'
      <4>1. Going(sess[r], TablesSeen(r)', tab'.dev)
        BY <2>3, <3>2
      <4>2. QED
        BY <3>1, <4>1, Carried
    <3>3. QED
      BY <1>2, <2>1, <2>3, <3>1, <3>2 DEF Held
  <2>4. QED
    BY <2>2, <2>3
<1>4. QED
  BY <1>1, <1>3 DEF IInv

\* What a commit writes, and what it reports.
LEMMA CommitFacts ==
  ASSUME IInv, NEW s \in Sessions, Commit(s), NEW w, w = Flush(At(s))
  PROVE  /\ Committed(sess[s], TablesSeen(s), tab.dev, w) /\ s \in Busy /\ writer \in {None, s}
         /\ TablesSeen(s).next >= tab.next
         /\ site' = site /\ answers' = answers /\ work' = tab' /\ writer' = None /\ sess' = [sess EXCEPT ![s] = Idle]
         /\ tab' = (IF w.failed = None THEN w.tab ELSE tab)
         /\ last' = [outcome |-> IF w.failed = None THEN "stored" ELSE w.failed, hosts |-> sess[s].batch,
                     alone |-> sess[s].alone, odd |-> sess[s].odd, news |-> IF w.failed = None THEN w.news ELSE {}]
<1>1. At(s) = Seen(sess[s], TablesSeen(s))
  BY DEF At, Seen, TablesSeen
<1>2. /\ s \in Busy /\ sess[s].hosts = <<>> /\ sess[s].failed = None /\ writer \in {None, s}
      /\ site' = site /\ answers' = answers /\ work' = tab' /\ writer' = None /\ sess' = [sess EXCEPT ![s] = Idle]
      /\ tab' = (IF w.failed = None THEN w.tab ELSE tab)
      /\ last' = [outcome |-> IF w.failed = None THEN "stored" ELSE w.failed, hosts |-> sess[s].batch,
                  alone |-> sess[s].alone, odd |-> sess[s].odd, news |-> IF w.failed = None THEN w.news ELSE {}]
  BY DEF Commit, MayWrite, Ended, Told
<1>3. /\ Going(sess[s], TablesSeen(s), tab.dev) /\ TablesSeen(s) \in Tables
      /\ TablesSeen(s).next >= tab.next
  <2>1. Held(s) /\ TabOK(tab) /\ TabOK(work) /\ work.next >= tab.next
    BY DEF IInv
  <2>2. tab.next \in Nat
    BY <2>1 DEF TabOK, Tables
  <2>3. QED
    BY <1>2, <2>1, <2>2 DEF Held, SessInv, TabOK, TablesSeen
<1>4. w = Flush(Seen(sess[s], TablesSeen(s)))
  BY <1>1
<1>5. Committed(sess[s], TablesSeen(s), tab.dev, w)
  BY ONLY <1>2, <1>3, <1>4, GoingCommits
<1>6. QED
  BY <1>2, <1>3, <1>5

\* The commit.
LEMMA CommitKeeps ==
  ASSUME IInv, NEW s \in Sessions, Commit(s)
  PROVE  IInv'
<1> DEFINE w == Flush(At(s))
           x == sess[s]
           t == TablesSeen(s)
<1>1. w = Flush(At(s))
  OBVIOUS
<1> HIDE DEF w
<1>2. /\ Committed(x, t, tab.dev, w) /\ s \in Busy /\ writer \in {None, s}
      /\ t.next >= tab.next
      /\ site' = site /\ answers' = answers /\ work' = tab' /\ writer' = None /\ sess' = [sess EXCEPT ![s] = Idle]
      /\ tab' = (IF w.failed = None THEN w.tab ELSE tab)
      /\ last' = [outcome |-> IF w.failed = None THEN "stored" ELSE w.failed, hosts |-> sess[s].batch,
                  alone |-> sess[s].alone, odd |-> sess[s].odd, news |-> IF w.failed = None THEN w.news ELSE {}]
  BY <1>1, CommitFacts
<1>3. TabOK(tab) /\ tab \in Tables /\ tab.next \in Nat /\ s # None
  BY AddressesAssumption DEF IInv, TabOK, Tables
<1> HIDE DEF t
<1>4. /\ w.news \subseteq NewsOf /\ w.failed \in Failures
      /\ t.next \in Nat /\ (w.failed = None => TabOK(w.tab) /\ w.tab.next >= t.next)
  BY <1>2 DEF Committed
<1>5. /\ TabOK(tab') /\ tab'.next \in Nat /\ tab'.next >= tab.next
  <2>1. CASE w.failed = None
    <3>1. TabOK(w.tab) /\ w.tab.next >= t.next
      BY <1>4, <2>1
    <3>2. w.tab.next \in Nat
      BY <3>1 DEF TabOK, Tables
    <3>3. QED
      BY <1>2, <1>3, <1>4, <2>1, <3>1, <3>2
  <2>2. CASE w.failed # None
    BY <1>2, <1>3, <2>2
  <2>3. QED
    BY <2>1, <2>2
<1>6. ASSUME NEW r \in Busy \ {s} PROVE Going(sess[r], TablesSeen(r)', tab'.dev)
  <2>1. r \in Sessions /\ Held(r) /\ r # None
    BY AddressesAssumption DEF IInv, Busy
  <2>2. writer # r /\ ~sess[r].wrote /\ ~sess[r].alone
    BY <1>2, <2>1 DEF Held
  <2>3. Going(sess[r], tab, tab.dev)
    BY <2>1, <2>2 DEF Held, SessInv, TablesSeen
  <2>4. TablesSeen(r)' = tab'
    BY <1>2, <2>1 DEF TablesSeen
  <2>5. Going(sess[r], tab', tab'.dev)
    <3>1. \E u : u = tab'
      OBVIOUS
    <3>2. PICK u : u = tab'
      BY <3>1
    <3>3. Going(sess[r], u, u.dev)
      BY <1>3, <1>5, <2>2, <2>3, <3>2, GoingElsewhere
    <3>4. QED
      BY <3>2, <3>3
  <2>6. QED
    BY <2>4, <2>5
<1>7. /\ last'.outcome \in {"none", "stored", "devices", "discovered", "locked"}
      /\ last'.news \subseteq NewsOf
  BY <1>2, <1>4 DEF Failures
<1>8. \A r \in Sessions \ {s} : writer' = r <=> writer = r
  BY <1>2, AddressesAssumption
<1>9. /\ TabOK(work') /\ work'.next >= tab'.next /\ writer' \in Sessions \cup {None} /\ (writer' = None => work' = tab')
      /\ writer' # s
  <2>1. work' = tab' /\ writer' = None
    BY <1>2
  <2>2. work'.next >= tab'.next
    BY <1>5, <2>1
  <2>3. QED
    BY <1>3, <1>5, <2>1, <2>2
<1>10. sess' = [sess EXCEPT ![s] = Idle] /\ site' = site /\ answers' = answers
  BY <1>2
<1>11. QED
  BY ONLY IInv, s \in Sessions, <1>5, <1>6, <1>7, <1>8, <1>9, <1>10, LeftBy

\* A failed or a locked commit.
LEMMA NoCommitKeeps ==
  ASSUME IInv, NEW s \in Sessions, CommitRaises(s) \/ CommitLocked(s)
  PROVE  IInv' /\ last'.outcome \in {"devices", "discovered", "locked"} /\ (last'.outcome = "locked" \/ last'.news = {})
         /\ (last'.outcome # "locked" => sess[s].failed # None)
         /\ last'.alone = sess[s].alone /\ last'.odd = sess[s].odd /\ s \in Busy /\ tab' = tab /\ site' = site
<1>1. /\ s \in Busy /\ sess' = [sess EXCEPT ![s] = Idle]
      /\ site' = site /\ tab' = tab /\ work' = work /\ writer' = writer /\ answers' = answers
  BY DEF CommitRaises, CommitLocked
<1>2. Held(s) /\ TabOK(tab) /\ TabOK(work) /\ work.next >= tab.next
  BY DEF IInv
<1>3. writer # s
  BY <1>1, <1>2 DEF CommitRaises, CommitLocked, Held
<1>4. sess[s].news \subseteq NewsOf /\ sess[s].failed \in Failures
  <2>1. sess[s] \in Session
    BY <1>1, <1>2 DEF Held, SessInv, Going
  <2>2. QED
    BY <2>1 DEF Session, SessionWith
<1>5. /\ last'.outcome \in {"devices", "discovered", "locked"} /\ last'.news \subseteq NewsOf
      /\ last'.outcome = "locked" \/ last'.news = {}
      /\ last'.outcome # "locked" => sess[s].failed # None
      /\ last'.alone = sess[s].alone /\ last'.odd = sess[s].odd
  BY <1>4 DEF CommitRaises, CommitLocked, Ended, Told, Failures
<1>6. ASSUME NEW r \in Busy \ {s} PROVE Going(sess[r], TablesSeen(r)', tab'.dev)
  <2>1. r \in Sessions /\ Held(r)
    BY DEF IInv, Busy
  <2>2. TablesSeen(r)' = TablesSeen(r)
    BY <1>1 DEF TablesSeen
  <2>3. QED
    BY <1>1, <2>1, <2>2 DEF Held, SessInv
<1>7. IInv'
  <2>1. writer \in Sessions \cup {None} /\ (writer = None => work = tab)
    BY DEF IInv
  <2>2. QED
    BY <1>1, <1>2, <1>3, <1>5, <1>6, <2>1, LeftBy
<1>8. QED
  BY <1>1, <1>5, <1>7

-----------------------------------------------------------------------------
(* The properties.                                                           *)

Truths == EveryHostListed /\ ToldIsStored /\ PlainNeverFails /\ FollowsMac

\* What TakenOver and StaysInSubnet say of a step.
TakenStep ==
  \A d \in Devices :
    last'.odd = {} /\ ~tab.dev[d].placeholder /\ tab'.dev[d].placeholder
      => \E e \in Devices \ {d} : tab'.dev[e].ip = tab.dev[d].ip
SubnetStep ==
  \A d \in Devices :
    last'.alone /\ last'.odd = {} /\ tab.dev[d].online /\ ~tab.dev[d].placeholder
      => ~Across(tab.dev[d].ip, tab'.dev[d].ip) \/ tab'.dev[d].placeholder

\* While nothing has ended there is nothing to tell.
LEMMA NothingTrue == last = NothingEnded => Truths
BY DEF NothingEnded, Truths, EveryHostListed, ToldIsStored, PlainNeverFails, FollowsMac, Stored, Plain

\* Nor is there after a step that ends nothing.
LEMMA NothingTrueNext == last' = NothingEnded => Truths'
BY DEF NothingEnded, Truths, EveryHostListed, ToldIsStored, PlainNeverFails, FollowsMac, Stored, Plain

\* A step that leaves the tables alone moves no device.
LEMMA NothingMoves == tab' = tab => TakenStep /\ SubnetStep
BY DEF TakenStep, SubnetStep, Across

\* A commit tells and does what its batch found.
LEMMA CommitTrue ==
  ASSUME IInv, NEW s \in Sessions, Commit(s)
  PROVE  Truths' /\ TakenStep /\ SubnetStep
<1> DEFINE w == Flush(At(s))
           x == sess[s]
<1>1. w = Flush(At(s))
  OBVIOUS
<1> HIDE DEF w
<1>2. /\ Committed(x, TablesSeen(s), tab.dev, w)
      /\ site' = site /\ tab' = (IF w.failed = None THEN w.tab ELSE tab)
      /\ last' = [outcome |-> IF w.failed = None THEN "stored" ELSE w.failed, hosts |-> x.batch,
                  alone |-> x.alone, odd |-> x.odd, news |-> IF w.failed = None THEN w.news ELSE {}]
  BY <1>1, CommitFacts
<1>3. /\ w.failed \in Failures
      /\ w.failed = None /\ x.odd = {} => TrueNews(w.news, w.tab) /\ TakenIn(tab.dev, w.tab)
      /\ x.alone /\ x.odd = {} =>
           w.failed = None /\ AllListed(x.batch, w.tab) /\ AllFollow(x.batch, w.tab) /\ InSubnet(tab.dev, w.tab)
  BY <1>2 DEF Committed
<1> HIDE DEF x
<1>4. /\ last'.hosts = x.batch /\ last'.alone = x.alone /\ last'.odd = x.odd
      /\ last'.outcome = (IF w.failed = None THEN "stored" ELSE w.failed)
      /\ last'.news = IF w.failed = None THEN w.news ELSE {}
  BY <1>2
<1>5. w.failed # None => last'.outcome \in {"devices", "discovered"}
  BY <1>3, <1>4 DEF Failures
<1>6. Answers' = Heard(x.batch)
  BY <1>4 DEF Answers, Heard
<1>7. Plain' => x.alone /\ x.odd = {} /\ w.failed = None /\ last'.outcome = "stored" /\ tab' = w.tab
  BY <1>2, <1>3, <1>4 DEF Plain
<1>8. Stored' => Plain'
  BY DEF Stored, Plain
<1>9. EveryHostListed'
  BY <1>3, <1>6, <1>7, <1>8 DEF EveryHostListed, AllListed
<1>10. ToldIsStored'
  <2>1. CASE w.failed = None
    BY <1>2, <1>3, <1>4, <2>1 DEF ToldIsStored, TrueNews
  <2>2. CASE w.failed # None
    BY <1>4, <2>2 DEF ToldIsStored
  <2>3. QED
    BY <2>1, <2>2
<1>11. PlainNeverFails'
  BY <1>7 DEF PlainNeverFails, Plain
<1>12. FollowsMac'
  <2>1. ASSUME Stored', NEW h \in Answers', NEW d \in Devices, Mac[d] = h.mac, h.mac \notin site.unraid,
               tab'.dev[d].ifs = {}, tab'.dev[d].ip \notin site.gateways
        PROVE  \/ tab'.dev[d].ip = h.ip /\ ~tab'.dev[d].placeholder
               \/ \E e \in Devices : h.ip \in tab'.dev[e].ifs
               \/ ~tab'.dev[d].placeholder /\ tab'.dev[d].online /\ Across(tab'.dev[d].ip, h.ip)
    <3>1. AllFollow(x.batch, w.tab) /\ tab' = w.tab /\ h \in Heard(x.batch)
      BY <1>3, <1>6, <1>7, <1>8, <2>1
    <3>2. QED
      BY <2>1, <3>1 DEF AllFollow, IsGateway
  <2>2. QED
    BY <1>2, <2>1 DEF FollowsMac, Across, Segment, IsGateway
<1>13. TakenStep
  <2>1. CASE w.failed = None
    BY <1>2, <1>3, <1>4, <2>1 DEF TakenStep, TakenIn
  <2>2. CASE w.failed # None
    BY <1>2, <2>2, NothingMoves
  <2>3. QED
    BY <2>1, <2>2
<1>14. SubnetStep
  BY <1>2, <1>3, <1>4 DEF SubnetStep, InSubnet
<1>15. QED
  BY <1>9, <1>10, <1>11, <1>12, <1>13, <1>14 DEF Truths

\* A failed or a locked commit does nothing, and tells nothing or was locked out.
LEMMA NoCommitTrue ==
  ASSUME IInv, NEW s \in Sessions, CommitRaises(s) \/ CommitLocked(s)
  PROVE  Truths' /\ TakenStep /\ SubnetStep
<1>1. /\ last'.outcome \in {"devices", "discovered", "locked"} /\ (last'.outcome = "locked" \/ last'.news = {})
      /\ (last'.outcome # "locked" => sess[s].failed # None)
      /\ last'.alone = sess[s].alone /\ last'.odd = sess[s].odd /\ s \in Busy /\ tab' = tab
  BY NoCommitKeeps
<1>2. ~Stored'
  BY <1>1 DEF Stored
<1>3. ToldIsStored'
  BY <1>1 DEF ToldIsStored
<1>4. PlainNeverFails'
  <2>1. sess[s].alone /\ sess[s].odd = {} => sess[s].failed = None
    BY <1>1 DEF IInv, Held, SessInv, Going
  <2>2. QED
    BY <1>1, <2>1 DEF PlainNeverFails, Plain
<1>5. QED
  BY <1>1, <1>2, <1>3, <1>4, NothingMoves DEF Truths, EveryHostListed, FollowsMac

\* Every step keeps the invariant and does what TakenOver and StaysInSubnet say.
LEMMA Inductive == IInv /\ Truths /\ [Next]_vars => IInv' /\ Truths' /\ ((TakenStep /\ SubnetStep) \/ UNCHANGED vars)
<1> SUFFICES ASSUME IInv, Truths, [Next]_vars
             PROVE  IInv' /\ Truths' /\ ((TakenStep /\ SubnetStep) \/ UNCHANGED vars)
  OBVIOUS
<1>1. ASSUME NEW s \in Sessions, NEW b \in Batches, Start(s, b)
      PROVE  IInv' /\ Truths' /\ TakenStep /\ SubnetStep
  <2>1. last' = NothingEnded /\ tab' = tab
    BY <1>1 DEF Start
  <2>2. QED
    BY <1>1, <2>1, StartKeeps, NothingTrueNext, NothingMoves
<1>2. ASSUME NEW s \in Sessions, Sync(s)
      PROVE  IInv' /\ Truths' /\ TakenStep /\ SubnetStep
  <2>1. last' = NothingEnded /\ tab' = tab
    BY <1>2 DEF Sync
  <2>2. QED
    BY <1>2, <2>1, SyncKeeps, NothingTrueNext, NothingMoves
<1>3. ASSUME NEW s \in Sessions, Commit(s)
      PROVE  IInv' /\ Truths' /\ TakenStep /\ SubnetStep
  BY <1>3, CommitKeeps, CommitTrue
<1>4. ASSUME NEW s \in Sessions, CommitRaises(s) \/ CommitLocked(s)
      PROVE  IInv' /\ Truths' /\ TakenStep /\ SubnetStep
  BY <1>4, NoCommitKeeps, NoCommitTrue
<1>5. CASE UNCHANGED vars
  <2>1. /\ site' = site /\ tab' = tab /\ work' = work /\ writer' = writer /\ sess' = sess /\ last' = last
        /\ answers' = answers
    BY <1>5 DEF vars
  <2>2. ASSUME NEW s \in Sessions PROVE Held(s)'
    <3>1. Held(s) /\ Busy' = Busy
      BY <2>1 DEF IInv, Busy
    <3>2. TablesSeen(s)' = TablesSeen(s)
      BY <2>1 DEF TablesSeen
    <3>3. SessInv(s) => SessInv(s)'
      BY <2>1, <3>2, Carried DEF SessInv
    <3>4. QED
      BY <2>1, <3>1, <3>3 DEF Held
  <2>3. IInv'
    BY <2>1, <2>2 DEF IInv
  <2>4. Truths'
    BY <2>1 DEF Truths, EveryHostListed, ToldIsStored, PlainNeverFails, FollowsMac, Stored, Plain, Answers,
                Across, Segment, IsGateway
  <2>5. QED
    BY <1>5, <2>3, <2>4
<1>6. QED
  BY <1>1, <1>2, <1>3, <1>4, <1>5 DEF Next

\* The tables and every session are fine in every state, and what ended last ended truly
\* (sync_hosts_batch).
THEOREM InventoryInvariant == Spec => [](IInv /\ Truths)
<1>1. Init => IInv /\ Truths
  BY InitInv, NothingTrue DEF Init
<1>2. IInv /\ Truths /\ [Next]_vars => IInv' /\ Truths'
  BY Inductive
<1>3. QED
  BY <1>1, <1>2, PTL DEF Spec

\* The invariant gives the types.
LEMMA TypesHold == IInv => TypeOK
<1> SUFFICES ASSUME IInv PROVE TypeOK
  OBVIOUS
<1>1. ASSUME NEW rows, TabOK(rows)
      PROVE  rows.dev \in [Devices -> DevRow] /\ \A r \in DOMAIN rows.disc : rows.disc[r] \in DiscRow /\ r < rows.next
  <2>1. rows.disc \in Discs /\ rows.dev \in [Devices -> DevRow]
    BY <1>1 DEF TabOK, Tables
  <2>2. rows.disc \in [DOMAIN rows.disc -> DiscRow]
    BY <2>1, DiscsFacts
  <2>3. QED
    BY <1>1, <2>1, <2>2 DEF TabOK
<1>2. TabOK(tab) /\ TabOK(work)
  BY DEF IInv
<1>3. \A rows \in {tab, work} :
       /\ rows.dev \in [Devices -> DevRow]
       /\ \A r \in DOMAIN rows.disc : rows.disc[r] \in DiscRow /\ r < rows.next
  BY <1>1, <1>2
<1>4. QED
  BY <1>3 DEF TypeOK, IInv, Busy

\* The tables hold what answered and what was announced: however the batches overlap, what
\* one that met no odd case announces is in the tables, and every address that answered in a
\* plain one has a discovered host (sync_hosts_batch).
THEOREM ListAlwaysTrue == Spec => []ListIsTrue
<1>1. IInv /\ Truths => ListIsTrue
  BY TypesHold DEF Truths, ListIsTrue
<1>2. QED
  BY <1>1, InventoryInvariant, PTL

\* A device follows its MAC (_match_dashboard_device, _keeps_ip_across_subnets).
THEOREM DevicesFollow == Spec => []FollowsMac
<1>1. IInv /\ Truths => FollowsMac
  BY DEF Truths
<1>2. QED
  BY <1>1, InventoryInvariant, PTL

\* A plain batch meets no address in use (_resolve_ip_conflict, _upsert_discovered_host).
THEOREM PlainAlwaysStored == Spec => []PlainNeverFails
<1>1. IInv /\ Truths => PlainNeverFails
  BY DEF Truths
<1>2. QED
  BY <1>1, InventoryInvariant, PTL

\* A device becomes a placeholder in a commit only that gives its address to another
\* (_resolve_ip_conflict), also when batches overlap.
THEOREM TakenOverOnly == Spec => TakenOver
<1>1. IInv /\ Truths /\ [Next]_vars =>
        [\A d \in Devices :
           last'.odd = {} /\ ~tab.dev[d].placeholder /\ tab'.dev[d].placeholder
             => \E e \in Devices \ {d} : tab'.dev[e].ip = tab.dev[d].ip]_vars
  BY Inductive DEF TakenStep
<1>2. QED
  BY <1>1, InventoryInvariant, PTL DEF Spec, TakenOver

\* A router that answers in several subnets stays in its own (_keeps_ip_across_subnets).
THEOREM RoutersStay == Spec => StaysInSubnet
<1>1. IInv /\ Truths /\ [Next]_vars =>
        [\A d \in Devices :
           last'.alone /\ last'.odd = {} /\ tab.dev[d].online /\ ~tab.dev[d].placeholder
             => ~Across(tab.dev[d].ip, tab'.dev[d].ip) \/ tab'.dev[d].placeholder]_vars
  BY Inductive DEF SubnetStep
<1>2. QED
  BY <1>1, InventoryInvariant, PTL DEF Spec, StaysInSubnet
=============================================================================
