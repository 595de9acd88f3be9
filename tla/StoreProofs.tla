----------------------------- MODULE StoreProofs -----------------------------
(***************************************************************************)
(* TLAPS proofs about the store: the catalog, repository sets, and the     *)
(* documents of a project.                                                 *)
(***************************************************************************)
EXTENDS Services, ListProofs

\* A step of the services is one of the service that is looked at.
LEMMA StoreSteps ==
    ASSUME [Next]_vars
    PROVE  /\ service' = service
           /\ service = "catalog" => [Catalog!Next]_(Catalog!vars)
           /\ service = "sync" => [Sync!Next]_(Sync!vars)
BY DEF Next, vars, Catalog!vars, Sync!vars

LEMMA StoreInits ==
    ASSUME Init
    PROVE  /\ service = "catalog" => Catalog!Init
           /\ service = "sync" => Sync!Init
BY DEF Init

-----------------------------------------------------------------------------
(* The catalog of the store.                                               *)

Catalogs == [version : [RecordKey -> Nat], sets : SUBSET Catalog!Set, at : Nat]
Writers == [step : {"idle", "save", "make", "write"}, key : RecordKey, copy : Catalogs]
CatalogPast ==
    [changes : Nat, restarts : Nat, known : SUBSET RecordKey, unsaved : [RecordKey -> Nat],
     late : SUBSET RecordKey, newest : Nat, stale : BOOLEAN]

CatalogTypeOK ==
    /\ memory \in Catalogs /\ disk \in Catalogs
    /\ thread \in [Actor -> Writers]
    /\ past \in CatalogPast

\* What a catalog holds without what it belongs to, or without listing it, is
\* known to be late, wherever the catalog is.
Rooted(c, late) == Catalog!Orphans(c, Catalog!Owned) \cup Catalog!Unlisted(c) \subseteq late
AllRooted ==
    /\ Rooted(memory, past.late) /\ Rooted(disk, past.late)
    /\ \A w \in Actor : Rooted(thread[w].copy, past.late)

Writing(w) == thread[w].step = "write"
Making(w) == thread[w].step = "make"

\* Catalogs are dated by the change that made them: of one date there is one.
Dated ==
    /\ memory.at <= past.changes /\ disk.at <= memory.at /\ past.newest <= memory.at
    /\ disk.at = memory.at => disk.version = memory.version
    /\ ~past.stale => disk.at = past.newest
    /\ \A w \in Actor : Writing(w) =>
         /\ thread[w].copy.at <= memory.at
         /\ thread[w].copy.at = memory.at => thread[w].copy.version = memory.version

\* The last change of a record is not after t: the catalogs that are as new have
\* it, whether they are being written or were written last.
Settled(k, t) ==
    /\ \A w \in Actor : Writing(w) /\ thread[w].copy.at >= t =>
         thread[w].copy.version[k] = memory.version[k]
    /\ ~past.stale /\ past.newest >= t => disk.version[k] = memory.version[k]

\* There is a catalog as new as t, or a change then that did not persist.
Reached(k, t) ==
    \/ t <= past.newest \/ t <= past.unsaved[k]
    \/ \E w \in Actor : Writing(w) /\ t <= thread[w].copy.at

\* The last change of a record is about to be written, or has been, or was one
\* that does not persist.
Carried ==
    \/ \E w \in Actor : Making(w)
    \/ \A k \in RecordKey : \E t \in Nat : Settled(k, t) /\ Reached(k, t)

CatalogIInv == CatalogTypeOK /\ AllRooted /\ Dated /\ Carried
LEMMA NoCopies == Catalog!Empty \in Catalogs /\ Catalog!Free \in Writers
BY RecordsAssumption DEF Catalogs, Writers, Catalog!Empty, Catalog!Free, Catalog!Set

\* The types of what the actions make of the past.
LEMMA PastDeletes ==
    ASSUME NEW p \in CatalogPast, NEW n \in Nat, NEW u \in [RecordKey -> Nat]
    PROVE  [p EXCEPT !.changes = n, !.unsaved = u] \in CatalogPast
BY DEF CatalogPast

LEMMA PastTouches ==
    ASSUME NEW p \in CatalogPast, NEW n \in Nat, NEW s, s \subseteq RecordKey,
           NEW u \in [RecordKey -> Nat], NEW l, l \subseteq RecordKey
    PROVE  [p EXCEPT !.changes = n, !.known = s, !.unsaved = u, !.late = l] \in CatalogPast
BY DEF CatalogPast

LEMMA PastSaves ==
    ASSUME NEW p \in CatalogPast, NEW n \in Nat, NEW s, s \subseteq RecordKey,
           NEW l, l \subseteq RecordKey
    PROVE  [p EXCEPT !.changes = n, !.known = s, !.late = l] \in CatalogPast
BY DEF CatalogPast

LEMMA PastRestarts ==
    ASSUME NEW p \in CatalogPast, NEW n \in Nat, NEW r \in Nat, NEW u \in [RecordKey -> Nat]
    PROVE  [p EXCEPT !.restarts = n, !.newest = r, !.stale = FALSE, !.unsaved = u]
             \in CatalogPast
BY DEF CatalogPast

LEMMA CatalogInit == Catalog!Init => CatalogIInv
<1> SUFFICES ASSUME Catalog!Init PROVE CatalogIInv OBVIOUS
<1>1. CatalogTypeOK
  BY NoCopies DEF Catalog!Init, CatalogTypeOK, CatalogPast
<1>2. AllRooted
  BY RecordsAssumption DEF Catalog!Init, AllRooted, Rooted, Catalog!Orphans, Catalog!Unlisted,
     Catalog!Present, Catalog!Empty, Catalog!Free, Catalog!Set, Catalog!Owned
<1>3. Dated
  BY DEF Catalog!Init, Dated, Writing, Catalog!Free, Catalog!Empty
<1>4. Carried
  <2>1. \A k \in RecordKey : Settled(k, 0) /\ Reached(k, 0)
    BY DEF Catalog!Init, Settled, Reached, Writing, Catalog!Free
  <2>2. QED BY <2>1 DEF Carried
<1>5. QED BY <1>1, <1>2, <1>3, <1>4 DEF CatalogIInv

\* What a save makes of the memory.
LEMMA StoredType ==
    ASSUME CatalogTypeOK, NEW w \in Actor
    PROVE  /\ Catalog!Stored(w) \in Catalogs
           /\ Catalog!Stored(w).at = past.changes + 1
BY DEF CatalogTypeOK, CatalogPast, Writers, Catalogs, Catalog!Stored, Catalog!Set

\* What is written is the catalog as it was made, but for what it has live.
LEMMA CatalogWritten ==
    ASSUME CatalogTypeOK, NEW w \in Actor, Catalog!WriteCatalog(w)
    PROVE  /\ disk' \in Catalogs
           /\ disk'.at = thread[w].copy.at /\ disk'.sets = thread[w].copy.sets
           /\ \A k \in RecordKey : \/ disk'.version[k] = thread[w].copy.version[k]
                                  \/ disk'.version[k] = memory.version[k]
           /\ \A k \in RecordKey \ Catalog!Live :
                disk'.version[k] = thread[w].copy.version[k]
           /\ thread[w].copy.version = memory.version => disk'.version = memory.version
<1> DEFINE c == thread[w].copy
           version == [k \in RecordKey |-> IF k \in Catalog!Live THEN memory.version[k]
                                                                 ELSE c.version[k]]
<1>1. c \in Catalogs /\ memory \in Catalogs BY DEF CatalogTypeOK, Writers
<1>2. disk' = [c EXCEPT !.version = version] BY DEF Catalog!WriteCatalog
<1>3. version \in [RecordKey -> Nat] BY <1>1 DEF Catalogs
<1>4. c.version = memory.version => version = memory.version BY <1>1 DEF Catalogs
<1>5. \A k \in RecordKey :
        version[k] = IF k \in Catalog!Live THEN memory.version[k] ELSE c.version[k]
  OBVIOUS
<1> HIDE DEF c, version
<1>6. /\ disk' \in Catalogs /\ disk'.version = version
      /\ disk'.at = c.at /\ disk'.sets = c.sets
  BY <1>1, <1>2, <1>3 DEF Catalogs
<1>7. QED BY <1>4, <1>5, <1>6 DEF c

LEMMA CatalogTypes == ASSUME CatalogTypeOK, [Catalog!Next]_(Catalog!vars) PROVE CatalogTypeOK'
<1> USE DEF CatalogTypeOK, Catalogs, Writers, CatalogPast, Catalog!At, Catalog!Becomes
<1>1. ASSUME NEW w \in Actor, NEW k \in RecordKey, Catalog!Read(w, k) PROVE CatalogTypeOK'
  <2>1. [Catalog!Empty EXCEPT !.sets = memory.sets] \in Catalogs BY NoCopies
  <2>2. QED BY <1>1, <2>1 DEF Catalog!Read
<1>2. ASSUME NEW w \in Actor, NEW k \in RecordKey, Catalog!Delete(w, k) PROVE CatalogTypeOK'
  <2>1. [Catalog!Free EXCEPT !.step = Catalog!AfterDelete(k)] \in Writers
    BY NoCopies DEF Catalog!AfterDelete
  <2>2. memory' \in Catalogs BY <1>2 DEF Catalog!Delete
  <2>3. past' \in CatalogPast
    <3> DEFINE unsaved == [x \in RecordKey |->
                             IF k \in Catalog!Set /\ x \in Catalog!Cascade(k) \cap RecordKey
                             THEN past.changes + 1 ELSE past.unsaved[x]]
    <3>1. unsaved \in [RecordKey -> Nat] OBVIOUS
    <3>2. past' = [past EXCEPT !.changes = past.changes + 1, !.unsaved = unsaved]
      BY <1>2 DEF Catalog!Delete
    <3>3. past.changes + 1 \in Nat OBVIOUS
    <3> HIDE DEF unsaved, CatalogPast
    <3>4. QED BY <3>1, <3>2, <3>3, PastDeletes
  <2>4. QED BY <1>2, <2>1, <2>2, <2>3 DEF Catalog!Delete
<1>3. ASSUME NEW w \in Actor, NEW k \in RecordKey, Catalog!Touch(w, k) PROVE CatalogTypeOK'
  <2>1. past' = [past EXCEPT !.changes = @ + 1, !.known = @ \cup {k},
                   !.unsaved[k] = past.changes + 1,
                   !.late = @ \cup Catalog!Orphans(memory', {k})]
    BY <1>3 DEF Catalog!Touch
  <2>2. Catalog!Orphans(memory', {k}) \subseteq RecordKey BY DEF Catalog!Orphans
  <2>3. past' \in CatalogPast
    <3> DEFINE unsaved == [past.unsaved EXCEPT ![k] = past.changes + 1]
               late == past.late \cup Catalog!Orphans(memory', {k})
               known == past.known \cup {k}
    <3>1. past' = [past EXCEPT !.changes = past.changes + 1, !.known = known,
                     !.unsaved = unsaved, !.late = late]
      BY <2>1
    <3>2. past.changes + 1 \in Nat /\ unsaved \in [RecordKey -> Nat] OBVIOUS
    <3>3. past.late \subseteq RecordKey /\ past.known \subseteq RecordKey OBVIOUS
    <3>4. late \subseteq RecordKey /\ known \subseteq RecordKey BY <2>2, <3>3, Zenon
    <3> HIDE DEF unsaved, late, known, CatalogPast
    <3>5. QED BY <3>1, <3>2, <3>4, PastTouches
  <2>4. QED BY <1>3, <2>3 DEF Catalog!Touch
<1>4. ASSUME NEW w \in Actor, Catalog!Save(w) PROVE CatalogTypeOK'
  <2>1. [thread[w] EXCEPT !.step = "make", !.copy = Catalog!Empty] \in Writers BY NoCopies
  <2>2. Catalog!Orphans(Catalog!Stored(w), {thread[w].key}) \subseteq RecordKey
    BY DEF Catalog!Orphans
  <2>3. Catalog!Unlisted(Catalog!Stored(w)) \subseteq RecordKey
    BY DEF Catalog!Unlisted, Catalog!Set
  <2>4. past' \in CatalogPast
    <3> DEFINE late == past.late \cup Catalog!Orphans(Catalog!Stored(w), {thread[w].key})
                         \cup Catalog!Unlisted(Catalog!Stored(w))
               known == past.known \cup {thread[w].key}
    <3>1. past' = [past EXCEPT !.changes = past.changes + 1, !.known = known, !.late = late]
      BY <1>4 DEF Catalog!Save
    <3>2. past.changes + 1 \in Nat OBVIOUS
    <3>3. past.late \subseteq RecordKey /\ past.known \subseteq RecordKey OBVIOUS
    <3>4. thread[w].key \in RecordKey OBVIOUS
    <3>5. late \subseteq RecordKey /\ known \subseteq RecordKey BY <2>2, <2>3, <3>3, <3>4, Zenon
    <3> HIDE DEF late, known, CatalogPast
    <3>6. QED BY <3>1, <3>2, <3>5, PastSaves
  <2>5. QED BY <1>4, StoredType, <2>1, <2>4 DEF Catalog!Save
<1>5. ASSUME NEW w \in Actor, Catalog!Missed(w) PROVE CatalogTypeOK'
  BY <1>5, NoCopies DEF Catalog!Missed
<1>6. ASSUME NEW w \in Actor, Catalog!MakeCatalog(w) PROVE CatalogTypeOK'
  <2>1. [Catalog!Free EXCEPT !.step = "write", !.copy = memory] \in Writers BY NoCopies
  <2>2. QED BY <1>6, <2>1 DEF Catalog!MakeCatalog
<1>7. ASSUME NEW w \in Actor, Catalog!WriteCatalog(w) PROVE CatalogTypeOK'
  <2> DEFINE c == thread[w].copy
             unsaved == [k \in RecordKey |->
                           IF past.unsaved[k] <= c.at THEN 0 ELSE past.unsaved[k]]
  <2>1. unsaved \in [RecordKey -> Nat] OBVIOUS
  <2>2. PICK b \in BOOLEAN : b = (c.at < past.newest)
    <3>1. CASE c.at < past.newest
      <4>1. (c.at < past.newest) = TRUE BY <3>1
      <4>2. QED BY <4>1, Zenon
    <3>2. CASE ~(c.at < past.newest)
      <4>1. (c.at < past.newest) = FALSE BY <3>2
      <4>2. QED BY <4>1, Zenon
    <3>3. QED BY <3>1, <3>2
  <2>3. past' = [past EXCEPT !.stale = c.at < past.newest,
                   !.newest = IF c.at < past.newest THEN past.newest ELSE c.at,
                   !.unsaved = unsaved]
    BY <1>7 DEF Catalog!WriteCatalog
  <2>4. past' = [past EXCEPT !.stale = b,
                   !.newest = IF c.at < past.newest THEN past.newest ELSE c.at,
                   !.unsaved = unsaved]
    BY <2>2, <2>3, Zenon
  <2>5. c.at \in Nat /\ c \in Catalogs OBVIOUS
  <2>6. past' \in CatalogPast
    <3> HIDE DEF unsaved, c
    <3>1. QED BY <2>1, <2>4, <2>5
  <2>7. disk' \in Catalogs BY <1>7, CatalogWritten
  <2>8. QED BY <1>7, <2>6, <2>7, NoCopies DEF Catalog!WriteCatalog
<1>8. CASE Catalog!Restart
  <2> DEFINE unsaved == [k \in RecordKey |-> 0]
  <2>1. past' = [past EXCEPT !.restarts = past.restarts + 1, !.newest = disk.at,
                             !.stale = FALSE, !.unsaved = unsaved]
    BY <1>8 DEF Catalog!Restart
  <2>2. /\ past.restarts + 1 \in Nat /\ disk.at \in Nat /\ unsaved \in [RecordKey -> Nat]
    OBVIOUS
  <2>3. past' \in CatalogPast
    <3> HIDE DEF unsaved, CatalogPast
    <3>1. QED BY <2>1, <2>2, PastRestarts
  <2>4. QED BY <1>8, <2>3, NoCopies DEF Catalog!Restart
<1>9. CASE UNCHANGED Catalog!vars BY <1>9 DEF Catalog!vars
<1>10. QED
    BY <1>1, <1>2, <1>3, <1>4, <1>5, <1>6, <1>7, <1>8, <1>9 DEF Catalog!Next

\* A catalog of nothing is rooted; what is late stays late.
LEMMA NothingIsRooted ==
    ASSUME NEW c \in Catalogs, c.version = [k \in RecordKey |-> 0], NEW late
    PROVE  Rooted(c, late)
BY DEF Rooted, Catalog!Orphans, Catalog!Unlisted, Catalog!Present, Catalog!Owned, Catalog!Set

LEMMA LateGrows ==
    ASSUME NEW c, NEW late, NEW later, late \subseteq later, Rooted(c, late)
    PROVE  Rooted(c, later)
BY DEF Rooted

LEMMA SaveIsRooted ==
    ASSUME CatalogTypeOK, AllRooted, NEW w \in Actor, Catalog!Save(w)
    PROVE  Rooted(memory', past'.late)
<1> DEFINE k == thread[w].key
           c == Catalog!Stored(w)
<1>1. memory' = c BY DEF Catalog!Save
<1>2. past'.late = past.late \cup Catalog!Orphans(c, {k}) \cup Catalog!Unlisted(c)
  BY DEF Catalog!Save, CatalogTypeOK, CatalogPast
<1>3. ASSUME NEW x \in Catalog!Orphans(c, Catalog!Owned) PROVE x \in past'.late
  <2>1. /\ x \in Catalog!Owned /\ x \in RecordKey /\ x # "project"
        /\ Catalog!Owner(x) = "project" /\ c.version[x] > 0 /\ ~(c.version["project"] > 0)
    BY <1>3 DEF Catalog!Orphans, Catalog!Owned, Catalog!Owner, Catalog!Set, Catalog!Present
  <2>2. CASE x = k
    BY <1>2, <1>3, <2>2 DEF Catalog!Orphans
  <2>3. CASE x # k
    <3>1. c.version[x] = memory.version[x]
      BY <2>1, <2>3, RecordsAssumption DEF Catalog!Stored
    <3>2. ~(memory.version["project"] > 0)
      BY <2>1, RecordsAssumption
      DEF Catalog!Stored, CatalogTypeOK, CatalogPast, Catalogs
    <3>3. x \in Catalog!Orphans(memory, Catalog!Owned)
      BY <2>1, <3>1, <3>2 DEF Catalog!Orphans, Catalog!Present
    <3>4. QED BY <1>2, <3>3 DEF AllRooted, Rooted
  <2>4. QED BY <2>2, <2>3
<1>4. QED BY <1>1, <1>2, <1>3 DEF Rooted

LEMMA DeleteIsRooted ==
    ASSUME CatalogTypeOK, AllRooted, NEW w \in Actor, NEW k \in RecordKey, Catalog!Delete(w, k)
    PROVE  Rooted(memory', past'.late)
<1> DEFINE gone == Catalog!Cascade(k) \cap RecordKey
<1>1. /\ past'.late = past.late
      /\ memory'.version = [x \in RecordKey |-> IF x \in gone THEN 0 ELSE memory.version[x]]
      /\ memory'.sets = IF k = "project" THEN {} ELSE memory.sets \ gone
  BY DEF Catalog!Delete, CatalogTypeOK, CatalogPast
<1>2. \A x \in RecordKey : memory'.version[x] > 0 => x \notin gone /\ memory.version[x] > 0
  BY <1>1 DEF CatalogTypeOK, Catalogs
<1>3. memory.sets \subseteq Catalog!Set BY DEF CatalogTypeOK, Catalogs
<1>4. k = "project" =>
        Catalog!Owned \cap memory.sets \subseteq gone /\ Catalog!Owned \ Catalog!Set \subseteq gone
  BY <1>3 DEF Catalog!Cascade, Catalog!Owned, Catalog!Set
<1>5. k # "project" => "project" \notin gone
  BY <1>3 DEF Catalog!Cascade, Catalog!Set
<1>6. ASSUME NEW x \in Catalog!Unlisted(memory') PROVE x \in past.late
  <2>1. x \in RecordKey /\ x \in Catalog!Set /\ x \notin memory'.sets /\ memory'.version[x] > 0
    BY <1>6 DEF Catalog!Unlisted, Catalog!Present, Catalog!Set
  <2>2. x \notin gone /\ memory.version[x] > 0 BY <1>2, <2>1
  <2>3. x \notin memory.sets BY <1>1, <1>4, <2>1, <2>2 DEF Catalog!Owned
  <2>4. x \in Catalog!Unlisted(memory)
    BY <2>1, <2>2, <2>3 DEF Catalog!Unlisted, Catalog!Present
  <2>5. QED BY <2>4 DEF AllRooted, Rooted
<1>7. ASSUME NEW x \in Catalog!Orphans(memory', Catalog!Owned) PROVE x \in past.late
  <2>1. /\ x \in Catalog!Owned /\ x \in RecordKey /\ x # "project"
        /\ Catalog!Owner(x) = "project"
        /\ memory'.version[x] > 0 /\ ~(memory'.version["project"] > 0)
    BY <1>7 DEF Catalog!Orphans, Catalog!Owned, Catalog!Owner, Catalog!Set, Catalog!Present
  <2>2. x \notin gone /\ memory.version[x] > 0 BY <1>2, <2>1
  <2>3. CASE k = "project"
    <3>1. x \in Catalog!Set /\ x \notin memory.sets BY <1>4, <2>1, <2>2, <2>3
    <3>2. x \in Catalog!Unlisted(memory)
      BY <2>2, <3>1 DEF Catalog!Unlisted, Catalog!Present
    <3>3. QED BY <3>2 DEF AllRooted, Rooted
  <2>4. CASE k # "project"
    <3>1. ~(memory.version["project"] > 0) BY <1>1, <1>5, <2>1, <2>4, RecordsAssumption
    <3>2. x \in Catalog!Orphans(memory, Catalog!Owned)
      BY <2>1, <2>2, <3>1 DEF Catalog!Orphans, Catalog!Present
    <3>3. QED BY <3>2 DEF AllRooted, Rooted
  <2>5. QED BY <2>3, <2>4
<1>8. QED BY <1>1, <1>6, <1>7 DEF Rooted

LEMMA TouchIsRooted ==
    ASSUME CatalogTypeOK, AllRooted, NEW w \in Actor, NEW k \in RecordKey, Catalog!Touch(w, k)
    PROVE  Rooted(memory', past'.late)
<1>1. /\ past.late \subseteq past'.late /\ memory'.sets = memory.sets
      /\ memory'.version = [memory.version EXCEPT ![k] = past.changes + 1]
  BY DEF Catalog!Touch, CatalogTypeOK, CatalogPast, Catalogs
<1>2. k \in Catalog!Set \cup {"project"} => memory.version[k] > 0
  BY DEF Catalog!Touch, Catalog!Present, Catalog!Set
<1>3. k \in Catalog!Set \cup {"project", "files", "selection"} BY DEF Catalog!Touch
<1>4. \A x \in Catalog!Owned \cup Catalog!Set \cup {"project"} :
        x \in RecordKey /\ (memory'.version[x] > 0 <=> memory.version[x] > 0)
  <2> SUFFICES ASSUME NEW x \in Catalog!Owned \cup Catalog!Set \cup {"project"}
               PROVE  x \in RecordKey /\ (memory'.version[x] > 0 <=> memory.version[x] > 0)
    OBVIOUS
  <2>1. x \in RecordKey BY RecordsAssumption DEF Catalog!Owned, Catalog!Set
  <2>2. CASE x = k
    BY <1>1, <1>2, <1>3, <2>1, <2>2
    DEF Catalog!Owned, Catalog!Set, CatalogTypeOK, CatalogPast, Catalogs
  <2>3. CASE x # k BY <1>1, <2>1, <2>3 DEF CatalogTypeOK, Catalogs
  <2>4. QED BY <2>2, <2>3
<1>5. Catalog!Orphans(memory', Catalog!Owned) = Catalog!Orphans(memory, Catalog!Owned)
  <2>1. \A x \in Catalog!Owned \ {"project"} : Catalog!Owner(x) = "project"
    BY DEF Catalog!Owned, Catalog!Owner, Catalog!Set
  <2>2. QED BY <1>4, <2>1 DEF Catalog!Orphans, Catalog!Present
<1>6. Catalog!Unlisted(memory') = Catalog!Unlisted(memory)
  BY <1>1, <1>4 DEF Catalog!Unlisted, Catalog!Present
<1>7. QED BY <1>1, <1>5, <1>6 DEF AllRooted, Rooted

LEMMA CatalogRooted ==
    ASSUME CatalogTypeOK, AllRooted, [Catalog!Next]_(Catalog!vars) PROVE AllRooted'
<1> USE DEF CatalogTypeOK, Catalog!At, Catalog!Becomes
<1>0. \A late : Rooted(Catalog!Empty, late)
  BY NoCopies, NothingIsRooted DEF Catalog!Empty
<1>1. ASSUME NEW w \in Actor, NEW k \in RecordKey, Catalog!Read(w, k) PROVE AllRooted'
  <2> DEFINE c == [Catalog!Empty EXCEPT !.sets = memory.sets]
  <2>1. c \in Catalogs /\ c.version = [x \in RecordKey |-> 0]
    BY NoCopies DEF Catalog!Empty, Catalogs
  <2>2. Rooted(c, past.late) BY <2>1, NothingIsRooted
  <2>3. /\ thread' = [thread EXCEPT ![w] = [step |-> "save", key |-> k, copy |-> c]]
        /\ UNCHANGED <<memory, disk, past>>
    BY <1>1 DEF Catalog!Read
  <2> HIDE DEF c
  <2>4. QED BY <2>2, <2>3 DEF AllRooted
<1>2. ASSUME NEW w \in Actor, NEW k \in RecordKey, Catalog!Delete(w, k) PROVE AllRooted'
  <2>1. Rooted(memory', past'.late) BY <1>2, DeleteIsRooted
  <2>2. /\ past'.late = past.late /\ disk' = disk
        /\ thread' = [thread EXCEPT ![w] = [Catalog!Free EXCEPT !.step = Catalog!AfterDelete(k)]]
    BY <1>2 DEF Catalog!Delete, CatalogPast
  <2>3. [Catalog!Free EXCEPT !.step = Catalog!AfterDelete(k)].copy = Catalog!Empty
    BY DEF Catalog!Free
  <2>4. QED BY <1>0, <2>1, <2>2, <2>3 DEF AllRooted
<1>3. ASSUME NEW w \in Actor, NEW k \in RecordKey, Catalog!Touch(w, k) PROVE AllRooted'
  <2>1. Rooted(memory', past'.late) BY <1>3, TouchIsRooted
  <2>2. past.late \subseteq past'.late /\ UNCHANGED <<disk, thread>>
    BY <1>3 DEF Catalog!Touch, CatalogPast
  <2>3. QED BY <2>1, <2>2, LateGrows DEF AllRooted
<1>4. ASSUME NEW w \in Actor, Catalog!Save(w) PROVE AllRooted'
  <2>1. Rooted(memory', past'.late) BY <1>4, SaveIsRooted
  <2>2. /\ past.late \subseteq past'.late /\ disk' = disk
        /\ thread' = [thread EXCEPT ![w] =
                        [thread[w] EXCEPT !.step = "make", !.copy = Catalog!Empty]]
    BY <1>4 DEF Catalog!Save, CatalogPast
  <2>3. [thread[w] EXCEPT !.step = "make", !.copy = Catalog!Empty].copy = Catalog!Empty
    BY DEF Writers
  <2>4. Rooted(disk, past'.late) BY <2>2, LateGrows DEF AllRooted
  <2>5. \A v \in Actor : Rooted(thread[v].copy, past'.late) BY <2>2, LateGrows DEF AllRooted
  <2>6. \A v \in Actor : Rooted(thread'[v].copy, past'.late) BY <1>0, <2>2, <2>3, <2>5
  <2>7. QED BY <2>1, <2>2, <2>4, <2>6 DEF AllRooted
<1>5. ASSUME NEW w \in Actor, Catalog!Missed(w) PROVE AllRooted'
  BY <1>0, <1>5 DEF Catalog!Missed, Catalog!Free, AllRooted
<1>6. ASSUME NEW w \in Actor, Catalog!MakeCatalog(w) PROVE AllRooted'
  BY <1>6 DEF Catalog!MakeCatalog, Catalog!Free, AllRooted
<1>7. ASSUME NEW w \in Actor, Catalog!WriteCatalog(w) PROVE AllRooted'
  <2>1. past'.late = past.late BY <1>7 DEF Catalog!WriteCatalog, CatalogPast
  <2>2. Rooted(disk', past.late)
    <3>1. /\ disk'.sets = thread[w].copy.sets
          /\ \A k \in RecordKey \ Catalog!Live :
               disk'.version[k] = thread[w].copy.version[k]
      BY <1>7, CatalogWritten
    <3>2. /\ Catalog!Owned \subseteq RecordKey \ Catalog!Live
          /\ Catalog!Set \subseteq Catalog!Owned
          /\ "project" \in RecordKey \ Catalog!Live
          /\ \A k \in Catalog!Owned : Catalog!Owner(k) = "project"
      BY RecordsAssumption DEF Catalog!Owned, Catalog!Set, Catalog!Live, Catalog!Owner
    <3>3. Rooted(thread[w].copy, past.late) BY DEF AllRooted
    <3>4. QED
      BY <3>1, <3>2, <3>3 DEF Rooted, Catalog!Orphans, Catalog!Unlisted, Catalog!Present
  <2>3. QED BY <1>0, <1>7, <2>1, <2>2 DEF Catalog!WriteCatalog, Catalog!Free, AllRooted
<1>8. CASE Catalog!Restart
  <2>1. past'.late = past.late BY <1>8 DEF Catalog!Restart, CatalogPast
  <2>2. QED BY <1>0, <1>8, <2>1 DEF Catalog!Restart, Catalog!Free, AllRooted
<1>9. CASE UNCHANGED Catalog!vars BY <1>9 DEF Catalog!vars, AllRooted
<1>10. QED
    BY <1>1, <1>2, <1>3, <1>4, <1>5, <1>6, <1>7, <1>8, <1>9 DEF Catalog!Next

\* A change of the memory is later than every catalog.
LEMMA ChangesDate ==
    ASSUME CatalogTypeOK, Dated, NEW n, n = past.changes + 1, memory'.at = n,
           past'.changes = n, past'.newest = past.newest, past'.stale = past.stale,
           disk' = disk, NEW w \in Actor, NEW t, t.step # "write",
           thread' = [thread EXCEPT ![w] = t]
    PROVE  Dated'
BY DEF Dated, Writing, CatalogTypeOK, CatalogPast, Catalogs, Writers

LEMMA CatalogDated ==
    ASSUME CatalogTypeOK, Dated, [Catalog!Next]_(Catalog!vars) PROVE Dated'
<1> USE DEF CatalogTypeOK, Catalog!At, Catalog!Becomes
<1>1. ASSUME NEW w \in Actor, NEW k \in RecordKey, Catalog!Read(w, k) PROVE Dated'
  BY <1>1 DEF Catalog!Read, Dated, Writing
<1>2. ASSUME NEW w \in Actor, NEW k \in RecordKey, Catalog!Delete(w, k) PROVE Dated'
  <2> DEFINE t == [Catalog!Free EXCEPT !.step = Catalog!AfterDelete(k)]
  <2>1. t.step # "write" BY DEF Catalog!Free, Catalog!AfterDelete
  <2>2. /\ memory'.at = past.changes + 1 /\ past'.changes = past.changes + 1
        /\ past'.newest = past.newest /\ past'.stale = past.stale
        /\ disk' = disk /\ thread' = [thread EXCEPT ![w] = t]
    BY <1>2 DEF Catalog!Delete, CatalogPast
  <2> HIDE DEF t
  <2>3. QED BY <2>1, <2>2, ChangesDate
<1>3. ASSUME NEW w \in Actor, NEW k \in RecordKey, Catalog!Touch(w, k) PROVE Dated'
  <2>1. thread[w].step = "idle" BY <1>3 DEF Catalog!Touch
  <2>2. thread' = [thread EXCEPT ![w] = thread[w]] BY <1>3 DEF Catalog!Touch
  <2>3. /\ memory'.at = past.changes + 1 /\ past'.changes = past.changes + 1
        /\ past'.newest = past.newest /\ past'.stale = past.stale /\ disk' = disk
    BY <1>3 DEF Catalog!Touch, CatalogPast, Catalogs
  <2>4. QED BY <2>1, <2>2, <2>3, ChangesDate
<1>4. ASSUME NEW w \in Actor, Catalog!Save(w) PROVE Dated'
  <2> DEFINE t == [thread[w] EXCEPT !.step = "make", !.copy = Catalog!Empty]
  <2>1. t.step # "write" BY DEF Writers
  <2>2. /\ memory'.at = past.changes + 1 /\ past'.changes = past.changes + 1
        /\ past'.newest = past.newest /\ past'.stale = past.stale
        /\ disk' = disk /\ thread' = [thread EXCEPT ![w] = t]
    BY <1>4, StoredType DEF Catalog!Save, CatalogPast
  <2> HIDE DEF t
  <2>3. QED BY <2>1, <2>2, ChangesDate
<1>5. ASSUME NEW w \in Actor, Catalog!Missed(w) PROVE Dated'
  BY <1>5 DEF Catalog!Missed, Catalog!Free, Dated, Writing
<1>6. ASSUME NEW w \in Actor, Catalog!MakeCatalog(w) PROVE Dated'
  <2>1. /\ UNCHANGED <<memory, disk, past>> /\ thread'[w].copy = memory
        /\ \A v \in Actor \ {w} : thread'[v] = thread[v]
    BY <1>6 DEF Catalog!MakeCatalog, Catalog!Free
  <2>2. memory.at <= memory.at BY DEF Catalogs
  <2>3. QED BY <2>1, <2>2 DEF Dated, Writing
<1>7. ASSUME NEW w \in Actor, Catalog!WriteCatalog(w) PROVE Dated'
  <2> DEFINE c == thread[w].copy
  <2>1. c.at <= memory.at /\ (c.at = memory.at => c.version = memory.version)
    BY <1>7 DEF Dated, Writing, Catalog!WriteCatalog
  <2>2. c.at \in Nat /\ past.newest \in Nat BY DEF Writers, Catalogs, CatalogPast
  <2>3. /\ memory' = memory /\ past'.changes = past.changes
        /\ past'.newest = IF c.at < past.newest THEN past.newest ELSE c.at
        /\ past'.stale = (c.at < past.newest)
    BY <1>7 DEF Catalog!WriteCatalog, CatalogPast
  <2>6. disk'.at = c.at /\ (c.version = memory.version => disk'.version = memory.version)
    BY <1>7, CatalogWritten
  <2>4. \A v \in Actor : Writing(v)' => Writing(v) /\ thread'[v] = thread[v]
    BY <1>7 DEF Catalog!WriteCatalog, Catalog!Free, Writing
  <2> HIDE DEF c
  <2>7. QED BY <2>1, <2>2, <2>3, <2>4, <2>6 DEF Dated
<1>8. CASE Catalog!Restart
  <2>1. \A v \in Actor : ~Writing(v)' BY <1>8 DEF Catalog!Restart, Catalog!Free, Writing
  <2>2. /\ memory' = disk /\ disk' = disk
        /\ past'.changes = past.changes /\ past'.newest = disk.at
    BY <1>8 DEF Catalog!Restart, CatalogPast
  <2>3. disk.at <= past.changes BY DEF Dated, Catalogs, CatalogPast
  <2>4. disk.at \in Nat BY DEF Catalogs
  <2>5. QED BY <2>1, <2>2, <2>3, <2>4 DEF Dated
<1>9. CASE UNCHANGED Catalog!vars BY <1>9 DEF Catalog!vars, Dated, Writing
<1>10. QED
    BY <1>1, <1>2, <1>3, <1>4, <1>5, <1>6, <1>7, <1>8, <1>9 DEF Catalog!Next

\* A record that no change touches stays settled when no catalog is added.
LEMMA StaysSettled ==
    ASSUME NEW k \in RecordKey, NEW t \in Nat, Settled(k, t), Reached(k, t),
           memory'.version[k] = memory.version[k], disk' = disk,
           past'.newest = past.newest, past'.stale = past.stale,
           past'.unsaved[k] = past.unsaved[k],
           \A w \in Actor : Writing(w)' <=> Writing(w),
           \A w \in Actor : Writing(w) => thread'[w] = thread[w]
    PROVE  Settled(k, t)' /\ Reached(k, t)'
BY DEF Settled, Reached

\* A change that does not persist is later than every catalog.
LEMMA UnsavedSettles ==
    ASSUME CatalogTypeOK, Dated, NEW k \in RecordKey, NEW t \in Nat, t = past.changes + 1,
           past'.unsaved[k] = t, disk' = disk, past'.newest = past.newest,
           \A w \in Actor : Writing(w)' => Writing(w) /\ thread'[w] = thread[w]
    PROVE  Settled(k, t)' /\ Reached(k, t)'
<1>1. past.newest < t
  BY DEF Dated, CatalogTypeOK, CatalogPast, Catalogs
<1>2. \A w \in Actor : Writing(w) => thread[w].copy.at < t
  BY DEF Dated, CatalogTypeOK, CatalogPast, Catalogs, Writers
<1>3. \A w \in Actor : Writing(w)' => ~(thread'[w].copy.at >= t)
  <2> SUFFICES ASSUME NEW w \in Actor, Writing(w)' PROVE ~(thread'[w].copy.at >= t) OBVIOUS
  <2>1. Writing(w) /\ thread'[w] = thread[w] OBVIOUS
  <2>2. thread[w].copy.at \in Nat BY DEF CatalogTypeOK, Writers, Catalogs
  <2>3. QED BY <1>2, <2>1, <2>2
<1>4. ~(past'.newest >= t) BY <1>1 DEF CatalogTypeOK, CatalogPast
<1>5. QED BY <1>3, <1>4 DEF Settled, Reached

LEMMA CatalogCarried ==
    ASSUME CatalogTypeOK, Dated, Carried, [Catalog!Next]_(Catalog!vars) PROVE Carried'
<1> USE DEF Catalog!At, Catalog!Becomes
<1>1. ASSUME NEW w \in Actor, NEW k \in RecordKey, Catalog!Read(w, k) PROVE Carried'
  <2>1. \A v \in Actor : (Writing(v)' <=> Writing(v)) /\ (Making(v)' <=> Making(v))
                      /\ (Writing(v) => thread'[v] = thread[v])
    BY <1>1 DEF Catalog!Read, Writing, Making, CatalogTypeOK
  <2>2. UNCHANGED <<memory, disk, past>> BY <1>1 DEF Catalog!Read
  <2>3. \A x \in RecordKey, t \in Nat :
          Settled(x, t) /\ Reached(x, t) => Settled(x, t)' /\ Reached(x, t)'
    BY <2>1, <2>2, StaysSettled
  <2>4. QED BY <2>1, <2>3 DEF Carried
<1>2. ASSUME NEW w \in Actor, NEW k \in RecordKey, Catalog!Delete(w, k) PROVE Carried'
  <2>1. thread' = [thread EXCEPT ![w] = [Catalog!Free EXCEPT !.step = Catalog!AfterDelete(k)]]
    BY <1>2 DEF Catalog!Delete
  <2>2. CASE k \notin Catalog!Set
    <3>1. [Catalog!Free EXCEPT !.step = Catalog!AfterDelete(k)].step = "make"
      BY <2>2 DEF Catalog!AfterDelete, Catalog!Free
    <3>2. Making(w)' BY <2>1, <3>1 DEF Making, CatalogTypeOK
    <3>3. QED BY <3>2 DEF Carried
  <2>3. CASE k \in Catalog!Set
    <3> DEFINE gone == Catalog!Cascade(k) \cap RecordKey
    <3>1. [Catalog!Free EXCEPT !.step = Catalog!AfterDelete(k)].step = "idle"
      BY <2>3 DEF Catalog!AfterDelete, Catalog!Free
    <3>2. \A v \in Actor : (Writing(v)' <=> Writing(v)) /\ (Making(v)' <=> Making(v))
                        /\ (Writing(v) => thread'[v] = thread[v])
      BY <1>2, <2>1, <3>1 DEF Catalog!Delete, Writing, Making, CatalogTypeOK
    <3>3. /\ disk' = disk /\ past'.newest = past.newest /\ past'.stale = past.stale
          /\ memory'.version = [x \in RecordKey |-> IF x \in gone THEN 0 ELSE memory.version[x]]
      BY <1>2 DEF Catalog!Delete, CatalogTypeOK, CatalogPast
    <3>4. past'.unsaved = [x \in RecordKey |-> IF k \in Catalog!Set /\ x \in gone
                                             THEN past.changes + 1 ELSE past.unsaved[x]]
      BY <1>2 DEF Catalog!Delete, CatalogTypeOK, CatalogPast
    <3>5. past.changes + 1 \in Nat BY DEF CatalogTypeOK, CatalogPast
    <3>6. CASE \E v \in Actor : Making(v) BY <3>2, <3>6 DEF Carried
    <3>7. CASE \A x \in RecordKey : \E t \in Nat : Settled(x, t) /\ Reached(x, t)
      <4> SUFFICES ASSUME NEW x \in RecordKey
                   PROVE  \E t \in Nat : Settled(x, t)' /\ Reached(x, t)'
        BY DEF Carried
      <4>1. CASE x \in gone
        <5>1. past'.unsaved[x] = past.changes + 1 BY <2>3, <3>4, <4>1
        <5>2. PICK t \in Nat : t = past.changes + 1 BY <3>5
        <5>3. Settled(x, t)' /\ Reached(x, t)' BY <3>2, <3>3, <5>1, <5>2, UnsavedSettles
        <5>4. QED BY <5>3
      <4>2. CASE x \notin gone
        <5>1. PICK t \in Nat : Settled(x, t) /\ Reached(x, t) BY <3>7
        <5>2. memory'.version[x] = memory.version[x] BY <3>3, <4>2
        <5>3. past'.unsaved[x] = past.unsaved[x] BY <3>4, <4>2
        <5>4. QED BY <3>2, <3>3, <5>1, <5>2, <5>3, StaysSettled
      <4>3. QED BY <4>1, <4>2
    <3>8. QED BY <3>6, <3>7 DEF Carried
  <2>4. QED BY <2>2, <2>3
<1>3. ASSUME NEW w \in Actor, NEW k \in RecordKey, Catalog!Touch(w, k) PROVE Carried'
  <2>1. \A v \in Actor : (Writing(v)' <=> Writing(v)) /\ (Making(v)' <=> Making(v))
                      /\ thread'[v] = thread[v]
    BY <1>3 DEF Catalog!Touch, Writing, Making
  <2>2. /\ disk' = disk /\ past'.newest = past.newest /\ past'.stale = past.stale
        /\ memory'.version = [memory.version EXCEPT ![k] = past.changes + 1]
        /\ past'.unsaved = [past.unsaved EXCEPT ![k] = past.changes + 1]
    BY <1>3 DEF Catalog!Touch, CatalogTypeOK, CatalogPast, Catalogs
  <2>3. past.changes + 1 \in Nat /\ past.unsaved \in [RecordKey -> Nat]
    BY DEF CatalogTypeOK, CatalogPast
  <2>4. CASE \E v \in Actor : Making(v) BY <2>1, <2>4 DEF Carried
  <2>5. CASE \A x \in RecordKey : \E t \in Nat : Settled(x, t) /\ Reached(x, t)
    <3> SUFFICES ASSUME NEW x \in RecordKey
                 PROVE  \E t \in Nat : Settled(x, t)' /\ Reached(x, t)'
      BY DEF Carried
    <3>1. CASE x = k
      <4>1. PICK t \in Nat : t = past.changes + 1 BY <2>3
      <4>2. past'.unsaved[x] = t BY <2>2, <2>3, <3>1, <4>1
      <4>3. Settled(x, t)' /\ Reached(x, t)' BY <2>1, <2>2, <4>1, <4>2, UnsavedSettles
      <4>4. QED BY <4>3
    <3>2. CASE x # k
      <4>1. PICK t \in Nat : Settled(x, t) /\ Reached(x, t) BY <2>5
      <4>2. /\ memory'.version[x] = memory.version[x]
            /\ past'.unsaved[x] = past.unsaved[x]
        BY <2>2, <2>3, <3>2 DEF CatalogTypeOK, Catalogs
      <4>3. QED BY <2>1, <2>2, <4>1, <4>2, StaysSettled
    <3>3. QED BY <3>1, <3>2
  <2>6. QED BY <2>4, <2>5 DEF Carried
<1>4. ASSUME NEW w \in Actor, Catalog!Save(w) PROVE Carried'
  <2>1. Making(w)' BY <1>4 DEF Catalog!Save, Making, CatalogTypeOK, Writers
  <2>2. QED BY <2>1 DEF Carried
<1>5. ASSUME NEW w \in Actor, Catalog!Missed(w) PROVE Carried'
  <2>1. \A v \in Actor : (Writing(v)' <=> Writing(v)) /\ (Making(v)' <=> Making(v))
                      /\ (Writing(v) => thread'[v] = thread[v])
    BY <1>5 DEF Catalog!Missed, Catalog!Free, Writing, Making, CatalogTypeOK
  <2>2. UNCHANGED <<memory, disk, past>> BY <1>5 DEF Catalog!Missed
  <2>3. \A x \in RecordKey, t \in Nat :
          Settled(x, t) /\ Reached(x, t) => Settled(x, t)' /\ Reached(x, t)'
    BY <2>1, <2>2, StaysSettled
  <2>4. QED BY <2>1, <2>3 DEF Carried
<1>6. ASSUME NEW w \in Actor, Catalog!MakeCatalog(w) PROVE Carried'
  <2>1. /\ thread' = [thread EXCEPT ![w] = [Catalog!Free EXCEPT !.step = "write", !.copy = memory]]
        /\ UNCHANGED <<memory, disk, past>> /\ ~Writing(w)
    BY <1>6 DEF Catalog!MakeCatalog, Writing
  <2>2. /\ Writing(w)' /\ thread'[w].copy = memory
        /\ \A v \in Actor \ {w} : thread'[v] = thread[v]
    BY <2>1 DEF Catalog!Free, Writing, CatalogTypeOK
  <2>3. CASE \E v \in Actor \ {w} : Making(v) BY <2>2, <2>3 DEF Carried, Making
  <2>4. CASE ~\E v \in Actor \ {w} : Making(v)
    <3> SUFFICES ASSUME NEW x \in RecordKey
                 PROVE  \E t \in Nat : Settled(x, t)' /\ Reached(x, t)'
      BY DEF Carried
    <3>1. PICK t \in Nat : t = memory.at BY DEF CatalogTypeOK, Catalogs
    <3>2. Reached(x, t)' BY <2>2, <3>1 DEF Reached
    <3>3. Settled(x, t)'
      <4>1. \A v \in Actor : Writing(v)' /\ thread'[v].copy.at >= t =>
              thread'[v].copy.version[x] = memory.version[x]
        <5> SUFFICES ASSUME NEW v \in Actor, Writing(v)', thread'[v].copy.at >= t
                     PROVE  thread'[v].copy.version[x] = memory.version[x]
          OBVIOUS
        <5>1. CASE v = w BY <2>2, <5>1
        <5>2. CASE v # w
          <6>1. Writing(v) /\ thread'[v] = thread[v] BY <2>2, <5>2 DEF Writing
          <6>2. thread[v].copy.at <= memory.at BY <6>1 DEF Dated
          <6>3. thread[v].copy.at \in Nat BY DEF CatalogTypeOK, Writers, Catalogs
          <6>4. thread[v].copy.at = memory.at BY <3>1, <6>1, <6>2, <6>3
          <6>5. QED BY <6>1, <6>4 DEF Dated
        <5>3. QED BY <5>1, <5>2
      <4>2. ~past.stale /\ past.newest >= t => disk.version[x] = memory.version[x]
        BY <3>1 DEF Dated, CatalogTypeOK, CatalogPast, Catalogs
      <4>3. QED BY <2>1, <4>1, <4>2 DEF Settled
    <3>4. QED BY <3>2, <3>3
  <2>5. QED BY <2>3, <2>4

<1>7. ASSUME NEW w \in Actor, Catalog!WriteCatalog(w) PROVE Carried'
  <2> DEFINE c == thread[w].copy
  <2>1. /\ thread' = [thread EXCEPT ![w] = Catalog!Free] /\ Writing(w)
        /\ memory' = memory
        /\ past'.newest = IF c.at < past.newest THEN past.newest ELSE c.at
        /\ past'.stale = (c.at < past.newest)
        /\ past'.unsaved = [k \in RecordKey |->
                              IF past.unsaved[k] <= c.at THEN 0 ELSE past.unsaved[k]]
    BY <1>7 DEF Catalog!WriteCatalog, Writing, CatalogTypeOK, CatalogPast
  <2>2. /\ c.at \in Nat /\ past.newest \in Nat /\ past'.newest \in Nat
        /\ past.unsaved \in [RecordKey -> Nat]
    BY <2>1 DEF CatalogTypeOK, Writers, Catalogs, CatalogPast
  <2>3. /\ ~Writing(w)' /\ ~Making(w)' /\ ~Making(w)
        /\ \A v \in Actor \ {w} : thread'[v] = thread[v]
    BY <2>1 DEF CatalogTypeOK, Catalog!Free, Writing, Making
  <2>4. \A v \in Actor : thread[v].copy.at \in Nat BY DEF CatalogTypeOK, Writers, Catalogs
  <2>5. CASE \E v \in Actor : Making(v) BY <2>3, <2>5 DEF Carried, Making
  <2>6. CASE \A x \in RecordKey : \E t \in Nat : Settled(x, t) /\ Reached(x, t)
    <3> SUFFICES ASSUME NEW x \in RecordKey
                 PROVE  \E t \in Nat : Settled(x, t)' /\ Reached(x, t)'
      BY DEF Carried
    <3>1. PICK t \in Nat : Settled(x, t) /\ Reached(x, t) BY <2>6
    \* The catalogs that are as new as any time from t on, have the record.
    <3>2. ASSUME NEW r \in Nat, r >= t PROVE Settled(x, r)'
      <4>1. \A v \in Actor : Writing(v)' /\ thread'[v].copy.at >= r =>
              thread'[v].copy.version[x] = memory'.version[x]
        <5> SUFFICES ASSUME NEW v \in Actor, Writing(v)', thread'[v].copy.at >= r
                     PROVE  thread'[v].copy.version[x] = memory'.version[x]
          OBVIOUS
        <5>1. v # w /\ thread'[v] = thread[v] /\ Writing(v) BY <2>3 DEF Writing
        <5>2. thread[v].copy.at >= t BY <2>4, <3>2, <5>1
        <5>3. QED BY <2>1, <3>1, <5>1, <5>2 DEF Settled
      <4>2. ~past'.stale /\ past'.newest >= r => disk'.version[x] = memory'.version[x]
        <5> SUFFICES ASSUME ~past'.stale, past'.newest >= r
                     PROVE  disk'.version[x] = memory'.version[x]
          OBVIOUS
        <5>1. ~(c.at < past.newest) BY <2>1
        <5>2. past'.newest = c.at BY <2>1, <5>1
        <5>3. c.at >= t BY <2>2, <3>2, <5>2
        <5>4. c.version[x] = memory.version[x] BY <2>1, <3>1, <5>3 DEF Settled
        <5>5. disk'.version[x] \in {c.version[x], memory.version[x]} BY <1>7, CatalogWritten
        <5>6. QED BY <2>1, <5>4, <5>5
      <4>3. QED BY <4>1, <4>2 DEF Settled
    <3>3. past'.newest >= past.newest /\ past'.newest >= c.at BY <2>1, <2>2
    <3> HIDE DEF c
    <3>4. CASE t <= past'.newest
      <4>1. Settled(x, t)' /\ Reached(x, t)' BY <3>2, <3>4 DEF Reached
      <4>2. QED BY <4>1
    <3>5. CASE ~(t <= past'.newest)
      <4>1. Settled(x, t)' BY <3>2
      <4>2. ~(t <= past.newest) /\ ~(t <= c.at) BY <2>2, <3>3, <3>5
      <4>3. CASE t <= past.unsaved[x]
        <5>1. past'.unsaved[x] = past.unsaved[x] BY <2>1, <2>2, <4>2, <4>3
        <5>2. QED BY <4>1, <4>3, <5>1 DEF Reached
      <4>4. CASE \E v \in Actor : Writing(v) /\ t <= thread[v].copy.at
        <5>1. PICK v \in Actor : Writing(v) /\ t <= thread[v].copy.at BY <4>4
        <5>2. v # w BY <4>2, <5>1 DEF c
        <5>3. Writing(v)' /\ thread'[v] = thread[v] BY <2>3, <5>1, <5>2 DEF Writing
        <5>4. QED BY <4>1, <5>1, <5>3 DEF Reached
      <4>5. QED BY <3>1, <4>2, <4>3, <4>4 DEF Reached
    <3>6. QED BY <3>4, <3>5
  <2>7. QED BY <2>5, <2>6 DEF Carried
<1>8. CASE Catalog!Restart
  <2>1. /\ memory' = disk /\ disk' = disk /\ past'.newest = disk.at
        /\ \A v \in Actor : ~Writing(v)'
    BY <1>8 DEF Catalog!Restart, Catalog!Free, Writing, CatalogTypeOK, CatalogPast
  <2>2. disk.at \in Nat BY DEF CatalogTypeOK, Catalogs
  <2>3. \A x \in RecordKey : Settled(x, 0)' /\ Reached(x, 0)'
    BY <2>1, <2>2 DEF Settled, Reached
  <2>4. QED BY <2>3 DEF Carried
<1>9. CASE UNCHANGED Catalog!vars
  BY <1>9 DEF Catalog!vars, Carried, Making, Settled, Reached, Writing
<1>10. QED
    BY <1>1, <1>2, <1>3, <1>4, <1>5, <1>6, <1>7, <1>8, <1>9 DEF Catalog!Next

\* The invariant of the catalog holds when the catalog is looked at.
CatalogInv == service = "catalog" => CatalogIInv

LEMMA CatalogInvariant == Spec => []CatalogInv
<1>1. Init => CatalogInv BY StoreInits, CatalogInit DEF CatalogInv
<1>2. CatalogInv /\ [Next]_vars => CatalogInv'
  <2> SUFFICES ASSUME CatalogInv, [Next]_vars, service' = "catalog" PROVE CatalogIInv'
    BY DEF CatalogInv
  <2>1. CatalogIInv /\ [Catalog!Next]_(Catalog!vars) BY StoreSteps DEF CatalogInv
  <2>2. QED
    BY <2>1, CatalogTypes, CatalogRooted, CatalogDated, CatalogCarried DEF CatalogIInv
<1>3. QED BY <1>1, <1>2, PTL DEF Spec

LEMMA NothingLeft == CatalogIInv => Catalog!NothingLeftBehind
BY DEF CatalogIInv, AllRooted, Rooted, Catalog!NothingLeftBehind

\* When no thread is between its change of the store and its write of the
\* catalog, the catalog on disk has the last change of every record, but for
\* changes that do not persist: for any records, threads, changes and restarts.
THEOREM ChangesLast == Spec => []ChangesAreDurable
<1>1. CatalogInv => ChangesAreDurable
  <2> SUFFICES ASSUME CatalogIInv, ~past.stale, NEW k \in RecordKey, past.unsaved[k] = 0,
                      \A w \in Actor : thread[w].step \notin {"make", "write"}
               PROVE  disk.version[k] = memory.version[k]
    BY DEF CatalogInv, ChangesAreDurable, Catalog!ChangesAreDurable
  <2>1. PICK t \in Nat : Settled(k, t) /\ Reached(k, t)
    BY DEF CatalogIInv, Carried, Making
  <2>2. past.newest \in Nat BY DEF CatalogIInv, CatalogTypeOK, CatalogPast
  <2>3. t <= past.newest BY <2>1, <2>2 DEF Reached, Writing
  <2>4. QED BY <2>1, <2>2, <2>3 DEF Settled
<1>2. QED BY CatalogInvariant, <1>1, PTL

-----------------------------------------------------------------------------
(* The synchronisation of a repository set.                                *)

SyncRepos(repos) ==
    /\ DOMAIN repos = RepoRole
    /\ \A r \in RepoRole :
         /\ DOMAIN repos[r] = {"id", "url", "status", "synced"}
         /\ repos[r].id \in 0..Bound.edits

SyncSet(set) ==
    /\ DOMAIN set = {"exists", "status", "repos", "files", "journey"}
    /\ SyncRepos(set.repos)

SyncShape ==
    /\ SyncSet(memory) /\ SyncSet(disk.set)
    /\ DOMAIN disk = {"set", "clone"} /\ DOMAIN disk.clone = 1..Bound.edits
    /\ DOMAIN thread = Actor
    /\ \A t \in Actor :
         /\ DOMAIN thread[t] = {"step", "force", "repos", "done", "files"}
         /\ SyncRepos(thread[t].repos) /\ DOMAIN thread[t].files = RepoRole
    /\ DOMAIN past = {"edits", "restarts", "wanted", "raced", "changed", "oldFiles"}
    /\ past.edits \in Nat /\ DOMAIN past.wanted = RepoRole

\* A repository that was not given another url has the one it was registered
\* with, wherever it is, and its clone was fetched from there.
SyncNamed(repos) ==
    \A r \in RepoRole : repos[r].id \notin past.changed => repos[r].url = repos[r].id
SyncAllNamed ==
    /\ SyncNamed(memory.repos) /\ SyncNamed(disk.set.repos)
    /\ \A t \in Actor : SyncNamed(thread[t].repos)
    /\ \A id \in 1..Bound.edits : id \notin past.changed => disk.clone[id] \in {0, id}

\* The set and the copies that will be saved name the repositories as the user
\* wanted them last.
SyncAsWanted(repos) == \A r \in RepoRole \ past.raced : repos[r].url = past.wanted[r]
SyncKept ==
    /\ SyncAsWanted(memory.repos)
    /\ \A t \in Actor :
         thread[t].step \in {"lock", "log", "work"} => SyncAsWanted(thread[t].repos)

\* One synchronisation at a time holds the lock of the set.
SyncExclusion ==
    \A t, u \in Actor :
        /\ thread[t].step \in {"log", "work", "files"}
        /\ thread[u].step \in {"log", "work", "files"}
        => t = u

\* What a synchronisation has fetched so far is of the repositories it names.
SyncFetched ==
    \A t \in Actor :
        /\ \A r \in RepoRole :
             LET repo == thread[t].repos[r] IN
             IF r \in thread[t].done
             THEN repo.status # "error" /\ repo.id \notin past.changed
                    => thread[t].files[r] = repo.id
             ELSE thread[t].files[r] = 0
        /\ thread[t].step = "files" => thread[t].done = Sync!Has(thread[t].repos)

\* A set said to be complete is the one that was synchronised, and then its
\* inventory is what was fetched.
SyncComplete ==
    memory.exists /\ memory.status \in {"complete", "cached"} =>
        /\ \A t \in Actor : thread[t].step = "files" =>
             /\ thread[t].repos = memory.repos
             /\ \A r \in Sync!Has(memory.repos) : memory.repos[r].status # "error"
        /\ ~past.oldFiles /\ (\A t \in Actor : thread[t].step # "files") =>
             \A r \in RepoRole : memory.repos[r].id \notin past.changed
                                   => memory.files[r] = memory.repos[r].id

SyncIInv ==
    /\ SyncShape /\ SyncAllNamed /\ SyncKept /\ SyncExclusion /\ SyncFetched /\ SyncComplete

LEMMA SyncBound == Bound.edits \in Nat
BY BoundAssumption

LEMMA SyncNew ==
    /\ SyncSet(Sync!NewSet) /\ Sync!NewSet.status = "pending"
    /\ \A r \in RepoRole : Sync!NewSet.repos[r].url = 0 /\ Sync!NewSet.repos[r].id = 0
    /\ DOMAIN Sync!Free = {"step", "force", "repos", "done", "files"}
    /\ SyncRepos(Sync!Free.repos) /\ DOMAIN Sync!Free.files = RepoRole
    /\ \A r \in RepoRole :
         Sync!Free.repos[r].url = 0 /\ Sync!Free.repos[r].id = 0 /\ Sync!Free.files[r] = 0
    /\ Sync!Free.done = {} /\ Sync!Free.step = "idle"
BY SyncBound DEF SyncSet, SyncRepos, Sync!NewSet, Sync!Free, Sync!None, Sync!NoFiles

LEMMA SyncInit == Sync!Init => SyncIInv
<1> SUFFICES ASSUME Sync!Init PROVE SyncIInv OBVIOUS
<1>1. SyncShape BY SyncNew DEF Sync!Init, SyncShape, Sync!NoFiles
<1>2. SyncAllNamed BY SyncNew, SyncBound DEF Sync!Init, SyncAllNamed, SyncNamed
<1>3. SyncKept BY SyncNew DEF Sync!Init, SyncKept, SyncAsWanted, Sync!NoFiles
<1>4. SyncExclusion BY SyncNew DEF Sync!Init, SyncExclusion
<1>5. SyncFetched BY SyncNew DEF Sync!Init, SyncFetched
<1>6. SyncComplete BY SyncNew DEF Sync!Init, SyncComplete
<1>7. QED BY <1>1, <1>2, <1>3, <1>4, <1>5, <1>6 DEF SyncIInv

\* An edit of the set takes the copies out of what is kept, and the set out of
\* what is complete.
LEMMA SyncEdited ==
    ASSUME SyncIInv, NEW set, NEW rs, NEW wanted, Sync!Edited(set, rs, wanted),
           SyncSet(set), DOMAIN wanted = RepoRole, set.status = "pending",
           \A r \in RepoRole \ rs : set.repos[r] = memory.repos[r] /\ wanted[r] = past.wanted[r],
           \A r \in RepoRole \cap rs : set.repos[r].url = wanted[r]
    PROVE  SyncIInv'
<1> USE DEF SyncIInv
<1>1. /\ memory' = set /\ disk' = disk /\ thread' = thread
      /\ past' = [past EXCEPT !.edits = @ + 1, !.wanted = wanted,
                            !.raced = IF Sync!CopyHeld THEN @ \cup rs ELSE @ \ rs,
                            !.changed = @ \cup {set.repos[r].id : r \in
                              {x \in rs : set.repos[x].url # set.repos[x].id}}]
  BY DEF Sync!Edited
<1>2. /\ DOMAIN past' = DOMAIN past /\ past'.edits = past.edits + 1 /\ past'.wanted = wanted
      /\ past'.raced = IF Sync!CopyHeld THEN past.raced \cup rs ELSE past.raced \ rs
      /\ past.changed \subseteq past'.changed
      /\ \A r \in rs : set.repos[r].url # set.repos[r].id => set.repos[r].id \in past'.changed
  BY <1>1 DEF SyncShape
<1>3. SyncShape' BY <1>1, <1>2 DEF SyncShape
<1>4. SyncAllNamed' BY <1>1, <1>2 DEF SyncAllNamed, SyncNamed
<1>5. SyncKept'
  <2>1. CASE Sync!CopyHeld BY <1>1, <1>2, <2>1 DEF SyncKept, SyncAsWanted
  <2>2. CASE ~Sync!CopyHeld BY <1>1, <1>2, <2>2 DEF SyncKept, SyncAsWanted, Sync!CopyHeld
  <2>3. QED BY <2>1, <2>2
<1>6. SyncExclusion' BY <1>1 DEF SyncExclusion
<1>7. SyncFetched' BY <1>1, <1>2 DEF SyncFetched, Sync!Has
<1>8. SyncComplete' BY <1>1 DEF SyncComplete
<1>9. QED BY <1>3, <1>4, <1>5, <1>6, <1>7, <1>8

LEMMA SyncRepo ==
    ASSUME NEW n \in 0..Bound.edits, NEW url, NEW status
    PROVE  LET repo == [Sync!None EXCEPT !.id = n, !.url = url, !.status = status] IN
           /\ DOMAIN repo = {"id", "url", "status", "synced"}
           /\ repo.id = n /\ repo.url = url
BY DEF Sync!None

LEMMA SyncEdits ==
    ASSUME SyncIInv,
           \/ \E r \in RepoRole : Sync!Register(r) \/ Sync!Update(r) \/ Sync!Remove(r)
           \/ Sync!DeleteSet
    PROVE  SyncIInv'
<1> USE SyncBound
<1>0. /\ SyncSet(memory) /\ past.edits \in Nat /\ Sync!Number = past.edits + 1
      /\ DOMAIN past.wanted = RepoRole
  BY DEF SyncIInv, SyncShape, Sync!Number
<1>1. ASSUME NEW r \in RepoRole, Sync!Register(r) PROVE SyncIInv'
  <2> DEFINE repo == [Sync!None EXCEPT !.id = Sync!Number, !.url = Sync!Number, !.status = "pending"]
             set == [Sync!Pending(Sync!Put(r, repo)) EXCEPT !.journey = "pending"]
             wanted == [past.wanted EXCEPT ![r] = Sync!Number]
  <2>1. Sync!Edited(set, {r}, wanted) BY <1>1 DEF Sync!Register
  <2>2. Sync!Number \in 0..Bound.edits BY <1>0, <2>1 DEF Sync!Edited
  <2>3. DOMAIN repo = {"id", "url", "status", "synced"} /\ repo.id = Sync!Number /\ repo.url = Sync!Number
    BY <2>2, SyncRepo
  <2> HIDE DEF repo
  <2>4. /\ DOMAIN set = DOMAIN memory /\ set.status = "pending"
        /\ set.repos = [memory.repos EXCEPT ![r] = repo]
    BY <1>0 DEF Sync!Pending, Sync!Put, SyncSet
  <2> HIDE DEF set
  <2>5. SyncSet(set) BY <1>0, <2>2, <2>3, <2>4 DEF SyncSet, SyncRepos
  <2>6. /\ \A x \in RepoRole \ {r} : set.repos[x] = memory.repos[x] /\ wanted[x] = past.wanted[x]
        /\ set.repos[r].url = wanted[r] /\ DOMAIN wanted = RepoRole
    BY <1>0, <2>3, <2>4 DEF SyncSet, SyncRepos
  <2> HIDE DEF wanted
  <2>7. QED BY <2>1, <2>4, <2>5, <2>6, SyncEdited
<1>2. ASSUME NEW r \in RepoRole, Sync!Update(r) PROVE SyncIInv'
  <2> DEFINE repo == [memory.repos[r] EXCEPT !.url = Sync!Number, !.status = "pending"]
             set == Sync!Pending(Sync!Put(r, repo))
             wanted == [past.wanted EXCEPT ![r] = Sync!Number]
  <2>1. Sync!Edited(set, {r}, wanted) BY <1>2 DEF Sync!Update
  <2>2. DOMAIN repo = {"id", "url", "status", "synced"} /\ repo.id = memory.repos[r].id
          /\ repo.url = Sync!Number
    BY <1>0 DEF SyncSet, SyncRepos
  <2> HIDE DEF repo
  <2>4. /\ DOMAIN set = DOMAIN memory /\ set.status = "pending"
        /\ set.repos = [memory.repos EXCEPT ![r] = repo]
    BY <1>0 DEF Sync!Pending, Sync!Put, SyncSet
  <2> HIDE DEF set
  <2>5. SyncSet(set) BY <1>0, <2>2, <2>4 DEF SyncSet, SyncRepos
  <2>6. /\ \A x \in RepoRole \ {r} : set.repos[x] = memory.repos[x] /\ wanted[x] = past.wanted[x]
        /\ set.repos[r].url = wanted[r] /\ DOMAIN wanted = RepoRole
    BY <1>0, <2>2, <2>4 DEF SyncSet, SyncRepos
  <2> HIDE DEF wanted
  <2>7. QED BY <2>1, <2>4, <2>5, <2>6, SyncEdited
<1>3. ASSUME NEW r \in RepoRole, Sync!Remove(r) PROVE SyncIInv'
  <2> DEFINE set == Sync!Pending(Sync!Put(r, Sync!None))
             wanted == [past.wanted EXCEPT ![r] = 0]
  <2>1. Sync!Edited(set, {r}, wanted) BY <1>3 DEF Sync!Remove
  <2>2. DOMAIN Sync!None = {"id", "url", "status", "synced"} /\ Sync!None.id = 0 /\ Sync!None.url = 0
    BY DEF Sync!None
  <2>4. /\ DOMAIN set = DOMAIN memory /\ set.status = "pending"
        /\ set.repos = [memory.repos EXCEPT ![r] = Sync!None]
    BY <1>0 DEF Sync!Pending, Sync!Put, SyncSet
  <2> HIDE DEF set
  <2>5. SyncSet(set) BY <1>0, <2>2, <2>4 DEF SyncSet, SyncRepos
  <2>6. /\ \A x \in RepoRole \ {r} : set.repos[x] = memory.repos[x] /\ wanted[x] = past.wanted[x]
        /\ set.repos[r].url = wanted[r] /\ DOMAIN wanted = RepoRole
    BY <1>0, <2>2, <2>4 DEF SyncSet, SyncRepos
  <2> HIDE DEF wanted
  <2>7. QED BY <2>1, <2>4, <2>5, <2>6, SyncEdited
<1>4. CASE Sync!DeleteSet
  <2> DEFINE set == [Sync!NewSet EXCEPT !.exists = FALSE, !.journey = memory.journey]
  <2>1. Sync!Edited(set, RepoRole, Sync!NoFiles) BY <1>4 DEF Sync!DeleteSet
  <2>2. SyncSet(set) /\ set.status = "pending" /\ set.repos = Sync!NewSet.repos
    BY SyncNew DEF SyncSet
  <2> HIDE DEF set
  <2>3. /\ DOMAIN Sync!NoFiles = RepoRole
        /\ \A r \in RepoRole : set.repos[r].url = Sync!NoFiles[r]
    BY <2>2, SyncNew DEF Sync!NoFiles
  <2>4. QED BY <2>1, <2>2, <2>3, SyncEdited
<1>5. QED BY <1>1, <1>2, <1>3, <1>4
\* A synchronisation when it has fetched a repository, or failed to.
SyncAfter(old, r, status, ok, file) ==
    [old EXCEPT !.done = @ \cup {r}, !.repos[r].status = status,
                !.repos[r].synced = @ \/ ok, !.files[r] = file]

LEMMA SyncAfterShape ==
    ASSUME NEW old, NEW r \in RepoRole, NEW status, NEW ok \in BOOLEAN, NEW file,
           DOMAIN old = {"step", "force", "repos", "done", "files"},
           SyncRepos(old.repos), DOMAIN old.files = RepoRole
    PROVE  LET new == SyncAfter(old, r, status, ok, file) IN
           /\ DOMAIN new = DOMAIN old /\ new.step = old.step
           /\ new.done = old.done \cup {r} /\ SyncRepos(new.repos)
           /\ DOMAIN new.files = RepoRole
           /\ new.files[r] = file /\ new.repos[r].status = status
           /\ \A x \in RepoRole :
                /\ new.repos[x].id = old.repos[x].id
                /\ new.repos[x].url = old.repos[x].url
                /\ x # r => /\ new.files[x] = old.files[x]
                            /\ new.repos[x].status = old.repos[x].status
<1> DEFINE repo == [old.repos[r] EXCEPT !.status = status, !.synced = @ \/ ok]
           repos == [old.repos EXCEPT ![r] = repo]
           files == [old.files EXCEPT ![r] = file]
<1>1. DOMAIN old.repos = RepoRole /\ DOMAIN old.repos[r] = {"id", "url", "status", "synced"}
  BY DEF SyncRepos
<1>2. SyncAfter(old, r, status, ok, file)
        = [old EXCEPT !.done = old.done \cup {r}, !.repos = repos, !.files = files]
  BY <1>1 DEF SyncAfter
<1>3. /\ DOMAIN repo = DOMAIN old.repos[r] /\ repo.id = old.repos[r].id
      /\ repo.url = old.repos[r].url /\ repo.status = status
  BY <1>1
<1> HIDE DEF repo
<1>4. SyncRepos(repos) /\ DOMAIN files = RepoRole BY <1>1, <1>3 DEF SyncRepos
<1>5. QED BY <1>1, <1>2, <1>3, <1>4 DEF SyncRepos

LEMMA SyncNext == ASSUME SyncIInv, [Sync!Next]_(Sync!vars) PROVE SyncIInv'
<1> USE SyncBound
<1>0. /\ SyncShape /\ SyncAllNamed /\ SyncKept /\ SyncExclusion /\ SyncFetched /\ SyncComplete
  BY DEF SyncIInv
<1>1. CASE \/ \E r \in RepoRole : Sync!Register(r) \/ Sync!Update(r) \/ Sync!Remove(r)
           \/ Sync!DeleteSet
  BY <1>1, SyncEdits
<1>2. ASSUME NEW t \in Actor, NEW force \in BOOLEAN, Sync!SyncReads(t, force) PROVE SyncIInv'
  <2> DEFINE new == [Sync!Free EXCEPT !.step = "lock", !.force = force, !.repos = memory.repos]
  <2>1. /\ DOMAIN new = DOMAIN Sync!Free /\ new.step = "lock" /\ new.repos = memory.repos
        /\ new.done = {} /\ new.files = Sync!Free.files
    BY SyncNew
  <2>2. thread' = [thread EXCEPT ![t] = new] /\ UNCHANGED <<memory, disk, past>>
    BY <1>2 DEF Sync!SyncReads, Sync!Becomes
  <2> HIDE DEF new
  <2>3. SyncShape' BY <1>0, <2>1, <2>2, SyncNew DEF SyncShape, SyncSet
  <2>4. SyncAllNamed' BY <1>0, <2>1, <2>2 DEF SyncAllNamed, SyncNamed, SyncShape
  <2>5. SyncKept' BY <1>0, <2>1, <2>2 DEF SyncKept, SyncAsWanted, SyncShape
  <2>6. SyncExclusion' BY <1>0, <2>1, <2>2 DEF SyncExclusion, SyncShape
  <2>7. SyncFetched' BY <1>0, <2>1, <2>2, SyncNew DEF SyncFetched, SyncShape, Sync!Has
  <2>8. SyncComplete'
    <3>1. thread[t].step # "files" /\ thread'[t].step # "files"
      BY <1>0, <1>2, <2>1, <2>2 DEF SyncShape, Sync!SyncReads
    <3>2. \A u \in Actor : u # t => thread'[u] = thread[u] BY <1>0, <2>2 DEF SyncShape
    <3>3. QED BY <1>0, <2>2, <3>1, <3>2 DEF SyncComplete
  <2>9. QED BY <2>3, <2>4, <2>5, <2>6, <2>7, <2>8 DEF SyncIInv
<1>3. ASSUME NEW t \in Actor, Sync!Busy(t) \/ Sync!SyncLogs(t) PROVE SyncIInv'
  <2>1. PICK new :
          /\ thread' = [thread EXCEPT ![t] = new] /\ UNCHANGED <<memory, disk, past>>
          /\ thread[t].step \in {"lock", "log"}
          /\ \/ new = Sync!Free
             \/ thread[t].step = "log" /\ new = [thread[t] EXCEPT !.step = "work"]
    BY <1>3 DEF Sync!Busy, Sync!SyncLogs, Sync!Becomes
  <2>2. /\ DOMAIN new = DOMAIN Sync!Free
        /\ \/ new.step = "idle" /\ new = Sync!Free
           \/ /\ thread[t].step = "log" /\ new.step = "work" /\ new.repos = thread[t].repos
              /\ new.done = thread[t].done /\ new.files = thread[t].files
    BY <1>0, <2>1, SyncNew DEF SyncShape
  <2>3. SyncShape' BY <1>0, <2>1, <2>2, SyncNew DEF SyncShape, SyncSet
  <2>4. SyncAllNamed' BY <1>0, <2>1, <2>2, SyncNew DEF SyncAllNamed, SyncNamed, SyncShape
  <2>5. SyncKept' BY <1>0, <2>1, <2>2 DEF SyncKept, SyncAsWanted, SyncShape
  <2>6. SyncExclusion' BY <1>0, <2>1, <2>2 DEF SyncExclusion, SyncShape
  <2>7. SyncFetched' BY <1>0, <2>1, <2>2, SyncNew DEF SyncFetched, SyncShape, Sync!Has
  <2>8. SyncComplete'
    <3>1. thread[t].step # "files" /\ thread'[t].step # "files"
      BY <1>0, <2>1, <2>2, SyncNew DEF SyncShape
    <3>2. \A u \in Actor : u # t => thread'[u] = thread[u] BY <1>0, <2>1 DEF SyncShape
    <3>3. QED BY <1>0, <2>1, <3>1, <3>2 DEF SyncComplete
  <2>9. QED BY <2>3, <2>4, <2>5, <2>6, <2>7, <2>8 DEF SyncIInv
<1>4. ASSUME NEW t \in Actor, Sync!SyncBegins(t) PROVE SyncIInv'
  <2> DEFINE new == [thread[t] EXCEPT !.step = "log"]
             set == Sync!Saved("progressing", thread[t].repos)
  <2>1. /\ DOMAIN new = DOMAIN thread[t] /\ new.step = "log" /\ new.repos = thread[t].repos
        /\ new.done = thread[t].done /\ new.files = thread[t].files
    BY <1>0 DEF SyncShape
  <2>2. /\ DOMAIN set = DOMAIN memory /\ set.repos = thread[t].repos /\ set.status = "progressing"
    BY <1>0 DEF SyncShape, SyncSet, Sync!Saved
  <2> HIDE DEF new, set
  <2>3. /\ thread' = [thread EXCEPT ![t] = new] /\ disk' = [disk EXCEPT !.set = set]
        /\ memory' = [set EXCEPT !.journey = "progressing"] /\ past' = past
        /\ thread[t].step = "lock" /\ ~Sync!Locked
    BY <1>4 DEF Sync!SyncBegins, Sync!Becomes, set, new
  <2>4. /\ DOMAIN memory' = DOMAIN memory /\ memory'.repos = thread[t].repos
        /\ memory'.status = "progressing"
        /\ DOMAIN disk' = DOMAIN disk /\ disk'.set = set /\ disk'.clone = disk.clone
    BY <1>0, <2>2, <2>3 DEF SyncShape, SyncSet
  <2>5. SyncShape' BY <1>0, <2>1, <2>2, <2>3, <2>4 DEF SyncShape, SyncSet
  <2>6. SyncAllNamed' BY <1>0, <2>1, <2>2, <2>3, <2>4 DEF SyncAllNamed, SyncNamed, SyncShape
  <2>7. SyncKept' BY <1>0, <2>1, <2>3, <2>4 DEF SyncKept, SyncAsWanted, SyncShape
  <2>8. SyncExclusion' BY <1>0, <2>1, <2>3 DEF SyncExclusion, SyncShape, Sync!Locked
  <2>9. SyncFetched' BY <1>0, <2>1, <2>3 DEF SyncFetched, SyncShape, Sync!Has
  <2>10. SyncComplete' BY <2>4 DEF SyncComplete
  <2>11. QED BY <2>5, <2>6, <2>7, <2>8, <2>9, <2>10 DEF SyncIInv
<1>5. ASSUME NEW t \in Actor, NEW r \in RepoRole, Sync!SyncOne(t, r) PROVE SyncIInv'
  <2> DEFINE repo == thread[t].repos[r]
             clone == Sync!CloneOf(repo, thread[t].force)
  <2>1. /\ thread[t].step = "work" /\ r \in Sync!Has(thread[t].repos) \ thread[t].done
        /\ UNCHANGED <<memory, past>>
    BY <1>5 DEF Sync!SyncOne
  <2>2. \/ /\ \E same \in BOOLEAN :
                thread' = [thread EXCEPT ![t] =
                  SyncAfter(thread[t], r, IF same /\ repo.synced /\ ~thread[t].force
                                          THEN "cached" ELSE "complete", TRUE, clone)]
           /\ disk' = [disk EXCEPT !.clone[repo.id] = clone]
        \/ /\ thread' = [thread EXCEPT ![t] = SyncAfter(thread[t], r, "error", FALSE, 0)]
           /\ disk' = [disk EXCEPT !.clone[repo.id] = IF thread[t].force THEN 0 ELSE @]
    BY <1>5 DEF Sync!SyncOne, Sync!Becomes, SyncAfter
  <2>3. PICK status :
          \/ /\ thread' = [thread EXCEPT ![t] = SyncAfter(thread[t], r, status, TRUE, clone)]
             /\ disk' = [disk EXCEPT !.clone[repo.id] = clone]
          \/ /\ status = "error" /\ thread' = [thread EXCEPT ![t] = SyncAfter(thread[t], r, status, FALSE, 0)]
             /\ disk' = [disk EXCEPT !.clone[repo.id] = IF thread[t].force THEN 0 ELSE @]
    BY <2>2
  <2>4. PICK ok \in BOOLEAN :
          /\ thread' = [thread EXCEPT ![t] = SyncAfter(thread[t], r, status, ok, IF ok THEN clone ELSE 0)]
          /\ ok \/ status = "error"
    BY <2>3
  <2> DEFINE file == IF ok THEN clone ELSE 0
             new == SyncAfter(thread[t], r, status, ok, file)
  <2>5. /\ DOMAIN new = DOMAIN thread[t] /\ new.step = "work"
        /\ new.done = thread[t].done \cup {r} /\ SyncRepos(new.repos)
        /\ DOMAIN new.files = RepoRole
        /\ new.files[r] = IF ok THEN clone ELSE 0
        /\ new.repos[r].status = status
        /\ \A x \in RepoRole :
             /\ new.repos[x].id = thread[t].repos[x].id
             /\ new.repos[x].url = thread[t].repos[x].url
             /\ x # r => /\ new.files[x] = thread[t].files[x]
                         /\ new.repos[x].status = thread[t].repos[x].status
    <3>1. /\ DOMAIN thread[t] = {"step", "force", "repos", "done", "files"}
          /\ SyncRepos(thread[t].repos) /\ DOMAIN thread[t].files = RepoRole
      BY <1>0 DEF SyncShape
    <3>2. file = IF ok THEN clone ELSE 0 OBVIOUS
    <3> HIDE DEF file
    <3> DEFINE old == thread[t]
               done == SyncAfter(old, r, status, ok, file)
    <3>3. old = thread[t] /\ done = new OBVIOUS
    <3> HIDE DEF old
    <3>4. /\ DOMAIN old = {"step", "force", "repos", "done", "files"}
          /\ SyncRepos(old.repos) /\ DOMAIN old.files = RepoRole
      BY <3>1, <3>3
    <3>5. /\ DOMAIN done = DOMAIN old /\ done.step = old.step
          /\ done.done = old.done \cup {r} /\ SyncRepos(done.repos)
          /\ DOMAIN done.files = RepoRole
          /\ done.files[r] = file /\ done.repos[r].status = status
          /\ \A x \in RepoRole :
                /\ done.repos[x].id = old.repos[x].id
                /\ done.repos[x].url = old.repos[x].url
                /\ x # r => /\ done.files[x] = old.files[x]
                            /\ done.repos[x].status = old.repos[x].status
      BY <3>4, SyncAfterShape
    <3> HIDE DEF new, done
    <3>6. QED BY <2>1, <3>2, <3>3, <3>5
  <2>6. thread' = [thread EXCEPT ![t] = new] BY <2>4
  <2> HIDE DEF new
  <2>7. /\ DOMAIN disk' = DOMAIN disk /\ disk'.set = disk.set /\ DOMAIN disk'.clone = 1..Bound.edits
        /\ \A id \in 1..Bound.edits : disk'.clone[id] # disk.clone[id] =>
             id = repo.id /\ disk'.clone[id] \in {0, clone}
    <3>1. PICK cloned :
            /\ cloned \in {0, clone, disk.clone[repo.id]}
            /\ disk' = [disk EXCEPT !.clone[repo.id] = cloned]
      BY <2>3
    <3> HIDE DEF repo, clone
    <3>2. DOMAIN disk = {"set", "clone"} /\ DOMAIN disk.clone = 1..Bound.edits
      BY <1>0 DEF SyncShape
    <3>3. disk'.clone = [disk.clone EXCEPT ![repo.id] = cloned] /\ disk'.set = disk.set
      BY <3>1, <3>2
    <3>4. QED BY <3>1, <3>2, <3>3
  <2>8. repo.id \in 1..Bound.edits
    BY <1>0, <2>1 DEF SyncShape, SyncRepos, Sync!Has
  <2>9. repo.id \notin past.changed => clone = repo.id
    BY <1>0, <2>8 DEF SyncAllNamed, SyncNamed, Sync!CloneOf
  <2> HIDE DEF clone
  <2>10. SyncShape' BY <1>0, <2>1, <2>5, <2>6, <2>7 DEF SyncShape
  <2>11. SyncAllNamed'
    BY <1>0, <2>1, <2>5, <2>6, <2>7, <2>9 DEF SyncAllNamed, SyncNamed, SyncShape
  <2>12. SyncKept' BY <1>0, <2>1, <2>5, <2>6 DEF SyncKept, SyncAsWanted, SyncShape
  <2>13. SyncExclusion' BY <1>0, <2>1, <2>5, <2>6 DEF SyncExclusion, SyncShape
  <2>14. SyncFetched'
    <3>1. \A u \in Actor : u # t => thread'[u] = thread[u] BY <1>0, <2>6 DEF SyncShape
    <3>2. thread'[t] = new BY <1>0, <2>6 DEF SyncShape
    <3>3. \A x \in RepoRole :
            IF x \in new.done
            THEN new.repos[x].status # "error" /\ new.repos[x].id \notin past.changed
                   => new.files[x] = new.repos[x].id
            ELSE new.files[x] = 0
      BY <1>0, <2>4, <2>5, <2>9 DEF SyncFetched
    <3>4. QED BY <1>0, <2>1, <2>5, <3>1, <3>2, <3>3 DEF SyncFetched, Sync!Has
  <2>15. SyncComplete'
    <3>1. \A u \in Actor : u # t => thread'[u] = thread[u] BY <1>0, <2>6 DEF SyncShape
    <3>2. thread'[t].step = "work" BY <1>0, <2>5, <2>6 DEF SyncShape
    <3>3. QED BY <1>0, <2>1, <3>1, <3>2 DEF SyncComplete
  <2>16. QED BY <2>10, <2>11, <2>12, <2>13, <2>14, <2>15 DEF SyncIInv
<1>6. ASSUME NEW t \in Actor, Sync!SyncSaves(t) PROVE SyncIInv'
  <2> DEFINE new == [thread[t] EXCEPT !.step = "files"]
             set == Sync!Saved(Sync!StatusOf(thread[t].repos), thread[t].repos)
  <2>1. /\ DOMAIN new = DOMAIN thread[t] /\ new.step = "files" /\ new.repos = thread[t].repos
        /\ new.done = thread[t].done /\ new.files = thread[t].files
    BY <1>0 DEF SyncShape
  <2>2. /\ DOMAIN set = DOMAIN memory /\ set.repos = thread[t].repos
        /\ set.status = Sync!StatusOf(thread[t].repos)
    BY <1>0 DEF SyncShape, SyncSet, Sync!Saved
  <2>3. set.status \in {"complete", "cached"} =>
          \A r \in Sync!Has(set.repos) : set.repos[r].status # "error"
    BY <2>2 DEF Sync!StatusOf
  <2> HIDE DEF new, set
  <2>4. /\ thread' = [thread EXCEPT ![t] = new] /\ disk' = [disk EXCEPT !.set = set]
        /\ memory' = set /\ past' = past
        /\ thread[t].step = "work" /\ thread[t].done = Sync!Has(thread[t].repos)
    BY <1>6 DEF Sync!SyncSaves, Sync!Becomes, set, new
  <2>5. DOMAIN disk' = DOMAIN disk /\ disk'.set = set /\ disk'.clone = disk.clone
    BY <1>0, <2>4 DEF SyncShape
  <2>6. /\ \A u \in Actor : u # t => thread'[u] = thread[u]
        /\ thread'[t] = new
    BY <1>0, <2>4 DEF SyncShape
  <2>7. SyncShape' BY <1>0, <2>1, <2>2, <2>4, <2>5 DEF SyncShape, SyncSet
  <2>8. SyncAllNamed' BY <1>0, <2>1, <2>2, <2>4, <2>5, <2>6 DEF SyncAllNamed, SyncNamed
  <2>9. SyncKept' BY <1>0, <2>1, <2>2, <2>4, <2>6 DEF SyncKept, SyncAsWanted
  <2>10. SyncExclusion' BY <1>0, <2>1, <2>4, <2>6 DEF SyncExclusion
  <2>11. SyncFetched' BY <1>0, <2>1, <2>4, <2>6 DEF SyncFetched, Sync!Has
  <2>12. SyncComplete'
    <3>1. \A u \in Actor : thread'[u].step = "files" <=> u = t
      BY <1>0, <2>1, <2>4, <2>6 DEF SyncExclusion
    <3>2. QED BY <2>1, <2>2, <2>3, <2>4, <2>6, <3>1 DEF SyncComplete
  <2>13. QED BY <2>7, <2>8, <2>9, <2>10, <2>11, <2>12 DEF SyncIInv
<1>7. ASSUME NEW t \in Actor, Sync!SyncEnds(t) PROVE SyncIInv'
  <2>1. /\ thread[t].step = "files" /\ thread' = [thread EXCEPT ![t] = Sync!Free]
        /\ disk' = disk /\ past' = [past EXCEPT !.oldFiles = FALSE]
        /\ \E journey : memory' = [memory EXCEPT !.files = thread[t].files, !.journey = journey]
    BY <1>7 DEF Sync!SyncEnds, Sync!Becomes
  <2>2. /\ DOMAIN memory' = DOMAIN memory /\ memory'.repos = memory.repos
        /\ memory'.exists = memory.exists /\ memory'.status = memory.status
        /\ memory'.files = thread[t].files
        /\ DOMAIN past' = DOMAIN past /\ past'.raced = past.raced /\ past'.wanted = past.wanted
        /\ past'.changed = past.changed /\ past'.edits = past.edits
    BY <1>0, <2>1 DEF SyncShape, SyncSet
  <2>3. /\ \A u \in Actor : u # t => thread'[u] = thread[u]
        /\ thread'[t] = Sync!Free
    BY <1>0, <2>1 DEF SyncShape
  <2>4. SyncShape' BY <1>0, <2>1, <2>2, <2>3, SyncNew DEF SyncShape, SyncSet
  <2>5. SyncAllNamed' BY <1>0, <2>1, <2>2, <2>3, SyncNew DEF SyncAllNamed, SyncNamed
  <2>6. SyncKept' BY <1>0, <2>2, <2>3, SyncNew DEF SyncKept, SyncAsWanted
  <2>7. SyncExclusion' BY <1>0, <2>3, SyncNew DEF SyncExclusion
  <2>8. SyncFetched' BY <1>0, <2>2, <2>3, SyncNew DEF SyncFetched, Sync!Has
  <2>9. SyncComplete'
    <3> SUFFICES ASSUME memory.exists, memory.status \in {"complete", "cached"}
                 PROVE  /\ \A u \in Actor : thread'[u].step # "files"
                        /\ \A r \in RepoRole : memory.repos[r].id \notin past.changed
                                              => thread[t].files[r] = memory.repos[r].id
      BY <2>2 DEF SyncComplete
    <3>1. \A u \in Actor : thread'[u].step # "files"
      BY <1>0, <2>1, <2>3, SyncNew DEF SyncExclusion
    <3>2. /\ thread[t].repos = memory.repos /\ thread[t].done = Sync!Has(memory.repos)
          /\ \A r \in Sync!Has(memory.repos) : memory.repos[r].status # "error"
      BY <1>0, <2>1 DEF SyncComplete, SyncFetched
    <3>3. \A r \in RepoRole \ Sync!Has(memory.repos) : memory.repos[r].id = 0
      BY <1>0 DEF SyncShape, SyncSet, SyncRepos, Sync!Has
    <3>4. QED BY <1>0, <3>1, <3>2, <3>3 DEF SyncFetched
  <2>10. QED BY <2>4, <2>5, <2>6, <2>7, <2>8, <2>9 DEF SyncIInv
<1>8. CASE Sync!PersistCatalog
  <2>1. /\ DOMAIN disk' = DOMAIN disk /\ disk'.set = memory /\ disk'.clone = disk.clone
        /\ UNCHANGED <<memory, thread, past>>
    BY <1>0, <1>8 DEF SyncShape, Sync!PersistCatalog
  <2>2. SyncShape' /\ SyncAllNamed' BY <1>0, <2>1 DEF SyncShape, SyncAllNamed, SyncNamed
  <2>3. SyncKept' /\ SyncExclusion' BY <1>0, <2>1 DEF SyncKept, SyncAsWanted, SyncExclusion
  <2>4. SyncFetched' /\ SyncComplete' BY <1>0, <2>1 DEF SyncFetched, SyncComplete, Sync!Has
  <2>5. QED BY <2>2, <2>3, <2>4 DEF SyncIInv
<1>9. CASE Sync!Restart
  <2>1. /\ memory' = disk.set /\ disk' = disk /\ thread' = [t \in Actor |-> Sync!Free]
        /\ past' = [past EXCEPT !.restarts = @ + 1, !.oldFiles = TRUE,
             !.raced = @ \cup {r \in RepoRole : disk.set.repos[r].url # past.wanted[r]}]
    BY <1>9 DEF Sync!Restart
  <2>2. /\ DOMAIN past' = DOMAIN past /\ past'.oldFiles = TRUE /\ past'.wanted = past.wanted
        /\ past'.changed = past.changed /\ past'.edits = past.edits
        /\ past'.raced
             = past.raced \cup {r \in RepoRole : disk.set.repos[r].url # past.wanted[r]}
    BY <1>0, <2>1 DEF SyncShape
  <2>3. SyncShape' BY <1>0, <2>1, <2>2, SyncNew DEF SyncShape
  <2>4. SyncAllNamed' BY <1>0, <2>1, <2>2, SyncNew DEF SyncAllNamed, SyncNamed
  <2>5. SyncKept' BY <2>1, <2>2, SyncNew DEF SyncKept, SyncAsWanted
  <2>6. SyncExclusion' BY <2>1, SyncNew DEF SyncExclusion
  <2>7. SyncFetched' BY <2>1, SyncNew DEF SyncFetched
  <2>8. SyncComplete' BY <2>1, <2>2, SyncNew DEF SyncComplete
  <2>9. QED BY <2>3, <2>4, <2>5, <2>6, <2>7, <2>8 DEF SyncIInv
<1>10. CASE UNCHANGED Sync!vars
  BY <1>0, <1>10 DEF Sync!vars, SyncIInv, SyncShape, SyncAllNamed, SyncNamed, SyncKept, SyncAsWanted,
     SyncExclusion, SyncFetched, SyncComplete, Sync!Has
<1>11. QED
  BY <1>1, <1>2, <1>3, <1>4, <1>5, <1>6, <1>7, <1>8, <1>9, <1>10 DEF Sync!Next

\* The invariant of the synchronisation holds when it is looked at.
SyncInv == service = "sync" => SyncIInv

LEMMA SyncInvariant == Spec => []SyncInv
<1>1. Init => SyncInv BY StoreInits, SyncInit DEF SyncInv
<1>2. SyncInv /\ [Next]_vars => SyncInv' BY StoreSteps, SyncNext DEF SyncInv
<1>3. QED BY <1>1, <1>2, PTL DEF Spec

\* No synchronisation, whatever it fails at and whichever copy it saves, undoes
\* an edit that was not made while a copy was held: for any edits, requests and
\* restarts.
THEOREM EditsAreKept == Spec => []EditsKept
<1>1. SyncInv => EditsKept
  BY DEF SyncInv, SyncIInv, SyncKept, SyncAsWanted, EditsKept, Sync!EditsKept
<1>2. QED BY SyncInvariant, <1>1, PTL

\* A set reported as complete has the files of the repositories it names and of
\* no others, for any edits, requests and restarts.
THEOREM InventoryIsBacked == Spec => []InventoryBacked
<1>1. SyncInv => InventoryBacked
  BY DEF SyncInv, SyncIInv, SyncAllNamed, SyncNamed, SyncComplete, InventoryBacked,
         Sync!InventoryBacked
<1>2. QED BY SyncInvariant, <1>1, PTL

-----------------------------------------------------------------------------
(* The documents of a project.                                             *)

DocWriting == {"extracting", "extract", "index", "chunks", "ready", "error"}
DocSteps == {"idle", "save", "list", "manifest", "delete", "rmtree"} \cup DocWriting
DocStatuses == {"none", "queued", "extracting", "embedding", "ready", "partial", "error"}
DocRows == [status : DocStatuses, chunks : Nat]
DocFiles == [source : BOOLEAN, index : Nat, chunks : Nat]
DocThreads ==
    [op : {"none", "upload", "process", "delete"}, step : DocSteps, doc : Document,
        row : DocRows,
     list : [Document -> DocRows], fresh : BOOLEAN, missing : BOOLEAN]

DocDisks ==
    [rows : [Document -> DocRows], files : [Document -> DocFiles],
        manifest : [Document -> DocRows]]
DocPasts ==
    [uploaded : SUBSET Document, restarts : Nat, deleted : SUBSET Document,
     raced : SUBSET Document, stale : BOOLEAN]

DocTypeOK ==
    /\ memory \in [tasks : SUBSET Document]
    /\ disk \in DocDisks
    /\ thread \in [Actor -> DocThreads]
    /\ past \in DocPasts

\* The operation of a worker fits its step.
Fitting ==
    \A w \in Actor :
        /\ thread[w].step = "save" => thread[w].op = "upload"
        /\ thread[w].step \in DocWriting => thread[w].op = "process"
        /\ thread[w].step \in {"delete", "rmtree"} => thread[w].op = "delete"
        /\ thread[w].step = "idle" => thread[w].op = "none"

\* Nothing is known of a document before its upload.
DocKnown ==
    /\ memory.tasks \subseteq past.uploaded
    /\ past.deleted \subseteq past.uploaded
    /\ \A w \in Actor : thread[w].step # "idle" => thread[w].doc \in past.uploaded
    /\ \A d \in Document \ past.uploaded :
         /\ disk.rows[d] = Context!NoRow /\ disk.manifest[d] = Context!NoRow
         /\ \A w \in Actor : thread[w].list[d] = Context!NoRow

Engaged(w) == thread[w].op \in {"upload", "process"}

\* A document is uploaded by one worker, and later processed by one.
DocAlone ==
    /\ \A w, v \in Actor :
         Engaged(w) /\ Engaged(v) /\ thread[w].doc = thread[v].doc => w = v
    /\ \A w \in Actor : Engaged(w) => thread[w].doc \notin memory.tasks
    /\ \A w \in Actor : thread[w].step = "save" =>
         disk.rows[thread[w].doc] = Context!NoRow /\ thread[w].doc \notin past.deleted

\* A task that outlives its document has raced with the deletion.
Outlived ==
    \A w \in Actor :
        thread[w].step \in DocWriting /\ thread[w].doc \in past.deleted
          => thread[w].doc \in past.raced

\* The file of a document is there until it is deleted.
DocSource ==
    /\ \A d \in past.uploaded \ past.deleted : disk.files[d].source
    /\ \A w \in Actor : thread[w].step = "rmtree" => thread[w].doc \in past.deleted

DocHonest(d, row) ==
    row.status \in Context!Searched =>
        /\ row.chunks > 0
        /\ disk.files[d].index = row.chunks /\ disk.files[d].chunks = row.chunks

\* A row that says that a document can be searched is right, wherever it is.
RowsHonest ==
    \A d \in Document \ past.deleted :
        /\ DocHonest(d, disk.rows[d]) /\ DocHonest(d, disk.manifest[d])
        /\ \A w \in Actor : DocHonest(d, thread[w].list[d])

DocSeen(d) ==
    \/ disk.rows[d].status \in Context!Searched
    \/ disk.manifest[d].status \in Context!Searched
    \/ \E w \in Actor : thread[w].list[d].status \in Context!Searched

\* Where there is such a row, nobody is going to process the document.
DocProcessed ==
    \A d \in Document : DocSeen(d) =>
        /\ d \notin memory.tasks
        /\ \A w \in Actor : thread[w].doc = d =>
             thread[w].op # "upload" /\ thread[w].step \notin DocWriting

\* What a task has made so far is in the document's directory.
DocMade ==
    \A w \in Actor : thread[w].doc \notin past.deleted =>
        /\ thread[w].step \in {"index", "chunks", "ready"} => thread[w].row.chunks > 0
        /\ thread[w].step \in {"chunks", "ready"} =>
             disk.files[thread[w].doc].index = thread[w].row.chunks
        /\ thread[w].step = "ready" =>
             disk.files[thread[w].doc].chunks = thread[w].row.chunks

Busy(w) == thread[w].step \notin {"idle", "delete"}

\* A list that is still fresh is what the catalog says, unless somebody else
\* is going to write the manifest, too.
FreshLists ==
    \A w \in Actor :
        thread[w].step = "manifest" /\ thread[w].fresh
          => thread[w].list = disk.rows \/ \E v \in Actor \ {w} : Busy(v)

Agreed ==
    (\A w \in Actor : ~Busy(w)) /\ ~past.stale => disk.manifest = disk.rows

DocIInv ==
    /\ DocTypeOK /\ Fitting /\ DocKnown /\ DocAlone
    /\ Context!DeletedStays /\ Outlived /\ DocSource
    /\ RowsHonest /\ DocProcessed /\ DocMade
    /\ FreshLists /\ Agreed

DocConstantsOK == Bound.chunks \in Nat /\ Document # {}

LEMMA FreeIsThread == ASSUME DocConstantsOK PROVE Context!Free \in DocThreads
BY DEF DocConstantsOK, Context!Free, DocThreads, Context!NoRow, DocRows, DocStatuses,
    DocSteps, DocWriting

\* The types of what the actions assign.
LEMMA DocThreadTypes ==
    ASSUME NEW t \in DocThreads, NEW s \in DocSteps, NEW r \in DocRows, NEW d \in Document
    PROVE  /\ [t EXCEPT !.step = s] \in DocThreads
           /\ [t EXCEPT !.row = r, !.step = s] \in DocThreads
           /\ \A b \in BOOLEAN : [t EXCEPT !.row = r, !.missing = b,
               !.step = s] \in DocThreads
           /\ \A l \in [Document -> DocRows] :
                [t EXCEPT !.step = s, !.list = l, !.fresh = TRUE] \in DocThreads
           /\ [t EXCEPT !.fresh = FALSE] \in DocThreads
           /\ \A o \in {"none", "upload", "process", "delete"} :
                /\ [t EXCEPT !.op = o, !.step = s, !.doc = d] \in DocThreads
                /\ [t EXCEPT !.op = o, !.step = s, !.doc = d, !.row = r] \in DocThreads
BY DEF DocThreads

LEMMA DocDiskTypes ==
    ASSUME disk \in DocDisks, NEW d \in Document, NEW r \in DocRows, NEW n \in Nat
    PROVE  /\ [disk EXCEPT !.rows[d] = r] \in DocDisks
           /\ [disk EXCEPT !.files[d] = Context!NoFiles] \in DocDisks
           /\ [disk EXCEPT !.files[d].source = TRUE] \in DocDisks
           /\ [disk EXCEPT !.files[d].index = n] \in DocDisks
           /\ [disk EXCEPT !.files[d].chunks = n] \in DocDisks
           /\ \A l \in [Document -> DocRows] : [disk EXCEPT !.manifest = l] \in DocDisks
<1>1. disk.rows[d] \in DocRows /\ disk.files[d] \in DocFiles BY DEF DocDisks
<1>2. [disk.files[d] EXCEPT !.source = TRUE] \in DocFiles BY <1>1 DEF DocFiles
<1>3. [disk.files[d] EXCEPT !.index = n] \in DocFiles BY <1>1 DEF DocFiles
<1>4. [disk.files[d] EXCEPT !.chunks = n] \in DocFiles BY <1>1 DEF DocFiles
<1>5. Context!NoFiles \in DocFiles BY DEF Context!NoFiles, DocFiles
<1>6. \A f \in DocFiles : [disk.files EXCEPT ![d] = f] \in [Document -> DocFiles]
  BY DEF DocDisks
<1>7. \A f \in [Document -> DocFiles] : [disk EXCEPT !.files = f] \in DocDisks
  BY DEF DocDisks
<1>8. [disk.rows EXCEPT ![d] = r] \in [Document -> DocRows] BY DEF DocDisks
<1>9. \A l \in [Document -> DocRows] :
        [disk EXCEPT !.rows = l] \in DocDisks /\ [disk EXCEPT !.manifest = l] \in DocDisks
    BY DEF DocDisks
<1>10. [disk EXCEPT !.files[d] = Context!NoFiles] \in DocDisks BY <1>5, <1>6, <1>7
<1>11. [disk EXCEPT !.files[d].source = TRUE] \in DocDisks BY <1>2, <1>6, <1>7
<1>12. [disk EXCEPT !.files[d].index = n] \in DocDisks BY <1>3, <1>6, <1>7
<1>13. [disk EXCEPT !.files[d].chunks = n] \in DocDisks BY <1>4, <1>6, <1>7
<1>14. [disk EXCEPT !.rows[d] = r] \in DocDisks BY <1>8, <1>9
<1>15. QED BY <1>9, <1>10, <1>11, <1>12, <1>13, <1>14

\* The strengthened invariant holds initially.
LEMMA DocInitIInv == ASSUME DocConstantsOK PROVE Context!Init => DocIInv
<1> SUFFICES ASSUME Context!Init PROVE DocIInv OBVIOUS
<1> USE DEF Context!Init
<1>1. Context!NoRow \in DocRows /\ Context!NoFiles \in DocFiles
  BY DEF Context!NoRow, DocRows, Context!NoFiles, DocFiles, DocStatuses
<1>2. DocTypeOK BY <1>1, FreeIsThread DEF DocTypeOK, DocDisks, DocPasts
<1>3. \A w \in Actor : thread[w] = Context!Free OBVIOUS
<1>4. Fitting /\ DocKnown /\ DocAlone
    BY <1>3 DEF Fitting, DocKnown, DocAlone, Engaged, Context!Free, DocWriting
<1>5. Context!DeletedStays /\ Outlived /\ DocSource
    BY <1>3 DEF Context!DeletedStays, Outlived, DocSource, Context!Free, DocWriting
<1>6. RowsHonest /\ DocProcessed /\ DocMade
    BY <1>3 DEF RowsHonest, DocProcessed, DocMade, Context!Free, DocWriting, DocHonest,
        DocSeen, Context!NoRow, Context!Searched
<1>7. FreshLists /\ Agreed BY <1>3 DEF FreshLists, Agreed, Context!Free
<1>8. QED BY <1>2, <1>4, <1>5, <1>6, <1>7 DEF DocIInv

\* Every step keeps it.
LEMMA DocNextIInv == ASSUME DocConstantsOK, DocIInv, [Context!Next]_(Context!vars)
  PROVE DocIInv'
<1> USE DEF DocIInv
<1>0. UNCHANGED Context!vars => DocIInv'
  BY DEF Context!vars, DocTypeOK, Fitting, DocKnown, DocAlone, Engaged,
      Context!DeletedStays, Outlived, DocSource,
         RowsHonest, DocHonest, DocSeen, DocProcessed, DocMade, Busy, FreshLists, Agreed
<1>1. ASSUME Context!Restart PROVE DocIInv'
  <2> USE <1>1 DEF Context!Restart, Context!At
  <2>1. DocTypeOK'
    <3>1. disk' \in DocDisks BY DocDiskTypes DEF DocTypeOK
    <3>2. thread' \in [Actor -> DocThreads]
      BY DocThreadTypes, FreeIsThread DEF Context!Found
    <3>3. past' \in DocPasts
      <4>1. PICK b \in BOOLEAN : b = (past.stale \/ \E w \in Actor : thread[w].step # "idle")
          BY Zenon
      <4>2. past' = [past EXCEPT !.restarts = @ + 1, !.stale = b] BY <4>1
      <4>3. past' = [uploaded |-> past.uploaded, restarts |-> past.restarts + 1,
                     deleted |-> past.deleted, raced |-> past.raced, stale |-> b]
        BY <4>2, Zenon DEF DocTypeOK, DocPasts
      <4>4. past.restarts + 1 \in Nat BY DEF DocTypeOK, DocPasts
      <4>5. past.uploaded \in SUBSET Document /\ past.deleted \in SUBSET Document
            /\ past.raced \in SUBSET Document
          BY DEF DocTypeOK, DocPasts
      <4>6. QED BY <4>3, <4>4, <4>5, Zenon DEF DocPasts
    <3>4. memory' \in [tasks : SUBSET Document] OBVIOUS
    <3>5. QED BY <3>1, <3>2, <3>3, <3>4 DEF DocTypeOK
  <2>2. Fitting' BY DEF Fitting, DocWriting, Context!Free, Context!Found
  <2>3. DocKnown' BY DEF DocKnown, Context!Free, Context!Found
  <2>4. DocAlone' BY DEF DocAlone, Engaged, Context!Free
  <2>5. Context!DeletedStays' BY DEF Context!DeletedStays
  <2>6. Outlived' BY DEF Outlived, Context!Free, Context!Found, DocWriting
  <2>7. DocSource' BY DEF DocSource, Context!Free, Context!NoFiles
  <2>8. RowsHonest'
    BY DEF RowsHonest, DocHonest, Context!Searched, Context!Free, Context!NoRow
  <2>9. DocProcessed' BY DEF DocProcessed, Context!Free, DocWriting
  <2>10. DocMade' BY DEF DocMade, Context!Free
  <2>11. FreshLists' BY DEF FreshLists, Context!Free, Context!Found
  <2>12. Agreed' BY DEF Agreed, Busy, DocTypeOK, DocPasts, Context!Found
  <2>13. QED BY <2>1, <2>2, <2>3, <2>4, <2>5, <2>6, <2>7, <2>8, <2>9, <2>10, <2>11, <2>12
<1>2. ASSUME NEW w \in Actor, NEW d \in Document, Context!CreateUpload(w, d) PROVE DocIInv'
  <2> USE <1>2 DEF Context!CreateUpload, Context!At, Context!Becomes
  <2>1. DocTypeOK'
    <3>0. thread[w] \in DocThreads /\ thread[w].doc \in Document /\ thread[w].row \in DocRows
      BY DEF DocTypeOK, DocThreads
    <3>1. disk' \in DocDisks BY DocDiskTypes, <3>0 DEF DocTypeOK
    <3>2. thread' \in [Actor -> DocThreads]
        BY DocThreadTypes, FreeIsThread, <3>0 DEF DocTypeOK, DocSteps, Context!Found
    <3>3. past' \in DocPasts BY <3>0 DEF DocTypeOK, DocPasts
    <3>4. memory' \in [tasks : SUBSET Document] BY <3>0 DEF DocTypeOK
    <3>5. QED BY <3>1, <3>2, <3>3, <3>4 DEF DocTypeOK
  <2>2. Fitting' BY DEF Fitting, DocWriting, Context!Found
  <2>3. DocKnown' BY DEF DocKnown, Context!Free, Context!Found
  <2>4. DocAlone' BY DEF DocAlone, Engaged, Fitting, DocKnown
  <2>5. Context!DeletedStays' BY DEF Context!DeletedStays
  <2>6. Outlived' BY DEF Outlived, DocKnown
  <2>7. DocSource' BY DEF DocSource, DocTypeOK, DocDisks, Context!NoFiles
  <2>8. RowsHonest'
    BY DEF RowsHonest, DocHonest, Context!Searched, Context!Free, Context!NoRow
  <2>9. DocProcessed'
    BY DEF DocSeen, Context!Searched, DocProcessed, DocKnown, Context!Free, Context!NoRow
  <2>10. DocMade' BY DEF DocMade
  <2>11. FreshLists' BY DEF FreshLists, Busy, Context!Found
  <2>12. Agreed' BY DEF Agreed, Busy, Context!Found
  <2>13. QED BY <2>1, <2>2, <2>3, <2>4, <2>5, <2>6, <2>7, <2>8, <2>9, <2>10, <2>11, <2>12
<1>3. ASSUME NEW w \in Actor, Context!UploadSaves(w) PROVE DocIInv'
  <2> USE <1>3
    DEF Context!UploadSaves, Context!At, Context!Becomes, Context!Saves, Context!Row
  <2>1. DocTypeOK'
    <3>0. thread[w] \in DocThreads /\ thread[w].doc \in Document /\ thread[w].row \in DocRows
      BY DEF DocTypeOK, DocThreads
    <3>1. disk' \in DocDisks BY DocDiskTypes, <3>0 DEF DocTypeOK, DocRows, DocStatuses
    <3>2. thread' \in [Actor -> DocThreads]
        BY DocThreadTypes, FreeIsThread, <3>0
            DEF DocTypeOK, DocRows, DocStatuses, DocSteps, Context!Found
    <3>3. past' \in DocPasts BY <3>0 DEF DocTypeOK
    <3>4. memory' \in [tasks : SUBSET Document] BY <3>0 DEF DocTypeOK
    <3>5. QED BY <3>1, <3>2, <3>3, <3>4 DEF DocTypeOK
  <2>2. Fitting' BY DEF Fitting, DocWriting, Context!Free, Context!Found
  <2>3. DocKnown' BY DEF DocKnown, Context!Free, Context!Found
  <2>4. DocAlone' BY DEF DocAlone, Engaged, Fitting, DocTypeOK
  <2>5. Context!DeletedStays' BY DEF Context!DeletedStays, DocAlone
  <2>6. Outlived' BY DEF Outlived, DocAlone
  <2>7. DocSource' BY DEF DocSource, Context!NoFiles
  <2>8. RowsHonest' BY DEF RowsHonest, DocHonest, Context!Searched
  <2>9. DocProcessed' BY DEF DocSeen, Context!Searched, DocProcessed, Fitting
  <2>10. DocMade' BY DEF DocMade
  <2>11. FreshLists' BY DEF FreshLists, Busy, Context!Free, Context!Found
  <2>12. Agreed' BY DEF Agreed, Busy, Context!Free, Context!Found
  <2>13. QED BY <2>1, <2>2, <2>3, <2>4, <2>5, <2>6, <2>7, <2>8, <2>9, <2>10, <2>11, <2>12
<1>4. ASSUME NEW w \in Actor, Context!Lists(w) PROVE DocIInv'
  <2> USE <1>4 DEF Context!Lists, Context!At, Context!Becomes
  <2>1. DocTypeOK'
    <3>0. thread[w] \in DocThreads /\ thread[w].doc \in Document /\ thread[w].row \in DocRows
      BY DEF DocTypeOK, DocThreads
    <3>1. disk' \in DocDisks BY DocDiskTypes, <3>0 DEF DocTypeOK
    <3>2. thread' \in [Actor -> DocThreads]
        BY DocThreadTypes, FreeIsThread, <3>0
            DEF DocTypeOK, DocSteps, DocDisks, Context!Found
    <3>3. past' \in DocPasts BY <3>0 DEF DocTypeOK
    <3>4. memory' \in [tasks : SUBSET Document] BY <3>0 DEF DocTypeOK
    <3>5. QED BY <3>1, <3>2, <3>3, <3>4 DEF DocTypeOK
  <2>2. Fitting' BY DEF Fitting, DocWriting, Context!Free, Context!Found
  <2>3. DocKnown' BY DEF DocKnown, Context!Free, Context!Found
  <2>4. DocAlone' BY DEF DocAlone, Engaged
  <2>5. Context!DeletedStays' BY DEF Context!DeletedStays
  <2>6. Outlived' BY DEF Outlived, Context!Free, Context!Found, DocWriting
  <2>7. DocSource' BY DEF DocSource, Context!NoFiles
  <2>8. RowsHonest' BY DEF RowsHonest, DocHonest
  <2>9. DocProcessed' BY DEF DocSeen, DocProcessed, DocWriting
  <2>10. DocMade' BY DEF DocMade
  <2>11. FreshLists' BY DEF FreshLists, Busy, Context!Free, Context!Found
  <2>12. Agreed' BY DEF Agreed, Busy, Context!Free, Context!Found
  <2>13. QED BY <2>1, <2>2, <2>3, <2>4, <2>5, <2>6, <2>7, <2>8, <2>9, <2>10, <2>11, <2>12
<1>5. ASSUME NEW w \in Actor, Context!WritesManifest(w) PROVE DocIInv'
  <2> USE <1>5 DEF Context!WritesManifest, Context!At
  <2>1. DocTypeOK'
    <3>0. thread[w] \in DocThreads /\ thread[w].doc \in Document /\ thread[w].row \in DocRows
      BY DEF DocTypeOK, DocThreads
    <3>1. disk' \in DocDisks BY DocDiskTypes, <3>0 DEF DocTypeOK, DocThreads
    <3>2. thread' \in [Actor -> DocThreads]
        BY DocThreadTypes, FreeIsThread, <3>0 DEF DocTypeOK, DocSteps, Context!Found
    <3>3. past' \in DocPasts BY <3>0 DEF DocTypeOK, DocPasts
    <3>4. memory' \in [tasks : SUBSET Document] BY <3>0 DEF DocTypeOK
    <3>5. QED BY <3>1, <3>2, <3>3, <3>4 DEF DocTypeOK
  <2>2. Fitting' BY DEF Fitting, DocWriting, Context!Free, Context!Found
  <2>3. DocKnown' BY DEF DocKnown, Context!Free, Context!Found
  <2>4. DocAlone' BY DEF DocAlone, Engaged, Context!Free
  <2>5. Context!DeletedStays' BY DEF Context!DeletedStays
  <2>6. Outlived' BY DEF Outlived, Context!Free, Context!Found, DocWriting
  <2>7. DocSource' BY DEF DocSource, Context!Free, Context!NoFiles
  <2>8. RowsHonest'
    BY DEF RowsHonest, DocHonest, Context!Searched, Context!Free, Context!NoRow
  <2>9. DocProcessed'
    BY DEF DocSeen, Context!Searched, DocProcessed, Context!Free, Context!Found,
      Context!NoRow, DocWriting
  <2>10. DocMade' BY DEF DocMade, Context!Free
  <2>11. FreshLists' BY DEF FreshLists, Context!Free, Context!Found
  <2>12. Agreed'
    <3> SUFFICES ASSUME \A v \in Actor : ~Busy(v)', ~past'.stale
                  PROVE disk'.manifest = disk'.rows
      BY DEF Agreed
    <3>1. thread[w].fresh BY DEF DocTypeOK, DocPasts
    <3>2. \A v \in Actor \ {w} : ~Busy(v) BY DEF Busy
    <3>3. thread[w].list = disk.rows BY <3>1, <3>2 DEF FreshLists
    <3>4. QED BY <3>3
  <2>13. QED BY <2>1, <2>2, <2>3, <2>4, <2>5, <2>6, <2>7, <2>8, <2>9, <2>10, <2>11, <2>12
<1>6. ASSUME NEW w \in Actor, NEW d \in Document, Context!Process(w, d) PROVE DocIInv'
  <2> USE <1>6 DEF Context!Process, Context!At, Context!Becomes
  <2>1. DocTypeOK'
    <3>0. thread[w] \in DocThreads /\ thread[w].doc \in Document /\ thread[w].row \in DocRows
      BY DEF DocTypeOK, DocThreads
    <3>1. disk' \in DocDisks BY DocDiskTypes, <3>0 DEF DocTypeOK
    <3>2. thread' \in [Actor -> DocThreads]
        BY DocThreadTypes, FreeIsThread, <3>0
            DEF DocTypeOK, DocSteps, DocWriting, DocDisks, Context!Found
    <3>3. past' \in DocPasts BY <3>0 DEF DocTypeOK
    <3>4. memory' \in [tasks : SUBSET Document] BY <3>0 DEF DocTypeOK
    <3>5. QED BY <3>1, <3>2, <3>3, <3>4 DEF DocTypeOK
  <2>2. Fitting' BY DEF Fitting, Context!Free
  <2>3. DocKnown' BY DEF DocKnown, Context!Free
  <2>4. DocAlone' BY DEF DocAlone, Engaged, Context!Free
  <2>5. Context!DeletedStays' BY DEF Context!DeletedStays
  <2>6. Outlived'
    BY DEF Context!DeletedStays, Outlived, Fitting, Context!Free, Context!Found
  <2>7. DocSource' BY DEF DocSource, Context!Free, Context!NoFiles
  <2>8. RowsHonest'
    BY DEF RowsHonest, DocHonest, Context!Searched, Context!Free, Context!NoRow
  <2>9. DocProcessed'
    BY DEF DocSeen, Context!Searched, DocProcessed, Fitting, Context!Free, Context!NoRow
  <2>10. DocMade' BY DEF DocMade, Context!Free
  <2>11. FreshLists' BY DEF FreshLists, Busy, Context!Free
  <2>12. Agreed' BY DEF Agreed, Busy
  <2>13. QED BY <2>1, <2>2, <2>3, <2>4, <2>5, <2>6, <2>7, <2>8, <2>9, <2>10, <2>11, <2>12
<1>7. ASSUME NEW w \in Actor, Context!Extracting(w) PROVE DocIInv'
  <2> USE <1>7
    DEF Context!Extracting, Context!At, Context!Becomes, Context!Saves, Context!Row
  <2>1. DocTypeOK'
    <3>0. thread[w] \in DocThreads /\ thread[w].doc \in Document /\ thread[w].row \in DocRows
      BY DEF DocTypeOK, DocThreads
    <3>1. disk' \in DocDisks BY DocDiskTypes, <3>0 DEF DocTypeOK, DocRows, DocStatuses
    <3>2. thread' \in [Actor -> DocThreads]
        BY DocThreadTypes, FreeIsThread, <3>0
            DEF DocTypeOK, DocRows, DocStatuses, DocSteps, DocWriting, Context!Found
    <3>3. past' \in DocPasts BY <3>0 DEF DocTypeOK
    <3>4. memory' \in [tasks : SUBSET Document] BY <3>0 DEF DocTypeOK
    <3>5. QED BY <3>1, <3>2, <3>3, <3>4 DEF DocTypeOK
  <2>2. Fitting' BY DEF Fitting, DocWriting, Context!Free, Context!Found
  <2>3. DocKnown' BY DEF DocKnown, Context!Free, Context!Found
  <2>4. DocAlone' BY DEF DocAlone, Engaged, Fitting, Context!Free, Context!Found, DocWriting
  <2>5. Context!DeletedStays'
    BY DEF Context!DeletedStays, Outlived, Context!Free, DocWriting
  <2>6. Outlived' BY DEF Outlived, Context!Free, Context!Found, DocWriting
  <2>7. DocSource' BY DEF DocSource, Context!NoFiles
  <2>8. RowsHonest' BY DEF RowsHonest, DocHonest, Context!Searched
  <2>9. DocProcessed' BY DEF DocSeen, Context!Searched, DocProcessed, DocWriting
  <2>10. DocMade' BY DEF DocMade
  <2>11. FreshLists' BY DEF FreshLists, Busy, Context!Free, Context!Found
  <2>12. Agreed' BY DEF Agreed, Busy, Context!Free, Context!Found
  <2>13. QED BY <2>1, <2>2, <2>3, <2>4, <2>5, <2>6, <2>7, <2>8, <2>9, <2>10, <2>11, <2>12
<1>8. ASSUME NEW w \in Actor, Context!Fails(w) PROVE DocIInv'
  <2> USE <1>8 DEF Context!Fails, Context!Becomes, Context!Goes
  <2>1. DocTypeOK'
    <3>0. thread[w] \in DocThreads /\ thread[w].doc \in Document /\ thread[w].row \in DocRows
      BY DEF DocTypeOK, DocThreads
    <3>1. disk' \in DocDisks BY DocDiskTypes, <3>0 DEF DocTypeOK
    <3>2. thread' \in [Actor -> DocThreads]
        BY DocThreadTypes, FreeIsThread, <3>0
            DEF DocTypeOK, DocSteps, DocWriting, Context!Found
    <3>3. past' \in DocPasts BY <3>0 DEF DocTypeOK
    <3>4. memory' \in [tasks : SUBSET Document] BY <3>0 DEF DocTypeOK
    <3>5. QED BY <3>1, <3>2, <3>3, <3>4 DEF DocTypeOK
  <2>2. Fitting' BY DEF Fitting, DocWriting, Context!Free, Context!Found
  <2>3. DocKnown' BY DEF DocKnown, Context!Free, Context!Found
  <2>4. DocAlone' BY DEF DocAlone, Engaged
  <2>5. Context!DeletedStays' BY DEF Context!DeletedStays
  <2>6. Outlived' BY DEF Outlived, Context!Free, Context!Found, DocWriting
  <2>7. DocSource' BY DEF DocSource, Context!NoFiles
  <2>8. RowsHonest' BY DEF RowsHonest, DocHonest
  <2>9. DocProcessed' BY DEF DocSeen, DocProcessed, DocWriting
  <2>10. DocMade' BY DEF DocMade
  <2>11. FreshLists' BY DEF FreshLists, Busy, Context!Free, Context!Found
  <2>12. Agreed' BY DEF Agreed, Busy, Context!Free, Context!Found
  <2>13. QED BY <2>1, <2>2, <2>3, <2>4, <2>5, <2>6, <2>7, <2>8, <2>9, <2>10, <2>11, <2>12
<1>9. ASSUME NEW w \in Actor, NEW n \in 1..Bound.chunks, NEW missing \in BOOLEAN,
             Context!Extracts(w, n, missing)
     PROVE DocIInv'
  <2> USE <1>9 DEF Context!Extracts, Context!At, Context!Becomes, Context!Row
  <2>1. DocTypeOK'
    <3>0. thread[w] \in DocThreads /\ thread[w].doc \in Document /\ thread[w].row \in DocRows
      BY DEF DocTypeOK, DocThreads
    <3>1. disk' \in DocDisks BY DocDiskTypes, <3>0 DEF DocTypeOK, DocRows, DocStatuses
    <3>2. thread' \in [Actor -> DocThreads]
      <4>1. Context!Row("embedding", n) \in DocRows BY DEF DocRows, DocStatuses
      <4>2. [thread[w] EXCEPT !.row = Context!Row("embedding", n), !.missing = missing,
                              !.step = "index"] \in DocThreads
        BY DocThreadTypes, <3>0, <4>1 DEF DocSteps, DocWriting
      <4>3. QED BY <4>2 DEF DocTypeOK
    <3>3. past' \in DocPasts BY <3>0 DEF DocTypeOK
    <3>4. memory' \in [tasks : SUBSET Document] BY <3>0 DEF DocTypeOK
    <3>5. QED BY <3>1, <3>2, <3>3, <3>4 DEF DocTypeOK
  <2>2. Fitting' BY DEF Fitting, DocWriting, Context!Free, Context!Found
  <2>3. DocKnown' BY DEF DocKnown, Context!Free, Context!Found
  <2>4. DocAlone' BY DEF DocAlone, Engaged, Fitting, Context!Free, Context!Found, DocWriting
  <2>5. Context!DeletedStays'
    BY DEF Context!DeletedStays, Outlived, Context!Free, DocWriting
  <2>6. Outlived' BY DEF Outlived, Context!Free, Context!Found, DocWriting
  <2>7. DocSource' BY DEF DocSource, Context!NoFiles
  <2>8. RowsHonest' BY DEF RowsHonest, DocHonest, Context!Searched, DocWriting
  <2>9. DocProcessed' BY DEF DocSeen, Context!Searched, DocProcessed, DocWriting
  <2>10. DocMade' BY DEF DocMade
  <2>11. FreshLists' BY DEF FreshLists, Busy, Context!Free, Context!Found
  <2>12. Agreed' BY DEF Agreed, Busy, Context!Free, Context!Found
  <2>13. QED BY <2>1, <2>2, <2>3, <2>4, <2>5, <2>6, <2>7, <2>8, <2>9, <2>10, <2>11, <2>12
<1>10. ASSUME NEW w \in Actor, Context!Indexes(w) PROVE DocIInv'
  <2> USE <1>10 DEF Context!Indexes, Context!At, Context!Becomes, Context!Goes
  <2>1. DocTypeOK'
    <3>0. thread[w] \in DocThreads /\ thread[w].doc \in Document /\ thread[w].row \in DocRows
      BY DEF DocTypeOK, DocThreads
    <3>1. disk' \in DocDisks BY DocDiskTypes, <3>0 DEF DocTypeOK, DocRows
    <3>2. thread' \in [Actor -> DocThreads]
        BY DocThreadTypes, FreeIsThread, <3>0
            DEF DocTypeOK, DocSteps, DocWriting, Context!Found
    <3>3. past' \in DocPasts BY <3>0 DEF DocTypeOK
    <3>4. memory' \in [tasks : SUBSET Document] BY <3>0 DEF DocTypeOK
    <3>5. QED BY <3>1, <3>2, <3>3, <3>4 DEF DocTypeOK
  <2>2. Fitting' BY DEF Fitting, DocWriting, Context!Free, Context!Found
  <2>3. DocKnown' BY DEF DocKnown, Context!Free, Context!Found
  <2>4. DocAlone' BY DEF DocAlone, Engaged
  <2>5. Context!DeletedStays' BY DEF Context!DeletedStays
  <2>6. Outlived' BY DEF Outlived, Context!Free, Context!Found, DocWriting
  <2>7. DocSource' BY DEF DocSource, Context!NoFiles
  <2>8. RowsHonest'
    BY DEF RowsHonest, DocHonest, DocSeen, DocProcessed, DocTypeOK, DocDisks,
      Context!NoRow, DocWriting
  <2>9. DocProcessed' BY DEF DocSeen, DocProcessed, DocWriting
  <2>10. DocMade'
    BY DEF DocMade, DocAlone, Engaged, Fitting, DocKnown, DocTypeOK, DocDisks, DocPasts,
      DocWriting
  <2>11. FreshLists' BY DEF FreshLists, Busy, Context!Free, Context!Found
  <2>12. Agreed' BY DEF Agreed, Busy, Context!Free, Context!Found
  <2>13. QED BY <2>1, <2>2, <2>3, <2>4, <2>5, <2>6, <2>7, <2>8, <2>9, <2>10, <2>11, <2>12
<1>11. ASSUME NEW w \in Actor, Context!WritesChunks(w) PROVE DocIInv'
  <2> USE <1>11 DEF Context!WritesChunks, Context!At, Context!Becomes, Context!Goes
  <2>1. DocTypeOK'
    <3>0. thread[w] \in DocThreads /\ thread[w].doc \in Document /\ thread[w].row \in DocRows
      BY DEF DocTypeOK, DocThreads
    <3>1. disk' \in DocDisks BY DocDiskTypes, <3>0 DEF DocTypeOK, DocRows
    <3>2. thread' \in [Actor -> DocThreads]
        BY DocThreadTypes, FreeIsThread, <3>0
            DEF DocTypeOK, DocSteps, DocWriting, DocConstantsOK, Context!Found
    <3>3. past' \in DocPasts BY <3>0 DEF DocTypeOK
    <3>4. memory' \in [tasks : SUBSET Document] BY <3>0 DEF DocTypeOK
    <3>5. QED BY <3>1, <3>2, <3>3, <3>4 DEF DocTypeOK
  <2>2. Fitting' BY DEF Fitting, DocWriting, Context!Free, Context!Found
  <2>3. DocKnown' BY DEF DocKnown, Context!Free, Context!Found
  <2>4. DocAlone' BY DEF DocAlone, Engaged
  <2>5. Context!DeletedStays' BY DEF Context!DeletedStays
  <2>6. Outlived' BY DEF Outlived, Context!Free, Context!Found, DocWriting
  <2>7. DocSource' BY DEF DocSource, Context!NoFiles
  <2>8. RowsHonest'
    BY DEF RowsHonest, DocHonest, DocSeen, DocProcessed, DocKnown, DocTypeOK, DocWriting
  <2>9. DocProcessed' BY DEF DocSeen, DocProcessed, DocWriting
  <2>10. DocMade' BY DEF DocMade, DocKnown, DocTypeOK, DocDisks, DocPasts
  <2>11. FreshLists' BY DEF FreshLists, Busy, Context!Free, Context!Found
  <2>12. Agreed' BY DEF Agreed, Busy, Context!Free, Context!Found
  <2>13. QED BY <2>1, <2>2, <2>3, <2>4, <2>5, <2>6, <2>7, <2>8, <2>9, <2>10, <2>11, <2>12
<1>12. ASSUME NEW w \in Actor, Context!Ready(w) PROVE DocIInv'
  <2> USE <1>12 DEF Context!Ready, Context!At, Context!Becomes, Context!Saves, Context!Row
  <2>1. DocTypeOK'
    <3>0. thread[w] \in DocThreads /\ thread[w].doc \in Document /\ thread[w].row \in DocRows
      BY DEF DocTypeOK, DocThreads
    <3>1. disk' \in DocDisks BY DocDiskTypes, <3>0 DEF DocTypeOK, DocRows, DocStatuses
    <3>2. thread' \in [Actor -> DocThreads]
        BY DocThreadTypes, FreeIsThread, <3>0
            DEF DocTypeOK, Context!Row, DocRows, DocStatuses, DocSteps, DocWriting,
           DocConstantsOK, DocDisks, Context!Found
    <3>3. past' \in DocPasts BY <3>0 DEF DocTypeOK
    <3>4. memory' \in [tasks : SUBSET Document] BY <3>0 DEF DocTypeOK
    <3>5. QED BY <3>1, <3>2, <3>3, <3>4 DEF DocTypeOK
  <2>2. Fitting' BY DEF Fitting, DocWriting, Context!Free, Context!Found
  <2>3. DocKnown' BY DEF DocKnown, Context!Free, Context!Found
  <2>4. DocAlone' BY DEF DocAlone, Engaged, Fitting, Context!Free, Context!Found, DocWriting
  <2>5. Context!DeletedStays'
    BY DEF Context!DeletedStays, Outlived, Context!Free, DocWriting
  <2>6. Outlived' BY DEF Outlived, Context!Free, Context!Found, DocWriting
  <2>7. DocSource' BY DEF DocSource, Context!NoFiles
  <2>8. RowsHonest' BY DEF RowsHonest, DocHonest, DocMade
  <2>9. DocProcessed'
    BY DEF DocSeen, DocProcessed, DocAlone, Engaged, Fitting, DocTypeOK, DocWriting
  <2>10. DocMade' BY DEF DocMade
  <2>11. FreshLists' BY DEF FreshLists, Busy, Context!Free, Context!Found
  <2>12. Agreed' BY DEF Agreed, Busy, Context!Free, Context!Found
  <2>13. QED BY <2>1, <2>2, <2>3, <2>4, <2>5, <2>6, <2>7, <2>8, <2>9, <2>10, <2>11, <2>12
<1>13. ASSUME NEW w \in Actor, Context!Errors(w) PROVE DocIInv'
  <2> USE <1>13 DEF Context!Errors, Context!At, Context!Becomes, Context!Saves, Context!Row
  <2>1. DocTypeOK'
    <3>0. thread[w] \in DocThreads /\ thread[w].doc \in Document /\ thread[w].row \in DocRows
      BY DEF DocTypeOK, DocThreads
    <3>1. disk' \in DocDisks BY DocDiskTypes, <3>0 DEF DocTypeOK, DocRows, DocStatuses
    <3>2. thread' \in [Actor -> DocThreads]
        BY DocThreadTypes, FreeIsThread, <3>0
            DEF DocTypeOK, DocRows, DocStatuses, DocSteps, Context!Found
    <3>3. past' \in DocPasts BY <3>0 DEF DocTypeOK
    <3>4. memory' \in [tasks : SUBSET Document] BY <3>0 DEF DocTypeOK
    <3>5. QED BY <3>1, <3>2, <3>3, <3>4 DEF DocTypeOK
  <2>2. Fitting' BY DEF Fitting, DocWriting, Context!Free, Context!Found
  <2>3. DocKnown' BY DEF DocKnown, Context!Free, Context!Found
  <2>4. DocAlone' BY DEF DocAlone, Engaged, Fitting, Context!Free, Context!Found, DocWriting
  <2>5. Context!DeletedStays'
    BY DEF Context!DeletedStays, Outlived, Context!Free, DocWriting
  <2>6. Outlived' BY DEF Outlived, Context!Free, Context!Found, DocWriting
  <2>7. DocSource' BY DEF DocSource, Context!NoFiles
  <2>8. RowsHonest' BY DEF RowsHonest, DocHonest, Context!Searched
  <2>9. DocProcessed' BY DEF DocSeen, Context!Searched, DocProcessed, DocWriting
  <2>10. DocMade' BY DEF DocMade
  <2>11. FreshLists' BY DEF FreshLists, Busy, Context!Free, Context!Found
  <2>12. Agreed' BY DEF Agreed, Busy, Context!Free, Context!Found
  <2>13. QED BY <2>1, <2>2, <2>3, <2>4, <2>5, <2>6, <2>7, <2>8, <2>9, <2>10, <2>11, <2>12
<1>14. ASSUME NEW w \in Actor, NEW d \in Document, Context!Delete(w, d) PROVE DocIInv'
  <2> USE <1>14 DEF Context!Delete, Context!At, Context!Becomes
  <2>1. DocTypeOK'
    <3>0. thread[w] \in DocThreads /\ thread[w].doc \in Document /\ thread[w].row \in DocRows
      BY DEF DocTypeOK, DocThreads
    <3>1. disk' \in DocDisks BY DocDiskTypes, <3>0 DEF DocTypeOK
    <3>2. thread' \in [Actor -> DocThreads]
        BY DocThreadTypes, FreeIsThread, <3>0 DEF DocTypeOK, DocSteps, Context!Found
    <3>3. past' \in DocPasts BY <3>0 DEF DocTypeOK
    <3>4. memory' \in [tasks : SUBSET Document] BY <3>0 DEF DocTypeOK
    <3>5. QED BY <3>1, <3>2, <3>3, <3>4 DEF DocTypeOK
  <2>2. Fitting' BY DEF Fitting, DocWriting, Context!Found
  <2>3. DocKnown' BY DEF DocKnown, Context!Free, Context!Found
  <2>4. DocAlone' BY DEF DocAlone, Engaged
  <2>5. Context!DeletedStays' BY DEF Context!DeletedStays
  <2>6. Outlived' BY DEF Context!DeletedStays, Outlived
  <2>7. DocSource' BY DEF DocSource, Context!NoFiles
  <2>8. RowsHonest'
    BY DEF RowsHonest, DocHonest, Context!Searched, Context!Free, Context!NoRow
  <2>9. DocProcessed'
    BY DEF DocSeen, Context!Searched, DocProcessed, Context!Free, Context!Found,
      Context!NoRow, DocWriting
  <2>10. DocMade' BY DEF DocMade
  <2>11. FreshLists' BY DEF FreshLists, Busy, Context!Found
  <2>12. Agreed' BY DEF Agreed, Busy, Context!Found
  <2>13. QED BY <2>1, <2>2, <2>3, <2>4, <2>5, <2>6, <2>7, <2>8, <2>9, <2>10, <2>11, <2>12
<1>15. ASSUME NEW w \in Actor, Context!Deletes(w) PROVE DocIInv'
  <2> DEFINE d == thread[w].doc
  <2> USE <1>15 DEF Context!Deletes, Context!At
  <2>1. CASE disk.rows[d] = Context!NoRow
    <3>0. thread' = [thread EXCEPT ![w] = Context!Free] /\ UNCHANGED <<memory, disk, past>>
        BY <2>1 DEF Context!Becomes
    <3>1. DocTypeOK'
      <4>7. thread[w] \in DocThreads /\ thread[w].doc \in Document /\ thread[w].row \in DocRows
        BY <3>0 DEF DocTypeOK, DocThreads
      <4>1. disk' \in DocDisks BY <3>0, DocDiskTypes, <4>7 DEF DocTypeOK
      <4>2. thread' \in [Actor -> DocThreads]
          BY <3>0, DocThreadTypes, FreeIsThread, <4>7 DEF DocTypeOK, Context!Found
      <4>3. past' \in DocPasts BY <3>0, <4>7 DEF DocTypeOK
      <4>4. memory' \in [tasks : SUBSET Document] BY <3>0, <4>7 DEF DocTypeOK
      <4>5. QED BY <3>0, <4>1, <4>2, <4>3, <4>4 DEF DocTypeOK
    <3>2. Fitting' BY <3>0 DEF Fitting, DocWriting, Context!Free, Context!Found
    <3>3. DocKnown' BY <3>0 DEF DocKnown, Context!Free, Context!Found
    <3>4. DocAlone' BY <3>0 DEF DocAlone, Engaged, Context!Free
    <3>5. Context!DeletedStays' BY <3>0 DEF Context!DeletedStays
    <3>6. Outlived' BY <3>0 DEF Outlived, Context!Free, Context!Found, DocWriting
    <3>7. DocSource' BY <3>0 DEF DocSource, Context!Free, Context!NoFiles
    <3>8. RowsHonest'
      BY <3>0 DEF RowsHonest, DocHonest, Context!Searched, Context!Free, Context!NoRow
    <3>9. DocProcessed'
      BY <3>0
        DEF DocSeen, Context!Searched, DocProcessed, Context!Free, Context!Found,
        Context!NoRow, DocWriting
    <3>10. DocMade' BY <3>0 DEF DocMade, Context!Free
    <3>11. FreshLists' BY <3>0 DEF FreshLists, Busy, Context!Free, Context!Found
    <3>12. Agreed' BY <3>0 DEF Agreed, Busy, Context!Found
    <3>13. QED BY <3>1, <3>2, <3>3, <3>4, <3>5, <3>6, <3>7, <3>8, <3>9, <3>10, <3>11, <3>12
  <2>2. CASE disk.rows[d] # Context!NoRow
    <3> DEFINE processed == \E v \in Actor :
            /\ thread[v].op = "process" /\ thread[v].doc = d
            /\ thread[v].step \notin {"list", "manifest"}
               gone == IF processed THEN past.raced \cup {d} ELSE past.raced
    <3>20. /\ disk' = [disk EXCEPT !.rows[d] = Context!NoRow]
           /\ past' = [past EXCEPT !.deleted = past.deleted \cup {d}, !.raced = gone]
           /\ thread' = [thread EXCEPT ![w] = [thread[w] EXCEPT !.step = "rmtree"]]
           /\ memory' = memory /\ thread[w].step = "delete"
      BY <2>2 DEF Context!Becomes, Context!Goes
    <3>21. /\ past.raced \subseteq gone /\ gone \subseteq past.raced \cup {d}
           /\ processed => d \in gone
      OBVIOUS
    <3>22. /\ past'.deleted = past.deleted \cup {d} /\ past'.raced = gone
           /\ past'.uploaded = past.uploaded /\ past'.stale = past.stale
           /\ past'.restarts = past.restarts
           /\ past' \in DocPasts
      <4>1. d \in Document BY DEF DocTypeOK, DocThreads
      <4>2. gone \in SUBSET Document BY <3>21, <4>1 DEF DocTypeOK, DocPasts
      <4> HIDE DEF gone, d
      <4>3. QED BY <3>20, <4>1, <4>2 DEF DocTypeOK, DocPasts
    <3>23. /\ disk'.rows = [disk.rows EXCEPT ![d] = Context!NoRow] /\ disk'.files = disk.files
           /\ disk'.manifest = disk.manifest
      BY <3>20
    <3>24. /\ disk' \in DocDisks
      BY <3>20, DocDiskTypes DEF Context!NoRow, DocRows, DocStatuses, DocTypeOK, DocThreads
    <3>25. past.raced \subseteq past'.raced
      <4> HIDE DEF gone
      <4>1. past.raced \subseteq gone BY <3>21
      <4>2. past'.raced = gone BY <3>22
      <4>3. QED BY <4>1, <4>2
    <3>26. processed => d \in past'.raced
      <4> HIDE DEF gone, processed
      <4>1. processed => d \in gone BY <3>21
      <4>2. past'.raced = gone BY <3>22
      <4>3. QED BY <4>1, <4>2
    <3> HIDE <1>15 DEF gone
    <3> USE <2>2, <3>20, <3>21, <3>22, <3>23, <3>24
    <3>1. DocTypeOK'
      <4>7. thread[w] \in DocThreads /\ thread[w].doc \in Document /\ thread[w].row \in DocRows
        BY DEF DocTypeOK, DocThreads
      <4>1. disk' \in DocDisks BY DocDiskTypes, <4>7
      <4>2. thread' \in [Actor -> DocThreads]
          BY DocThreadTypes, FreeIsThread, <4>7
             DEF DocTypeOK, DocSteps, Context!Found
      <4>3. past' \in DocPasts BY <4>7
      <4>4. memory' \in [tasks : SUBSET Document]
          BY <4>7 DEF DocTypeOK
      <4>5. QED BY <4>1, <4>2, <4>3, <4>4 DEF DocTypeOK
    <3>2. Fitting' BY DEF Fitting, DocWriting, Context!Free, Context!Found
    <3>3. DocKnown' BY DEF DocKnown, Context!Free, Context!Found
    <3>4. DocAlone' BY DEF DocAlone, Engaged
    <3>5. Context!DeletedStays'
      <4>1. d \in Document BY DEF DocTypeOK, DocThreads
      <4>2. past'.deleted \ past'.raced \subseteq (past.deleted \ past.raced) \cup {d}
        <5> HIDE DEF d, processed
        <5>1. QED BY <3>25, <3>22
      <4>3. QED BY <3>23, <4>1, <4>2 DEF Context!DeletedStays, DocTypeOK, DocDisks
    <3>6. Outlived'
      <4> SUFFICES ASSUME NEW v \in Actor, thread'[v].step \in DocWriting,
                          thread'[v].doc \in past'.deleted
                   PROVE  thread'[v].doc \in past'.raced
        BY DEF Outlived
      <4>1. v # w /\ thread'[v] = thread[v] BY <3>20 DEF DocWriting
      <4>2. CASE thread[v].doc = d
        <5>1. thread[v].op = "process" BY <4>1 DEF Fitting
        <5>2. processed BY <4>1, <4>2, <5>1 DEF DocWriting
        <5> HIDE DEF d, processed
        <5>3. QED BY <3>26, <4>1, <4>2, <5>2
      <4>3. CASE thread[v].doc # d
        <5>1. thread[v].doc \in past.deleted BY <3>22, <4>1, <4>3
        <5>2. thread[v].doc \in past.raced BY <4>1, <5>1 DEF Outlived
        <5> HIDE DEF d, processed
        <5>3. QED BY <3>25, <4>1, <5>2
      <4>4. QED BY <4>2, <4>3
    <3>7. DocSource' BY DEF DocSource, Context!NoFiles
    <3>8. RowsHonest'
        BY DEF RowsHonest, DocHonest, DocAlone, Engaged,
           Fitting, DocKnown, DocTypeOK, DocPasts, DocThreads, Context!Free,
               Context!Found, Context!NoRow, Context!NoFiles, DocWriting, DocSource
    <3>9. DocProcessed'
        BY DEF DocSeen, Context!Searched, DocProcessed, Context!Free, Context!Found,
           Context!NoRow, DocWriting
    <3>10. DocMade' BY DEF DocMade
    <3>11. FreshLists'
        BY DEF FreshLists, Busy, DocTypeOK, Context!Free, Context!Found
    <3>12. Agreed'
        BY DEF Agreed, Busy, DocTypeOK, Context!Free, Context!Found
    <3>13. QED BY <3>1, <3>2, <3>3, <3>4, <3>5, <3>6, <3>7, <3>8, <3>9, <3>10, <3>11, <3>12
  <2>3. QED BY <2>1, <2>2
<1>16. ASSUME NEW w \in Actor, Context!RemovesFiles(w) PROVE DocIInv'
  <2> USE <1>16 DEF Context!RemovesFiles, Context!At, Context!Becomes, Context!Goes
  <2>1. DocTypeOK'
    <3>0. thread[w] \in DocThreads /\ thread[w].doc \in Document /\ thread[w].row \in DocRows
      BY DEF DocTypeOK, DocThreads
    <3>1. disk' \in DocDisks BY DocDiskTypes, <3>0 DEF DocTypeOK
    <3>2. thread' \in [Actor -> DocThreads]
        BY DocThreadTypes, FreeIsThread, <3>0 DEF DocTypeOK, DocSteps, Context!Found
    <3>3. past' \in DocPasts BY <3>0 DEF DocTypeOK
    <3>4. memory' \in [tasks : SUBSET Document] BY <3>0 DEF DocTypeOK
    <3>5. QED BY <3>1, <3>2, <3>3, <3>4 DEF DocTypeOK
  <2>2. Fitting' BY DEF Fitting, DocWriting, Context!Free, Context!Found
  <2>3. DocKnown' BY DEF DocKnown, Context!Free, Context!Found
  <2>4. DocAlone' BY DEF DocAlone, Engaged
  <2>5. Context!DeletedStays' BY DEF Context!DeletedStays
  <2>6. Outlived' BY DEF Outlived, Context!Free, Context!Found, DocWriting
  <2>7. DocSource' BY DEF DocSource
  <2>8. RowsHonest' BY DEF RowsHonest, DocHonest, DocSource
  <2>9. DocProcessed' BY DEF DocSeen, DocProcessed, DocWriting
  <2>10. DocMade' BY DEF DocMade, DocSource
  <2>11. FreshLists' BY DEF FreshLists, Busy, Context!Free, Context!Found
  <2>12. Agreed' BY DEF Agreed, Busy, Context!Free, Context!Found
  <2>13. QED BY <2>1, <2>2, <2>3, <2>4, <2>5, <2>6, <2>7, <2>8, <2>9, <2>10, <2>11, <2>12
<1>17. QED
      BY <1>0, <1>1, <1>2, <1>3, <1>4, <1>5, <1>6, <1>7, <1>8, <1>9, <1>10, <1>11, <1>12,
          <1>13,
         <1>14, <1>15, <1>16
           DEF Context!Next, Context!ExtractsCsv, Context!ExtractsPresentation

\* The invariant of the documents holds when they are looked at.
DocInv == service = "context" => DocIInv

LEMMA DocInvariant == Spec => []DocInv
<1>1. DocConstantsOK BY BoundAssumption, DocumentAssumption DEF DocConstantsOK
<1>2. Init => DocInv BY <1>1, DocInitIInv DEF DocInv, Init
<1>3. DocInv /\ [Next]_vars => DocInv'
  <2> SUFFICES ASSUME DocInv, [Next]_vars, service' = "context" PROVE DocIInv' BY DEF DocInv
  <2>1. DocIInv /\ [Context!Next]_(Context!vars) BY DEF DocInv, Next, vars, Context!vars
  <2>2. QED BY <1>1, <2>1, DocNextIInv
<1>4. QED BY <1>2, <1>3, PTL DEF Spec

\* A deleted document does not come back (ProjectContextService.delete), unless
\* it was deleted while its task held a copy of it; and what belongs to a
\* project goes with it (delete_project), unless it was saved late.
THEOREM StaysDeleted == Spec => []DeletedStays
<1>1. CatalogInv /\ DocInv => DeletedStays
  BY NothingLeft DEF CatalogInv, DocInv, DocIInv, DeletedStays
<1>2. QED BY CatalogInvariant, DocInvariant, <1>1, PTL

\* What the catalog and the manifest say of a document is so: its file is there,
\* and of one that can be searched the index and all chunks; and the two agree
\* when nobody works, unless the manifest is known to be stale.
THEOREM SaysWhatThereIs == Spec => []ContextIsHonest
<1>1. DocIInv => Context!ContextIsHonest
  <2> SUFFICES ASSUME DocIInv PROVE Context!ContextIsHonest OBVIOUS
  <2>1. ASSUME NEW d \in Document \ past.deleted, NEW row \in {disk.rows[d],
      disk.manifest[d]}
        PROVE  /\ row # Context!NoRow => disk.files[d].source
               /\ row.status \in Context!Searched =>
                    /\ row.chunks > 0
                    /\ disk.files[d].index = row.chunks /\ disk.files[d].chunks = row.chunks
    <3>1. row # Context!NoRow => d \in past.uploaded BY DEF DocIInv, DocKnown
    <3>2. row # Context!NoRow => disk.files[d].source BY <3>1 DEF DocIInv, DocSource
    <3>3. DocHonest(d, row) BY DEF DocIInv, RowsHonest
    <3>4. QED BY <3>2, <3>3 DEF DocHonest
  <2>2. (\A w \in Actor : Context!At(w, "idle")) /\ ~past.stale => disk.manifest = disk.rows
    BY DEF DocIInv, Agreed, Busy, Context!At
  <2>3. QED BY <2>1, <2>2 DEF Context!ContextIsHonest
<1>2. DocInv => ContextIsHonest BY <1>1 DEF DocInv, ContextIsHonest
<1>3. QED BY DocInvariant, <1>2, PTL

=============================================================================
