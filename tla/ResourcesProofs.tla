--------------------------- MODULE ResourcesProofs ---------------------------
(***************************************************************************)
(* Proofs about Resources, for every set of resources, every way they      *)
(* contain each other, every set of sessions and ids, every finite pool of *)
(* buffers and every bound.                                                *)
(***************************************************************************)
EXTENDS Resources, TLAPS, FiniteSetTheorems

\* an entity is there for every record that is not marked, topics aside
Live(d) == \A r \in d.records \ d.dead : Kind[r] # "topic" => r \in d.entity

\* PendingDeleted, of a table
Pended(d) ==
    \A r \in d.pending : d.count[r] = 0 =>
        r \in d.dead \cap d.entity /\ Kind[r] = "participant"

GoodDb(d) == d \in DbType /\ Live(d) /\ Pended(d)

\* an entry in use is for an id of the kind of its resource
GoodEntry ==
    {e \in EntryType : e.res # None => e.id \in Id /\ Kind[e.res] = IdKind[e.id]}

DataInv == GoodDb(db) /\ attached \in [Buffer -> GoodEntry]

\* the part of TypeOK that is about neither the table nor the entries
ControlType ==
    /\ links \in LinksType
    /\ pool \subseteq Buffer
    /\ given \in 0..MaxGiven
    /\ status \in [Session -> StatusType]
    /\ made \in [Session -> Buffer \cup {None}]
    /\ job \in JobType
    /\ fill \in FillType
    /\ triggers \subseteq {"close", "clean"}
    /\ failures \in 0..MaxFailures
    /\ agent \in {"up", "ending", "down", "failed"}

(* Resources are attached to a session that is being opened or cleaned up,  *)
(* and their records stay until this is done; a pass has a session that is  *)
(* in the table; nothing goes on once the agent ends.                       *)
ShapeInv ==
    /\ fill.sess = None => fill = NoFill
    /\ fill.sess # None => \/ status[fill.sess] = "opening"
                           \/ job.kind = "clean" /\ job.sess = fill.sess
    /\ fill.rest \subseteq db.records
    /\ job.sess # None =>
            \/ job.kind = "close" /\ status[job.sess] \in {"deleted", "finalized"}
            \/ job.kind = "clean" /\ status[job.sess] \notin {"closed", "opening"}
    /\ \A s \in job.todo : job.kind = "clean" /\ status[s] # "closed"
    /\ agent # "up" =>
            job = NoJob /\ fill = NoFill /\ \A s \in Session : status[s] = "closed"

(* The inductive invariant. *)
ResourcesInv == ControlType /\ DataInv /\ ShapeInv /\ AttachmentCounted
-----------------------------------------------------------------------------
(* The table *)

LEMMA TopicIsTopic ==
    ASSUME NEW y \in Resource, TopicOf[y] \in Resource
    PROVE  Kind[TopicOf[y]] = "topic"
<1>1. TopicOf[y] # None
  BY ResourceAssumption
<1> QED
  BY <1>1, ResourceAssumption

(* What goes with an entity is owned by it and no other participant.        *)
LEMMA RemainingOwned ==
    ASSUME NEW r \in Resource, NEW E \in SUBSET Resource
    PROVE  /\ Remaining(r, E) \subseteq E
           /\ \A x \in E \ Remaining(r, E) :
                /\ Owns(r, x)
                /\ Kind[x] = "participant" => x = r
                /\ Kind[x] = "topic" \/ x \in Contents(r)
<1>1. r \in Contents(r)
  BY DEF Contents
<1>2. \A x \in Contents(r) : x \in Resource /\ (x = r \/ Parent[x] # None)
  BY DEF Contents
<1>3. \A x \in Contents(r) : Kind[x] = "participant" => x = r
  BY <1>2, ResourceAssumption
<1>4. CASE Kind[r] = "topic"
  BY <1>1, <1>4 DEF Remaining, Owns
<1>5. CASE Kind[r] # "topic"
  <2> DEFINE D == Contents(r) \cap E
  <2>1. Remaining(r, E) = (E \ D) \ TopicsOf(D, E)
    BY <1>5 DEF Remaining
  <2>2. \A x \in TopicsOf(D, E) : \E y \in D : TopicOf[y] = x
    BY DEF TopicsOf, UsedBy
  <2>3. \A x \in TopicsOf(D, E) : x \in Resource
    BY DEF TopicsOf
  <2>4. \A x \in TopicsOf(D, E) : Kind[x] = "topic"
    BY <2>2, <2>3, TopicIsTopic
  <2> QED
    BY <1>3, <2>1, <2>2, <2>4 DEF Owns
<1> QED
  BY <1>4, <1>5

(* Deleting a native entity keeps the table good: records of what goes with *)
(* it are marked.                                                           *)
LEMMA DeletedNativeKeeps ==
    ASSUME NEW d \in DbType, Live(d), NEW r, NEW n, n = DeletedNative(d, r)
    PROVE  /\ n.db \in DbType /\ Live(n.db) /\ n.ok \in BOOLEAN
           /\ n.db.count = d.count /\ n.db.pending = d.pending
           /\ n.db.records = d.records /\ d.dead \subseteq n.db.dead
           /\ n.db.dead \subseteq (n.db.dead \cap d.records) \cup d.dead
           /\ \A x \in d.entity \ n.db.entity :
                r \in Resource /\ Owns(r, x) /\ (Kind[x] = "participant" => x = r)
           /\ ~n.ok => r \in n.db.dead \cap n.db.entity /\ Kind[r] = "participant"
           /\ r \in d.dead => n.db = d
<1>1. CASE r \notin d.records \/ r \in d.dead
  BY <1>1 DEF DeletedNative
<1>2. CASE r \in d.records /\ r \notin d.dead /\ r \notin d.entity
  BY <1>2 DEF DeletedNative, DbType, Live
<1>3. CASE r \in d.records /\ r \notin d.dead /\ r \in d.entity
  <2> DEFINE E == d.entity
             R == Remaining(r, E)
             B == IF Blocked(r, E) THEN {r} ELSE {}
             e == R \cup B
  <2>1. n = [db |-> [d EXCEPT !.dead = @ \cup Marked(r, d), !.entity = e],
             ok |-> ~Blocked(r, E)]
    BY <1>3 DEF DeletedNative, DbType
  <2>2. r \in Resource /\ E \in SUBSET Resource
    BY <1>3 DEF DbType
  <2>3. R \subseteq E /\ e \subseteq E
    BY <1>3, <2>2, RemainingOwned
  <2>4. \A x \in E \ e : /\ Owns(r, x)
                         /\ Kind[x] = "participant" => x = r
                         /\ Kind[x] = "topic" \/ x \in Contents(r)
    BY <2>2, RemainingOwned
  <2>5. Marked(r, d) \subseteq d.records
    BY <1>3 DEF Marked
  <2>6. Blocked(r, E) \in BOOLEAN
    BY DEF Blocked
  <2>7. Blocked(r, E) => r \in e /\ Kind[r] = "participant"
    BY DEF Blocked
  <2>8. r \in Marked(r, d)
    BY DEF Marked
  <2>9. \A x \in Contents(r) : x \in E /\ x \in d.records => x \in Marked(r, d)
    BY DEF Marked
  <2> HIDE DEF e, E
  <2> DEFINE M == Marked(r, d)
  <2> HIDE DEF M
  <2>10. /\ n.db.entity = e /\ n.db.dead = d.dead \cup Marked(r, d)
         /\ n.db.count = d.count /\ n.db.pending = d.pending
         /\ n.db.records = d.records /\ n.ok = ~Blocked(r, E)
         /\ n.db \in DbType
    <3>1. n.db = [d EXCEPT !.dead = @ \cup M, !.entity = e] /\ n.ok = ~Blocked(r, E)
      BY <2>1 DEF M
    <3>2. M \subseteq Resource
      BY <2>5 DEF M, DbType
    <3> QED
      BY <2>2, <2>3, <3>1, <3>2 DEF DbType, E, M
  <2>11. Live(n.db)
    BY <2>4, <2>9, <2>10 DEF Live, E
  <2> QED
    BY <1>3, <2>2, <2>4, <2>5, <2>6, <2>7, <2>8, <2>10, <2>11 DEF E
<1> QED
  BY <1>1, <1>2, <1>3

LEMMA ForgottenKeeps ==
    ASSUME NEW d \in DbType, Live(d), NEW r,
           \A x \in d.pending : x # r /\ d.count[x] = 0 =>
                x \in d.dead \cap d.entity /\ Kind[x] = "participant"
    PROVE  GoodDb(Forgotten(d, r))
  BY DEF GoodDb, DbType, Live, Pended, Forgotten

(* Detaching keeps the table good, whatever the entry refers to.  It takes  *)
(* one attachment away or changes nothing, removes at most the record of    *)
(* the resource, and deletes entities only for a deletion requested before  *)
(* or by this call.                                                         *)
DetachedGood(d, r, delete, x) ==
    /\ GoodDb(x.db) /\ x.ok \in BOOLEAN
    /\ \/ x.db = d /\ ~x.ok /\ (r \notin d.records \/ d.count[r] = 0)
       \/ /\ r \in d.records /\ d.count[r] > 0
          /\ x.db.count = [d.count EXCEPT ![r] = @ - 1]
          /\ d.records \ {r} \subseteq x.db.records
          /\ x.db.records \subseteq d.records
          /\ d.dead \ {r} \subseteq x.db.dead
          /\ x.ok \/ (x.db.count[r] = 0 /\ r \in x.db.dead /\ r \in x.db.records)
          /\ r \in x.db.records \/ (x.db.count[r] = 0 /\ x.ok)
          /\ x.db.pending \subseteq d.pending \cup (IF delete THEN {r} ELSE {})
          /\ \A y \in d.entity \ x.db.entity :
                 Owns(r, y) /\ r \notin d.dead /\ (delete \/ r \in d.pending)

LEMMA DetachedKeeps ==
    ASSUME NEW d, GoodDb(d), NEW r, NEW delete \in BOOLEAN,
           NEW x, x = Detached(d, r, delete)
    PROVE  DetachedGood(d, r, delete, x)
<1> USE DEF GoodDb, DetachedGood
<1>1. CASE r \notin d.records \/ d.count[r] = 0
  BY <1>1 DEF Detached
<1>2. CASE r \in d.records /\ d.count[r] # 0
  <2> DEFINE d1 == [d EXCEPT !.count[r] = @ - 1,
                             !.pending = IF delete THEN @ \cup {r} ELSE @]
             n == DeletedNative(d1, r)
  <2>1. r \in Resource /\ d.count[r] \in Nat
    BY <1>2 DEF DbType
  <2>2. /\ d1 \in DbType
        /\ d1.count = [d.count EXCEPT ![r] = @ - 1]
        /\ d1.pending = d.pending \cup (IF delete THEN {r} ELSE {})
        /\ d1.records = d.records /\ d1.dead = d.dead /\ d1.entity = d.entity
    <3> DEFINE c == [d.count EXCEPT ![r] = @ - 1]
               q == d.pending \cup (IF delete THEN {r} ELSE {})
    <3>1. c \in [Resource -> Nat] /\ q \in SUBSET Resource
      BY <1>2, <2>1 DEF DbType
    <3>2. d1 = [d EXCEPT !.count = c, !.pending = q]
      BY <2>1 DEF DbType
    <3> HIDE DEF c, q, d1
    <3>3. /\ d1 \in DbType /\ d1.count = c /\ d1.pending = q
          /\ d1.records = d.records /\ d1.dead = d.dead /\ d1.entity = d.entity
      BY <3>1, <3>2 DEF DbType
    <3> QED
      BY <3>3 DEF c, q
  <2>3. d1.count \in [Resource -> Nat] /\ d1.count[r] = d.count[r] - 1
    BY <1>2, <2>1, <2>2 DEF DbType
  <2>4. \A y \in d.pending : y # r /\ d1.count[y] = 0 =>
                y \in d.dead \cap d.entity /\ Kind[y] = "participant"
    BY <2>2, <2>3 DEF Pended, DbType
  <2>5. Live(d1)
    BY <2>2 DEF Live
  <2> HIDE DEF d1
  <2>6. CASE r \notin d1.pending \/ d1.count[r] > 0
    <3>1. x = [db |-> d1, ok |-> TRUE]
      BY <1>2, <2>6 DEF Detached, d1
    <3>2. Pended(d1)
      BY <2>2, <2>3, <2>4, <2>6 DEF Pended
    <3> QED
      BY <1>2, <2>1, <2>2, <2>5, <3>1, <3>2
  <2>7. CASE r \in d1.pending /\ ~(d1.count[r] > 0)
    <3>1. x = [db |-> IF n.ok THEN Forgotten(n.db, r) ELSE n.db, ok |-> n.ok]
      BY <1>2, <2>7 DEF Detached, d1
    <3>2. d1.count[r] = 0
      BY <1>2, <2>1, <2>3, <2>7
    <3>3. /\ n.db \in DbType /\ Live(n.db) /\ n.ok \in BOOLEAN
          /\ n.db.count = d1.count /\ n.db.pending = d1.pending
          /\ n.db.records = d.records /\ d.dead \subseteq n.db.dead
          /\ \A y \in d.entity \ n.db.entity :
                Owns(r, y) /\ (Kind[y] = "participant" => y = r)
          /\ ~n.ok => r \in n.db.dead \cap n.db.entity /\ Kind[r] = "participant"
          /\ r \in d.dead => n.db = d1
      BY <2>2, <2>5, DeletedNativeKeeps
    <3>4. \A y \in n.db.pending : y # r /\ n.db.count[y] = 0 =>
                y \in n.db.dead \cap n.db.entity /\ Kind[y] = "participant"
      BY <2>2, <2>4, <3>3
    <3> HIDE DEF n
    <3>5. CASE n.ok
      <4>1. x.db = Forgotten(n.db, r) /\ x.ok
        BY <3>1, <3>5
      <4>2. GoodDb(x.db)
        BY <3>3, <3>4, <4>1, ForgottenKeeps
      <4>3. /\ x.db.count = n.db.count /\ x.db.entity = n.db.entity
            /\ x.db.records = n.db.records \ {r} /\ x.db.dead = n.db.dead \ {r}
            /\ x.db.pending = n.db.pending \ {r}
        BY <3>3, <4>1 DEF Forgotten, DbType
      <4>4. \A y \in d.entity \ x.db.entity :
                        Owns(r, y) /\ r \notin d.dead /\ (delete \/ r \in d.pending)
        BY <2>2, <2>7, <3>3, <4>3
      <4> HIDE DEF GoodDb
      <4> QED
        BY <1>2, <2>1, <2>2, <3>2, <3>3, <4>1, <4>2, <4>3, <4>4
    <3>6. CASE ~n.ok
      <4>1. x.db = n.db /\ x.ok = FALSE
        BY <3>1, <3>3, <3>6
      <4>2. Pended(n.db)
        BY <3>3, <3>4, <3>6 DEF Pended
      <4>4. \A y \in d.entity \ x.db.entity :
                        Owns(r, y) /\ r \notin d.dead /\ (delete \/ r \in d.pending)
        BY <2>2, <2>7, <3>3, <4>1
      <4> QED
        <5>1. GoodDb(x.db)
          BY <3>3, <4>1, <4>2
        <5>2. r \in x.db.dead /\ r \in x.db.records /\ x.db.count[r] = 0
          BY <1>2, <3>2, <3>3, <3>6, <4>1
        <5> HIDE DEF GoodDb
        <5>3. /\ d.records \ {r} \subseteq x.db.records
              /\ x.db.records \subseteq d.records
              /\ d.dead \ {r} \subseteq x.db.dead
              /\ x.db.pending \subseteq d.pending \cup (IF delete THEN {r} ELSE {})
          BY <2>2, <3>3, <4>1
        <5>4. x.db.count = [d.count EXCEPT ![r] = @ - 1] /\ d.count[r] > 0
          BY <1>2, <2>1, <2>2, <3>3, <4>1
        <5> QED
          BY <1>2, <4>1, <4>4, <5>1, <5>2, <5>3, <5>4
    <3> QED
      BY <3>3, <3>5, <3>6
  <2> QED
    BY <2>3, <2>6, <2>7
<1> QED
  BY <1>1, <1>2

LEMMA InsertedKeeps ==
    ASSUME NEW d, GoodDb(d), NEW r \in d.entity \cup d.records
    PROVE  GoodDb(Inserted(d, r))
<1> DEFINE c == [d.count EXCEPT ![r] = @ + 1]
           R == d.records \cup {r}
           f == Inserted(d, r)
<1>1. c \in [Resource -> Nat] /\ R \in SUBSET Resource /\ r \in Resource
  BY DEF GoodDb, DbType
<1>2. f = [d EXCEPT !.records = R, !.count = c]
  BY <1>1 DEF Inserted, GoodDb, DbType
<1> HIDE DEF c, R, f
<1>3. /\ f \in DbType /\ f.count = c /\ f.records = R
      /\ f.pending = d.pending /\ f.dead = d.dead /\ f.entity = d.entity
  BY <1>1, <1>2 DEF GoodDb, DbType
<1>4. \A x \in Resource : c[x] = 0 => d.count[x] = 0
  BY <1>1 DEF GoodDb, DbType, c
<1>5. d.pending \subseteq Resource
  BY DEF GoodDb, DbType
<1>6. Pended(f)
  BY <1>3, <1>4, <1>5 DEF GoodDb, Pended
<1>7. Live(f)
  BY <1>3 DEF GoodDb, Live, R
<1> QED
  BY <1>3, <1>6, <1>7 DEF GoodDb, f

LEMMA WithNativeKeeps ==
    ASSUME GoodDb(db), NEW r \in Resource
    PROVE  GoodDb(WithNative(r)) /\ r \in WithNative(r).entity
  BY ResourceAssumption DEF GoodDb, DbType, Live, Pended, WithNative

(* A record is inserted and the attachment fails for want of a buffer. *)
LEMMA RecordKeeps ==
    ASSUME NEW d, GoodDb(d), NEW r \in d.entity
    PROVE  GoodDb([d EXCEPT !.records = @ \cup {r}])
  BY DEF GoodDb, DbType, Live, Pended

LEMMA FoundIsBuffer ==
    ASSUME NEW s, NEW id
    PROVE  Find(s, id) \in Buffer \cup {None}
<1> DEFINE w == Walk(s)
           Has(i) == w[i] \in Buffer /\ attached[w[i]].id = id
           First(i) == Has(i) /\ \A j \in 0..(i - 1) : ~Has(j)
<1>1. Find(s, id) = IF \E i \in DOMAIN w : First(i)
                    THEN w[CHOOSE i \in DOMAIN w : First(i)] ELSE None
  BY DEF Find
<1>2. ASSUME \E i \in DOMAIN w : First(i)
      PROVE  w[CHOOSE i \in DOMAIN w : First(i)] \in Buffer
  <2>1. First(CHOOSE i \in DOMAIN w : First(i))
    BY <1>2
  <2> QED
    BY <2>1
<1> HIDE DEF First, Has, w
<1> QED
  BY <1>1, <1>2
-----------------------------------------------------------------------------
(* The entries and their number *)

Counted(r) ==
    /\ r \notin db.records => Cardinality(Entries(r)) = 0
    /\ \/ Cardinality(Entries(r)) = db.count[r]
       \/ Cardinality(Entries(r)) = 1 /\ db.count[r] = 0 /\ r \in db.dead

PoolClear == \A b \in pool : attached[b].res = None

LEMMA CountedIs == AttachmentCounted <=> PoolClear /\ \A r \in Resource : Counted(r)
  BY DEF AttachmentCounted, Counted, PoolClear

LEMMA CountedAll ==
    ASSUME PoolClear', \A r \in Resource : Counted(r)' PROVE AttachmentCounted'
  BY DEF AttachmentCounted, Counted, PoolClear

LEMMA EntriesFinite ==
    ASSUME NEW r
    PROVE  IsFiniteSet(Entries(r)) /\ Cardinality(Entries(r)) \in Nat
<1>1. Entries(r) \subseteq Buffer /\ IsFiniteSet(Buffer)
  BY ResourceAssumption DEF Entries
<1> QED
  BY <1>1, FS_Subset, FS_CardinalityType

(* No entry is added, nothing is taken from the table. *)
LEMMA CountedSame ==
    ASSUME NEW r \in Resource, Counted(r), Entries(r)' = Entries(r),
           db'.count[r] = db.count[r],
           r \in db.records => r \in db'.records, r \in db.dead => r \in db'.dead
    PROVE  Counted(r)'
  BY DEF Counted

(* One entry is added and counted. *)
LEMMA CountedMore ==
    ASSUME NEW r \in Resource, Counted(r), db \in DbType, NEW b, b \notin Entries(r),
           Entries(r)' = Entries(r) \cup {b}, db'.count[r] = db.count[r] + 1,
           r \in db'.records, r \notin db.dead \/ r \notin db.records
    PROVE  Counted(r)'
<1>1. IsFiniteSet(Entries(r)) /\ Cardinality(Entries(r)) \in Nat
  BY EntriesFinite
<1>2. Cardinality(Entries(r)') = Cardinality(Entries(r)) + 1
  BY <1>1, FS_AddElement
<1>3. Cardinality(Entries(r)) = db.count[r]
  BY <1>1 DEF Counted
<1> QED
  BY <1>2, <1>3 DEF Counted

(* One entry and its attachment are taken away. *)
LEMMA CountedLess ==
    ASSUME NEW r \in Resource, Counted(r), db \in DbType, NEW b \in Entries(r),
           Entries(r)' = Entries(r) \ {b}, db.count[r] > 0, db'.count[r] = db.count[r] - 1,
           r \in db'.records \/ db'.count[r] = 0
    PROVE  Counted(r)'
<1>1. IsFiniteSet(Entries(r)) /\ Cardinality(Entries(r)) \in Nat
  BY EntriesFinite
<1>2. Cardinality(Entries(r)') = Cardinality(Entries(r)) - 1
  BY <1>1, FS_RemoveElement
<1>3. Cardinality(Entries(r)) = db.count[r]
  BY <1>1 DEF Counted
<1> QED
  BY <1>1, <1>2, <1>3 DEF Counted

(* The attachment is taken away, the entry stays: its participant could not *)
(* be deleted.                                                              *)
LEMMA CountedStuck ==
    ASSUME NEW r \in Resource, Counted(r), db \in DbType,
           Entries(r)' = Entries(r), db.count[r] > 0, db'.count[r] = db.count[r] - 1,
           db'.count[r] = 0, r \in db'.records, r \in db'.dead
    PROVE  Counted(r)'
<1>1. Cardinality(Entries(r)) \in Nat /\ db.count[r] \in Nat
  BY EntriesFinite DEF DbType
<1>2. Cardinality(Entries(r)) = 1
  BY <1>1 DEF Counted
<1> QED
  BY <1>2 DEF Counted

(* The entries stay and so do the counts. *)
LEMMA KeptCounted ==
    ASSUME AttachmentCounted, PoolClear', \A r \in Resource : Entries(r)' = Entries(r),
           db'.count = db.count, db.records \subseteq db'.records,
           db.dead \subseteq db'.dead
    PROVE  AttachmentCounted'
  BY CountedIs, CountedSame, CountedAll
-----------------------------------------------------------------------------
(* Detaching and attaching *)

LEMMA DetachKeeps ==
    ASSUME DataInv, AttachmentCounted, pool \subseteq Buffer,
           NEW b \in Buffer, NEW delete \in BOOLEAN, Detach(b, delete)
    PROVE  DataInv' /\ AttachmentCounted'
<1>0. PICK r : r = attached[b].res
  OBVIOUS
<1>1. PICK x : /\ x = Detached(db, r, delete) /\ db' = x.db
               /\ attached' = IF x.ok THEN [attached EXCEPT ![b].res = None] ELSE attached
               /\ pool' = IF x.ok THEN pool \cup {b} ELSE pool
  BY <1>0 DEF Detach
<1>2. attached \in [Buffer -> GoodEntry] /\ GoodDb(db) /\ PoolClear
  BY CountedIs DEF DataInv
<1>3. DetachedGood(db, r, delete, x)
  BY <1>1, <1>2, DetachedKeeps
<1>4. /\ attached' \in [Buffer -> GoodEntry]
      /\ \A c \in Buffer : attached'[c].res = IF x.ok /\ c = b THEN None ELSE attached[c].res
  <2>1. CASE ~x.ok
    BY <1>1, <1>2, <2>1
  <2>2. CASE x.ok
    <3> DEFINE e == [attached[b] EXCEPT !.res = None]
    <3>1. e \in GoodEntry /\ e.res = None
      BY <1>2 DEF GoodEntry, EntryType
    <3>2. attached' = [attached EXCEPT ![b] = e]
      BY <1>1, <2>2
    <3> HIDE DEF e
    <3> QED
      BY <1>2, <2>2, <3>1, <3>2
  <2> QED
    BY <2>1, <2>2
<1>5. DataInv'
  <2>1. GoodDb(db')
    BY <1>1, <1>3 DEF DetachedGood
  <2> QED
    BY <1>4, <2>1 DEF DataInv, GoodDb, Live, Pended
<1>6. PoolClear'
  BY <1>1, <1>2, <1>4 DEF PoolClear
<1>7. \A y \in Resource : Counted(y)
  BY CountedIs
<1>8. CASE x.db = db /\ ~x.ok
  <2>1. \A y \in Resource : Entries(y)' = Entries(y)
    BY <1>1, <1>8 DEF Entries
  <2>2. db' = db
    BY <1>1, <1>8
  <2>3. db'.count = db.count /\ db.records \subseteq db'.records /\ db.dead \subseteq db'.dead
    BY <2>2
  <2> QED
    BY <1>5, <1>6, <2>1, <2>3, KeptCounted
<1>9. CASE ~(x.db = db /\ ~x.ok)
  <2>1. /\ r \in db.records /\ db.count[r] > 0
        /\ db'.count = [db.count EXCEPT ![r] = @ - 1]
        /\ db.records \ {r} \subseteq db'.records
        /\ db.dead \ {r} \subseteq db'.dead
        /\ x.ok \/ (db'.count[r] = 0 /\ r \in db'.dead /\ r \in db'.records)
        /\ r \in db'.records \/ (db'.count[r] = 0 /\ x.ok)
    BY <1>1, <1>3, <1>9 DEF DetachedGood
  <2>2. db \in DbType /\ r \in Resource /\ None \notin Resource
    BY <1>2, <2>1, ResourceAssumption DEF GoodDb, DbType
  <2>3. /\ \A y \in Resource \ {r} : db'.count[y] = db.count[y]
        /\ db'.count[r] = db.count[r] - 1
    BY <2>1, <2>2 DEF DbType
  <2>4. ASSUME NEW y \in Resource, y # r PROVE Counted(y)'
    <3>1. Entries(y)' = Entries(y)
      BY <1>0, <1>4, <2>2, <2>4 DEF Entries
    <3> QED
      BY <1>7, <2>1, <2>3, <2>4, <3>1, CountedSame
  <2>5. Counted(r)'
    <3>1. CASE x.ok
      <4>1. b \in Entries(r) /\ Entries(r)' = Entries(r) \ {b}
        BY <1>0, <1>4, <2>2, <3>1 DEF Entries
      <4> QED
        BY <1>7, <2>1, <2>2, <2>3, <4>1, CountedLess
    <3>2. CASE ~x.ok
      <4>1. Entries(r)' = Entries(r)
        BY <1>4, <3>2 DEF Entries
      <4> QED
        BY <1>7, <2>1, <2>2, <2>3, <3>2, <4>1, CountedStuck
    <3> QED
      BY <3>1, <3>2
  <2>6. \A y \in Resource : Counted(y)'
    BY <2>4, <2>5
  <2> QED
    BY <1>5, <1>6, <2>6, CountedAll
<1> QED
  BY <1>5, <1>8, <1>9

(* d is the table, with native entities made for the resource. *)
LEMMA AttachKeeps ==
    ASSUME DataInv, AttachmentCounted, pool \subseteq Buffer, NEW d, GoodDb(d),
           d.count = db.count, d.records = db.records, d.dead = db.dead,
           NEW s, NEW id \in Id, NEW r \in d.entity \cup d.records,
           Kind[r] = IdKind[id], r \notin db.dead \/ r \notin db.records,
           NEW b \in Buffer, Attached(s, id, r, b), db' = Inserted(d, r)
    PROVE  DataInv' /\ AttachmentCounted'
<1>1. attached \in [Buffer -> GoodEntry] /\ GoodDb(db) /\ PoolClear
  BY CountedIs DEF DataInv
<1>2. r \in Resource /\ None \notin Resource /\ db \in DbType
  BY <1>1, ResourceAssumption DEF GoodDb, DbType
<1>3. /\ attached' \in [Buffer -> GoodEntry]
      /\ \A c \in Buffer : attached'[c].res = IF c = b THEN r ELSE attached[c].res
      /\ attached[b].res = None /\ pool' = pool \ {b}
  <2>1. Entry(id, r) \in GoodEntry /\ Entry(id, r).res = r
    BY <1>2 DEF Entry, GoodEntry, EntryType
  <2>2. attached' = [attached EXCEPT ![b] = Entry(id, r)] /\ b \in pool
    BY DEF Attached
  <2> QED
    BY <1>1, <2>1, <2>2 DEF Attached, PoolClear
<1>4. GoodDb(db')
  BY InsertedKeeps
<1>5. DataInv'
  BY <1>3, <1>4 DEF DataInv, GoodDb, Live, Pended
<1>6. PoolClear'
  BY <1>1, <1>3 DEF PoolClear
<1>7. /\ db'.count = [db.count EXCEPT ![r] = @ + 1]
      /\ db'.records = db.records \cup {r} /\ db'.dead = db.dead
  BY <1>2 DEF Inserted, GoodDb, DbType
<1>8. /\ \A y \in Resource \ {r} : db'.count[y] = db.count[y]
      /\ db'.count[r] = db.count[r] + 1
  BY <1>2, <1>7 DEF DbType
<1>9. ASSUME NEW y \in Resource, y # r PROVE Counted(y)'
  <2>1. Entries(y)' = Entries(y)
    BY <1>2, <1>3, <1>9 DEF Entries
  <2> QED
    BY <1>7, <1>8, <1>9, <2>1, CountedIs, CountedSame
<1>10. Counted(r)'
  <2>1. b \notin Entries(r) /\ Entries(r)' = Entries(r) \cup {b}
    BY <1>2, <1>3 DEF Entries
  <2> QED
    BY <1>2, <1>7, <1>8, <2>1, CountedIs, CountedMore
<1> QED
  BY <1>5, <1>6, <1>9, <1>10, CountedAll

LEMMA FinalizeKeeps ==
    ASSUME DataInv, AttachmentCounted, NEW r \in Resource, FinalizeRecord(r)
    PROVE  DataInv' /\ AttachmentCounted'
<1>1. attached' = attached /\ pool' = pool
  BY DEF FinalizeRecord, entries
<1>2. PoolClear' /\ \A y \in Resource : Counted(y) /\ Entries(y)' = Entries(y)
  BY <1>1, CountedIs DEF PoolClear, Entries
<1>3. CASE db.count[r] > 0 \/ r \in db.dead
  <2>1. db' = db
    BY <1>3 DEF FinalizeRecord
  <2>2. DataInv'
    BY <1>1, <2>1 DEF DataInv, GoodDb, Live, Pended
  <2> QED
    BY <1>2, <2>1, <2>2, KeptCounted
<1>4. CASE ~(db.count[r] > 0 \/ r \in db.dead)
  <2>1. PICK n : n = DeletedNative(db, r) /\ db' = IF n.ok THEN Forgotten(n.db, r) ELSE n.db
    BY <1>4 DEF FinalizeRecord
  <2>2. db \in DbType /\ Live(db) /\ Pended(db)
    BY DEF DataInv, GoodDb
  <2>3. db.count[r] = 0
    BY <1>4, <2>2 DEF DbType
  <2>4. r \notin db.pending
    BY <1>4, <2>2, <2>3 DEF Pended
  <2>5. /\ n.db \in DbType /\ Live(n.db) /\ n.ok \in BOOLEAN
        /\ n.db.count = db.count /\ n.db.pending = db.pending
        /\ n.db.records = db.records /\ db.dead \subseteq n.db.dead
        /\ \A y \in db.entity \ n.db.entity : Kind[y] = "participant" => y = r
    BY <2>1, <2>2, DeletedNativeKeeps
  <2>6. \A y \in n.db.pending : n.db.count[y] = 0 =>
                y \in n.db.dead \cap n.db.entity /\ Kind[y] = "participant"
    BY <2>2, <2>4, <2>5 DEF Pended
  <2>7. GoodDb(n.db) /\ GoodDb(Forgotten(n.db, r))
    BY <2>5, <2>6, ForgottenKeeps DEF GoodDb, Pended
  <2>8. DataInv'
    <3>1. GoodDb(db')
      BY <2>1, <2>7
    <3> QED
      BY <1>1, <3>1 DEF DataInv, GoodDb, Live, Pended
  <2>9. /\ db'.count = db.count /\ db.records \ {r} \subseteq db'.records
        /\ db.dead \ {r} \subseteq db'.dead
    BY <2>1, <2>5 DEF Forgotten, DbType
  <2>10. ASSUME NEW y \in Resource, y # r PROVE Counted(y)'
    BY <1>2, <2>9, <2>10, CountedSame
  <2>11. Counted(r)'
    <3>1. Cardinality(Entries(r)) = 0
      BY <1>2, <1>4, <2>3 DEF Counted
    <3> QED
      BY <1>2, <2>3, <2>9, <3>1 DEF Counted
  <2> QED
    BY <1>2, <2>8, <2>10, <2>11, CountedAll
<1> QED
  BY <1>3, <1>4

(* CREATE of a new object. *)
LEMMA CreateKeeps ==
    ASSUME DataInv, AttachmentCounted, pool \subseteq Buffer, NEW d, GoodDb(d),
           d.count = db.count, d.records = db.records, d.dead = db.dead,
           NEW s, NEW id \in Id, NEW r \in d.entity, Kind[r] = IdKind[id],
           r \notin db.dead \/ r \notin db.records, Attach(s, id, r, d)
    PROVE  DataInv' /\ AttachmentCounted'
<1>1. CASE db' = Inserted(d, r) /\ \E b \in Buffer : Attached(s, id, r, b)
  BY <1>1, AttachKeeps
<1>2. CASE db' = [d EXCEPT !.records = @ \cup {r}] /\ UNCHANGED entries
  <2>1. attached' = attached /\ pool' = pool
    BY <1>2 DEF entries
  <2>2. GoodDb(db')
    BY <1>2, RecordKeeps
  <2>3. DataInv'
    BY <2>1, <2>2 DEF DataInv, GoodDb, Live, Pended
  <2>4. /\ db'.count = db.count /\ db.records \subseteq db'.records
        /\ db.dead \subseteq db'.dead
    BY <1>2 DEF GoodDb, DbType
  <2>5. PoolClear' /\ \A y \in Resource : Entries(y)' = Entries(y)
    BY <2>1, CountedIs DEF PoolClear, Entries
  <2> QED
    BY <2>3, <2>4, <2>5, KeptCounted
<1> QED
  BY <1>1, <1>2 DEF Attach
-----------------------------------------------------------------------------
(* Every step keeps the table and the entries good, and the counts. *)
LEMMA StepData ==
    ASSUME ControlType, DataInv, ShapeInv, AttachmentCounted, [Next]_vars
    PROVE  DataInv' /\ AttachmentCounted'
<1>0. pool \subseteq Buffer /\ GoodDb(db)
  BY DEF ControlType, DataInv
<1>1. ASSUME db' = db, attached' = attached, pool' = pool
      PROVE  DataInv' /\ AttachmentCounted'
  BY <1>1 DEF DataInv, GoodDb, Live, Pended, AttachmentCounted, Entries
<1>2. ASSUME NEW s \in Session, CreatedFails(s) PROVE DataInv' /\ AttachmentCounted'
  <2>1. made[s] \in Buffer
    BY <1>2 DEF CreatedFails, ControlType
  <2> QED
    BY <1>0, <1>2, <2>1, DetachKeeps DEF CreatedFails
<1>3. ASSUME NEW s \in Session, NEW id \in Id, Delete(s, id)
      PROVE  DataInv' /\ AttachmentCounted'
  <2>1. Find(s, id) \in Buffer
    BY <1>3, FoundIsBuffer DEF Delete
  <2> QED
    BY <1>0, <1>3, <2>1, DetachKeeps DEF Delete
<1>4. ASSUME NEW s \in Session, NEW id \in Id, NEW r \in OfKind(id), CreateByRef(s, id, r)
      PROVE  DataInv' /\ AttachmentCounted'
  <2>1. r \in db.entity /\ r \notin db.dead /\ Attach(s, id, r, db)
    BY <1>4 DEF CreateByRef, Exists, Usable
  <2>2. Kind[r] = IdKind[id]
    BY DEF OfKind
  <2> QED
    BY <1>0, <2>1, <2>2, CreateKeeps
<1>5. ASSUME NEW s \in Session, NEW id \in Id, NEW r \in OfKind(id), CreateByXml(s, id, r)
      PROVE  DataInv' /\ AttachmentCounted'
  <2>1. r \in Resource /\ Kind[r] = IdKind[id]
    BY DEF OfKind
  <2>2. GoodDb(WithNative(r)) /\ r \in WithNative(r).entity
    BY <1>0, <2>1, WithNativeKeeps
  <2>3. /\ WithNative(r).count = db.count /\ WithNative(r).records = db.records
        /\ WithNative(r).dead = db.dead
    BY <1>0 DEF WithNative, GoodDb, DbType
  <2>4. r \notin db.records /\ Attach(s, id, r, WithNative(r))
    BY <1>5 DEF CreateByXml
  <2> QED
    BY <1>0, <2>1, <2>2, <2>3, <2>4, CreateKeeps
<1>6. ASSUME NEW s \in Session, NEW id \in Id, NEW r \in OfKind(id), CreateLeaves(s, id, r)
      PROVE  DataInv' /\ AttachmentCounted'
  <2>1. r \in Resource
    BY DEF OfKind
  <2>2. attached' = attached /\ pool' = pool /\ db' = WithNative(r)
    BY <1>6 DEF CreateLeaves, entries
  <2>3. GoodDb(db')
    BY <1>0, <2>1, <2>2, WithNativeKeeps
  <2>4. DataInv'
    BY <2>2, <2>3 DEF DataInv, GoodDb, Live, Pended
  <2>5. db'.count = db.count /\ db'.records = db.records /\ db'.dead = db.dead
    BY <1>0, <2>2 DEF WithNative, GoodDb, DbType
  <2>6. PoolClear' /\ \A y \in Resource : Entries(y)' = Entries(y)
    BY <2>2, CountedIs DEF PoolClear, Entries
  <2> QED
    BY <2>4, <2>5, <2>6, KeptCounted
<1>7. ASSUME fill.rest # {}, ~Skipped(fill.sess, NextRecord),
             \E b \in Buffer : Attached(fill.sess, AutoId[NextRecord], NextRecord, b),
             db' = Inserted(db, NextRecord)
      PROVE  DataInv' /\ AttachmentCounted'
  <2>1. NextRecord \in db.records /\ NextRecord \notin db.dead
    BY <1>7 DEF ShapeInv, NextRecord, Skipped
  <2>2. NextRecord \in Resource
    BY <1>0, <2>1 DEF GoodDb, DbType
  <2>3. AutoId[NextRecord] \in Id /\ Kind[NextRecord] = IdKind[AutoId[NextRecord]]
    BY <2>2, ResourceAssumption
  <2> QED
    BY <1>0, <1>7, <2>1, <2>3, AttachKeeps
<1>8. ASSUME FillAttach \/ FillEnableFails PROVE DataInv' /\ AttachmentCounted'
  BY <1>7, <1>8 DEF FillAttach, FillEnableFails
<1>9. ASSUME FillCreatedFails PROVE DataInv' /\ AttachmentCounted'
  <2>1. PICK b \in pool : attached' = [attached EXCEPT ![b] = Entry(AutoId[NextRecord], None)]
    BY <1>9 DEF FillCreatedFails
  <2>2. fill.rest # {} /\ db' = db /\ pool' = pool
    BY <1>9 DEF FillCreatedFails
  <2>3. NextRecord \in Resource
    BY <1>0, <2>2 DEF ShapeInv, NextRecord, GoodDb, DbType
  <2>4. Entry(AutoId[NextRecord], None) \in GoodEntry
    BY <2>3, ResourceAssumption DEF Entry, GoodEntry, EntryType
  <2>5. attached \in [Buffer -> GoodEntry] /\ b \in Buffer /\ attached[b].res = None
    BY <1>0, CountedIs DEF DataInv, PoolClear
  <2>6. /\ attached' \in [Buffer -> GoodEntry]
        /\ \A c \in Buffer : attached'[c].res = attached[c].res
    BY <2>1, <2>4, <2>5 DEF Entry
  <2>7. DataInv'
    BY <1>0, <2>2, <2>6 DEF DataInv, GoodDb, Live, Pended
  <2>8. PoolClear' /\ \A y \in Resource : Entries(y)' = Entries(y)
    BY <1>0, <2>2, <2>6, CountedIs DEF PoolClear, Entries
  <2> QED
    BY <2>2, <2>7, <2>8, KeptCounted
<1>10. ASSUME CloseEntry PROVE DataInv' /\ AttachmentCounted'
  <2>1. job.at \in Buffer
    BY <1>10 DEF CloseEntry, ControlType, JobType
  <2> QED
    BY <1>0, <1>10, <2>1, DetachKeeps DEF CloseEntry
<1>11. ASSUME CleanDetach PROVE DataInv' /\ AttachmentCounted'
  <2>1. job.mark \in Buffer
    BY <1>11 DEF CleanDetach, ControlType, JobType
  <2> QED
    BY <1>0, <1>11, <2>1, DetachKeeps DEF CleanDetach
<1>12. ASSUME NEW r \in Resource, FinalizeRecord(r) PROVE DataInv' /\ AttachmentCounted'
  BY <1>12, FinalizeKeeps
<1>13. ASSUME UNCHANGED vars PROVE DataInv' /\ AttachmentCounted'
  BY <1>1, <1>13 DEF vars
<1>14. ASSUME NEW s \in Session, \/ Open(s) \/ OpenAttach(s) \/ Close(s) \/ Remove(s)
                                 \/ Created(s) \/ NextSession(s)
       PROVE  DataInv' /\ AttachmentCounted'
  BY <1>1, <1>14 DEF Open, OpenAttach, Close, Remove, Created, NextSession, entries
<1>15. ASSUME NEW s \in Session, NEW id \in Id, CreateReused(s, id)
       PROVE  DataInv' /\ AttachmentCounted'
  BY <1>1, <1>15 DEF CreateReused, entries
<1>16. ASSUME NEW s \in Session, NEW id \in Id, NEW r \in OfKind(id), CreateTooEarly(s, id, r)
       PROVE  DataInv' /\ AttachmentCounted'
  BY <1>1, <1>16 DEF CreateTooEarly, entries
<1>17. ASSUME FillSkip \/ FillNoBuffer \/ FillEnd \/ OpenFails
       PROVE  DataInv' /\ AttachmentCounted'
  BY <1>1, <1>17 DEF FillSkip, FillNoBuffer, FillEnd, OpenFails, entries
<1>18. ASSUME NEW kind, Start(kind) PROVE DataInv' /\ AttachmentCounted'
  BY <1>1, <1>18 DEF Start, entries
<1>19. ASSUME EndPass \/ CloseEnd \/ CleanCheck \/ CleanAttach \/ Finalize \/ FinalizeEnd
       PROVE  DataInv' /\ AttachmentCounted'
  BY <1>1, <1>19 DEF EndPass, CloseEnd, CleanCheck, CleanAttach, Finalize, FinalizeEnd, entries
<1> QED
  BY <1>2, <1>3, <1>4, <1>5, <1>6, <1>8, <1>9, <1>10, <1>11, <1>12, <1>13, <1>14,
     <1>15, <1>16, <1>17, <1>18, <1>19 DEF Next
-----------------------------------------------------------------------------
(* Control: sessions, passes and the locked table *)

LEMMA AddedIsLinks ==
    ASSUME links \in LinksType, NEW s \in Session, NEW b \in Buffer
    PROVE  AddedToBack(s, b) \in LinksType
  BY DEF AddedToBack, LinksType

LEMMA AttachedControl ==
    ASSUME ControlType, NEW s \in Session, NEW id, NEW r, NEW b, Attached(s, id, r, b)
    PROVE  links' \in LinksType /\ pool' \subseteq Buffer /\ given' \in 0..MaxGiven
<1>1. b \in Buffer /\ links \in LinksType
  BY DEF Attached, ControlType
<1>2. links' \in LinksType
  BY <1>1, AddedIsLinks DEF Attached
<1>3. given' \in 0..MaxGiven
  BY ResourceAssumption DEF Attached, ControlType
<1> QED
  BY <1>2, <1>3 DEF Attached, ControlType

LEMMA FailureType ==
    ASSUME ControlType, Failure PROVE failures' \in 0..MaxFailures
  BY ResourceAssumption DEF ControlType, Failure

LEMMA DetachControl ==
    ASSUME ControlType, NEW b \in Buffer, NEW delete, Detach(b, delete)
    PROVE  links' = links /\ pool' \subseteq Buffer /\ given' = given
  BY DEF Detach, ControlType

(* A step that leaves sessions, passes and the locked table alone, with the *)
(* table of resources free.                                                 *)
LEMMA RequestControl ==
    ASSUME ControlType, ShapeInv, TableFree,
           UNCHANGED <<status, job, fill, agent>>,
           links' \in LinksType, pool' \subseteq Buffer, given' \in 0..MaxGiven,
           made' \in [Session -> Buffer \cup {None}],
           triggers' \subseteq {"close", "clean"}, failures' \in 0..MaxFailures
    PROVE  ControlType' /\ ShapeInv'
<1>1. fill'.rest \subseteq db'.records
  BY DEF TableFree, NoFill
<1> QED
  BY <1>1 DEF ControlType, ShapeInv

LEMMA CreateControl ==
    ASSUME ControlType, ShapeInv, NEW s \in Session, NEW id, NEW r, NEW d,
           MayAttach(s, id), Attach(s, id, r, d)
    PROVE  ControlType' /\ ShapeInv'
<1>1. /\ TableFree /\ UNCHANGED <<status, job, fill, agent>>
      /\ triggers' \subseteq {"close", "clean"}
  BY DEF MayAttach, Ready, Attach, ControlType
<1>2. /\ links' \in LinksType /\ pool' \subseteq Buffer /\ given' \in 0..MaxGiven
      /\ made' \in [Session -> Buffer \cup {None}] /\ failures' \in 0..MaxFailures
  <2>1. CASE \E b \in Buffer : Attached(s, id, r, b) /\ Enable(s, b)
    <3>1. PICK b \in Buffer : Attached(s, id, r, b) /\ Enable(s, b)
      BY <2>1
    <3>2. made' \in [Session -> Buffer \cup {None}] /\ failures' \in 0..MaxFailures
      BY <3>1, FailureType DEF Enable, ControlType
    <3> QED
      BY <3>1, <3>2, AttachedControl
  <2>2. CASE UNCHANGED <<entries, made, failures>>
    BY <2>2 DEF entries, ControlType
  <2> QED
    BY <2>1, <2>2 DEF Attach
<1> QED
  BY <1>1, <1>2, RequestControl

(* attach_all_resources_to_sessionEA gives up. *)
LEMMA GiveUpControl ==
    ASSUME ControlType, ShapeInv, GiveUp, fill.sess # None,
           UNCHANGED <<made, triggers, agent>>,
           links' \in LinksType, pool' \subseteq Buffer, given' \in 0..MaxGiven,
           failures' \in 0..MaxFailures
    PROVE  ControlType' /\ ShapeInv'
<1>1. fill.sess \in Session /\ fill' = NoFill
  BY DEF ControlType, FillType, GiveUp
<1>2. agent = "up"
  BY DEF ShapeInv, NoFill
<1>3. NoFill \in FillType /\ NoJob \in JobType /\ NoFill.rest = {} /\ NoFill.sess = None
  BY DEF NoFill, NoJob, FillType, JobType
<1>4. CASE status[fill.sess] = "opening"
  <2>1. status' = [status EXCEPT ![fill.sess] = "refused"] /\ job' = job
    BY <1>4 DEF GiveUp
  <2>2. ControlType'
    BY <1>1, <1>3, <2>1 DEF ControlType, StatusType
  <2>3. /\ \A s \in Session : s # fill.sess => status'[s] = status[s]
        /\ status'[fill.sess] = "refused" /\ job.sess # fill.sess
        /\ job.sess \in Session \cup {None} /\ job.todo \subseteq Session
    BY <1>1, <1>4, <2>1 DEF ControlType, ShapeInv, JobType
  <2> QED
    BY <1>1, <1>2, <1>3, <2>1, <2>2, <2>3 DEF ShapeInv
<1>5. CASE status[fill.sess] # "opening"
  <2>1. status' = status /\ job' = NoJob
    BY <1>5 DEF GiveUp
  <2>2. ControlType'
    BY <1>1, <1>3, <2>1 DEF ControlType
  <2> QED
    BY <1>1, <1>2, <1>3, <2>1, <2>2 DEF ShapeInv, NoJob
<1> QED
  BY <1>4, <1>5

LEMMA UnlinkedIsLinks ==
    ASSUME links \in LinksType, NEW s \in Session
    PROVE  [links EXCEPT !.first[s] = None, !.last[s] = None] \in LinksType
  BY DEF LinksType

LEMMA SessionControl ==
    ASSUME ControlType, ShapeInv, db \in DbType, NEW s \in Session,
           \/ Open(s) \/ OpenAttach(s) \/ Close(s) \/ Remove(s) \/ Created(s)
    PROVE  ControlType' /\ ShapeInv'
<1>0. /\ job.sess \in Session \cup {None} /\ job.todo \subseteq Session
      /\ fill.sess \in Session \cup {None} /\ None \notin Session
  BY ResourceAssumption DEF ControlType, JobType, FillType
<1>1. CASE Open(s)
  <2>1. /\ status' = [status EXCEPT ![s] = "opening"] /\ job = NoJob /\ agent = "up"
        /\ UNCHANGED <<db, links, pool, given, made, job, fill, triggers, failures, agent>>
    BY <1>1 DEF Open, Free, entries
  <2>2. ControlType'
    BY <2>1 DEF ControlType, StatusType
  <2> QED
    BY <1>0, <2>1, <2>2 DEF ControlType, ShapeInv, NoJob
<1>2. CASE OpenAttach(s)
  <2>1. /\ fill' = [sess |-> s, rest |-> db.records] /\ status[s] = "opening"
        /\ UNCHANGED <<db, links, pool, given, status, made, job, triggers, failures, agent>>
    BY <1>2 DEF OpenAttach, entries
  <2> QED
    BY <1>0, <2>1 DEF ControlType, ShapeInv, FillType, DbType
<1>3. CASE Close(s)
  <2>1. /\ status' = [status EXCEPT ![s] = "deleted"] /\ status[s] = "open"
        /\ job.sess # s /\ agent = "up" /\ triggers' = triggers \cup {"close"}
        /\ UNCHANGED <<db, links, pool, given, made, job, fill, failures, agent>>
    BY <1>3 DEF Close, Idle, entries
  <2>2. ControlType'
    BY <2>1 DEF ControlType, StatusType
  <2>3. fill.sess # s
    BY <1>0, <2>1 DEF ShapeInv
  <2> QED
    BY <1>0, <2>1, <2>2, <2>3 DEF ControlType, ShapeInv
<1>4. CASE Remove(s)
  <2>1. /\ status' = [status EXCEPT ![s] = "closed"] /\ status[s] # "opening"
        /\ job = NoJob /\ agent = "up"
        /\ links' = [links EXCEPT !.first[s] = None, !.last[s] = None]
        /\ UNCHANGED <<db, pool, given, made, job, fill, triggers, failures, agent>>
    BY <1>4 DEF Remove, Free
  <2>2. links' \in LinksType
    BY <2>1, UnlinkedIsLinks DEF ControlType
  <2>3. ControlType'
    BY <2>1, <2>2 DEF ControlType, StatusType
  <2>4. fill.sess # s
    BY <1>0, <2>1 DEF ShapeInv, NoJob
  <2> QED
    BY <1>0, <2>1, <2>3, <2>4 DEF ControlType, ShapeInv, NoJob
<1>5. CASE Created(s)
  <2>1. /\ made' = [made EXCEPT ![s] = None]
        /\ UNCHANGED <<db, links, pool, given, status, job, fill, triggers, failures, agent>>
    BY <1>5 DEF Created, entries
  <2> QED
    BY <2>1 DEF ControlType, ShapeInv
<1> QED
  BY <1>1, <1>2, <1>3, <1>4, <1>5

(* The requests that change neither sessions nor passes. *)
LEMMA MessageControl ==
    ASSUME ControlType, ShapeInv, NEW s \in Session, NEW id \in Id, NEW r,
           \/ Delete(s, id) \/ CreateReused(s, id)
           \/ CreateTooEarly(s, id, r) \/ CreateLeaves(s, id, r)
           \/ CreateByRef(s, id, r) \/ CreateByXml(s, id, r)
    PROVE  ControlType' /\ ShapeInv'
<1>1. CASE Delete(s, id)
  <2>1. Find(s, id) \in Buffer /\ Detach(Find(s, id), TRUE)
    BY <1>1, FoundIsBuffer DEF Delete
  <2>2. links' = links /\ pool' \subseteq Buffer /\ given' = given
    BY <2>1, DetachControl
  <2>3. TableFree /\ UNCHANGED <<status, made, job, fill, triggers, failures, agent>>
    BY <1>1 DEF Delete, Ready
  <2> QED
    BY <2>2, <2>3, RequestControl DEF ControlType
<1>2. CASE CreateReused(s, id)
  <2>1. PICK b : b = Find(s, id)
    OBVIOUS
  <2>2. b \in Buffer /\ Enable(s, b)
    BY <1>2, <2>1, FoundIsBuffer DEF CreateReused
  <2>3. made' \in [Session -> Buffer \cup {None}] /\ failures' \in 0..MaxFailures
    BY <2>2, FailureType DEF Enable, ControlType
  <2>4. TableFree /\ UNCHANGED <<links, pool, given, status, job, fill, triggers, agent>>
    BY <1>2 DEF CreateReused, Ready, entries
  <2> QED
    BY <2>3, <2>4, RequestControl DEF ControlType
<1>3. CASE CreateTooEarly(s, id, r)
  <2>1. /\ TableFree /\ triggers' = triggers \cup {"clean"}
        /\ UNCHANGED <<links, pool, given, status, made, job, fill, failures, agent>>
    BY <1>3 DEF CreateTooEarly, MayAttach, Ready, entries
  <2> QED
    BY <2>1, RequestControl DEF ControlType
<1>4. CASE CreateLeaves(s, id, r)
  <2>1. /\ TableFree
        /\ UNCHANGED <<links, pool, given, status, made, job, fill, triggers, failures, agent>>
    BY <1>4 DEF CreateLeaves, MayAttach, Ready, entries
  <2> QED
    BY <2>1, RequestControl DEF ControlType
<1>5. CASE CreateByRef(s, id, r) \/ CreateByXml(s, id, r)
  BY <1>5, CreateControl DEF CreateByRef, CreateByXml
<1> QED
  BY <1>1, <1>2, <1>3, <1>4, <1>5

(* attach_all_resources_to_sessionEA *)
LEMMA FillControl ==
    ASSUME ControlType, ShapeInv, db \in DbType,
           \/ FillSkip \/ FillAttach \/ FillNoBuffer \/ FillEnableFails
           \/ FillCreatedFails \/ FillEnd \/ OpenFails
    PROVE  ControlType' /\ ShapeInv'
<1>0. /\ fill \in FillType /\ None \notin Session
      /\ job.sess \in Session \cup {None} /\ job.todo \subseteq Session
  BY ResourceAssumption DEF ControlType, JobType
<1>1. fill.sess \in Session
  BY <1>0 DEF FillSkip, FillAttach, FillNoBuffer, FillEnableFails, FillCreatedFails,
              FillEnd, OpenFails, FillType, ShapeInv, NoFill
<1>2. CASE FillSkip
  <2>1. /\ fill' = [fill EXCEPT !.rest = @ \ {NextRecord}]
        /\ UNCHANGED <<db, links, pool, given, status, made, job, triggers, failures, agent>>
    BY <1>2 DEF FillSkip, entries
  <2>2. fill' \in FillType /\ fill'.sess = fill.sess /\ fill'.rest \subseteq fill.rest
    BY <1>0, <2>1 DEF FillType
  <2> QED
    BY <1>0, <1>1, <2>1, <2>2 DEF ControlType, ShapeInv, NoFill
<1>3. CASE FillAttach
  <2>1. /\ fill' = [fill EXCEPT !.rest = @ \ {NextRecord}]
        /\ db' = Inserted(db, NextRecord)
        /\ UNCHANGED <<status, made, job, triggers, failures, agent>>
    BY <1>3 DEF FillAttach
  <2>2. fill' \in FillType /\ fill'.sess = fill.sess /\ fill'.rest \subseteq fill.rest
    BY <1>0, <2>1 DEF FillType
  <2>3. db.records \subseteq db'.records
    BY <2>1 DEF Inserted, DbType
  <2>4. links' \in LinksType /\ pool' \subseteq Buffer /\ given' \in 0..MaxGiven
    BY <1>1, <1>3, AttachedControl DEF FillAttach
  <2>5. ControlType'
    BY <2>1, <2>2, <2>4 DEF ControlType
  <2> QED
    BY <1>0, <1>1, <2>1, <2>2, <2>3, <2>5 DEF ShapeInv, NoFill
<1>4. CASE FillNoBuffer
  BY <1>0, <1>1, <1>4, GiveUpControl DEF FillNoBuffer, ControlType, entries
<1>5. CASE FillEnableFails
  <2>1. links' \in LinksType /\ pool' \subseteq Buffer /\ given' \in 0..MaxGiven
    BY <1>1, <1>5, AttachedControl DEF FillEnableFails
  <2> QED
    BY <1>0, <1>1, <1>5, <2>1, GiveUpControl, FailureType DEF FillEnableFails
<1>6. CASE FillCreatedFails
  <2>1. PICK b \in pool : links' = AddedToBack(fill.sess, b)
    BY <1>6 DEF FillCreatedFails
  <2>2. links' \in LinksType
    BY <1>1, <2>1, AddedIsLinks DEF ControlType
  <2>3. pool' \subseteq Buffer /\ given' \in 0..MaxGiven
    BY <1>6 DEF FillCreatedFails, ControlType
  <2> QED
    BY <1>0, <1>1, <1>6, <2>2, <2>3, GiveUpControl, FailureType DEF FillCreatedFails
<1>7. CASE FillEnd
  <2>1. /\ fill' = NoFill
        /\ UNCHANGED <<db, links, pool, given, made, triggers, failures, agent>>
    BY <1>7 DEF FillEnd, entries
  <2>2. NoFill \in FillType /\ NoFill.rest = {} /\ NoFill.sess = None
    BY DEF NoFill, FillType
  <2>3. agent = "up"
    BY <1>0, <1>1 DEF ShapeInv, NoFill
  <2>4. CASE status[fill.sess] = "opening"
    <3>1. status' = [status EXCEPT ![fill.sess] = "open"] /\ job' = job
      BY <1>7, <2>4 DEF FillEnd
    <3>2. ControlType'
      BY <2>1, <2>2, <3>1 DEF ControlType, StatusType
    <3>3. job.sess # fill.sess
      BY <1>0, <1>1, <2>4 DEF ShapeInv
    <3> QED
      BY <1>0, <1>1, <2>1, <2>2, <2>3, <3>1, <3>2, <3>3 DEF ControlType, ShapeInv
  <2>5. CASE status[fill.sess] # "opening"
    <3>1. status' = status /\ job' = [job EXCEPT !.sess = None]
      BY <1>7, <2>5 DEF FillEnd
    <3>2. job' \in JobType /\ job'.sess = None /\ job'.kind = job.kind /\ job'.todo = job.todo
      BY <3>1 DEF ControlType, JobType
    <3>3. ControlType'
      BY <2>1, <2>2, <3>1, <3>2 DEF ControlType
    <3> QED
      BY <2>1, <2>2, <2>3, <3>1, <3>2, <3>3 DEF ShapeInv
  <2> QED
    BY <2>4, <2>5
<1>8. CASE OpenFails
  <2>1. UNCHANGED <<links, pool, given, made, triggers, agent>> /\ Failure /\ GiveUp
    BY <1>8 DEF OpenFails, entries
  <2> QED
    BY <1>0, <1>1, <2>1, GiveUpControl, FailureType DEF ControlType
<1> QED
  BY <1>2, <1>3, <1>4, <1>5, <1>6, <1>7, <1>8

(* A step of a pass that is given up or stays with its session, with the    *)
(* table of resources free.                                                 *)
LEMMA VisitControl ==
    ASSUME ControlType, ShapeInv, TableFree, agent = "up", job' \in JobType,
           \/ job' = NoJob
           \/ job'.kind = job.kind /\ job'.sess = job.sess /\ job'.todo = job.todo,
           links' = links, pool' \subseteq Buffer, given' = given,
           UNCHANGED <<status, made, fill, triggers, failures, agent>>
    PROVE  ControlType' /\ ShapeInv'
<1>1. ControlType'
  BY DEF ControlType
<1>2. fill' = NoFill /\ NoFill.rest = {} /\ NoFill.sess = None
  BY DEF TableFree, NoFill
<1> QED
  BY <1>1, <1>2 DEF ShapeInv, NoJob

LEMMA PassControl ==
    ASSUME ControlType, ShapeInv, db \in DbType,
           \/ \E kind \in {"close", "clean"} : Start(kind)
           \/ \E s \in Session : NextSession(s)
           \/ EndPass \/ CloseEntry \/ CloseEnd
           \/ CleanCheck \/ CleanDetach \/ CleanAttach
    PROVE  ControlType' /\ ShapeInv'
<1>0. /\ fill.sess \in Session \cup {None} /\ None \notin Session /\ job \in JobType
      /\ job.sess \in Session \cup {None} /\ job.todo \subseteq Session
      /\ job.at \in Buffer \cup {None} /\ job.mark \in Buffer \cup {None}
      /\ None \notin Buffer
  BY ResourceAssumption DEF ControlType, JobType, FillType
<1>1. /\ NoJob \in JobType /\ NoJob.kind = "none" /\ NoJob.sess = None /\ NoJob.todo = {}
      /\ NoJob.mark = None
  BY DEF NoJob, JobType
<1>2. \A b \in Buffer : links.next[b] \in Buffer \cup {None}
  BY DEF ControlType, LinksType
<1>3. job # NoJob => agent = "up"
  BY DEF ShapeInv
<1>4. ASSUME NEW kind \in {"close", "clean"}, Start(kind) PROVE ControlType' /\ ShapeInv'
  <2> DEFINE T == {s \in Session : kind = "clean" /\ status[s] # "closed"}
  <2>1. /\ job' = [NoJob EXCEPT !.kind = kind, !.todo = T] /\ triggers' = triggers \ {kind}
        /\ job = NoJob /\ agent = "up"
        /\ UNCHANGED <<db, links, pool, given, status, made, fill, failures, agent>>
    BY <1>4 DEF Start, Free, entries
  <2>2. T \subseteq Session /\ \A s \in T : kind = "clean" /\ status[s] # "closed"
    OBVIOUS
  <2> HIDE DEF T
  <2>3. job' \in JobType /\ job'.kind = kind /\ job'.sess = None /\ job'.todo = T
    BY <2>1, <2>2 DEF NoJob, JobType
  <2>4. ControlType'
    BY <2>1, <2>3 DEF ControlType
  <2> QED
    BY <1>0, <1>1, <2>1, <2>2, <2>3, <2>4 DEF ShapeInv
<1>5. ASSUME NEW s \in Session, NextSession(s) PROVE ControlType' /\ ShapeInv'
  <2>1. /\ job' = [job EXCEPT !.sess = s, !.at = links.first[s], !.todo = @ \ {s}]
        /\ job.sess = None /\ ToVisit(s) /\ status[s] # "opening"
        /\ UNCHANGED <<db, links, pool, given, status, made, fill, triggers, failures, agent>>
    BY <1>5 DEF NextSession, entries
  <2>2. links.first[s] \in Buffer \cup {None}
    BY DEF ControlType, LinksType
  <2>3. job' \in JobType /\ job'.kind = job.kind /\ job'.sess = s /\ job'.todo = job.todo \ {s}
    BY <1>0, <2>1, <2>2 DEF JobType
  <2>4. ControlType'
    BY <2>1, <2>3 DEF ControlType
  <2>5. agent = "up"
    BY <1>1, <1>3, <2>1 DEF ToVisit
  <2> QED
    BY <1>0, <2>1, <2>3, <2>4, <2>5 DEF ShapeInv, ToVisit
<1>6. ASSUME EndPass PROVE ControlType' /\ ShapeInv'
  <2>1. /\ job' = NoJob /\ job.sess = None
        /\ UNCHANGED <<db, links, pool, given, status, made, fill, triggers, failures, agent>>
    BY <1>6 DEF EndPass, entries
  <2>2. ControlType'
    BY <1>1, <2>1 DEF ControlType
  <2> QED
    BY <1>0, <1>1, <2>1, <2>2 DEF ShapeInv
<1>7. ASSUME CloseEntry PROVE ControlType' /\ ShapeInv'
  <2>1. job.at \in Buffer /\ Detach(job.at, FALSE) /\ TableFree /\ job.kind = "close"
    BY <1>0, <1>7 DEF CloseEntry
  <2>2. links' = links /\ pool' \subseteq Buffer /\ given' = given
    BY <2>1, DetachControl
  <2>3. job' = [job EXCEPT !.at = links.next[job.at]] \/ job' = NoJob
    BY <1>7 DEF CloseEntry
  <2>4. /\ job' \in JobType
        /\ \/ job' = NoJob
           \/ job'.kind = job.kind /\ job'.sess = job.sess /\ job'.todo = job.todo
    BY <1>0, <1>1, <1>2, <2>1, <2>3 DEF JobType
  <2> QED
    BY <1>1, <1>3, <1>7, <2>1, <2>2, <2>4, VisitControl DEF CloseEntry
<1>8. ASSUME CloseEnd PROVE ControlType' /\ ShapeInv'
  <2>1. job.kind = "close" /\ job.sess \in Session /\ agent = "up"
    BY <1>0, <1>1, <1>3, <1>8 DEF CloseEnd
  <2>2. \E x \in {"closed", "finalized"} : status' = [status EXCEPT ![job.sess] = x]
    BY <1>8 DEF CloseEnd
  <2>3. links' \in LinksType
    <3>1. PICK s \in Session : s = job.sess
      BY <2>1
    <3>2. \/ links' = links
          \/ links' = [links EXCEPT !.first[s] = None, !.last[s] = None]
      BY <1>8, <3>1 DEF CloseEnd
    <3> QED
      BY <3>2, UnlinkedIsLinks DEF ControlType
  <2>4. /\ job' = [job EXCEPT !.sess = None]
        /\ UNCHANGED <<db, pool, given, made, fill, triggers, failures, agent>>
    BY <1>8 DEF CloseEnd
  <2>5. job' \in JobType /\ job'.sess = None /\ job'.kind = job.kind /\ job'.todo = job.todo
    BY <1>0, <2>4 DEF JobType
  <2>6. ControlType'
    BY <2>1, <2>2, <2>3, <2>4, <2>5 DEF ControlType, StatusType
  <2>7. fill.sess # job.sess
    BY <1>0, <2>1 DEF ShapeInv
  <2> QED
    BY <1>0, <2>1, <2>2, <2>4, <2>5, <2>6, <2>7 DEF ControlType, ShapeInv
<1>9. ASSUME CleanCheck PROVE ControlType' /\ ShapeInv'
  <2>1. job.at \in Buffer /\ job.kind = "clean" /\ TableFree
    BY <1>0, <1>9 DEF CleanCheck
  <2>2. \/ job' = NoJob
        \/ \E m \in Buffer \cup {None} :
                job' = [job EXCEPT !.at = links.next[job.at], !.mark = m]
    BY <1>9, <2>1 DEF CleanCheck
  <2>3. /\ job' \in JobType
        /\ \/ job' = NoJob
           \/ job'.kind = job.kind /\ job'.sess = job.sess /\ job'.todo = job.todo
    BY <1>0, <1>1, <1>2, <2>1, <2>2 DEF JobType
  <2>4. UNCHANGED <<links, pool, given, status, made, fill, triggers, failures, agent>>
    BY <1>9 DEF CleanCheck, entries
  <2> QED
    BY <1>1, <1>3, <2>1, <2>3, <2>4, VisitControl DEF ControlType
<1>10. ASSUME CleanDetach PROVE ControlType' /\ ShapeInv'
  <2>1. job.mark \in Buffer /\ Detach(job.mark, TRUE) /\ TableFree
    BY <1>0, <1>10 DEF CleanDetach
  <2>2. links' = links /\ pool' \subseteq Buffer /\ given' = given
    BY <2>1, DetachControl
  <2>3. job' = [job EXCEPT !.mark = None] \/ job' = NoJob
    BY <1>10 DEF CleanDetach
  <2>4. /\ job' \in JobType
        /\ \/ job' = NoJob
           \/ job'.kind = job.kind /\ job'.sess = job.sess /\ job'.todo = job.todo
    BY <1>0, <1>1, <2>3 DEF JobType
  <2>5. agent = "up"
    BY <1>0, <1>1, <1>3, <2>1
  <2> QED
    BY <1>10, <2>1, <2>2, <2>4, <2>5, VisitControl DEF CleanDetach
<1>11. ASSUME CleanAttach PROVE ControlType' /\ ShapeInv'
  <2>1. /\ fill' = [sess |-> job.sess, rest |-> db.records]
        /\ job.kind = "clean" /\ job.sess \in Session
        /\ UNCHANGED <<db, links, pool, given, status, made, job, triggers, failures, agent>>
    BY <1>0, <1>11 DEF CleanAttach, entries
  <2>2. agent = "up"
    BY <1>1, <1>3, <2>1
  <2>3. fill'.sess = job.sess /\ fill'.rest = db.records
    BY <2>1
  <2> QED
    BY <1>0, <2>1, <2>2, <2>3 DEF ControlType, ShapeInv, FillType, DbType
<1> QED
  BY <1>4, <1>5, <1>6, <1>7, <1>8, <1>9, <1>10, <1>11

LEMMA EndControl ==
    ASSUME ControlType, ShapeInv,
           Finalize \/ FinalizeEnd \/ \E r \in Resource : FinalizeRecord(r)
    PROVE  ControlType' /\ ShapeInv'
<1>1. /\ agent' \in {"up", "ending", "down", "failed"}
      /\ UNCHANGED <<links, pool, given, status, made, job, fill, triggers, failures>>
  BY DEF Finalize, FinalizeEnd, FinalizeRecord, entries, ControlType
<1>2. job = NoJob /\ fill = NoFill /\ \A s \in Session : status[s] = "closed"
  <2>1. CASE Finalize
    <3>1. /\ job = NoJob /\ NoJob.kind = "none" /\ \A s \in Session : status[s] = "closed"
          /\ fill.sess \in Session \cup {None}
      BY <2>1 DEF Finalize, Free, NoJob, ControlType, FillType
    <3> QED
      BY <3>1 DEF ShapeInv
  <2>2. CASE FinalizeEnd \/ \E r \in Resource : FinalizeRecord(r)
    BY <2>2 DEF FinalizeEnd, FinalizeRecord, ShapeInv
  <2> QED
    BY <2>1, <2>2
<1>3. fill'.rest = {} /\ fill'.sess = None
  BY <1>1, <1>2 DEF NoFill
<1> QED
  BY <1>1, <1>2, <1>3 DEF ControlType, ShapeInv

LEMMA StepControl ==
    ASSUME ControlType, DataInv, ShapeInv, [Next]_vars
    PROVE  ControlType' /\ ShapeInv'
<1>0. db \in DbType
  BY DEF DataInv, GoodDb
<1>1. UNCHANGED vars => ControlType' /\ ShapeInv'
  BY DEF vars, ControlType, ShapeInv
<1>2. ASSUME NEW s \in Session, CreatedFails(s) PROVE ControlType' /\ ShapeInv'
  <2>1. made[s] \in Buffer /\ Detach(made[s], FALSE)
    BY <1>2 DEF CreatedFails, ControlType
  <2>2. links' = links /\ pool' \subseteq Buffer /\ given' = given
    BY <2>1, DetachControl
  <2>3. failures' \in 0..MaxFailures
    BY <1>2, FailureType DEF CreatedFails
  <2>4. /\ TableFree /\ made' \in [Session -> Buffer \cup {None}]
        /\ UNCHANGED <<status, job, fill, triggers, agent>>
    BY <1>2 DEF CreatedFails, ControlType
  <2> QED
    BY <2>2, <2>3, <2>4, RequestControl DEF ControlType
<1>3. ASSUME NEW s \in Session, NEW id \in Id, Delete(s, id) \/ CreateReused(s, id)
      PROVE  ControlType' /\ ShapeInv'
  BY <1>3, MessageControl
<1>4. ASSUME NEW s \in Session, NEW id \in Id, NEW r \in OfKind(id),
             \/ CreateByRef(s, id, r) \/ CreateTooEarly(s, id, r)
             \/ CreateByXml(s, id, r) \/ CreateLeaves(s, id, r)
      PROVE  ControlType' /\ ShapeInv'
  BY <1>4, MessageControl
<1>5. ASSUME NEW s \in Session, \/ Open(s) \/ OpenAttach(s) \/ Close(s) \/ Remove(s)
                                \/ Created(s)
      PROVE  ControlType' /\ ShapeInv'
  BY <1>0, <1>5, SessionControl
<1>6. ASSUME \/ FillSkip \/ FillAttach \/ FillNoBuffer \/ FillEnableFails
             \/ FillCreatedFails \/ FillEnd \/ OpenFails
      PROVE  ControlType' /\ ShapeInv'
  BY <1>0, <1>6, FillControl
<1>7. ASSUME \/ \E kind \in {"close", "clean"} : Start(kind)
             \/ \E s \in Session : NextSession(s)
             \/ EndPass \/ CloseEntry \/ CloseEnd
             \/ CleanCheck \/ CleanDetach \/ CleanAttach
      PROVE  ControlType' /\ ShapeInv'
  BY <1>0, <1>7, PassControl
<1>8. ASSUME Finalize \/ FinalizeEnd \/ \E r \in Resource : FinalizeRecord(r)
      PROVE  ControlType' /\ ShapeInv'
  BY <1>8, EndControl
<1> QED
  BY <1>1, <1>2, <1>3, <1>4, <1>5, <1>6, <1>7, <1>8 DEF Next
-----------------------------------------------------------------------------
(* Deletions and requests *)

OnRequest ==
    agent = "up" /\ ~Overtaken =>
        /\ \A x \in db.entity \ db'.entity :
                \E r \in Resource : Owns(r, x) /\ Requested(r)
        /\ \A r \in db'.pending \ db.pending : Requested(r) \/ r \in db.dead

(* Detaching on behalf of a client that asked for it, or of nobody. *)
LEMMA DetachOnRequest ==
    ASSUME DataInv, NEW b \in Buffer, NEW delete \in BOOLEAN, Detach(b, delete),
           delete => \/ Requested(attached[b].res)
                     \/ attached[b].res \in db.dead
                     \/ db.count[attached[b].res] = 0
    PROVE  OnRequest
<1>1. PICK r : r = attached[b].res
  OBVIOUS
<1>2. PICK x : x = Detached(db, r, delete) /\ db' = x.db
  BY <1>1 DEF Detach
<1>3. DetachedGood(db, r, delete, x)
  BY <1>2, DetachedKeeps DEF DataInv
<1>4. CASE x.db = db
  BY <1>2, <1>4 DEF OnRequest
<1>5. CASE x.db # db
  <2>1. /\ r \in db.records /\ db.count[r] > 0
        /\ db'.pending \subseteq db.pending \cup (IF delete THEN {r} ELSE {})
        /\ \A y \in db.entity \ db'.entity :
                Owns(r, y) /\ r \notin db.dead /\ (delete \/ r \in db.pending)
    BY <1>2, <1>3, <1>5 DEF DetachedGood
  <2>2. r \in Resource
    BY <2>1 DEF DataInv, GoodDb, DbType
  <2>3. delete => Requested(r) \/ r \in db.dead
    BY <1>1, <2>1
  <2>4. r \in db.pending => Requested(r)
    BY DEF Requested
  <2> QED
    BY <2>1, <2>2, <2>3, <2>4 DEF OnRequest
<1> QED
  BY <1>4, <1>5

LEMMA StepOnRequest ==
    ASSUME ControlType, DataInv, ShapeInv, [Next]_vars
    PROVE  OnRequest
<1>1. ASSUME db.entity \subseteq db'.entity, db'.pending \subseteq db.pending PROVE OnRequest
  BY <1>1 DEF OnRequest
<1>2. db \in DbType
  BY DEF DataInv, GoodDb
<1>3. ASSUME NEW r, db' = Inserted(db, r) PROVE OnRequest
  BY <1>1, <1>2, <1>3 DEF Inserted, DbType
<1>4. ASSUME NEW s \in Session, CreatedFails(s) PROVE OnRequest
  <2>1. made[s] \in Buffer /\ Detach(made[s], FALSE)
    BY <1>4 DEF CreatedFails, ControlType
  <2> QED
    BY <2>1, DetachOnRequest
<1>5. ASSUME NEW s \in Session, NEW id \in Id, Delete(s, id) PROVE OnRequest
  <2>1. PICK b : b = Find(s, id)
    OBVIOUS
  <2>2. b \in Buffer /\ Detach(b, TRUE)
    BY <1>5, <2>1, FoundIsBuffer DEF Delete
  <2>3. Requested(attached[b].res)
    BY <1>5, <2>1 DEF Requested
  <2> QED
    BY <2>2, <2>3, DetachOnRequest
<1>6. ASSUME NEW s \in Session, NEW id \in Id, NEW r \in OfKind(id), CreateByRef(s, id, r)
      PROVE  OnRequest
  BY <1>1, <1>2, <1>6 DEF CreateByRef, Attach, Inserted, DbType
<1>7. ASSUME NEW s \in Session, NEW id \in Id, NEW r \in OfKind(id), CreateByXml(s, id, r)
      PROVE  OnRequest
  BY <1>1, <1>2, <1>7 DEF CreateByXml, Attach, Inserted, WithNative, DbType
<1>8. ASSUME NEW s \in Session, NEW id \in Id, NEW r \in OfKind(id), CreateLeaves(s, id, r)
      PROVE  OnRequest
  BY <1>1, <1>2, <1>8 DEF CreateLeaves, WithNative, DbType
<1>9. ASSUME CloseEntry PROVE OnRequest
  <2>1. job.at \in Buffer /\ Detach(job.at, FALSE)
    BY <1>9 DEF CloseEntry, ControlType, JobType
  <2> QED
    BY <2>1, DetachOnRequest
<1>10. ASSUME CleanDetach PROVE OnRequest
  <2>1. job.mark \in Buffer /\ Detach(job.mark, TRUE)
    BY <1>10 DEF CleanDetach, ControlType, JobType
  <2>2. CASE Overtaken
    BY <2>2 DEF OnRequest
  <2>3. CASE ~Overtaken
    <3>1. ToDetach(attached[job.mark].res)
      BY <1>10, <2>3 DEF Overtaken
    <3> QED
      BY <2>1, <3>1, DetachOnRequest DEF ToDetach
  <2> QED
    BY <2>2, <2>3
<1>11. ASSUME FillAttach \/ FillEnableFails PROVE OnRequest
  BY <1>3, <1>11 DEF FillAttach, FillEnableFails
<1>12. ASSUME NEW r \in Resource, FinalizeRecord(r) PROVE OnRequest
  BY <1>12 DEF FinalizeRecord, OnRequest
<1>13. UNCHANGED vars => db' = db
  BY DEF vars
<1>14. ASSUME NEW s \in Session, \/ Open(s) \/ OpenAttach(s) \/ Close(s) \/ Remove(s)
                                 \/ Created(s) \/ NextSession(s)
       PROVE  db' = db
  BY <1>14 DEF Open, OpenAttach, Close, Remove, Created, NextSession
<1>15. ASSUME NEW s \in Session, NEW id \in Id, CreateReused(s, id) PROVE db' = db
  BY <1>15 DEF CreateReused
<1>16. ASSUME NEW s \in Session, NEW id \in Id, NEW r \in OfKind(id), CreateTooEarly(s, id, r)
       PROVE  db' = db
  BY <1>16 DEF CreateTooEarly
<1>17. ASSUME FillSkip \/ FillNoBuffer \/ FillCreatedFails \/ FillEnd \/ OpenFails
       PROVE  db' = db
  BY <1>17 DEF FillSkip, FillNoBuffer, FillCreatedFails, FillEnd, OpenFails
<1>18. ASSUME NEW kind, Start(kind) PROVE db' = db
  BY <1>18 DEF Start
<1>19. ASSUME EndPass \/ CloseEnd \/ CleanCheck \/ CleanAttach \/ Finalize \/ FinalizeEnd
       PROVE  db' = db
  BY <1>19 DEF EndPass, CloseEnd, CleanCheck, CleanAttach, Finalize, FinalizeEnd
<1>20. db' = db => OnRequest
  BY <1>1
<1> QED
  BY <1>4, <1>5, <1>6, <1>7, <1>8, <1>9, <1>10, <1>11, <1>12, <1>13, <1>14, <1>15,
     <1>16, <1>17, <1>18, <1>19, <1>20 DEF Next
-----------------------------------------------------------------------------
LEMMA InitHolds == Init => ResourcesInv
<1> SUFFICES ASSUME Init PROVE ResourcesInv
  OBVIOUS
<1> USE ResourceAssumption
<1>1. ControlType
  BY DEF Init, ControlType, JobType, NoJob, FillType, NoFill, LinksType, StatusType
<1>2. DataInv
  <2>1. GoodDb(db)
    BY DEF Init, GoodDb, DbType, Live, Pended
  <2> QED
    BY <2>1 DEF Init, DataInv, GoodEntry, EntryType
<1>3. ShapeInv
  BY DEF Init, ShapeInv, NoJob, NoFill
<1>4. AttachmentCounted
  <2>1. PoolClear
    BY DEF Init, PoolClear
  <2>2. ASSUME NEW r \in Resource PROVE Counted(r)
    <3>1. Entries(r) = {}
      BY DEF Init, Entries
    <3>2. Cardinality(Entries(r)) = 0
      BY <3>1, FS_EmptySet
    <3> QED
      BY <3>2 DEF Counted, Init
  <2> QED
    BY <2>1, <2>2, CountedIs
<1> QED
  BY <1>1, <1>2, <1>3, <1>4 DEF ResourcesInv

(* The inductive invariant holds in every reachable state. *)
THEOREM Invariance == Spec => []ResourcesInv
<1>1. Init => ResourcesInv
  BY InitHolds
<1>2. ResourcesInv /\ [Next]_vars => ResourcesInv'
  BY StepData, StepControl DEF ResourcesInv
<1> QED
  BY <1>1, <1>2, PTL DEF Spec

(* The variables have their types, whatever is created, shared, deleted,    *)
(* closed or cleaned up: in particular no count of attachments underflows.  *)
THEOREM TypeCorrect == Spec => []TypeOK
<1>1. ResourcesInv => TypeOK
  <2>1. GoodEntry \subseteq EntryType
    BY DEF GoodEntry
  <2> QED
    BY <2>1 DEF ResourcesInv, DataInv, GoodDb, ControlType, TypeOK
<1> QED
  BY <1>1, Invariance, PTL

(* The count of a record is the number of buffers in use for its resource,  *)
(* although buffers are returned while they are linked and given out again. *)
THEOREM CountsCover == Spec => []AttachmentCounted
<1>1. ResourcesInv => AttachmentCounted
  BY DEF ResourcesInv
<1> QED
  BY <1>1, Invariance, PTL

(* A requested deletion is carried out by whoever detaches last. *)
THEOREM DeletionsHappen == Spec => []PendingDeleted
<1>1. ResourcesInv => PendingDeleted
  BY DEF ResourcesInv, DataInv, GoodDb, Pended, PendingDeleted
<1> QED
  BY <1>1, Invariance, PTL

(* A WRITE that is accepted reaches a writer that exists. *)
THEOREM WritesReach == Spec => []WriteReaches
<1>1. ASSUME ResourcesInv PROVE WriteReaches
  <2> SUFFICES ASSUME NEW b \in Buffer, Accepts(attached[b])
               PROVE  Exists(attached[b].res)
    BY DEF WriteReaches
  <2> DEFINE e == attached[b]
  <2>1. e \in GoodEntry
    BY <1>1 DEF ResourcesInv, DataInv
  <2> HIDE DEF e
  <2>2. e.res \in db.records \ db.dead /\ IdKind[e.id] = "endpoint"
    BY DEF Accepts, e
  <2>3. e.res \in Resource /\ None \notin Resource
    BY <1>1, <2>2, ResourceAssumption DEF ResourcesInv, DataInv, GoodDb, DbType
  <2>4. Kind[e.res] = "endpoint"
    BY <2>1, <2>2, <2>3 DEF GoodEntry
  <2>5. e.res \in db.entity
    BY <1>1, <2>2, <2>4 DEF ResourcesInv, DataInv, GoodDb, Live
  <2> QED
    BY <2>5 DEF Exists, e
<1> QED
  BY <1>1, Invariance, PTL

(* While the agent runs, entities are deleted only because a client asked,  *)
(* or by a cleanup that another session overtook.                           *)
THEOREM DeletionsAreRequested == Spec => DeletedOnRequest
<1>1. ResourcesInv /\ [Next]_vars => [OnRequest]_vars
  BY StepOnRequest DEF ResourcesInv
<1>2. Spec => [][OnRequest]_vars
  BY <1>1, Invariance, PTL DEF Spec
<1> QED
  BY <1>2 DEF DeletedOnRequest, OnRequest
=============================================================================
