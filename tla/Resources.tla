----------------------------- MODULE Resources -----------------------------
(***************************************************************************)
(* The DDS resources that the agent's sessions share.  A record of the     *)
(* resources table counts the entries of sessions that are attached to the *)
(* resource, and remembers whether a session asked for its deletion; the   *)
(* native entity goes with the last of them, together with the entities it *)
(* contains, whose records are marked.  Besides the threads of the clients *)
(* two passes change this state, with the sessions table locked: one       *)
(* finalizes closed sessions and one cleans up marked resources.  Messages *)
(* of other clients do not need that lock and go on meanwhile; the table   *)
(* of resources is locked by every attachment and detachment.              *)
(* Entries are buffers of one pool, linked into the list of a session.     *)
(* Detaching returns the buffer and leaves it linked, so that a buffer     *)
(* given out again is in two lists, or twice in one.                       *)
(* Kinds are reduced to four: publishers and subscribers are groups,       *)
(* writers and readers are endpoints.  DDS itself is external: an entity   *)
(* is there or not, and a participant that still has a topic cannot be     *)
(* deleted.  An entry is found and the resources table locked in one step. *)
(***************************************************************************)
EXTENDS Naturals, FiniteSets

CONSTANTS
    Resource,   \* resources, by their full name
    Kind,       \* kind of a resource
    Parent,     \* resource that contains it, None for a participant
    TopicOf,    \* topic of an endpoint, None for the others
    Session,    \* client sessions
    Buffer,     \* buffers of pool_resources
    Id,         \* object ids
    IdKind,     \* kind of object that an id is for
    AutoAttach, \* properties.auto_attach_resources
    AutoId,     \* id generated for a resource
    Loaded,     \* resources loaded from XML when the agent starts
    None,
    MaxFailures,\* bound on the failures of calls of DDS and of callbacks
    MaxGiven    \* bound on how many times a buffer is given out

ASSUME ResourceAssumption ==
    /\ IsFiniteSet(Buffer)
    /\ None \notin Resource \cup Session \cup Buffer \cup Id
    /\ Kind \in [Resource -> {"participant", "group", "endpoint", "topic"}]
    /\ Parent \in [Resource -> Resource \cup {None}]
    /\ TopicOf \in [Resource -> Resource \cup {None}]
    /\ \A r \in Resource : TopicOf[r] # None =>
            Kind[r] = "endpoint" /\ Kind[TopicOf[r]] = "topic"
    /\ \A r \in Resource : Parent[r] # None => Kind[r] # "participant"
    /\ Loaded \subseteq Resource
    /\ AutoId \in [Resource -> Id]
    /\ IdKind \in [Id -> {"participant", "group", "endpoint", "topic"}]
    /\ \A r \in Resource : IdKind[AutoId[r]] = Kind[r]
    /\ AutoAttach \in BOOLEAN
    /\ MaxFailures \in Nat /\ MaxGiven \in Nat

VARIABLES
    db,         \* resources table and native entities
    attached,   \* NDDSA_AttachedResource in each buffer
    links,      \* session.resources: first and last of a session, next of a buffer
    pool,       \* buffers that may be given out
    given,      \* how many times a buffer was given out
    status,     \* of the record of a session in the sessions table
    made,       \* entry of a session whose on_resource_created is to come
    job,        \* pass that has the sessions table locked
    fill,       \* attach_all_resources, which has the resources table locked
    triggers,   \* conditions of the passes that are set
    failures,   \* how many calls have failed
    agent       \* "up", then "ending", then "down" or "failed"

entries == <<attached, links, pool, given>>
vars == <<db, attached, links, pool, given, status, made, job, fill, triggers,
          failures, agent>>

(* attached_count, pending_delete and native_deleted of the records; what is *)
(* not in records has count 0 and is in neither set.                         *)
DbType ==
    [entity : SUBSET Resource, records : SUBSET Resource,
     count : [Resource -> Nat], pending : SUBSET Resource,
     dead : SUBSET Resource]

\* NDDSA_AttachedResource; res is None once its resource id was finalized
EntryType == [id : Id \cup {None}, res : Resource \cup {None}]

LinksType ==
    [first : [Session -> Buffer \cup {None}], last : [Session -> Buffer \cup {None}],
     next : [Buffer -> Buffer \cup {None}]]

(* "closed" without record, "opening", "open", "deleted" by close_session    *)
(* or a timeout, "finalized" until close_session removes the record, and     *)
(* "refused" until a failed open_session does                                *)
StatusType == {"closed", "opening", "open", "deleted", "finalized", "refused"}

(* sess is the session that a pass has locked, at the entry it visits next,  *)
(* mark the entry it decided to detach and todo the sessions it will visit   *)
JobType ==
    [kind : {"none", "close", "clean"}, sess : Session \cup {None},
     at : Buffer \cup {None}, mark : Buffer \cup {None}, todo : SUBSET Session]

NoJob == [kind |-> "none", sess |-> None, at |-> None, mark |-> None, todo |-> {}]

FillType == [sess : Session \cup {None}, rest : SUBSET Resource]
NoFill == [sess |-> None, rest |-> {}]

\* Every variable has its type.
TypeOK ==
    /\ db \in DbType
    /\ attached \in [Buffer -> EntryType]
    /\ links \in LinksType
    /\ pool \subseteq Buffer
    /\ given \in 0..MaxGiven
    /\ status \in [Session -> StatusType]
    /\ made \in [Session -> Buffer \cup {None}]
    /\ job \in JobType
    /\ fill \in FillType
    /\ triggers \subseteq {"close", "clean"}
    /\ failures \in 0..MaxFailures
    /\ agent \in {"up", "ending", "down", "failed"}

(* The XML visitor makes the loaded participants with their contents and a  *)
(* record for each; every insertion triggers a cleanup.                     *)
Init ==
    /\ db = [entity |-> Loaded, records |-> Loaded,
             count |-> [r \in Resource |-> 0], pending |-> {}, dead |-> {}]
    /\ attached = [b \in Buffer |-> [id |-> None, res |-> None]]
    /\ links = [first |-> [s \in Session |-> None], last |-> [s \in Session |-> None],
                next |-> [b \in Buffer |-> None]]
    /\ pool = Buffer
    /\ given = 0
    /\ status = [s \in Session |-> "closed"]
    /\ made = [s \in Session |-> None]
    /\ job = NoJob
    /\ fill = NoFill
    /\ triggers = IF Loaded = {} THEN {} ELSE {"clean"}
    /\ failures = 0
    /\ agent = "up"
-----------------------------------------------------------------------------
(* Native entities.  A definition whose comment starts with "Mutant" plants *)
(* a bug in the one that follows it, to show that a property notices;       *)
(* nothing else uses it.                                                    *)

\* the entities that deleting r deletes: topics go with their endpoints
Contents(r) ==
    {r} \cup {x \in Resource : /\ Kind[x] # "topic" /\ Parent[x] # None
                               /\ Parent[x] = r \/ Parent[Parent[x]] = r}

UsedBy(t, E) == \E x \in E : TopicOf[x] = t

(* the topics that go with the endpoints among D: DomainParticipant_        *)
(* delete_topic fails while another endpoint uses it, and is not checked    *)
TopicsOf(D, E) == {t \in E : UsedBy(t, D) /\ ~UsedBy(t, E \ D)}

\* the entities left of E once r and its contents are deleted
Remaining(r, E) ==
    LET D == Contents(r) \cap E
    IN  CASE Kind[r] = "topic" -> IF UsedBy(r, E) THEN E ELSE E \ {r}
          [] OTHER -> (E \ D) \ TopicsOf(D, E)

\* delete_participant fails: it still has a topic
Blocked(r, E) == Kind[r] = "participant" /\ \E x \in Remaining(r, E) : Parent[x] = r

\* Mutant: the records of contained entities are not marked
DeletedNativeOnly(d, r) ==
    IF r \notin d.records \/ r \in d.dead THEN [db |-> d, ok |-> TRUE]
    ELSE [db |-> [d EXCEPT !.dead = @ \cup {r},
                           !.entity = Remaining(r, @) \cup
                                        (IF Blocked(r, @) THEN {r} ELSE {})],
          ok |-> ~Blocked(r, d.entity)]

\* the records of the entities that go with r are found and marked
Marked(r, d) == {r} \cup (Contents(r) \cap d.entity \cap d.records)

(* NDDSA_Agent_delete_native_resourceEA with the cascade over what r        *)
(* contains: nothing to do for a resource without record or marked before,  *)
(* or without entity.                                                       *)
DeletedNative(d, r) ==
    IF r \notin d.records \/ r \in d.dead THEN [db |-> d, ok |-> TRUE]
    ELSE IF r \notin d.entity THEN [db |-> [d EXCEPT !.dead = @ \cup {r}], ok |-> TRUE]
    ELSE [db |-> [d EXCEPT
                    !.dead = @ \cup Marked(r, d),
                    !.entity = Remaining(r, @) \cup
                                 (IF Blocked(r, @) THEN {r} ELSE {})],
          ok |-> ~Blocked(r, d.entity)]
-----------------------------------------------------------------------------
(* Records and attachments *)

Forgotten(d, r) ==
    [d EXCEPT !.records = @ \ {r}, !.pending = @ \ {r}, !.dead = @ \ {r}]

\* Mutant: the count is not checked
DetachedUnchecked(d, r, delete) ==
    IF r \notin d.records THEN [db |-> d, ok |-> FALSE]
    ELSE LET d1 == [d EXCEPT !.count[r] = @ - 1,
                             !.pending = IF delete THEN @ \cup {r} ELSE @]
             n == DeletedNative(d1, r)
         IN  IF r \notin d1.pending \/ d1.count[r] > 0 THEN [db |-> d1, ok |-> TRUE]
             ELSE [db |-> IF n.ok THEN Forgotten(n.db, r) ELSE n.db, ok |-> n.ok]

\* Mutant: the native entity is deleted only if this caller asked for it
DetachedForCaller(d, r, delete) ==
    IF r \notin d.records \/ d.count[r] = 0 THEN [db |-> d, ok |-> FALSE]
    ELSE LET d1 == [d EXCEPT !.count[r] = @ - 1,
                             !.pending = IF delete THEN @ \cup {r} ELSE @]
             n == DeletedNative(d1, r)
         IN  IF ~delete \/ d1.count[r] > 0 THEN [db |-> d1, ok |-> TRUE]
             ELSE [db |-> IF n.ok THEN Forgotten(n.db, r) ELSE n.db, ok |-> n.ok]

(* NDDSA_Agent_detach_resourceEA: the table, and whether it succeeds.  An   *)
(* entity that cannot be deleted leaves a marked record with count 0.       *)
Detached(d, r, delete) ==
    IF r \notin d.records \/ d.count[r] = 0 THEN [db |-> d, ok |-> FALSE]
    ELSE LET d1 == [d EXCEPT !.count[r] = @ - 1,
                             !.pending = IF delete THEN @ \cup {r} ELSE @]
             n == DeletedNative(d1, r)
         IN  IF r \notin d1.pending \/ d1.count[r] > 0 THEN [db |-> d1, ok |-> TRUE]
             ELSE [db |-> IF n.ok THEN Forgotten(n.db, r) ELSE n.db, ok |-> n.ok]

\* Mutant: the buffer of a resource that was not deleted is returned as well
DetachReturns(b, delete) ==
    LET x == Detached(db, attached[b].res, delete)
    IN  /\ db' = x.db
        /\ attached' = IF x.ok THEN [attached EXCEPT ![b].res = None] ELSE attached
        /\ pool' = pool \cup {b}
        /\ UNCHANGED <<links, given>>

(* the entry in buffer b is detached.  The end of detach_resourceEA clears  *)
(* its resource id and returns the buffer, which stays linked.              *)
Detach(b, delete) ==
    LET x == Detached(db, attached[b].res, delete)
    IN  /\ db' = x.db
        /\ attached' = IF x.ok THEN [attached EXCEPT ![b].res = None] ELSE attached
        /\ pool' = IF x.ok THEN pool \cup {b} ELSE pool
        /\ UNCHANGED <<links, given>>

Detaches(b, delete) == Detached(db, attached[b].res, delete).ok

Entry(id, r) == [id |-> id, res |-> r]

(* REDAInlineList_addNodeToBackEA, external: a node that is still linked is *)
(* not taken out first, and ends wherever it is.  (Were its next set before *)
(* that of the last node, a session that gets its last buffer again would   *)
(* have a list without end, and the thread that searches it would stop.)    *)
AddedToBack(s, b) ==
    LET l == links.last[s]
    IN  [first |-> IF l = None THEN [links.first EXCEPT ![s] = b] ELSE links.first,
         last |-> [links.last EXCEPT ![s] = b],
         next |-> [x \in Buffer |-> IF x = b THEN None
                                    ELSE IF x = l THEN b ELSE links.next[x]]]

(* attach_resource_to_sessionEA: the pool, external, gives out any of its   *)
(* buffers                                                                  *)
Attached(s, id, r, b) ==
    /\ b \in pool /\ given < MaxGiven
    /\ pool' = pool \ {b}
    /\ given' = given + 1
    /\ attached' = [attached EXCEPT ![b] = Entry(id, r)]
    /\ links' = AddedToBack(s, b)

\* the record of r is inserted if it is not there, and an entry counted
Inserted(d, r) ==
    [d EXCEPT !.records = @ \cup {r}, !.count[r] = @ + 1]

\* the entries of a session in the order of its list, then None
Walk(s) ==
    LET w[i \in 0..Cardinality(Buffer)] ==
            IF i = 0 THEN links.first[s]
            ELSE IF w[i - 1] = None THEN None ELSE links.next[w[i - 1]]
    IN  w

\* NDDSA_ClientSession_find_attached_resource: the first entry with the id
Find(s, id) ==
    LET w == Walk(s)
        Has(i) == w[i] \in Buffer /\ attached[w[i]].id = id
        First(i) == Has(i) /\ \A j \in 0..(i - 1) : ~Has(j)
    IN  IF \E i \in DOMAIN w : First(i)
        THEN w[CHOOSE i \in DOMAIN w : First(i)] ELSE None
-----------------------------------------------------------------------------
(* Sessions *)

\* a call of DDS or a callback fails
Failure == failures < MaxFailures /\ failures' = failures + 1

\* the sessions table, and the resources table, are not locked
Free == job = NoJob /\ agent = "up"
TableFree == fill = NoFill

\* a message of the session may be handled: no pass has its record
Idle(s) == agent = "up" /\ status[s] = "open" /\ made[s] = None /\ job.sess # s
Ready(s) == Idle(s) /\ TableFree

(* NDDSA_Agent_open_session, for a new session *)
Open(s) ==
    /\ Free /\ status[s] = "closed"
    /\ status' = [status EXCEPT ![s] = "opening"]
    /\ UNCHANGED <<db, entries, made, job, fill, triggers, failures, agent>>

\* it gets all resources
OpenAttach(s) ==
    /\ TableFree /\ status[s] = "opening"
    /\ fill' = [sess |-> s, rest |-> db.records]
    /\ UNCHANGED <<db, entries, status, made, job, triggers, failures, agent>>

\* close_session or an expired timeout
Close(s) ==
    /\ Idle(s)
    /\ status' = [status EXCEPT ![s] = "deleted"]
    /\ triggers' = triggers \cup {"close"}
    /\ UNCHANGED <<db, entries, made, job, fill, failures, agent>>

\* close_session, or an open_session that failed, removes the record
Remove(s) ==
    /\ Free /\ status[s] \in {"finalized", "refused"}
    /\ status' = [status EXCEPT ![s] = "closed"]
    /\ links' = [links EXCEPT !.first[s] = None, !.last[s] = None]
    /\ UNCHANGED <<db, attached, pool, given, made, job, fill, triggers, failures, agent>>
-----------------------------------------------------------------------------
(* attach_all_resources_to_sessionEA, for a new session or at the end of    *)
(* the cleanup of one                                                       *)

\* the record that the cursor of the table finds next
NextRecord == CHOOSE r \in fill.rest : TRUE

(* attached already, or not to be attached: a record whose deletion is      *)
(* pending is not excluded                                                  *)
Skipped(s, r) == ~AutoAttach \/ r \in db.dead \/ Find(s, AutoId[r]) # None

FillSkip ==
    /\ fill.rest # {} /\ Skipped(fill.sess, NextRecord)
    /\ fill' = [fill EXCEPT !.rest = @ \ {NextRecord}]
    /\ UNCHANGED <<db, entries, status, made, job, triggers, failures, agent>>

FillAttach ==
    /\ fill.rest # {} /\ ~Skipped(fill.sess, NextRecord)
    /\ \E b \in Buffer : Attached(fill.sess, AutoId[NextRecord], NextRecord, b)
    /\ db' = Inserted(db, NextRecord)
    /\ fill' = [fill EXCEPT !.rest = @ \ {NextRecord}]
    /\ UNCHANGED <<status, made, job, triggers, failures, agent>>

\* the new session is refused, or the pass given up
GiveUp ==
    /\ fill' = NoFill
    /\ \/ /\ status[fill.sess] = "opening"
          /\ status' = [status EXCEPT ![fill.sess] = "refused"]
          /\ job' = job
       \/ /\ status[fill.sess] # "opening"
          /\ status' = status
          /\ job' = NoJob

\* the pool has no buffer
FillNoBuffer ==
    /\ fill.rest # {} /\ ~Skipped(fill.sess, NextRecord) /\ pool = {}
    /\ GiveUp
    /\ UNCHANGED <<db, entries, made, triggers, failures, agent>>

\* the resource cannot be enabled and stays attached
FillEnableFails ==
    /\ fill.rest # {} /\ ~Skipped(fill.sess, NextRecord)
    /\ \E b \in Buffer : Attached(fill.sess, AutoId[NextRecord], NextRecord, b)
    /\ db' = Inserted(db, NextRecord)
    /\ Failure /\ GiveUp
    /\ UNCHANGED <<made, triggers, agent>>

\* on_resource_created fails and the entry is detached again
FillCreatedFails ==
    /\ fill.rest # {} /\ ~Skipped(fill.sess, NextRecord)
    /\ \E b \in pool : /\ attached' = [attached EXCEPT ![b] = Entry(AutoId[NextRecord], None)]
                       /\ links' = AddedToBack(fill.sess, b)
    /\ Failure /\ GiveUp
    /\ UNCHANGED <<db, pool, given, made, triggers, agent>>

\* the session is open, or the pass goes on
FillEnd ==
    /\ fill.sess # None /\ fill.rest = {}
    /\ fill' = NoFill
    /\ \/ /\ status[fill.sess] = "opening"
          /\ status' = [status EXCEPT ![fill.sess] = "open"]
          /\ job' = job
       \/ /\ status[fill.sess] # "opening"
          /\ status' = status
          /\ job' = [job EXCEPT !.sess = None]
    /\ UNCHANGED <<db, entries, made, triggers, failures, agent>>

(* on_session_opened fails: the record of the session is deleted, what was  *)
(* attached stays counted                                                   *)
OpenFails ==
    /\ fill.rest = {} /\ fill.sess # None /\ status[fill.sess] = "opening"
    /\ Failure /\ GiveUp
    /\ UNCHANGED <<db, entries, made, triggers, agent>>
-----------------------------------------------------------------------------
(* CREATE and DELETE *)

\* a live entry of the session is the parent that an XML representation needs
HasParent(s, r) ==
    \/ Kind[r] = "participant"
    \/ \E id \in Id : LET b == Find(s, id)
                      IN  b # None /\ attached[b].res # None /\ attached[b].res = Parent[r]

\* NDDSA_RefResource_lookup_*: DDS has an entity of this name
Exists(r) == r \in db.entity

(* NDDSA_ResourceFactory_create_resource_native by XML: what DDS makes must *)
(* not be there yet, what contains it must.                                 *)
MakesTopic(r) == Kind[r] = "topic" /\ Exists(Parent[r])
MakesGroup(r) == Kind[r] = "group" /\ Exists(Parent[r])
MakesEndpoint(r) ==
    Kind[r] = "endpoint" /\ Exists(Parent[r]) /\ Exists(Parent[Parent[r]])
Makes(s, r) ==
    /\ ~Exists(r)
    /\ Kind[r] = "participant" \/ MakesTopic(r) \/ MakesGroup(r) \/ MakesEndpoint(r)
    /\ HasParent(s, r)

\* the entity and, for an endpoint, its topic
WithNative(r) ==
    [db EXCEPT !.entity = @ \cup ({r, TopicOf[r]} \ {None})]

\* the end of NDDSA_Agent_insert_resource_recordEA returns the record
Usable(r) == r \notin db.pending /\ r \notin db.dead

(* NDDSA_Agent_enable_resourceEA: on_resource_created is to come; when it   *)
(* fails the entry stays, without it.                                       *)
Enable(s, b) ==
    \/ made' = [made EXCEPT ![s] = b] /\ failures' = failures
    \/ Failure /\ made' = made

(* a new object: its entry is added to the list, or there is no buffer for  *)
(* one and only the record is inserted                                      *)
Attach(s, id, r, d) ==
    /\ \/ /\ db' = Inserted(d, r)
          /\ \E b \in Buffer : Attached(s, id, r, b) /\ Enable(s, b)
       \/ /\ pool = {}
          /\ db' = [d EXCEPT !.records = @ \cup {r}]
          /\ UNCHANGED <<entries, made, failures>>
    /\ triggers' = triggers \cup {"clean"}
    /\ UNCHANGED <<status, job, fill, agent>>

\* CREATE names a resource of the kind of its id, which is not in use
OfKind(id) == {r \in Resource : Kind[r] = IdKind[id]}
MayAttach(s, id) == Ready(s) /\ Find(s, id) = None

\* CREATE of a new object by reference to an entity that exists
CreateByRef(s, id, r) ==
    /\ MayAttach(s, id)
    /\ Exists(r) /\ Usable(r)
    /\ Attach(s, id, r, db)

\* the record found is to be deleted: only the cleanup is triggered
CreateTooEarly(s, id, r) ==
    /\ MayAttach(s, id)
    /\ Exists(r) /\ r \in db.records /\ ~Usable(r)
    /\ triggers' = triggers \cup {"clean"}
    /\ UNCHANGED <<db, entries, status, made, job, fill, failures, agent>>

\* CREATE of a new object from an XML representation
CreateByXml(s, id, r) ==
    /\ MayAttach(s, id)
    /\ Makes(s, r) /\ r \notin db.records
    /\ Attach(s, id, r, WithNative(r))

\* a record is there: CREATE fails and leaves the entity it has just made
CreateLeaves(s, id, r) ==
    /\ MayAttach(s, id)
    /\ Makes(s, r) /\ r \in db.records
    /\ db' = WithNative(r)
    /\ UNCHANGED <<entries, status, made, job, fill, triggers, failures, agent>>

\* its representation can be compared: that of a marked record is cleared
Reusable(r) == r \in db.records \ db.dead

(* CREATE with an id in use, the "reuse" property and the representation    *)
(* the object was created with.  All other requests with an id in use are   *)
(* refused.                                                                 *)
CreateReused(s, id) ==
    LET b == Find(s, id)
    IN  /\ Ready(s) /\ b # None
        /\ Reusable(attached[b].res)
        /\ Enable(s, b)
        /\ UNCHANGED <<db, entries, status, job, fill, triggers, agent>>

\* on_resource_created succeeds
Created(s) ==
    /\ made[s] # None
    /\ made' = [made EXCEPT ![s] = None]
    /\ UNCHANGED <<db, entries, status, job, fill, triggers, failures, agent>>

\* on_resource_created fails: the object is detached, a reused one as well
CreatedFails(s) ==
    /\ made[s] # None /\ TableFree /\ Failure
    /\ Detach(made[s], FALSE)
    /\ made' = [made EXCEPT ![s] = None]
    /\ UNCHANGED <<status, job, fill, triggers, agent>>

(* NDDSA_Agent_delete_resource.  Whether it succeeds depends on Detaches;   *)
(* without an entry there is nothing to do.                                 *)
Delete(s, id) ==
    /\ Ready(s) /\ Find(s, id) # None
    /\ Detach(Find(s, id), TRUE)
    /\ UNCHANGED <<status, made, job, fill, triggers, failures, agent>>
-----------------------------------------------------------------------------
(* The passes: on_cleanup_sessions and on_cleanup_resources *)

Start(kind) ==
    /\ Free /\ kind \in triggers
    /\ triggers' = triggers \ {kind}
    /\ job' = [NoJob EXCEPT
                 !.kind = kind,
                 !.todo = {s \in Session : kind = "clean" /\ status[s] # "closed"}]
    /\ UNCHANGED <<db, entries, status, made, fill, failures, agent>>

\* find_next_session: a deleted session, or the next one
ToVisit(s) ==
    \/ job.kind = "close" /\ status[s] \in {"deleted", "finalized"}
    \/ job.kind = "clean" /\ s \in job.todo

\* its record is not locked
NextSession(s) ==
    /\ job.sess = None /\ ToVisit(s)
    /\ made[s] = None /\ status[s] # "opening"
    /\ job' = [job EXCEPT !.sess = s, !.at = links.first[s], !.todo = @ \ {s}]
    /\ UNCHANGED <<db, entries, status, made, fill, triggers, failures, agent>>

EndPass ==
    /\ job.kind # "none" /\ job.sess = None
    /\ \A s \in Session : ~ToVisit(s)
    /\ job' = NoJob
    /\ UNCHANGED <<db, entries, status, made, fill, triggers, failures, agent>>

\* Mutant: the resources of a closed session are deleted with it
CloseAndDelete ==
    LET b == job.at
    IN  /\ job.kind = "close" /\ b # None /\ TableFree
        /\ Detach(b, TRUE)
        /\ job' = IF Detaches(b, TRUE) THEN [job EXCEPT !.at = links.next[b]] ELSE NoJob
        /\ UNCHANGED <<status, made, fill, triggers, failures, agent>>

(* the loop of NDDSA_Agent_finalize_sessionEA over the resources: the first *)
(* failure ends the pass, and the session remains in the table              *)
CloseEntry ==
    LET b == job.at
    IN  /\ job.kind = "close" /\ b # None /\ TableFree
        /\ Detach(b, FALSE)
        /\ job' = IF Detaches(b, FALSE) THEN [job EXCEPT !.at = links.next[b]] ELSE NoJob
        /\ UNCHANGED <<status, made, fill, triggers, failures, agent>>

\* an expired session is removed, close_session removes the others
CloseEnd ==
    LET s == job.sess
    IN  /\ job.kind = "close" /\ s # None /\ job.at = None
        /\ \/ /\ status' = [status EXCEPT ![s] = "closed"]
              /\ links' = [links EXCEPT !.first[s] = None, !.last[s] = None]
           \/ /\ status' = [status EXCEPT ![s] = "finalized"]
              /\ links' = links
        /\ job' = [job EXCEPT !.sess = None]
        /\ UNCHANGED <<db, attached, pool, given, made, fill, triggers, failures, agent>>

ToDetach(r) == r \in db.dead \/ (r \in db.pending /\ db.count[r] = 0)

(* one entry is looked at and its record released; an entry without record  *)
(* ends the cleanup of all sessions                                         *)
CleanCheck ==
    LET b == job.at
        r == attached[b].res
    IN  /\ job.kind = "clean" /\ b # None /\ job.mark = None /\ TableFree
        /\ job' = IF r \in db.records
                  THEN [job EXCEPT !.at = links.next[b],
                                   !.mark = IF ToDetach(r) THEN b ELSE None]
                  ELSE NoJob
        /\ UNCHANGED <<db, entries, status, made, fill, triggers, failures, agent>>

\* it is detached, whatever it is by now
CleanDetach ==
    LET b == job.mark
    IN  /\ b # None /\ TableFree
        /\ Detach(b, TRUE)
        /\ job' = IF Detaches(b, TRUE) THEN [job EXCEPT !.mark = None] ELSE NoJob
        /\ UNCHANGED <<status, made, fill, triggers, failures, agent>>

\* the end of a session: it gets the resources it has not
CleanAttach ==
    /\ job.kind = "clean" /\ job.sess # None /\ TableFree
    /\ job.at = None /\ job.mark = None
    /\ fill' = [sess |-> job.sess, rest |-> db.records]
    /\ UNCHANGED <<db, entries, status, made, job, triggers, failures, agent>>
-----------------------------------------------------------------------------
(* NDDSA_Agent_finalize_database_resources *)

Finalize ==
    /\ Free /\ \A s \in Session : status[s] = "closed"
    /\ agent' = "ending"
    /\ UNCHANGED <<db, entries, status, made, job, fill, triggers, failures>>

\* a record that is attached, or marked and so without its id, is an error
FinalizeRecord(r) ==
    /\ agent = "ending" /\ r \in db.records
    /\ IF db.count[r] > 0 \/ r \in db.dead
       THEN agent' = "failed" /\ db' = db
       ELSE LET n == DeletedNative(db, r)
            IN  /\ db' = IF n.ok THEN Forgotten(n.db, r) ELSE n.db
                /\ agent' = IF n.ok THEN agent ELSE "failed"
    /\ UNCHANGED <<entries, status, made, job, fill, triggers, failures>>

FinalizeEnd ==
    /\ agent = "ending" /\ db.records = {}
    /\ agent' = "down"
    /\ UNCHANGED <<db, entries, status, made, job, fill, triggers, failures>>
-----------------------------------------------------------------------------
Next ==
    \/ \E s \in Session :
        \/ Open(s) \/ OpenAttach(s) \/ Close(s) \/ Remove(s)
        \/ Created(s) \/ CreatedFails(s)
        \/ NextSession(s)
        \/ \E id \in Id :
            \/ CreateReused(s, id) \/ Delete(s, id)
            \/ \E r \in OfKind(id) :
                \/ CreateByRef(s, id, r) \/ CreateTooEarly(s, id, r)
                \/ CreateByXml(s, id, r) \/ CreateLeaves(s, id, r)
    \/ FillSkip \/ FillAttach \/ FillNoBuffer \/ FillEnableFails
    \/ FillCreatedFails \/ FillEnd \/ OpenFails
    \/ \E kind \in {"close", "clean"} : Start(kind)
    \/ EndPass \/ CloseEntry \/ CloseEnd
    \/ CleanCheck \/ CleanDetach \/ CleanAttach
    \/ Finalize \/ FinalizeEnd
    \/ \E r \in Resource : FinalizeRecord(r)

Spec == Init /\ [][Next]_vars
-----------------------------------------------------------------------------
(* Properties *)

\* the buffers in use for r, in whatever list they are
Entries(r) == {b \in Buffer : attached[b].res = r}

(* The count of a record is the number of buffers in use for it: nobody is  *)
(* counted twice or detached twice, no record goes while an entry refers to *)
(* it, and no buffer is in use and in the pool (detach_resourceEA and       *)
(* attach_resource_to_sessionEA).  It says nothing of lists: a buffer given *)
(* out again while linked is an entry of two sessions, counted once.  The   *)
(* one exception is the entry whose resource could not be deleted: its      *)
(* record stays, marked and with count 0.                                   *)
AttachmentCounted ==
    /\ \A b \in pool : attached[b].res = None
    /\ \A r \in Resource :
        LET n == Cardinality(Entries(r))
        IN  /\ r \notin db.records => n = 0
            /\ n = db.count[r] \/ (n = 1 /\ db.count[r] = 0 /\ r \in db.dead)

(* A record that nobody is attached to any more and whose deletion was      *)
(* requested does not stay: whichever session detaches last, client, close  *)
(* or cleanup, the native entity and the record go with it.  Only a         *)
(* participant that DDS refuses to delete is left, marked.                  *)
PendingDeleted ==
    \A r \in db.pending : db.count[r] = 0 =>
        r \in db.dead \cap db.entity /\ Kind[r] = "participant"

(* NDDSA_Agent_writeEA accepts a WRITE to this entry: its record is there   *)
(* and not marked                                                           *)
Accepts(e) == e.res \in db.records \ db.dead /\ IdKind[e.id] = "endpoint"

(* A WRITE that NDDSA_Agent_writeEA accepts, through an entry of a writer   *)
(* whose record is not marked, reaches a DataWriter that exists, whatever   *)
(* other sessions have deleted: the publisher, the participant, the topic.  *)
WriteReaches ==
    \A b \in Buffer : Accepts(attached[b]) => Exists(attached[b].res)

\* r contains x, or is an endpoint with topic x
Owns(r, x) == x \in Contents(r) \/ \E y \in Contents(r) : TopicOf[y] = x

\* a client asked, or asks in this step, for the deletion of r
Requested(r) ==
    \/ r \in db.pending
    \/ \E s \in Session, id \in Id : Delete(s, id) /\ attached[Find(s, id)].res = r

(* the cleanup detaches an entry that is not any more what it was when its  *)
(* record was looked at and released (on_cleanup_resources): another        *)
(* session that has the buffer in its list has returned it, and it may have *)
(* been given out for a new object                                          *)
Overtaken == CleanDetach /\ ~ToDetach(attached[job.mark].res)

(* While the agent runs no entity is deleted unless a client asked for the  *)
(* deletion of it, of an entity that contains it or of one that uses it as  *)
(* its topic, and nobody else asks: sessions that end, expire or cannot be  *)
(* told of an object leave entities alone.  The one exception is Overtaken. *)
DeletedOnRequest ==
    [][agent = "up" /\ ~Overtaken =>
        /\ \A x \in db.entity \ db'.entity :
                \E r \in Resource : Owns(r, x) /\ Requested(r)
        /\ \A r \in db'.pending \ db.pending : Requested(r) \/ r \in db.dead]_vars

(* "This should never happen", says detach_resourceEA of an entry without   *)
(* record or with count 0: what a DELETE finds in its session's list can be *)
(* detached.                                                                *)
EntryAttached ==
    \A s \in Session, id \in Id :
        LET b == Find(s, id)
        IN  status[s] = "open" /\ b # None =>
                /\ attached[b].res \in db.records
                /\ db.count[attached[b].res] > 0
=============================================================================
