--------------------------- MODULE ClientSessions ---------------------------
(***************************************************************************)
(* Life cycle of the client sessions of the DDS agent, across the threads  *)
(* that share them:                                                        *)
(*   - the receive threads, one per transport (Workers), which run         *)
(*     NDDSA_Agent_open_session, NDDSA_Agent_receive_message and           *)
(*     NDDSA_Agent_close_session;                                          *)
(*   - the event thread of the RTIEventActiveGenerator (EventThread), which*)
(*     runs session timeouts, read events and heartbeats one at a time;    *)
(*   - the thread of the AsyncWaitSet, which runs                          *)
(*     NDDSA_Agent_on_cleanup_sessions, on_cleanup_reads and               *)
(*     on_cleanup_resources, one at a time, when their guard conditions    *)
(*     trigger.                                                            *)
(*                                                                         *)
(* A step is what a thread does between taking a session record's          *)
(* exclusive area and releasing it (NDDSA_AgentDb_lookup_session ..        *)
(* release_session): no record is ever locked between two steps, because   *)
(* every wait of the code first releases it                                *)
(* (NDDSA_Agent_wait_for_semaphoreEA).  Only the cleanup thread keeps the  *)
(* exclusive area of the sessions TABLE from one step to the next.         *)
(***************************************************************************)
EXTENDS Naturals

CONSTANTS
    Keys,           \* session keys (client key and session id)
    Workers,        \* receive threads, one per enabled transport
    EventThread,    \* the thread of the event generator
    Route,          \* <<k, w>>: messages of k may arrive on the transport of w
    Deleters,       \* keys whose client may send DELETE for its own object
    Readers,        \* keys whose client reads data over a reliable stream
    Faults,         \* faults that may happen: "send", "message"
    FiniteTimeout,  \* the session timeout is neither zero nor infinite
    MaxOpens,       \* bound: sessions opened per key
    MaxMessages     \* bound: messages received per session, opening included

(* A client talks to the agent over one transport at a time; the only      *)
(* sessions modelled with several are those that do not read data, where   *)
(* two messages of one session never meet on a read request.               *)
ASSUME SessionsAssumption ==
    /\ MaxOpens \in Nat
    /\ MaxMessages \in Nat
    /\ FiniteTimeout \in BOOLEAN
    /\ Route \subseteq Keys \X Workers
    /\ Deleters \subseteq Keys
    /\ Readers \subseteq Keys
    /\ Faults \subseteq {"send", "message"}
    /\ EventThread \notin Workers
    /\ \A k \in Readers, w1, w2 \in Workers :
          <<k, w1>> \in Route /\ <<k, w2>> \in Route => w1 = w2

Gens == 1..MaxOpens
Threads == Workers \cup {EventThread}
WaitReasons == {"none", "ack", "read", "delete", "object", "reset",
               "resetLast", "timeout"}

VARIABLES
    \* the sessions table: NDDSA_ClientSession, one record per key
    gen,         \* [Keys -> 0..MaxOpens] which session of the key this is
    present,     \* the key has a record in the table
    deleted, timedout, resetting,        \* flags of the record
    finalized,   \* times NDDSA_Agent_finalize_sessionEA ran to its end
    semTimeout, semCleanup,              \* binary semaphores of the record
    leftover,    \* sessions whose list holds an entry that was detached
    read,        \* read request of the session's reader (attached->read_req)
    semEvent,    \* binary semaphore of that request
    budget,      \* messages the client may still send
    \* NANO_XRCE_ProxyClient, one per session ever opened
    proxy,       \* [Keys -> [Gens -> {"none", "live", "freed", "leaked"}]]
    disposed,    \* <<k, g>>: client->disposed
    request,     \* <<k, g>>: client->dispose_request is pending
    \* the event generator
    timer,       \* [Keys -> [Gens -> {"none", "armed", "cancel"}]]
    readEvent,   \* [Keys -> {"none", "data", "cancel"}]
    heartbeat,   \* <<k, g>>: a heartbeat event of that client is pending
    event,       \* the event the event thread has taken off the queue
    \* the cleanup thread
    cond,        \* trigger value of cond_cleanup_sessions
    cleaner,     \* "idle", "pass", "readWait", "timerWait", "readsWait"
    ckey,        \* session the cleanup thread works for
    visited,     \* sessions its cursor has passed
    \* the receive threads (and the event thread, where it waits)
    pc,          \* [Threads -> {"idle", "wait", "closing", "closeWait", "notify"}]
    after,       \* [Threads -> WaitReasons] why it waits for semEvent
    at,          \* [Threads -> Keys] session it works for
    atGen        \* [Threads -> 0..MaxOpens] and which session of that key

recVars   == <<gen, present, deleted, timedout, resetting, finalized,
               semTimeout, semCleanup, leftover>>
readVars  == <<read, semEvent>>
proxyVars == <<proxy, disposed, request>>
queueVars == <<timer, readEvent, heartbeat>>
cleanVars == <<cond, cleaner, ckey, visited>>
threadVars == <<pc, after, at, atGen>>
vars == <<recVars, readVars, budget, proxyVars, queueVars, event, cleanVars,
          threadVars>>

NoEvent == [kind |-> "none", cancel |-> FALSE]
Events == {NoEvent} \cup
          [kind : {"timeout", "read", "heartbeat"}, key : Keys, gen : 0..MaxOpens,
           cancel : BOOLEAN]

RecordType ==
    /\ gen \in [Keys -> 0..MaxOpens]
    /\ present \in [Keys -> BOOLEAN]
    /\ deleted \in [Keys -> BOOLEAN]
    /\ timedout \in [Keys -> BOOLEAN]
    /\ resetting \in [Keys -> BOOLEAN]
    /\ finalized \in [Keys -> Nat]
    /\ semTimeout \in [Keys -> BOOLEAN]
    /\ semCleanup \in [Keys -> BOOLEAN]
    /\ leftover \subseteq Keys

RequestType ==
    /\ read \in [Keys -> {"none", "idle", "loaned", "last", "over", "cancelling"}]
    /\ semEvent \in [Keys -> BOOLEAN]
    /\ budget \in [Keys -> Nat]

ClientType ==
    /\ proxy \in [Keys -> [Gens -> {"none", "live", "freed", "leaked"}]]
    /\ disposed \subseteq Keys \X (0..MaxOpens)
    /\ request \subseteq Keys \X (0..MaxOpens)

QueueType ==
    /\ timer \in [Keys -> [Gens -> {"none", "armed", "cancel"}]]
    /\ readEvent \in [Keys -> {"none", "data", "cancel"}]
    /\ heartbeat \subseteq Keys \X (0..MaxOpens)
    /\ event \in Events

CleanerType ==
    /\ cond \in BOOLEAN
    /\ cleaner \in {"idle", "pass", "readWait", "timerWait", "readsWait"}
    /\ ckey \in Keys
    /\ visited \subseteq Keys

ThreadType ==
    /\ pc \in [Threads -> {"idle", "wait", "closing", "closeWait", "notify"}]
    /\ after \in [Threads -> WaitReasons]
    /\ at \in [Threads -> Keys]
    /\ atGen \in [Threads -> 0..MaxOpens]

\* Every variable has its type; sessions are numbered up to MaxOpens.
TypeOK ==
    /\ RecordType
    /\ RequestType
    /\ ClientType
    /\ QueueType
    /\ CleanerType
    /\ ThreadType
-----------------------------------------------------------------------------
(* Helpers *)

(* A definition whose comment starts with "Mutant" plants a bug in the one   *)
(* that follows it, to show that a property notices; nothing else uses it.  *)

\* Mutant: the active check forgets sessions that are being closed
ActiveThoughDeleted(k) == present[k] /\ ~timedout[k] /\ ~resetting[k]

\* NDDSA_ClientSession_active
Active(k) == present[k] /\ ~deleted[k] /\ ~timedout[k] /\ ~resetting[k]

Client(k) == <<k, gen[k]>>

\* what sending a message to the client may return
SendOutcomes == IF "send" \in Faults THEN BOOLEAN ELSE {TRUE}

\* the sessions table is not locked by the cleanup thread
TableFree == cleaner \in {"idle", "timerWait", "readsWait"}

(* NDDSA_Agent_on_session_activityI: (re)post the timeout event.           *)
(* postEvent replaces a pending event of the same listener and storage:    *)
(* the size the code passes covers field[0], the session, and leaves out   *)
(* field[1], the mark of a cancelled event.                                *)
Armed(k) == IF FiniteTimeout THEN [timer EXCEPT ![k][gen[k]] = "armed"] ELSE timer

\* Mutant: the forwards are dropped without returning their samples
NothingReturned(k) == read[k]

\* XRCE: the samples the client had on loan go back when its forwards are
\* dismissed; "last" is the one that completes a finite read request, which
\* is "over" when it is complete without any on loan
Returned(k) == IF read[k] = "loaned" THEN "idle" ELSE read[k]

\* Mutant: the event is posted without the mark of a cancellation
CancelUnmarked(k) ==
    /\ read' = [read EXCEPT ![k] = "cancelling"]
    /\ readEvent' = [readEvent EXCEPT ![k] = "data"]
    /\ UNCHANGED semEvent

(* NDDSA_Agent_cancel_readEA, up to its wait: the request leaves the       *)
(* reader, its event is marked as cancelled and posted at once.            *)
Cancel(k) ==
    /\ read' = [read EXCEPT ![k] = "cancelling"]
    /\ readEvent' = [readEvent EXCEPT ![k] = "cancel"]
    /\ UNCHANGED semEvent

\* NDDSA_Agent_wait_for_semaphoreEA on the request's semaphore
WaitForRead(t, k, reason) ==
    /\ pc' = [pc EXCEPT ![t] = "wait"]
    /\ after' = [after EXCEPT ![t] = reason]
    /\ at' = [at EXCEPT ![t] = k]
    /\ atGen' = [atGen EXCEPT ![t] = gen[k]]

\* Mutant: client->dispose_request is not reset
ClosedKeepsRequest(c, ok) ==
    /\ proxy' = [proxy EXCEPT ![c[1]][c[2]] =
                    IF c \in request /\ ~ok THEN "leaked" ELSE "freed"]
    /\ UNCHANGED <<request, disposed>>

\* NANO_XRCE_AgentInterface_on_session_closed for client c, whose pending
\* DELETE is answered before the client is deleted
OnSessionClosed(c, ok) ==
    /\ proxy' = [proxy EXCEPT ![c[1]][c[2]] =
                    IF c \in request /\ ~ok THEN "leaked" ELSE "freed"]
    /\ request' = request \ {c}
    /\ UNCHANGED disposed

Init ==
    /\ gen = [k \in Keys |-> 0]
    /\ present = [k \in Keys |-> FALSE]
    /\ deleted = [k \in Keys |-> FALSE]
    /\ timedout = [k \in Keys |-> FALSE]
    /\ resetting = [k \in Keys |-> FALSE]
    /\ finalized = [k \in Keys |-> 0]
    /\ semTimeout = [k \in Keys |-> FALSE]
    /\ semCleanup = [k \in Keys |-> FALSE]
    /\ leftover = {}
    /\ read = [k \in Keys |-> "none"]
    /\ semEvent = [k \in Keys |-> FALSE]
    /\ budget = [k \in Keys |-> 0]
    /\ proxy = [k \in Keys |-> [g \in Gens |-> "none"]]
    /\ disposed = {}
    /\ request = {}
    /\ timer = [k \in Keys |-> [g \in Gens |-> "none"]]
    /\ readEvent = [k \in Keys |-> "none"]
    /\ heartbeat = {}
    /\ event = NoEvent
    /\ cond = FALSE
    /\ cleaner = "idle"
    /\ ckey \in Keys
    /\ visited = {}
    /\ pc = [t \in Threads |-> "idle"]
    /\ after = [t \in Threads |-> "none"]
    /\ at = [t \in Threads |-> ckey]
    /\ atGen = [t \in Threads |-> 0]

-----------------------------------------------------------------------------
(* Receive threads *)

(* NDDSA_Agent_open_session for a key without a record: the record is       *)
(* inserted and initialized, on_session_opened connects the client, answers *)
(* it and posts its heartbeat event, and the timeout event is posted.  The  *)
(* cleanup thread's cursor may be before or after the new record.  A        *)
(* failure of on_session_opened removes the record again, so it changes     *)
(* nothing here; so does a session that is not active.                      *)
OpenNew(w, k) ==
    /\ pc[w] = "idle" /\ <<k, w>> \in Route
    /\ TableFree /\ ~present[k] /\ gen[k] < MaxOpens
    /\ gen' = [gen EXCEPT ![k] = @ + 1]
    /\ present' = [present EXCEPT ![k] = TRUE]
    /\ deleted' = [deleted EXCEPT ![k] = FALSE]
    /\ timedout' = [timedout EXCEPT ![k] = FALSE]
    /\ resetting' = [resetting EXCEPT ![k] = FALSE]
    /\ finalized' = [finalized EXCEPT ![k] = 0]
    /\ semTimeout' = [semTimeout EXCEPT ![k] = FALSE]
    /\ semCleanup' = [semCleanup EXCEPT ![k] = FALSE]
    /\ leftover' = leftover \ {k}
    /\ budget' = [budget EXCEPT ![k] = MaxMessages]
    /\ proxy' = [proxy EXCEPT ![k][gen[k] + 1] = "live"]
    /\ heartbeat' = heartbeat \cup {<<k, gen[k] + 1>>}
    /\ timer' = IF FiniteTimeout THEN [timer EXCEPT ![k][gen[k] + 1] = "armed"]
                                 ELSE timer
    /\ \E behind \in {cleaner = "timerWait", FALSE} :
          visited' = IF behind THEN visited \cup {k} ELSE visited \ {k}
    /\ UNCHANGED <<readVars, disposed, request, readEvent, event, cond, cleaner,
                   ckey, threadVars>>

\* Mutant: the mark is never taken off
ResetNeverDone(k, ok) ==
    /\ resetting' = [resetting EXCEPT ![k] = TRUE]
    /\ timer' = IF ok THEN Armed(k) ELSE timer

\* the end of a session reset: the mark is taken off and the timer restarted
\* only if the client could be answered
ResetDone(k, ok) ==
    /\ resetting' = [resetting EXCEPT ![k] = ~ok]
    /\ timer' = IF ok THEN Armed(k) ELSE timer

(* NDDSA_Agent_open_session for an active session: it is marked as          *)
(* resetting, on_session_reset takes back the samples on loan and answers   *)
(* the client, and its read is cancelled, which releases the session.  If   *)
(* the read is being cancelled already this fails, and the mark stays.      *)
OpenReset(w, k) ==
    /\ pc[w] = "idle" /\ <<k, w>> \in Route /\ TableFree
    /\ Active(k) /\ budget[k] > 0
    /\ budget' = [budget EXCEPT ![k] = @ - 1]
    /\ \/ /\ read[k] = "none"
          /\ \E ok \in SendOutcomes : ResetDone(k, ok)
          /\ UNCHANGED <<readVars, readEvent, threadVars>>
       \/ /\ read[k] \in {"idle", "loaned", "over"}
          /\ resetting' = [resetting EXCEPT ![k] = TRUE]
          /\ \E ok \in SendOutcomes :
                IF ok THEN Cancel(k) /\ WaitForRead(w, k, "reset")
                      ELSE /\ read' = [read EXCEPT ![k] = Returned(k)]
                           /\ UNCHANGED <<semEvent, readEvent, threadVars>>
          /\ UNCHANGED timer
       \/ /\ read[k] = "last"
          /\ resetting' = [resetting EXCEPT ![k] = TRUE]
          /\ Cancel(k)
          /\ WaitForRead(w, k, "resetLast")
          /\ UNCHANGED timer
       \/ /\ read[k] = "cancelling"
          /\ resetting' = [resetting EXCEPT ![k] = TRUE]
          /\ UNCHANGED <<readVars, readEvent, threadVars, timer>>
    /\ UNCHANGED <<gen, present, deleted, timedout, finalized, semTimeout,
                   semCleanup, leftover, proxyVars, heartbeat, event, cleanVars>>

\* Mutant: messages of sessions that are not active are processed too
ReceiveAlways(w, k) ==
    /\ pc[w] = "idle" /\ <<k, w>> \in Route
    /\ budget' = [budget EXCEPT ![k] = @ - 1]
    /\ timer' = Armed(k)
    /\ UNCHANGED <<gen, present, deleted, timedout, resetting, finalized,
                   semTimeout, semCleanup, heartbeat, event, cleanVars>>

\* what every message of an active session does first (on_session_activityI)
Receive(w, k) ==
    /\ pc[w] = "idle" /\ <<k, w>> \in Route
    /\ Active(k) /\ budget[k] > 0
    /\ budget' = [budget EXCEPT ![k] = @ - 1]
    /\ timer' = Armed(k)
    /\ UNCHANGED <<gen, present, deleted, timedout, resetting, finalized,
                   semTimeout, semCleanup, heartbeat, event, cleanVars>>

\* a message that changes nothing else, or fails, or comes for a client that
\* is already disposed and is ignored (on_message_received)
ReceiveOther(w, k) ==
    /\ Receive(w, k)
    /\ UNCHANGED <<leftover, readVars, readEvent, proxyVars, threadVars>>

(* READ_DATA: the request there is gives back its samples and is cancelled  *)
(* before the new one is created (NDDSA_Agent_readEA).                      *)
ReceiveRead(w, k) ==
    /\ Receive(w, k)
    /\ k \in Readers /\ Client(k) \notin disposed
    /\ read[k] # "cancelling"
    /\ \/ /\ read[k] = "none"
          /\ read' = [read EXCEPT ![k] = "idle"]
          /\ readEvent' = [readEvent EXCEPT ![k] = "data"]
          /\ UNCHANGED <<semEvent, threadVars>>
       \/ /\ read[k] # "none"
          /\ Cancel(k)
          /\ WaitForRead(w, k, "read")
    /\ UNCHANGED <<leftover, proxyVars>>

(* ACKNACK of a forwarded sample: NDDSA_Agent_return_loan; the last sample  *)
(* of a finite request completes and cancels it.                            *)
ReceiveAck(w, k) ==
    /\ Receive(w, k)
    /\ Client(k) \notin disposed
    /\ \/ /\ read[k] = "loaned"
          /\ read' = [read EXCEPT ![k] = "idle"]
          /\ UNCHANGED <<semEvent, readEvent, threadVars>>
       \/ /\ read[k] = "last"
          /\ Cancel(k)
          /\ WaitForRead(w, k, "ack")
    /\ UNCHANGED <<leftover, proxyVars>>

(* DELETE of an object: delete_entity dismisses the samples the reader has  *)
(* on loan, NDDSA_Agent_delete_resource cancels its read, which releases    *)
(* the session, and detaches the object, whose entry remains in the         *)
(* session's list although it has no resource any more.                     *)
ReceiveDeleteObject(w, k) ==
    /\ Receive(w, k)
    /\ Client(k) \notin disposed
    /\ \/ /\ leftover' = leftover \cup {k}
          /\ UNCHANGED <<readVars, readEvent, threadVars>>
       \/ /\ read[k] \notin {"none", "cancelling"}
          /\ Cancel(k)
          /\ WaitForRead(w, k, "object")
          /\ UNCHANGED leftover
    /\ UNCHANGED proxyVars

(* DELETE of the client object: NANO_XRCE_Agent_dispose_client_session      *)
(* keeps the request for later and dismisses the samples on loan.  The      *)
(* session is closed once its record is released, unless the rest of the    *)
(* message could not be processed.                                          *)
ReceiveDelete(w, k) ==
    /\ Receive(w, k)
    /\ k \in Deleters /\ Client(k) \notin disposed
    /\ disposed' = disposed \cup {Client(k)}
    /\ request' = request \cup {Client(k)}
    /\ \/ /\ read[k] = "last"
          /\ Cancel(k)
          /\ WaitForRead(w, k, "delete")
       \/ /\ read[k] # "last"
          /\ read' = [read EXCEPT ![k] = Returned(k)]
          /\ \/ pc' = [pc EXCEPT ![w] = "closing"]
             \/ "message" \in Faults /\ UNCHANGED pc
          /\ at' = [at EXCEPT ![w] = k]
          /\ atGen' = [atGen EXCEPT ![w] = gen[k]]
          /\ UNCHANGED <<semEvent, readEvent, after>>
    /\ UNCHANGED <<leftover, proxy>>

\* Mutant: the guard condition is not triggered
DisposeUntriggered(k) ==
    /\ deleted' = [deleted EXCEPT ![k] = TRUE]
    /\ UNCHANGED cond

(* NDDSA_Agent_dispose_sessionEA *)
Dispose(k) ==
    /\ deleted' = [deleted EXCEPT ![k] = TRUE]
    /\ cond' = TRUE

\* Mutant: the session is disposed and left to the cleanup thread
CloseWithoutWait(w) ==
    /\ pc[w] = "closing" /\ TableFree
    /\ IF Active(at[w]) THEN Dispose(at[w]) ELSE UNCHANGED <<deleted, cond>>
    /\ pc' = [pc EXCEPT ![w] = "idle"]
    /\ UNCHANGED <<gen, present, timedout, resetting, finalized, semTimeout,
                   semCleanup, leftover, readVars, budget, proxyVars, queueVars,
                   event, cleaner, ckey, visited, after, at, atGen>>

(* NDDSA_Agent_close_session, up to its wait for the cleanup thread *)
Close(w) ==
    /\ pc[w] = "closing" /\ TableFree
    /\ IF Active(at[w])
       THEN /\ Dispose(at[w])
            /\ pc' = [pc EXCEPT ![w] = "closeWait"]
            /\ atGen' = [atGen EXCEPT ![w] = gen[at[w]]]
       ELSE /\ pc' = [pc EXCEPT ![w] = "idle"]
            /\ UNCHANGED <<deleted, cond, atGen>>
    /\ UNCHANGED <<gen, present, timedout, resetting, finalized, semTimeout,
                   semCleanup, leftover, readVars, budget, proxyVars, queueVars,
                   event, cleaner, ckey, visited, after, at>>

(* NDDSA_Agent_close_session, from its wait to the removal of the record *)
CloseResume(w) ==
    /\ pc[w] = "closeWait" /\ semCleanup[at[w]] /\ TableFree
    /\ semCleanup' = [semCleanup EXCEPT ![at[w]] = FALSE]
    /\ present' = [present EXCEPT ![at[w]] = FALSE]
    /\ pc' = [pc EXCEPT ![w] = "notify"]
    /\ UNCHANGED <<gen, deleted, timedout, resetting, finalized, semTimeout,
                   leftover, readVars, budget, proxyVars, queueVars, event,
                   cleanVars, after, at, atGen>>

(* NDDSA_Agent_close_session: the table is unlocked before the callback *)
CloseNotify(w) ==
    /\ pc[w] = "notify"
    /\ \E ok \in SendOutcomes : OnSessionClosed(<<at[w], atGen[w]>>, ok)
    /\ pc' = [pc EXCEPT ![w] = "idle"]
    /\ UNCHANGED <<recVars, readVars, budget, queueVars, event, cleanVars,
                   after, at, atGen>>

(* NDDSA_Agent_wait_for_semaphoreEA returns to cancel_readEA, the request   *)
(* is freed and the caller goes on where it was.                            *)
ReadCancelled(t) ==
    LET k == at[t] IN
    /\ pc[t] = "wait" /\ semEvent[k]
    /\ semEvent' = [semEvent EXCEPT ![k] = FALSE]
    /\ read' = [read EXCEPT ![k] = IF after[t] = "read" THEN "idle" ELSE "none"]
    /\ readEvent' = IF after[t] = "read" THEN [readEvent EXCEPT ![k] = "data"]
                                         ELSE readEvent
    /\ \E ok \in SendOutcomes :
          /\ resetting' = [resetting EXCEPT ![k] =
                 CASE after[t] = "reset" -> FALSE
                   [] after[t] = "resetLast" -> ~ok
                   [] OTHER -> @]
          /\ timer' = IF after[t] = "reset" \/ (after[t] = "resetLast" /\ ok)
                      THEN Armed(k) ELSE timer
    /\ deleted' = [deleted EXCEPT ![k] = @ \/ after[t] = "timeout"]
    /\ cond' = (cond \/ after[t] = "timeout")
    /\ leftover' = IF after[t] = "object" THEN leftover \cup {k} ELSE leftover
    /\ event' = IF t = EventThread THEN NoEvent ELSE event
    /\ pc' = [pc EXCEPT ![t] = IF after[t] = "delete" THEN "closing" ELSE "idle"]
    /\ UNCHANGED <<gen, present, timedout, finalized, semTimeout, semCleanup,
                   budget, proxyVars, heartbeat, cleaner, ckey, visited, after,
                   at, atGen>>

-----------------------------------------------------------------------------
(* Event thread.  An event is taken off the queue with the storage it was   *)
(* posted with, so whether it is a cancellation is settled by then.         *)

\* NDDSA_Reader_notify_data_available, in a DDS thread
DataArrives(k) ==
    /\ read[k] \in {"idle", "loaned", "last", "over"} /\ readEvent[k] = "none"
    /\ readEvent' = [readEvent EXCEPT ![k] = "data"]
    /\ UNCHANGED <<recVars, readVars, budget, proxyVars, timer, heartbeat, event,
                   cleanVars, threadVars>>

TakeEvent(kind, k, g, cancel) ==
    /\ event = NoEvent
    /\ event' = [kind |-> kind, key |-> k, gen |-> g, cancel |-> cancel]
    /\ UNCHANGED <<recVars, readVars, budget, proxyVars, cleanVars, threadVars>>

PopTimeout(k, g) ==
    /\ timer[k][g] # "none"
    /\ TakeEvent("timeout", k, g, timer[k][g] = "cancel")
    /\ timer' = [timer EXCEPT ![k][g] = "none"]
    /\ UNCHANGED <<readEvent, heartbeat>>

PopRead(k) ==
    /\ readEvent[k] # "none"
    /\ TakeEvent("read", k, gen[k], readEvent[k] = "cancel")
    /\ readEvent' = [readEvent EXCEPT ![k] = "none"]
    /\ UNCHANGED <<timer, heartbeat>>

PopHeartbeat(k, g) ==
    /\ <<k, g>> \in heartbeat
    /\ TakeEvent("heartbeat", k, g, FALSE)
    /\ heartbeat' = heartbeat \ {<<k, g>>}
    /\ UNCHANGED <<timer, readEvent>>

\* the event thread handles an event of this kind (it may be waiting inside
\* the handler of the one it took)
Handles(kind) == pc[EventThread] = "idle" /\ event.kind = kind

\* the event names the session its key has now
Current == present[event.key] /\ gen[event.key] = event.gen

(* NDDSA_Agent_on_session_timeout for a cancellation: it answers the        *)
(* cleanup thread through a semaphore that is found in the session.  When   *)
(* the session is gone, that is a semaphore which no longer exists.         *)
RunTimeoutCancel ==
    /\ Handles("timeout") /\ event.cancel
    /\ \E give \in {TRUE, Current} :
          semTimeout' = [semTimeout EXCEPT ![event.key] = @ \/ give]
    /\ event' = NoEvent
    /\ UNCHANGED <<gen, present, deleted, timedout, resetting, finalized,
                   semCleanup, leftover, readVars, budget, proxyVars, queueVars,
                   cleanVars, threadVars>>

\* on_session_timeout of a session that is not active; or of one that is
\* gone, whose memory may hold anything
RunTimeoutIgnored ==
    /\ Handles("timeout") /\ ~event.cancel
    /\ ~Active(event.key) \/ ~Current
    /\ event' = NoEvent
    /\ UNCHANGED <<recVars, readVars, budget, proxyVars, queueVars, cleanVars,
                   threadVars>>

(* on_session_timeout of an active session, looked up by the key found in   *)
(* the memory of the event's session: on_session_timed_out withdraws the    *)
(* heartbeat and disposes the client, whose samples go back; then the       *)
(* session is handed to the cleanup thread.  Giving back the last sample of *)
(* a request cancels it, from the thread that runs the cancellation.        *)
RunTimeout ==
    LET k == event.key IN
    /\ Handles("timeout") /\ ~event.cancel
    /\ Active(k)
    /\ timedout' = [timedout EXCEPT ![k] = TRUE]
    /\ heartbeat' = heartbeat \ {Client(k)}
    /\ disposed' = disposed \cup {Client(k)}
    /\ \/ /\ read[k] = "last" /\ Client(k) \notin disposed
          /\ Cancel(k)
          /\ WaitForRead(EventThread, k, "timeout")
          /\ UNCHANGED <<deleted, cond, event>>
       \/ /\ read[k] # "last" \/ Client(k) \in disposed
          /\ read' = [read EXCEPT ![k] = Returned(k)]
          /\ Dispose(k)
          /\ event' = NoEvent
          /\ UNCHANGED <<semEvent, readEvent, threadVars>>
    /\ UNCHANGED <<gen, present, resetting, finalized, semTimeout, semCleanup,
                   leftover, budget, proxy, request, timer, cleaner, ckey, visited>>

(* NDDSA_Agent_on_data_on_reader: a cancellation is acknowledged; otherwise *)
(* samples are forwarded (and on a reliable stream stay on loan), or there  *)
(* were none, or there was no room for them and the event is posted again;  *)
(* or the time of the request is up.                                        *)
RunRead ==
    LET k == event.key IN
    /\ Handles("read")
    /\ \/ /\ event.cancel
          /\ semEvent' = [semEvent EXCEPT ![k] = TRUE]
          /\ UNCHANGED <<read, readEvent>>
       \/ /\ ~event.cancel
          /\ UNCHANGED <<readVars, readEvent>>
       \/ /\ ~event.cancel /\ Active(k) /\ read[k] \in {"idle", "loaned"}
          /\ Client(k) \notin disposed
          /\ \E r \in {read[k], "loaned", "last"}, e \in {readEvent[k], "data"} :
                /\ read' = [read EXCEPT ![k] = r]
                /\ readEvent' = [readEvent EXCEPT ![k] = e]
          /\ UNCHANGED semEvent
       \/ /\ ~event.cancel /\ Active(k) /\ read[k] = "idle"
          /\ read' = [read EXCEPT ![k] = "over"]
          /\ UNCHANGED <<semEvent, readEvent>>
    /\ event' = NoEvent
    /\ UNCHANGED <<recVars, budget, proxyVars, timer, heartbeat, cleanVars,
                   threadVars>>

\* Mutant: a heartbeat event is not posted again
RunLastHeartbeat ==
    /\ Handles("heartbeat")
    /\ event' = NoEvent
    /\ UNCHANGED <<recVars, readVars, budget, proxyVars, queueVars, cleanVars,
                   threadVars>>

(* NDDSA_Agent_on_session_event with NANO_XRCE_Agent_on_periodic_heartbeat: *)
(* the event stays in the queue only if the key has an active session, the  *)
(* client (which a stale event finds freed) is not disposed and the         *)
(* heartbeats could be sent.                                                *)
RunHeartbeat ==
    LET c == <<event.key, event.gen>> IN
    /\ Handles("heartbeat")
    /\ \E sent \in SendOutcomes, again \in BOOLEAN :
          /\ again => Active(event.key)
          /\ Active(event.key) /\ proxy[c[1]][c[2]] = "live" =>
                again = (c \notin disposed /\ sent)
          /\ heartbeat' = IF again THEN heartbeat \cup {c} ELSE heartbeat
    /\ event' = NoEvent
    /\ UNCHANGED <<recVars, readVars, budget, proxyVars, timer, readEvent,
                   cleanVars, threadVars>>
-----------------------------------------------------------------------------
(* Cleanup thread: NDDSA_Agent_on_cleanup_sessions *)

CleanStart ==
    /\ cleaner = "idle" /\ cond
    /\ cond' = FALSE
    /\ cleaner' = "pass"
    /\ visited' = {}
    /\ UNCHANGED <<recVars, readVars, budget, proxyVars, queueVars, event, ckey,
                   threadVars>>

\* NDDSA_Agent_find_next_disposed_session rejects the record
CleanSkip(k) ==
    /\ cleaner = "pass" /\ present[k] /\ k \notin visited /\ ~deleted[k]
    /\ visited' = visited \cup {k}
    /\ UNCHANGED <<recVars, readVars, budget, proxyVars, queueVars, event, cond,
                   cleaner, ckey, threadVars>>

\* Mutant: the client is notified whoever disposed the session
NotifyAlways(k) ==
    /\ finalized' = [finalized EXCEPT ![k] = @ + 1]
    /\ cleaner' = "pass"
    /\ \E ok \in SendOutcomes : OnSessionClosed(Client(k), ok)
    /\ IF timedout[k]
       THEN present' = [present EXCEPT ![k] = FALSE] /\ UNCHANGED semCleanup
       ELSE semCleanup' = [semCleanup EXCEPT ![k] = TRUE] /\ UNCHANGED present

\* Mutant: the client of a session that timed out is not notified
ExpiredNotNotified(k) ==
    /\ finalized' = [finalized EXCEPT ![k] = @ + 1]
    /\ cleaner' = "pass"
    /\ UNCHANGED proxyVars
    /\ IF timedout[k]
       THEN present' = [present EXCEPT ![k] = FALSE] /\ UNCHANGED semCleanup
       ELSE semCleanup' = [semCleanup EXCEPT ![k] = TRUE] /\ UNCHANGED present

\* Mutant: the thread that closes the session is not woken up
CloserNotWoken(k) ==
    /\ finalized' = [finalized EXCEPT ![k] = @ + 1]
    /\ cleaner' = "pass"
    /\ UNCHANGED <<semCleanup, proxyVars, present>>

(* The end of a session's finalization: the record of a session that timed  *)
(* out is removed and its client notified; the thread that closes any other *)
(* session is woken up to do so.                                            *)
SessionFinalized(k) ==
    /\ finalized' = [finalized EXCEPT ![k] = @ + 1]
    /\ cleaner' = "pass"
    /\ IF timedout[k]
       THEN /\ present' = [present EXCEPT ![k] = FALSE]
            /\ \E ok \in SendOutcomes : OnSessionClosed(Client(k), ok)
            /\ UNCHANGED semCleanup
       ELSE /\ semCleanup' = [semCleanup EXCEPT ![k] = TRUE]
            /\ UNCHANGED <<present, proxyVars>>

(* NDDSA_Agent_finalize_sessionEA, once no read is left: the timeout event  *)
(* is cancelled unless it has fired.                                        *)
FinalizeTimer(k) ==
    \/ /\ FiniteTimeout /\ ~timedout[k]
       /\ timer' = [timer EXCEPT ![k][gen[k]] = "cancel"]
       /\ cleaner' = "timerWait"
       /\ UNCHANGED <<present, finalized, semCleanup, proxyVars>>
    \/ /\ ~FiniteTimeout \/ timedout[k]
       /\ SessionFinalized(k)
       /\ UNCHANGED timer

\* finalize_sessionEA of a session that has no read
CleanSession(k) ==
    /\ cleaner = "pass" /\ present[k] /\ k \notin visited /\ deleted[k]
    /\ read[k] = "none"
    /\ FinalizeTimer(k)
    /\ ckey' = k
    /\ visited' = visited \cup {k}
    /\ UNCHANGED <<gen, deleted, timedout, resetting, semTimeout, leftover,
                   readVars, budget, readEvent, heartbeat, event, cond, threadVars>>

\* Mutant: a read that is being cancelled already is cancelled again
CleanReadAgain(k) ==
    /\ cleaner = "pass" /\ present[k] /\ k \notin visited /\ deleted[k]
    /\ read[k] \in {"idle", "over", "cancelling"}
    /\ Cancel(k)
    /\ cleaner' = "readWait"
    /\ ckey' = k
    /\ visited' = visited \cup {k}
    /\ UNCHANGED <<recVars, budget, proxyVars, timer, heartbeat, event, cond,
                   threadVars>>

\* finalize_sessionEA of a session with a read: it is cancelled, and the
\* table stays locked during the wait
CleanRead(k) ==
    /\ cleaner = "pass" /\ present[k] /\ k \notin visited /\ deleted[k]
    /\ read[k] \in {"idle", "over"}
    /\ Cancel(k)
    /\ cleaner' = "readWait"
    /\ ckey' = k
    /\ visited' = visited \cup {k}
    /\ UNCHANGED <<recVars, budget, proxyVars, timer, heartbeat, event, cond,
                   threadVars>>

(* The list of the session holds an entry that has been detached, by a      *)
(* DELETE, by on_cleanup_resources or by a first finalization.              *)
Undetachable(k) == k \in leftover \/ finalized[k] > 0

(* The pass ends early, and for all sessions, when finalize_sessionEA       *)
(* fails: on samples that are still on loan, on a read that is being        *)
(* cancelled already, or on an entry that cannot be detached once more      *)
(* (unless its buffer has been given out again, for an object that is       *)
(* attached).  The guard condition stays reset.                             *)
CleanFail(k) ==
    /\ cleaner = "pass" /\ present[k] /\ k \notin visited /\ deleted[k]
    /\ \/ read[k] \in {"loaned", "last", "cancelling"}
       \/ read[k] = "none" /\ Undetachable(k)
    /\ cleaner' = "idle"
    /\ UNCHANGED <<recVars, readVars, budget, proxyVars, queueVars, event, cond,
                   ckey, visited, threadVars>>

CleanReadResume ==
    /\ cleaner = "readWait" /\ semEvent[ckey]
    /\ semEvent' = [semEvent EXCEPT ![ckey] = FALSE]
    /\ read' = [read EXCEPT ![ckey] = "none"]
    /\ FinalizeTimer(ckey)
    /\ UNCHANGED <<gen, deleted, timedout, resetting, semTimeout, leftover,
                   budget, readEvent, heartbeat, event, cond, ckey, visited,
                   threadVars>>

\* the cleanup thread has waited for a read it cancelled, and is done
ReadGone ==
    /\ semEvent[ckey]
    /\ semEvent' = [semEvent EXCEPT ![ckey] = FALSE]
    /\ read' = [read EXCEPT ![ckey] = "none"]
    /\ cleaner' = "idle"
    /\ UNCHANGED <<recVars, budget, proxyVars, queueVars, event, cond, ckey,
                   visited, threadVars>>

\* the entries are detached once the reads are gone, with the same failure
CleanReadFail == cleaner = "readWait" /\ Undetachable(ckey) /\ ReadGone

\* wait_for_semaphoreEA fails if the key has no record any more; one that was
\* opened meanwhile is taken for the session that is being finalized
CleanTimerResume ==
    /\ cleaner = "timerWait" /\ semTimeout[ckey]
    /\ semTimeout' = [semTimeout EXCEPT ![ckey] = FALSE]
    /\ \/ /\ present[ckey]
          /\ SessionFinalized(ckey)
       \/ /\ ~present[ckey] \/ ~deleted[ckey]
          /\ cleaner' = "idle"
          /\ UNCHANGED <<present, finalized, semCleanup, proxyVars>>
    /\ UNCHANGED <<gen, deleted, timedout, resetting, leftover, readVars, budget,
                   queueVars, event, cond, ckey, visited, threadVars>>

CleanEnd ==
    /\ cleaner = "pass" /\ \A k \in Keys : present[k] => k \in visited
    /\ cleaner' = "idle"
    /\ UNCHANGED <<recVars, readVars, budget, proxyVars, queueVars, event, cond,
                   ckey, visited, threadVars>>

(* The other two jobs of the thread.  NDDSA_Agent_on_cleanup_reads cancels  *)
(* a request that is complete (on_release_read_samples gives its samples    *)
(* back first), whatever has become of its session, and waits with the      *)
(* session and the table released; ...                                      *)
ReadsCancel(k) ==
    /\ cleaner = "idle" /\ present[k] /\ read[k] \in {"last", "over"}
    /\ Cancel(k)
    /\ cleaner' = "readsWait"
    /\ ckey' = k
    /\ UNCHANGED <<recVars, budget, proxyVars, timer, heartbeat, event, cond,
                   visited, threadVars>>

ReadsResume == cleaner = "readsWait" /\ ReadGone

(* ... on_cleanup_resources detaches what went with an object that some     *)
(* session deleted, in every session.                                       *)
CleanResources(k) ==
    /\ cleaner = "idle" /\ present[k] /\ leftover # {}
    /\ leftover' = leftover \cup {k}
    /\ UNCHANGED <<gen, present, deleted, timedout, resetting, finalized,
                   semTimeout, semCleanup, readVars, budget, proxyVars,
                   queueVars, event, cleanVars, threadVars>>
-----------------------------------------------------------------------------
Worker(w) ==
    \/ \E k \in Keys : \/ OpenNew(w, k) \/ OpenReset(w, k) \/ ReceiveOther(w, k)
                       \/ ReceiveRead(w, k) \/ ReceiveAck(w, k)
                       \/ ReceiveDelete(w, k) \/ ReceiveDeleteObject(w, k)
    \/ Close(w) \/ CloseResume(w) \/ CloseNotify(w)

EventStep ==
    \/ \E k \in Keys : PopRead(k)
    \/ \E k \in Keys, g \in Gens : PopTimeout(k, g) \/ PopHeartbeat(k, g)
    \/ RunTimeoutCancel \/ RunTimeoutIgnored \/ RunTimeout \/ RunRead
    \/ RunHeartbeat

Pass ==
    \/ CleanStart \/ CleanEnd \/ CleanReadResume \/ CleanReadFail
    \/ CleanTimerResume
    \/ \E k \in Keys : CleanSkip(k) \/ CleanSession(k) \/ CleanRead(k)
                       \/ CleanFail(k)

Cleanup ==
    \/ Pass \/ ReadsResume
    \/ \E k \in Keys : ReadsCancel(k) \/ CleanResources(k)

Next ==
    \/ \E w \in Workers : Worker(w)
    \/ \E t \in Threads : ReadCancelled(t)
    \/ \E k \in Keys : DataArrives(k)
    \/ EventStep
    \/ Cleanup

Spec == Init /\ [][Next]_vars

(* A thread that can go on does.  An event in the queue is due some day and *)
(* is then taken before any that is due later, however many heartbeats are  *)
(* posted meanwhile: strong fairness.  Clients owe the agent nothing.       *)
Fairness ==
    /\ \A w \in Workers : WF_vars(Close(w) \/ CloseResume(w) \/ CloseNotify(w))
    /\ \A t \in Threads : WF_vars(ReadCancelled(t))
    /\ WF_vars(RunTimeoutCancel \/ RunTimeoutIgnored \/ RunTimeout \/ RunRead
               \/ RunHeartbeat)
    /\ \A k \in Keys : SF_vars(PopRead(k))
    /\ \A k \in Keys, g \in Gens : SF_vars(PopTimeout(k, g))
    /\ WF_vars(Pass \/ ReadsResume)

LiveSpec == Spec /\ Fairness
-----------------------------------------------------------------------------
(* Properties *)

(* NDDSA_Agent_close_session keeps a pointer to the record while it waits   *)
(* for the cleanup thread: until it wakes up the record is in the table,    *)
(* belongs to the same session, is not up for removal by the cleanup thread *)
(* and has no other thread closing it, whatever the other threads do.       *)
CloserOwnsSession ==
    \A w \in Workers : pc[w] = "closeWait" =>
        /\ present[at[w]] /\ gen[at[w]] = atGen[w]
        /\ deleted[at[w]] /\ ~timedout[at[w]]
        /\ \A w2 \in Workers \ {w} : pc[w2] = "closeWait" => at[w2] # at[w]

(* Every record of the table has a client that is allocated, and so has     *)
(* every thread about to run on_session_closed: the callback runs once per  *)
(* session although two threads may run it (close_session and               *)
(* on_cleanup_sessions), so no client is freed twice.                       *)
SessionHasClient ==
    /\ \A k \in Keys : present[k] => proxy[k][gen[k]] = "live"
    /\ \A w \in Workers : pc[w] = "notify" => proxy[at[w]][atGen[w]] = "live"

(* No client is forgotten: as long as it is allocated its session is in the *)
(* table, or a thread is about to run on_session_closed for it; so nobody's *)
(* DELETE is left without a thread to answer it.  (One whose answer could   *)
(* not be sent is not freed: on_session_closed returns too early.)          *)
ClientHasOwner ==
    \A k \in Keys, g \in Gens : proxy[k][g] = "live" =>
        \/ present[k] /\ gen[k] = g
        \/ \E w \in Workers : pc[w] = "notify" /\ at[w] = k /\ atGen[w] = g

(* CloserOwnsSession and SessionHasClient in inductive form: a thread about *)
(* to run on_session_closed is alone to hold its client, which belongs to a *)
(* session that is no longer in the table, and the record the cleanup       *)
(* thread is finalizing with the table locked stays there.                  *)
SessionInv ==
    /\ CloserOwnsSession
    /\ SessionHasClient
    /\ \A k \in Keys : present[k] => gen[k] \in Gens
    /\ \A w \in Workers : pc[w] = "notify" =>
          /\ atGen[w] \in Gens /\ atGen[w] <= gen[at[w]]
          /\ present[at[w]] => atGen[w] # gen[at[w]]
          /\ \A w2 \in Workers \ {w} : pc[w2] = "notify" =>
                at[w2] # at[w] \/ atGen[w2] # atGen[w]
    /\ cleaner = "readWait" => present[ckey]

(* Whichever threads end the sessions, the life of a client object is the   *)
(* one ClientLifecycle describes, if every client keeps to one transport:   *)
(* with two, a DELETE that is slow to close its session may find the next   *)
(* session of its key and close that one, whose client nobody disposed.     *)
OneRoute ==
    \A k \in Keys, w1, w2 \in Workers :
        <<k, w1>> \in Route /\ <<k, w2>> \in Route => w1 = w2
Life == INSTANCE ClientLifecycle
ClientLife == Life!Spec

(* Why.  The clients of a key are made one after the other; a session times  *)
(* out only with its client disposed; a DELETE waits for its answer only in *)
(* a client that is still allocated; ...                                    *)
ClientsInTurn == \A k \in Keys, g \in Gens : proxy[k][g] = "none" <=> g > gen[k]
ExpiredDisposed == \A k \in Keys : present[k] /\ timedout[k] => Client(k) \in disposed
DeletePending == \A c \in request : c \in disposed /\ proxy[c[1]][c[2]] = "live"

(* ... and a thread on its way through close_session has a client that is   *)
(* disposed, the latest one of its key until the record is looked up.       *)
ToClose(w) == pc[w] = "closing" \/ (pc[w] = "wait" /\ after[w] = "delete")
InClose(w) == pc[w] \in {"closeWait", "notify"}
ClosesDisposed ==
    \A w \in Workers :
        /\ ToClose(w) => <<at[w], w>> \in Route /\ atGen[w] = gen[at[w]]
        /\ ToClose(w) \/ InClose(w) => <<at[w], atGen[w]>> \in disposed

DisposalInv ==
    /\ ClientsInTurn
    /\ ExpiredDisposed
    /\ DeletePending
    /\ OneRoute => ClosesDisposed

(* A session disposed by a client is never left behind: as long as its      *)
(* record is marked as deleted, without having timed out, some thread is in *)
(* close_session to remove it (on_cleanup_sessions only wakes that thread). *)
DeletedHasCloser ==
    \A k \in Keys : present[k] /\ deleted[k] /\ ~timedout[k] =>
        \E w \in Workers : pc[w] = "closeWait" /\ at[w] = k

\* the event thread has a read event of k in its hands, or a cancelled one
Running(k) == event.kind = "read" /\ event.key = k
Cancelling(k) == Running(k) /\ event.cancel

(* The handshake by which cancel_readEA frees a read request that the event *)
(* thread may be using: while a request is being cancelled exactly one of   *)
(* the queue, the event thread and the semaphore holds the cancellation,    *)
(* and no event of a request is left once it is freed.                      *)
CancelHandshake ==
    \A k \in Keys :
        LET held == {x \in {"queue", "thread", "semaphore"} :
                        \/ x = "queue" /\ readEvent[k] = "cancel"
                        \/ x = "thread" /\ Cancelling(k)
                        \/ x = "semaphore" /\ semEvent[k]}
        IN  /\ read[k] = "cancelling" => \E x \in held : held = {x}
            /\ read[k] # "cancelling" => held = {}
            /\ read[k] = "none" => readEvent[k] = "none" /\ ~Running(k)

\* the cleanup thread waits for a read it cancels
CleanerCancels == cleaner \in {"readWait", "readsWait"}

(* A thread that released its session to cancel a read finds it again: the  *)
(* record is still in the table, for the same session, and the request is   *)
(* still the one it is cancelling (wait_for_semaphoreEA gives up otherwise, *)
(* with the session in whatever state it was left).                         *)
WaiterOwnsSession ==
    /\ \A t \in Threads : pc[t] = "wait" =>
          /\ present[at[t]] /\ gen[at[t]] = atGen[t]
          /\ read[at[t]] = "cancelling"
          /\ ~(CleanerCancels /\ ckey = at[t])
          /\ \A t2 \in Threads \ {t} : pc[t2] = "wait" => at[t2] # at[t]
    /\ CleanerCancels => present[ckey] /\ read[ckey] = "cancelling"

(* What keeps the cleanup thread on its session while it waits, with the    *)
(* table unlocked, for the timer of the session to be cancelled: the key is *)
(* not opened again meanwhile.                                              *)
NotReopened == cleaner = "timerWait" /\ present[ckey] => deleted[ckey]

(* The parts of the inductive form of CancelHandshake, WaiterOwnsSession    *)
(* and DeletedHasCloser.  No other event of a request is left behind its    *)
(* cancellation, ...                                                        *)
HeldOnce(k) ==
    IF read[k] = "cancelling"
    THEN \/ readEvent[k] = "cancel" /\ ~Cancelling(k) /\ ~semEvent[k]
         \/ readEvent[k] = "none" /\ Cancelling(k) /\ ~semEvent[k]
         \/ readEvent[k] = "none" /\ ~Running(k) /\ semEvent[k]
    ELSE /\ readEvent[k] # "cancel" /\ ~Cancelling(k) /\ ~semEvent[k]
         /\ read[k] = "none" => readEvent[k] = "none" /\ ~Running(k)

(* ... a session handed to the cleanup thread has no read left by the time  *)
(* its closer is woken up or its timer is being cancelled, ...              *)
NoReadLeft ==
    /\ \A k \in Keys : semCleanup[k] =>
          deleted[k] /\ ~timedout[k] /\ read[k] = "none"
    /\ cleaner = "readWait" => deleted[ckey]
    /\ cleaner = "timerWait" /\ present[ckey] =>
          ~timedout[ckey] /\ read[ckey] = "none"

(* ... and the event thread, alone, waits inside the handler of a timeout,  *)
(* for a session that has timed out.                                        *)
WaitsInTimeout ==
    /\ pc[EventThread] # "idle" =>
          /\ pc[EventThread] = "wait" /\ after[EventThread] = "timeout"
          /\ event.kind = "timeout" /\ timedout[at[EventThread]]
    /\ \A w \in Workers : pc[w] = "wait" => after[w] # "timeout"

(* The cancellation of reads is in order, as long as NotReopened holds: a   *)
(* request has one holder, its waiter finds its session again, and a        *)
(* session that is deleted has a thread to remove it.                       *)
CancelInv ==
    /\ \A k \in Keys : HeldOnce(k)
    /\ WaiterOwnsSession
    /\ DeletedHasCloser
    /\ NoReadLeft
    /\ WaitsInTimeout

(* A disposed client has no sample on loan: dispose_client_session returns  *)
(* them all and on_data_received retains none afterwards, or the session    *)
(* could never be finalized (cancel_readEA refuses to).                     *)
DisposedHasNoLoans ==
    \A k \in Keys : present[k] /\ Client(k) \in disposed =>
        read[k] \notin {"loaned", "last"}

(* What keeps NotReopened in an agent with one client: a pass of the        *)
(* cleanup thread is asked for, and made, only for a session that has not   *)
(* been finalized, and does not come back to it; so the key cannot be       *)
(* opened again while it waits, and its closer is woken up after the pass.  *)
(* With more clients the pass for another finds the finalized record.       *)
NoPass == cleaner \in {"idle", "readsWait"}
FinalizedInv ==
    \A k \in Keys :
        /\ finalized[k] <= 1
        /\ present[k] /\ finalized[k] = 1 =>
              /\ deleted[k] /\ ~timedout[k] /\ ~cond
              /\ NoPass \/ (cleaner = "pass" /\ k \in visited)
        /\ cond => present[k] /\ deleted[k] /\ finalized[k] = 0 /\ NoPass
        /\ ~NoPass /\ present[k] => deleted[k]
        /\ cleaner \in {"readWait", "timerWait"} =>
              present[k] /\ finalized[k] = 0 /\ k \in visited
        /\ semCleanup[k] => finalized[k] = 1
        /\ pc[EventThread] = "wait" => ~deleted[k]

(* The mark of a reset, which makes the agent ignore the session, is taken  *)
(* off by whoever set it (the comment in open_session says it is for the    *)
(* time in which the session is released to cancel its reads).  A session   *)
(* is left marked, with no thread in its reset, only by a reset that found  *)
(* another thread cancelling its read.                                      *)
InReset(k) == \E w \in Workers : /\ pc[w] = "wait" /\ at[w] = k
                                 /\ after[w] \in {"reset", "resetLast"}
LeftMarked(k) == present[k] /\ resetting[k] /\ ~InReset(k)
MarkTakenOff ==
    \A k \in Keys : LeftMarked(k)' =>
        LeftMarked(k) \/ (read[k] = "cancelling" /\ ~InReset(k))
ResettingIsTransient == [][MarkTakenOff]_vars

(* An active session goes on announcing its unacknowledged messages         *)
(* periodically: its heartbeat event is in the queue, or just running.      *)
HeartbeatPending ==
    \A k \in Keys : Active(k) /\ Client(k) \notin disposed =>
        \/ Client(k) \in heartbeat
        \/ event.kind = "heartbeat" /\ <<event.key, event.gen>> = Client(k)

(* What may keep a disposed session in the table for good: it has an entry  *)
(* that cannot be detached; or another session that is disposed has one, at *)
(* which the pass that was to finalize both may end.                        *)
Obstructed(k) ==
    \/ k \in leftover
    \/ \E j \in Keys \ {k} : present[j] /\ deleted[j] /\ Undetachable(j)

(* A session whose timeout expired is disposed, and its record goes away,   *)
(* if nothing obstructs its finalization.                                   *)
ExpiredSessionDisposed ==
    \A k \in Keys : [](~Obstructed(k)) => (timedout[k] /\ present[k] ~> ~present[k])

(* Every session ends, if nothing obstructs its finalization: a client that *)
(* has stopped sending messages does not keep its record for ever.          *)
SilentSessionEnds ==
    \A k \in Keys : [](~Obstructed(k)) => (present[k] ~> ~present[k])

(* A client that asks for its own deletion is answered, by the thread that  *)
(* received the request or by the cleanup thread if the session timed out   *)
(* meanwhile, if nothing obstructs the finalization of its session.         *)
DeleteAnswered ==
    \A c \in Keys \X Gens :
        [](~Obstructed(c[1])) => (c \in request ~> c \notin request)
=============================================================================
