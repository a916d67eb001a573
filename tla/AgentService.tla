---------------------------- MODULE AgentService ----------------------------
(***************************************************************************)
(* The agent as a process: the main thread registers the transports,       *)
(* enables them, waits for a signal and takes everything down again; each  *)
(* transport has a receive thread, which handles messages as               *)
(* ClientMappings says; the event thread of the DDS agent lets sessions    *)
(* expire and its cleanup thread finalizes them, whoever ended them.       *)
(***************************************************************************)
EXTENDS ClientMappings

CONSTANTS
    Transports,     \* the transports in the order they are registered
    Serial,         \* those over a serial line; the others use UDP
    Polling,        \* those whose receive call times out
    MaxFailures     \* bound: wake-up messages that cannot be sent

ASSUME ServiceAssumption ==
    /\ Transports \in Seq(Threads)
    /\ Transports # <<>>
    /\ \A t \in Threads : \E i \in DOMAIN Transports : Transports[i] = t
    /\ \A i, j \in DOMAIN Transports : Transports[i] = Transports[j] => i = j
    /\ Serial \subseteq Threads
    /\ Polling \subseteq Serial
    /\ Faults \subseteq {"init", "thread", "buffer", "wakeup", "send"}
    /\ MaxFailures \in Nat

VARIABLES
    main,       \* what the main thread is doing
    ix,         \* number of the transport it has come to
    at,         \* session whose cleanup it waits for
    ready,      \* transports that are initialized
    handle,     \* recv_thread, or the entry in recv_threads: none, thread, empty
    active,     \* transport->active
    sem,        \* sem_thread_exit
    wake,       \* the wake-up message is in the socket
    failures,   \* wake-up messages that could not be sent
    running     \* the AsyncWaitSet and the event generator run

mainVars  == <<main, ix, at>>
transVars == <<ready, handle, active, sem, wake, failures>>
vars == <<mapVars, mainVars, transVars, running>>

Alive == {"start", "loop", "recv"} \cup Handling

ServiceType ==
    /\ main \in {"register", "listen", "unwind", "unwindJoin", "up", "close",
                 "closeJoin", "sessions", "await", "server", "free", "done"}
    /\ ix \in DOMAIN Transports
    /\ at \in Keys \cup {None}
    /\ ready \subseteq Threads
    /\ handle \in [Threads -> {"none", "thread", "empty"}]
    /\ active \in [Threads -> BOOLEAN]
    /\ sem \in [Threads -> Nat]
    /\ wake \in [Threads -> BOOLEAN]
    /\ failures \in 0..MaxFailures
    /\ running \in BOOLEAN

\* Every variable has its type; the main thread never runs past the list of
\* transports.
TypeOK == MappingsType /\ ServiceType

Init ==
    /\ MappingsInit
    /\ main = "register"
    /\ ix = 1
    /\ at = None
    /\ ready = {}
    /\ handle = [t \in Threads |-> "none"]
    /\ active = [t \in Threads |-> FALSE]
    /\ sem = [t \in Threads |-> 0]
    /\ wake = [t \in Threads |-> FALSE]
    /\ failures = 0
    /\ running = TRUE
-----------------------------------------------------------------------------
Current == Transports[ix]

\* Mutant: the walk over the transports runs past the last one
StepsPast(then) ==
    IF ix <= Len(Transports) THEN ix' = ix + 1 /\ UNCHANGED main
                             ELSE ix' = 1 /\ main' = then

\* the next transport of the list, or what comes after the last one
Advance(then) ==
    IF ix < Len(Transports) THEN ix' = ix + 1 /\ UNCHANGED main
                            ELSE ix' = 1 /\ main' = then
-----------------------------------------------------------------------------
(* Receive threads *)

\* what NANO_MessageBufferPool_allocate may return
Allocations == IF "buffer" \in Faults THEN BOOLEAN ELSE {TRUE}

(* recv_thread_impl and RecvThread_impl, first iteration: a buffer for the  *)
(* messages is taken from the pool, or the thread ends.  It is never        *)
(* returned: the listener retains no message, so one buffer is enough.      *)
ThreadStart(t) ==
    /\ pc[t] = "start"
    /\ \E buffer \in Allocations :
          IF active[t] /\ buffer
          THEN pc' = [pc EXCEPT ![t] = "recv"] /\ UNCHANGED sem
          ELSE /\ pc' = [pc EXCEPT ![t] = "ended"]
               /\ sem' = [sem EXCEPT ![t] = @ + 1]
    /\ UNCHANGED <<mutex, mappings, session, bind, msg, found, obstacle, latest, mainVars,
                   ready, handle, active, wake, failures, running>>

\* ... and the head of the loop from then on
ThreadLoop(t) ==
    /\ pc[t] = "loop"
    /\ IF active[t] THEN pc' = [pc EXCEPT ![t] = "recv"] /\ UNCHANGED sem
                    ELSE /\ pc' = [pc EXCEPT ![t] = "ended"]
                         /\ sem' = [sem EXCEPT ![t] = @ + 1]
    /\ UNCHANGED <<mutex, mappings, session, bind, msg, found, obstacle, latest, mainVars,
                   ready, handle, active, wake, failures, running>>

\* the wake-up message arrives, whose client key is invalid, or the receive
\* call times out
ThreadWake(t) ==
    /\ pc[t] = "recv" /\ (wake[t] \/ t \in Polling)
    /\ pc' = [pc EXCEPT ![t] = "loop"]
    /\ wake' = [wake EXCEPT ![t] = FALSE]
    /\ UNCHANGED <<mutex, mappings, session, bind, msg, found, obstacle, latest, mainVars,
                   ready, handle, active, sem, failures, running>>

ThreadReceive(t) ==
    /\ t \in ready
    /\ \E m \in Messages : Receive(t, m)
    /\ UNCHANGED <<mainVars, transVars, running>>

ThreadHandle(t) == Handle(t) /\ UNCHANGED <<mainVars, transVars, running>>
-----------------------------------------------------------------------------
(* Threads of the DDS agent *)

\* the timeout of a session passes: timed out and disposed of
Expire(k) ==
    /\ running /\ session[k] = "open" /\ ~Locked(k)
    /\ session' = [session EXCEPT ![k] = "expired"]
    /\ UNCHANGED <<mutex, mappings, bind, pc, msg, found, obstacle, latest,
                   mainVars, transVars, running>>

(* NDDSA_Agent_on_cleanup_sessions: a session that timed out loses its      *)
(* semaphore and its record; of another one, whoever closes it is woken up. *)
(* finalize_sessionEA fails for good on an entry that has been detached.    *)
Clean(k) ==
    /\ running /\ session[k] \in {"expired", "disposed"} /\ obstacle[k] # "entry"
    /\ session' = [session EXCEPT ![k] = IF @ = "expired" THEN "none" ELSE "cleaned"]
    /\ bind' = [bind EXCEPT ![k] = IF session[k] = "expired" THEN None ELSE @]
    /\ obstacle' = [obstacle EXCEPT ![k] = "none"]
    /\ UNCHANGED <<mutex, mappings, pc, msg, found, latest, mainVars, transVars,
                   running>>

(* ... and ends the pass: another session is left for the next pass, if     *)
(* anything starts one.  So does one that has been finalized already.       *)
CleanMissed(k) ==
    /\ running /\ session[k] \in {"expired", "disposed"} /\ obstacle[k] = "none"
    /\ \E j \in Keys \ {k} :
          \/ session[j] = "cleaned"
          \/ session[j] \in {"expired", "disposed"} /\ obstacle[j] = "entry"
    /\ obstacle' = [obstacle EXCEPT ![k] = "pass"]
    /\ UNCHANGED <<mutex, mappings, session, bind, pc, msg, found, latest,
                   mainVars, transVars, running>>

(* NDDSA_Agent_on_cleanup_resources detaches what went with an object that  *)
(* some session deleted, in every session.                                  *)
CleanResources(k) ==
    /\ running /\ session[k] \in {"open", "expired", "disposed"}
    /\ \E j \in Keys \ {k} : obstacle[j] = "entry"
    /\ obstacle' = [obstacle EXCEPT ![k] = "entry"]
    /\ UNCHANGED <<mutex, mappings, session, bind, pc, msg, found, latest,
                   mainVars, transVars, running>>
-----------------------------------------------------------------------------
(* Main thread: start *)

\* what the initialize function of a transport may return
Initializations == IF "init" \in Faults THEN BOOLEAN ELSE {TRUE}

(* NANO_AgentDaemon_initialize_xrce: the transport is initialized and       *)
(* registered.  If it cannot be, the daemon deletes the server and the      *)
(* agent it has made so far.                                                *)
Register ==
    /\ main = "register"
    /\ \E ok \in Initializations :
          IF ok THEN ready' = ready \cup {Current} /\ Advance("listen")
                ELSE main' = "sessions" /\ ix' = 1 /\ UNCHANGED ready
    /\ UNCHANGED <<mapVars, at, handle, active, sem, wake, failures, running>>

\* the listen function of the UDP transport: with a thread, or not at all
UdpListens == IF "thread" \in Faults THEN {"thread", "none"} ELSE {"thread"}

\* ... of a serial transport, which may also succeed without a thread: then
\* create_recv_thread returns the entry it could not finish
SerialListens == UdpListens \cup IF "thread" \in Faults THEN {"empty"} ELSE {}

\* NANO_XRCE_Agent_enable, one transport
Listen ==
    /\ main = "listen"
    /\ \E h \in IF Current \in Serial THEN SerialListens ELSE UdpListens :
          /\ handle' = [handle EXCEPT ![Current] = h]
          /\ pc' = [pc EXCEPT ![Current] = IF h = "thread" THEN "start" ELSE @]
          /\ IF h = "none" THEN main' = "unwind" /\ ix' = 1 ELSE Advance("up")
    /\ active' = [active EXCEPT ![Current] = TRUE]
    /\ UNCHANGED <<mutex, mappings, session, bind, msg, found, obstacle, latest, at,
                   ready, sem, wake, failures, running>>

\* NANO_AgentDaemon_exit, from a signal handler
Signal ==
    /\ main = "up"
    /\ main' = "close" /\ ix' = 1
    /\ UNCHANGED <<mapVars, at, transVars, running>>
-----------------------------------------------------------------------------
(* Main thread: end.  NANO_XRCE_Agent_disable closes every transport; so    *)
(* does enable when a transport cannot listen, also those that never did.   *)

JoinState == IF main = "close" THEN "closeJoin" ELSE "unwindJoin"

\* Mutant: the thread is not woken up
CloseSilent ==
    /\ Current \notin Serial
    /\ main' = JoinState
    /\ UNCHANGED <<ix, wake, failures>>

(* The close function of the UDP transport up to its wait: the thread is    *)
(* woken up by a message.  When that cannot be sent, enable goes on to the  *)
(* next transport and disable tries the same one again.                     *)
CloseUdp ==
    /\ Current \notin Serial
    /\ \/ /\ wake' = [wake EXCEPT ![Current] = TRUE]
          /\ main' = JoinState
          /\ UNCHANGED <<ix, failures>>
       \/ /\ "wakeup" \in Faults /\ failures < MaxFailures
          /\ failures' = failures + 1
          /\ IF main = "close" THEN UNCHANGED <<main, ix>> ELSE Advance("sessions")
          /\ UNCHANGED wake

\* ... and of a serial transport, which waits for the threads in its list
CloseSerial ==
    /\ Current \in Serial
    /\ IF handle[Current] = "none" THEN Advance("sessions")
                                   ELSE main' = JoinState /\ UNCHANGED ix
    /\ UNCHANGED <<wake, failures>>

Close ==
    /\ main \in {"unwind", "close"}
    /\ active' = [active EXCEPT ![Current] = FALSE]
    /\ CloseUdp \/ CloseSerial
    /\ UNCHANGED <<mapVars, at, ready, handle, sem, running>>

\* where main goes on once the thread of the last transport has ended
BackToClose(then) ==
    IF ix < Len(Transports)
    THEN ix' = ix + 1 /\ main' = IF main = "closeJoin" THEN "close" ELSE "unwind"
    ELSE ix' = 1 /\ main' = then

\* Mutant: the thread is deleted without waiting for it
JoinWithoutWait ==
    /\ main \in {"unwindJoin", "closeJoin"}
    /\ handle' = [handle EXCEPT ![Current] = "none"]
    /\ BackToClose("sessions")
    /\ UNCHANGED <<mapVars, at, ready, active, sem, wake, failures, running>>

\* the rest of the close function
Join ==
    /\ main \in {"unwindJoin", "closeJoin"} /\ sem[Current] > 0
    /\ sem' = [sem EXCEPT ![Current] = @ - 1]
    /\ handle' = [handle EXCEPT ![Current] = "none"]
    /\ BackToClose("sessions")
    /\ UNCHANGED <<mapVars, at, ready, active, wake, failures, running>>

(* NDDSA_Agent_finalize_database_sessions: dispose_sessionEA for the next   *)
(* session, then a wait for its cleanup with the table and the record       *)
(* released.                                                                *)
DisposeNext(k) ==
    /\ main = "sessions" /\ session[k] # "none" /\ ~Locked(k)
    /\ session' = [session EXCEPT ![k] = IF @ = "open" THEN "disposed" ELSE @]
    /\ main' = "await" /\ at' = k
    /\ UNCHANGED <<mutex, mappings, bind, pc, msg, found, obstacle, latest, ix,
                   transVars, running>>

\* ... the record is removed and the interface told
Await ==
    /\ main = "await" /\ session[at] = "cleaned"
    /\ session' = [session EXCEPT ![at] = "none"]
    /\ bind' = [bind EXCEPT ![at] = None]
    /\ main' = "sessions" /\ at' = None
    /\ UNCHANGED <<mutex, mappings, pc, msg, found, obstacle, latest, ix, transVars,
                   running>>

(* The cleanup thread has removed the session, and deleted the semaphore    *)
(* main waits for.  The wait may end or not; when it does the session is    *)
(* not found and the server is freed without stopping its threads.          *)
AwaitLost ==
    /\ main = "await" /\ session[at] = "none"
    /\ main' = "free" /\ at' = None
    /\ UNCHANGED <<mapVars, ix, transVars, running>>

\* the rest of NDDSA_Agent_finalize
StopServer ==
    /\ main = "sessions" /\ \A k \in Keys : session[k] = "none"
    /\ main' = "server"
    /\ running' = FALSE
    /\ UNCHANGED <<mapVars, ix, at, transVars>>

\* NANO_XRCE_Agent_finalize: every registered transport is finalized
Free ==
    /\ main \in {"server", "free"}
    /\ main' = "done"
    /\ ready' = {}
    /\ UNCHANGED <<mapVars, ix, at, handle, active, sem, wake, failures, running>>
-----------------------------------------------------------------------------
MainStep ==
    \/ Register \/ Listen \/ Close \/ Join
    \/ \E k \in Keys : DisposeNext(k)
    \/ Await \/ StopServer \/ Free

Thread(t) == ThreadStart(t) \/ ThreadLoop(t) \/ ThreadWake(t)

Next ==
    \/ MainStep \/ Signal \/ AwaitLost
    \/ \E t \in Threads : Thread(t) \/ ThreadReceive(t) \/ ThreadHandle(t)
    \/ \E k \in Keys : Expire(k) \/ Clean(k) \/ CleanMissed(k) \/ CleanResources(k)

Spec == Init /\ [][Next]_vars

(* Every thread that can go on does.  A receive thread that waits for a     *)
(* session record gets it some day, however often another thread takes it,  *)
(* and receives its wake-up message however many others precede it: strong  *)
(* fairness.  Neither a message, a signal nor the end of a wait for a       *)
(* deleted semaphore is owed, nor the finalization of a session that a pass *)
(* has left behind.                                                         *)
Fairness ==
    /\ WF_vars(MainStep)
    /\ \A t \in Threads : /\ WF_vars(ThreadStart(t) \/ ThreadLoop(t))
                          /\ SF_vars(ThreadWake(t))
                          /\ SF_vars(ThreadHandle(t))
    /\ \A k \in Keys : WF_vars(obstacle[k] = "none" /\ Clean(k))

LiveSpec == Spec /\ Fairness
-----------------------------------------------------------------------------
(* Properties *)

(* Once a transport has given up its receive thread (recv_thread is NULL or *)
(* its entry is out of the list), that thread has really ended: it will not *)
(* touch the transport, the mappings or a session while main tears them     *)
(* down.                                                                    *)
JoinedThreadEnded ==
    \A t \in Threads : handle[t] = "none" => pc[t] \notin Alive

(* Every message that is received is handled: no thread waits for ever for  *)
(* the mappings, for a session that another thread is opening or for the    *)
(* cleanup of the one it closes, unless something keeps that from being     *)
(* finalized (NddsAgent.c:3113-3129).                                       *)
MessageHandled ==
    \A t \in Threads : pc[t] \in Handling ~>
        \/ pc[t] \notin Handling \/ main = "done"
        \/ pc[t] = "closing" /\ obstacle[found[t]] # "none"

(* After a signal the process ends, with messages in flight, sessions       *)
(* expiring and being closed and wake-up messages failing.  It does not     *)
(* where main waits for the thread of a serial transport that was never     *)
(* created; for a session that the cleanup thread removed as expired; or    *)
(* for a session that cannot be finalized, itself or through the receive    *)
(* thread that closes it.                                                   *)
ShutdownEnds ==
    main = "close" ~>
        \/ main = "done"
        \/ main = "closeJoin" /\ handle[Current] = "empty"
        \/ main = "closeJoin" /\ pc[Current] = "closing"
           /\ obstacle[found[Current]] # "none"
        \/ main = "await" /\ (session[at] = "none" \/ obstacle[at] # "none")
=============================================================================
