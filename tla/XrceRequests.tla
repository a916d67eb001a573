---------------------------- MODULE XrceRequests ----------------------------
(***************************************************************************)
(* The requests of one client and the replies to them.  A submessage takes *)
(* a request buffer from the client's pool and, on a reliable stream, the  *)
(* buffer of its reply with it; the handler carries the operation out, a   *)
(* callback of the DDS agent may already reply, and the end of on_submsg   *)
(* replies if nobody did and returns the buffer unless somebody else has   *)
(* it: the state of a reader (READ_DATA), the client that is to be closed  *)
(* (DELETE of the client) or, already, the pool (WRITE_DATA).              *)
(* The session of the client is locked while a submessage is handled, but  *)
(* DELETE of an object releases it before on_submsg is over: the session   *)
(* may expire from there on, as it may between messages.  A message has    *)
(* one submessage here; in the code those that follow a DELETE in the same *)
(* message run unlocked as well.  What a DDS operation does is left to     *)
(* Resources and ReadForward: here it succeeds or fails.                   *)
(***************************************************************************)
EXTENDS Naturals, Sequences

CONSTANTS
    Requests,   \* buffers of client->requests_pool
    None,       \* no request
    Faults      \* faults that may happen

ASSUME RequestsAssumption ==
    /\ None \notin Requests
    /\ Faults \subseteq {"send", "alloc", "reader"}

VARIABLES
    pool,       \* how often a buffer is in the pool
    req,        \* contents of the buffers
    cur,        \* req of on_submsg
    pc,         \* what the thread that has the session does
    rc,         \* rc of on_submsg is OK
    reader,     \* entry of the client's DataReader, its reader_state->req
    disposed,   \* client->disposed
    dispose,    \* client->dispose_request
    leftover,   \* an entry that was detached keeps the session from being closed
    closed      \* the session is closed

vars == <<pool, req, cur, pc, rc, reader, disposed, dispose, leftover, closed>>

\* submessages, and the object or data format that matters to the reply
Operations ==
    {<<"create", "reader">>, <<"create", "other">>, <<"delete", "reader">>,
     <<"delete", "other">>, <<"delete", "client">>, <<"write", "data">>,
     <<"write", "samples">>, <<"read", "reader">>}

(* A request.  The last two fields are history: what was sent in reply, and *)
(* whether the operation was carried out.                                   *)
RequestType ==
    [op : Operations, reliable : BOOLEAN, reply : BOOLEAN, mbuf : BOOLEAN,
     answers : Seq({"ok", "error", "lost"}), carried : BOOLEAN]

Unused == [op |-> <<"read", "reader">>, reliable |-> FALSE, reply |-> FALSE,
           mbuf |-> FALSE, answers |-> <<>>, carried |-> FALSE]

(* The DataReader of the client: not there, attached with its reader_state, *)
(* detached (the entry stays in the session's list and keeps a pointer to   *)
(* the reader_state that was returned), or detached before it had one.      *)
ReaderType == [state : {"none", "live", "stale", "void"},
               req : Requests \cup {None}]

\* Every variable has its type.
TypeOK ==
    /\ pool \in [Requests -> Nat]
    /\ req \in [Requests -> RequestType]
    /\ cur \in Requests \cup {None}
    /\ pc \in {"idle", "handle", "done", "released"}
    /\ rc \in BOOLEAN
    /\ reader \in ReaderType
    /\ disposed \in BOOLEAN
    /\ dispose \in Requests \cup {None}
    /\ leftover \in BOOLEAN
    /\ closed \in BOOLEAN

Init ==
    /\ pool = [r \in Requests |-> 1]
    /\ req = [r \in Requests |-> Unused]
    /\ cur = None
    /\ pc = "idle"
    /\ rc = TRUE
    /\ reader = [state |-> "none", req |-> None]
    /\ disposed = FALSE
    /\ dispose = None
    /\ leftover = FALSE
    /\ closed = FALSE
-----------------------------------------------------------------------------
(* Helpers.  A definition whose comment starts with "Mutant" plants a bug in *)
(* the one that follows it, to show that a property notices; nothing else   *)
(* uses it.                                                                 *)

\* what becomes of a reply: sent, lost by Session_send, or not allocated
Sends(r) ==
    {"sent"} \cup (IF "send" \in Faults THEN {"lost"} ELSE {})
             \cup (IF "alloc" \in Faults /\ ~req[r].reliable THEN {"none"} ELSE {})

\* Mutant: the request may be replied to again after a send that failed
AnsweredAgain(q, status, o) ==
    CASE o = "sent" -> [q EXCEPT !.answers = Append(@, status),
                                 !.reply = FALSE, !.mbuf = FALSE]
      [] o = "lost" -> [q EXCEPT !.answers = Append(@, "lost"), !.mbuf = FALSE]
      [] OTHER -> q

(* NANO_XRCE_Agent_reply_to_operation: send consumes the buffer even on     *)
(* error; without a buffer the request is still to be replied to.           *)
Answered(q, status, o) ==
    IF o = "none" THEN q
    ELSE [q EXCEPT !.answers = Append(@, IF o = "sent" THEN status ELSE "lost"),
                   !.reply = FALSE, !.mbuf = FALSE]

\* the request after its operation was carried out, replied to with o
Succeeded(q, o) == [Answered(q, "ok", o) EXCEPT !.carried = TRUE]

\* the pool once r, if it is a request, has been returned
Return(r) == [q \in Requests |-> IF q = r THEN pool[q] + 1 ELSE pool[q]]

\* *reader_state = def_reader_state
NewReader == [state |-> "live", req |-> None]

\* NDDSA_Agent_detach_resourceEA leaves the entry of the object in the list
DetachedReader ==
    [reader EXCEPT !.state = IF @ = "none" THEN "void" ELSE "stale"]
-----------------------------------------------------------------------------
(* on_submsg: a request is made *)

(* NANO_XRCE_Agent_new_client_request.  A CREATE or DELETE is always        *)
(* replied to, a READ or WRITE where the client, or the agent's             *)
(* configuration, wants it.  When the pool is empty, or there is no buffer  *)
(* for the reply on a reliable stream, nothing changes and the submessage   *)
(* is to be sent again.                                                     *)
Receive(r, op, reliable, reply) ==
    /\ pc = "idle" /\ ~disposed /\ pool[r] > 0
    /\ op[1] \in {"create", "delete"} => reply
    /\ pool' = [pool EXCEPT ![r] = @ - 1]
    /\ req' = [req EXCEPT ![r] = [Unused EXCEPT !.op = op, !.reliable = reliable,
                                    !.reply = reply, !.mbuf = reliable /\ reply]]
    /\ cur' = r
    /\ pc' = "handle"
    /\ UNCHANGED <<rc, reader, disposed, dispose, leftover, closed>>
-----------------------------------------------------------------------------
(* on_submsg: the operation *)

Handles(kind) == pc = "handle" /\ req[cur].op[1] = kind
OnReader == req[cur].op[2] = "reader"

Finish(ok) == pc' = "done" /\ rc' = ok

(* Any operation but READ may fail before a callback runs: wrong kinds,     *)
(* formats or representations, an object that cannot be made or deleted, no *)
(* buffer for a WRITE.                                                      *)
Fail ==
    /\ pc = "handle"
    /\ req[cur].op[1] # "read" /\ req[cur].op # <<"delete", "client">>
    /\ Finish(FALSE)
    /\ UNCHANGED <<pool, req, cur, reader, disposed, dispose, leftover, closed>>

(* on_submsg_create, create_entity and, once the object exists,             *)
(* on_resource_created, which makes the state of a reader and replies.  If  *)
(* it cannot, the object is detached again, even where the client only      *)
(* reused one it had.                                                       *)
Create ==
    /\ Handles("create")
    /\ OnReader => reader.state \in {"none", "live"}
    /\ \E o \in Sends(cur) \cup (IF OnReader /\ "reader" \in Faults
                                 THEN {"none"} ELSE {}) :
          IF o = "sent"
          THEN /\ req' = [req EXCEPT ![cur] = Succeeded(@, o)]
               /\ reader' = IF OnReader THEN NewReader ELSE reader
               /\ Finish(TRUE) /\ UNCHANGED leftover
          ELSE /\ req' = [req EXCEPT ![cur] = Answered(@, "ok", o)]
               /\ reader' = IF OnReader THEN DetachedReader ELSE reader
               /\ Finish(FALSE) /\ leftover' = TRUE
    /\ UNCHANGED <<pool, cur, disposed, dispose, closed>>

(* on_submsg_delete and delete_entity of an object the client does not      *)
(* have: nothing to do, and no callback.                                    *)
DeleteMissing ==
    /\ Handles("delete") /\ req[cur].op[2] # "client"
    /\ OnReader => reader.state = "none"
    /\ req' = [req EXCEPT ![cur].carried = TRUE]
    /\ Finish(TRUE)
    /\ UNCHANGED <<pool, cur, reader, disposed, dispose, leftover, closed>>

(* ... of one it has: on_resource_deleted returns the state of a reader but *)
(* not the request that state holds, and replies; the object has left its   *)
(* entry in the list, and delete_resource releases the session.             *)
Delete ==
    /\ Handles("delete") /\ req[cur].op[2] # "client"
    /\ OnReader => reader.state = "live"
    /\ \E o \in Sends(cur) : req' = [req EXCEPT ![cur] = Succeeded(@, o)]
    /\ reader' = IF OnReader THEN DetachedReader ELSE reader
    /\ pc' = "released" /\ rc' = TRUE
    /\ leftover' = TRUE
    /\ UNCHANGED <<pool, cur, disposed, dispose, closed>>

\* Mutant: the reply is not put off until the session is closed
DisposeReplies ==
    /\ pc = "handle" /\ req[cur].op = <<"delete", "client">>
    /\ disposed' = TRUE
    /\ dispose' = cur
    /\ Finish(TRUE)
    /\ UNCHANGED <<pool, req, cur, reader, leftover, closed>>

\* NANO_XRCE_Agent_dispose_client_session, for DELETE of the client
Dispose ==
    /\ pc = "handle" /\ req[cur].op = <<"delete", "client">>
    /\ disposed' = TRUE
    /\ dispose' = cur
    /\ req' = [req EXCEPT ![cur].reply = FALSE]
    /\ Finish(TRUE)
    /\ UNCHANGED <<pool, cur, reader, leftover, closed>>

(* on_submsg_write, write_data and on_data_written: a sample is written and *)
(* the request returned to the pool, whether or not the reply was sent.     *)
Write ==
    /\ Handles("write") /\ req[cur].op[2] = "data"
    /\ \E o \in IF req[cur].reply THEN Sends(cur) ELSE {"none"} :
          req' = [req EXCEPT ![cur] = Succeeded(@, o)]
    /\ pool' = Return(cur)
    /\ Finish(TRUE)
    /\ UNCHANGED <<cur, reader, disposed, dispose, leftover, closed>>

(* ... in the formats whose functions are still empty: success, although    *)
(* nothing is written.                                                      *)
WriteNothing ==
    /\ Handles("write") /\ req[cur].op[2] # "data"
    /\ pool' = Return(cur)
    /\ Finish(TRUE)
    /\ UNCHANGED <<req, cur, reader, disposed, dispose, leftover, closed>>

(* on_submsg_read that fails before it has the state of the reader: a wrong *)
(* kind, a wrong format, no reader.  on_submsg forgets the request, which   *)
(* is neither replied to nor returned.                                      *)
ReadRefused ==
    /\ Handles("read")
    /\ cur' = None
    /\ pc' = "idle"
    /\ UNCHANGED <<pool, req, rc, reader, disposed, dispose, leftover, closed>>

(* The request the state of the reader holds.  That of a reader which was   *)
(* detached has been returned, and may be another client's by now.          *)
HeldRequests == IF reader.state = "stale" THEN {reader.req, None} ELSE {reader.req}

(* ... that fails later (the stream is not known, or NDDSA_Agent_read       *)
(* fails, as it does for a detached reader): the state now holds the        *)
(* request, and the one it held is returned.                                *)
ReadFails ==
    /\ Handles("read") /\ reader.state \in {"live", "stale"}
    /\ \E held \in HeldRequests : pool' = Return(held)
    /\ reader' = [reader EXCEPT !.req = cur]
    /\ cur' = None
    /\ pc' = "idle"
    /\ UNCHANGED <<req, rc, disposed, dispose, leftover, closed>>

(* ... that reaches on_read_created.  When its reply fails the read is      *)
(* cancelled and the state of the reader forgets the request, as on_submsg  *)
(* does.                                                                    *)
Read ==
    /\ Handles("read") /\ reader.state = "live"
    /\ pool' = Return(reader.req)
    /\ \/ /\ ~req[cur].reply
          /\ req' = [req EXCEPT ![cur].carried = TRUE]
          /\ reader' = [reader EXCEPT !.req = cur]
          /\ Finish(TRUE) /\ UNCHANGED cur
       \/ /\ req[cur].reply
          /\ \E o \in Sends(cur) :
                IF o = "sent"
                THEN /\ req' = [req EXCEPT ![cur] = Succeeded(@, o)]
                     /\ reader' = [reader EXCEPT !.req = cur]
                     /\ Finish(TRUE) /\ UNCHANGED cur
                ELSE /\ req' = [req EXCEPT ![cur] = Answered(@, "ok", o)]
                     /\ reader' = [reader EXCEPT !.req = None]
                     /\ cur' = None /\ pc' = "idle" /\ UNCHANGED rc
    /\ UNCHANGED <<disposed, dispose, leftover, closed>>
-----------------------------------------------------------------------------
(* on_submsg: its end *)

Status == IF rc THEN "ok" ELSE "error"

\* Mutant: a failed request is left to whoever has it
ReturnedIfDone == rc /\ req[cur].op[1] \in {"create", "delete"}

\* Mutant: every request is returned but that of the client's DELETE
ReturnedAlways == req[cur].op # <<"delete", "client">>

\* the requests that are returned here
Returned ==
    /\ ~rc \/ req[cur].op[1] \notin {"read", "write"}
    /\ req[cur].op # <<"delete", "client">>

(* The block after done.  It looks at the request of a WRITE although that  *)
(* is in the pool again; nobody has taken it since, the session is locked.  *)
Done ==
    /\ pc \in {"done", "released"}
    /\ \E o \in IF req[cur].reply THEN Sends(cur) ELSE {"none"} :
          req' = [req EXCEPT ![cur] = Answered(@, Status, o)]
    /\ pool' = IF Returned THEN Return(cur) ELSE pool
    /\ cur' = None
    /\ pc' = "idle"
    /\ UNCHANGED <<rc, reader, disposed, dispose, leftover, closed>>
-----------------------------------------------------------------------------
(* The end of the session *)

\* the timeout of the session passes: disposed of without a request
Expire ==
    /\ pc \in {"idle", "released"} /\ ~disposed
    /\ disposed' = TRUE
    /\ UNCHANGED <<pool, req, cur, pc, rc, reader, dispose, leftover, closed>>

(* The session cannot be finalized for reasons outside this client: an      *)
(* object of its own went with another one that some client deleted, or the *)
(* pass of the cleanup thread ends at the session of another client.        *)
Obstruct ==
    /\ ~leftover /\ ~closed
    /\ leftover' = TRUE
    /\ UNCHANGED <<pool, req, cur, pc, rc, reader, disposed, dispose, closed>>

\* Mutant: the reply that was put off is forgotten
CloseSilently ==
    /\ pc = "idle" /\ disposed /\ ~closed
    /\ closed' = TRUE
    /\ dispose' = None
    /\ pool' = Return(dispose)
    /\ UNCHANGED <<req, cur, pc, rc, reader, disposed, leftover>>

(* NANO_XRCE_AgentInterface_on_session_closed, on the thread that closes    *)
(* the session or the one that cleans it up.  A session with an entry that  *)
(* was detached gets here only if the buffer of the entry has been given    *)
(* out again, which takes longer than the end of on_submsg.                 *)
Close ==
    /\ pc = "idle" /\ disposed /\ ~closed
    /\ closed' = TRUE
    /\ dispose' = None
    /\ IF dispose = None THEN UNCHANGED req
       ELSE \E o \in Sends(dispose) :
               req' = [req EXCEPT ![dispose] =
                         Succeeded([@ EXCEPT !.reply = TRUE], o)]
    /\ pool' = Return(dispose)
    /\ UNCHANGED <<cur, pc, rc, reader, disposed, leftover>>

\* the client connects again: it gets a new object, with pools of its own
Reconnect ==
    /\ closed
    /\ pool' = [r \in Requests |-> 1]
    /\ req' = [r \in Requests |-> Unused]
    /\ rc' = TRUE
    /\ reader' = [state |-> "none", req |-> None]
    /\ disposed' = FALSE
    /\ leftover' = FALSE
    /\ closed' = FALSE
    /\ UNCHANGED <<cur, pc, dispose>>
-----------------------------------------------------------------------------
Handle ==
    \/ Fail \/ Create \/ DeleteMissing \/ Delete \/ Dispose
    \/ Write \/ WriteNothing \/ ReadRefused \/ ReadFails \/ Read
    \/ Done

Next ==
    \/ \E r \in Requests, op \in Operations, reliable, reply \in BOOLEAN :
          Receive(r, op, reliable, reply)
    \/ Handle \/ Expire \/ Obstruct \/ Close \/ Reconnect

Spec == Init /\ [][Next]_vars

\* a handler that has started goes on to its end, and a session that is
\* disposed of is closed if it can be finalized; no message and no timeout is
\* owed
LiveSpec == Spec /\ WF_vars(Handle) /\ WF_vars(~leftover /\ Close)
-----------------------------------------------------------------------------
(* Properties *)

\* the request may be replied to: allocated, and its reply not yet sent or
\* put off until the session is closed
Owes(r) == pool[r] = 0 /\ (req[r].reply \/ r = dispose)

(* NANO_PCOND in reply_to_operation: whoever replies to a request of a      *)
(* reliable stream, a callback, the end of on_submsg or the close of the    *)
(* session, finds the buffer that was allocated for the reply.              *)
ReplyHasBuffer == \A r \in Requests : Owes(r) /\ req[r].reliable => req[r].mbuf

(* A buffer is never twice in the pool, and nobody who will use it has a    *)
(* buffer that is in the pool: neither the handler (but for the end of a    *)
(* WRITE) nor the state of a reader nor the client that is to be closed.    *)
PoolSound ==
    /\ \A r \in Requests : pool[r] <= 1
    /\ \A r \in {reader.req, dispose} \cap Requests : pool[r] = 0
    /\ cur # None => \/ pool[cur] = 0
                     \/ pc # "handle" /\ rc /\ req[cur].op[1] = "write"

(* Between two submessages every buffer is in the pool, without the buffer  *)
(* of a reply, or the client that is to be closed has it, or its request is *)
(* a READ: no other operation, however it ends, loses a request or a        *)
(* message of a reliable stream.                                            *)
OnlyReadsLeak ==
    pc = "idle" => \A r \in Requests :
        req[r].op[1] # "read" =>
            \/ r = dispose
            \/ pool[r] = 1 /\ ~req[r].mbuf

(* A client gets at most one reply to a request, and it is true: after a    *)
(* success the operation has been carried out, after an error it has not,   *)
(* although a callback may reply before the operation is over and the       *)
(* operation be undone when it cannot.  A WRITE in a format that is not     *)
(* implemented is the exception.                                            *)
AnswersTrue ==
    pc = "idle" => \A r \in Requests :
        /\ Len(req[r].answers) <= 1
        /\ req[r].answers = <<"ok">> /\ req[r].op # <<"write", "samples">>
               => req[r].carried
        /\ req[r].answers = <<"error">> => ~req[r].carried

(* Every CREATE, DELETE and confirmed WRITE that is accepted on a reliable  *)
(* stream is replied to, with the session expiring in between, and so is    *)
(* the DELETE of the client itself if its session can be finalized          *)
(* (NddsAgent.c:3113-3129): not once the client has deleted any object.     *)
ReliableAnswered ==
    \A r \in Requests :
        Owes(r) /\ req[r].reliable /\ req[r].op[1] # "read"
            ~> req[r].answers # <<>> \/ (r = dispose /\ leftover)
=============================================================================
