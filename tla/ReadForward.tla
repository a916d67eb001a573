---------------------------- MODULE ReadForward ----------------------------
(***************************************************************************)
(* How samples travel from one DDS DataReader to the clients that read it. *)
(* Each session has at most one read request; the requests of all sessions *)
(* share the cache of the reader and are listed in it.  The threads are    *)
(*   - the receive thread of a session (READ_DATA, ACKNACK, reset),        *)
(*   - the event thread, which reads the cache for a request and sends     *)
(*     what it finds (NDDSA_Agent_on_data_on_reader),                      *)
(*   - a DDS thread, which receives samples, and                           *)
(*   - the cleanup thread (NDDSA_Agent_on_cleanup_reads), which ends the   *)
(*     finite requests that are complete.                                  *)
(* A step is what a thread does while it has a session locked.  How the    *)
(* session itself ends is in ClientSessions; here sessions stay.           *)
(***************************************************************************)
EXTENDS Naturals, Sequences, FiniteSets, FiniteSetsExt

CONSTANTS
    Sessions,       \* sessions that read from the DataReader
    Streams,        \* streams of a session
    Reliable,       \* those on which samples stay on loan until acknowledged
    Unknown,        \* id of a stream the session does not have
    Limits,         \* max_samples a client may ask for; 0: no maximum
    Timed,          \* sessions whose requests have a maximum time
    StartPoint,     \* properties.read_start_point
    Faults,         \* faults that may happen: "send", "message"
    MaxSn,          \* bound: samples received by the DataReader
    MaxReads        \* bound: READ_DATA messages per session

ASSUME ReadAssumption ==
    /\ IsFiniteSet(Streams)
    /\ Reliable \subseteq Streams
    /\ Unknown \notin Streams
    /\ Limits \subseteq Nat
    /\ Timed \subseteq Sessions
    /\ StartPoint \in {"FIRST_CACHED", "LAST_RETURNED", "LAST_FORWARDED"}
    /\ Faults \subseteq {"send", "message"}
    /\ MaxSn \in Nat
    /\ MaxReads \in Nat

VARIABLES
    \* NDDSA_Reader and the cache of its DataReader
    sn,         \* reception sequence number of the last sample
    cache,      \* samples in the cache
    dismissed,  \* dismiss_sn
    requests,   \* sessions whose request is in the list
    listener,   \* the DATA_AVAILABLE listener is installed
    \* NDDSA_AttachedResource and NDDSA_Read, one per session
    req,        \* read_req: "none", "live", "cancelled" or "freed"
    last,       \* last_sample of the request
    rcvd,       \* samples_rcvd
    max,        \* samples_max
    elapsed,    \* max_elapsed_ts has passed since start_ts
    complete,   \* status COMPLETE
    samples,    \* samples: those on loan
    forwarded,  \* last_sample_forwarded of the attached resource
    returned,   \* last_sample_returned of the attached resource
    event,      \* event of the request in the queue: "none", "data", "cancel"
    \* NANO_XRCE_ReaderState and the client's list of forwards
    forward,    \* reader_state->forward
    stream,     \* reader_state->stream_id
    limit,      \* reader_state->read_spec_dds.max_samples
    forwards,   \* client->forwards: <<sample, stream>>
    \* threads
    waiter,     \* who waits for the request to be cancelled, and why
    cond,       \* trigger value of cond_cleanup_reads
    todo,       \* sessions the cleanup thread has not visited in this pass
    reads,      \* READ_DATA messages received so far
    \* history
    delivered,  \* batches of samples sent to the client
    base        \* dismiss_sn when the request was created

readerVars == <<sn, cache, dismissed>>
listVars   == <<requests, listener>>
countVars  == <<rcvd, elapsed, complete, samples>>
pointVars  == <<forwarded, returned>>
stateVars  == <<forward, stream, limit>>
passVars   == <<cond, todo>>
vars == <<readerVars, listVars, req, last, max, countVars, pointVars, event,
          stateVars, forwards, waiter, passVars, reads, delivered, base>>

Sn == 1..MaxSn

\* NDDSA_Reader
ReaderType ==
    /\ sn \in 0..MaxSn
    /\ cache \subseteq Sn
    /\ dismissed \in 0..MaxSn
    /\ requests \subseteq Sessions
    /\ listener \in BOOLEAN

\* NDDSA_Read, and what NDDSA_AttachedResource keeps of it
RequestType ==
    /\ req \in [Sessions -> {"none", "live", "cancelled", "freed"}]
    /\ last \in [Sessions -> 0..MaxSn]
    /\ rcvd \in [Sessions -> Nat]
    /\ max \in [Sessions -> Nat]
    /\ elapsed \in [Sessions -> BOOLEAN]
    /\ complete \in [Sessions -> BOOLEAN]
    /\ samples \in [Sessions -> SUBSET Sn]
    /\ forwarded \in [Sessions -> 0..MaxSn]
    /\ returned \in [Sessions -> 0..MaxSn]
    /\ event \in [Sessions -> {"none", "data", "cancel"}]

\* NANO_XRCE_ReaderState and NANO_XRCE_ForwardDataRequest
ForwardType ==
    /\ forward \in [Sessions -> BOOLEAN]
    /\ stream \in [Sessions -> Streams \cup {Unknown}]
    /\ limit \in [Sessions -> Nat]
    /\ forwards \in [Sessions -> SUBSET (Sn \X Streams)]

\* threads and history
ThreadType ==
    /\ waiter \in [Sessions -> {"none", "read", "drop", "cleanup"}]
    /\ cond \in BOOLEAN
    /\ todo \subseteq Sessions
    /\ reads \in [Sessions -> Nat]
    /\ delivered \in [Sessions -> Seq(SUBSET Sn)]
    /\ base \in [Sessions -> 0..MaxSn]

\* Every variable has its type: the places a request starts to read from and
\* the samples taken out of the cache are numbers of samples received.
TypeOK == ReaderType /\ RequestType /\ ForwardType /\ ThreadType

Init ==
    /\ sn = 0
    /\ cache = {}
    /\ dismissed = 0
    /\ requests = {}
    /\ listener = FALSE
    /\ req = [s \in Sessions |-> "none"]
    /\ last = [s \in Sessions |-> 0]
    /\ rcvd = [s \in Sessions |-> 0]
    /\ max = [s \in Sessions |-> 0]
    /\ elapsed = [s \in Sessions |-> FALSE]
    /\ complete = [s \in Sessions |-> FALSE]
    /\ samples = [s \in Sessions |-> {}]
    /\ forwarded = [s \in Sessions |-> 0]
    /\ returned = [s \in Sessions |-> 0]
    /\ event = [s \in Sessions |-> "none"]
    /\ forward = [s \in Sessions |-> FALSE]
    /\ stream = [s \in Sessions |-> Unknown]
    /\ limit = [s \in Sessions |-> 0]
    /\ forwards = [s \in Sessions |-> {}]
    /\ waiter = [s \in Sessions |-> "none"]
    /\ cond = FALSE
    /\ todo = {}
    /\ reads = [s \in Sessions |-> 0]
    /\ delivered = [s \in Sessions |-> <<>>]
    /\ base = [s \in Sessions |-> 0]
-----------------------------------------------------------------------------
(* Helpers.  A definition whose comment starts with "Mutant" plants a bug in *)
(* the one that follows it, to show that a property notices; nothing else   *)
(* uses it.                                                                 *)

\* NDDSA_Read_is_complete, the second and third conjunct for a finite request
IsFinite(s) == max[s] > 0 \/ s \in Timed
IsComplete(s, n) == IsFinite(s) /\ (s \in Timed => elapsed[s]) /\ n >= max[s]

\* the receive thread of the session is not inside a handler that waits
Idle(s) == waiter[s] \notin {"read", "drop"} /\ req[s] # "freed"

\* Mutant: a new request starts after the next sample
StartSkipsOne(s) == IF StartPoint = "FIRST_CACHED" THEN 0 ELSE forwarded[s] + 1

\* Mutant: a new request always starts with the first sample of the cache
StartAtFirst(s) == 0

\* the sample after which a new request starts to read
StartSn(s) ==
    CASE StartPoint = "FIRST_CACHED" -> 0
      [] StartPoint = "LAST_RETURNED" -> returned[s]
      [] StartPoint = "LAST_FORWARDED" -> forwarded[s]

\* Mutant: the listener is not installed for the first request
ListedSilent(s) ==
    /\ requests' = requests \cup {s}
    /\ UNCHANGED listener

(* Changes of the list of requests come with the listener, which is          *)
(* installed with the first request and removed with the last one.           *)
Listed(s) ==
    /\ requests' = requests \cup {s}
    /\ listener' = (listener \/ requests = {})

\* Mutant: the listener is removed with any request
UnlistedSilent(s) ==
    /\ requests' = requests \ {s}
    /\ listener' = FALSE

\* Mutant: the request stays in the list of the reader
StaysListed(s) == UNCHANGED listVars

\* NDDSA_Reader_request_complete
Unlisted(s) ==
    /\ requests' = requests \ {s}
    /\ listener' = (listener /\ requests # {s})

(* NDDSA_Agent_cancel_readEA up to its wait, for a request without samples  *)
(* on loan: its event is posted at once, marked as a cancellation.          *)
Cancel(s, who) ==
    /\ req' = [req EXCEPT ![s] = "cancelled"]
    /\ event' = [event EXCEPT ![s] = "cancel"]
    /\ waiter' = [waiter EXCEPT ![s] = who]
    /\ Unlisted(s)

\* NDDSA_Agent_read once readEA has made a new request: it is ready to be
\* read, or cancelled again because its reply cannot be sent
OnReadCreated(s) ==
    /\ forward' = [forward EXCEPT ![s] = TRUE]
    /\ \/ /\ req' = [req EXCEPT ![s] = "live"]
          /\ event' = [event EXCEPT ![s] = "data"]
          /\ waiter' = [waiter EXCEPT ![s] = "none"]
          /\ Listed(s)
       \/ /\ "send" \in Faults
          /\ Cancel(s, "drop")

\* NDDSA_Agent_readEA where there is no request
NewRequest(s) ==
    /\ max' = [max EXCEPT ![s] = limit'[s]]
    /\ last' = [last EXCEPT ![s] = StartSn(s)]
    /\ base' = [base EXCEPT ![s] = dismissed]
    /\ rcvd' = [rcvd EXCEPT ![s] = 0]
    /\ elapsed' = [elapsed EXCEPT ![s] = FALSE]
    /\ complete' = [complete EXCEPT ![s] = FALSE]
    /\ samples' = [samples EXCEPT ![s] = {}]
    /\ OnReadCreated(s)

\* Mutant: the forwards are dismissed, the samples stay on loan
DismissForwards(s, out) ==
    /\ forwards' = [forwards EXCEPT ![s] = @ \ out]
    /\ UNCHANGED <<samples, rcvd, complete, returned>>

(* NANO_XRCE_ProxyClient_dismiss_forward_request for a set of forwards, and *)
(* NDDSA_Agent_return_loan for their samples: a finite request may become   *)
(* complete (see Acknowledged for how it then ends).  Nothing writes the     *)
(* sequence number return_loan finds in a sample (dds_sn): it may be any.   *)
(* last_sample_returned is followed only where a request starts from it.    *)
Dismiss(s, out) ==
    /\ forwards' = [forwards EXCEPT ![s] = @ \ out]
    /\ samples' = [samples EXCEPT ![s] = @ \ {f[1] : f \in out}]
    /\ rcvd' = [rcvd EXCEPT ![s] = @ + Cardinality(out)]
    /\ complete' = [complete EXCEPT ![s] =
                       @ \/ (out # {} /\ IsComplete(s, rcvd[s] + Cardinality(out)))]
    /\ \E dds_sn \in 0..MaxSn :
          returned' = IF StartPoint = "LAST_RETURNED" /\ out # {} /\ dds_sn > returned[s]
                      THEN [returned EXCEPT ![s] = dds_sn] ELSE returned
-----------------------------------------------------------------------------
(* DDS thread *)

(* A sample arrives; NDDSA_Reader_notify_data_available posts the event of  *)
(* every request in the list.                                               *)
DataArrives ==
    /\ sn < MaxSn
    /\ sn' = sn + 1
    /\ cache' = cache \cup {sn + 1}
    /\ event' = [s \in Sessions |-> IF listener /\ s \in requests THEN "data"
                                                                 ELSE event[s]]
    /\ UNCHANGED <<dismissed, listVars, req, last, max, countVars, pointVars,
                   stateVars, forwards, waiter, passVars, reads, delivered, base>>

\* the maximum time of a request passes
TimePasses(s) ==
    /\ s \in Timed /\ req[s] = "live" /\ ~elapsed[s]
    /\ elapsed' = [elapsed EXCEPT ![s] = TRUE]
    /\ UNCHANGED <<readerVars, listVars, req, last, max, rcvd, complete, samples,
                   pointVars, event, stateVars, forwards, waiter, passVars, reads,
                   delivered, base>>
-----------------------------------------------------------------------------
(* Receive threads *)

(* NANO_XRCE_Agent_on_submsg_read.  The forwards of the stream the client   *)
(* asks for, and only those, are dismissed; then NDDSA_Agent_readEA cancels *)
(* the request there is.  If it cannot, because other samples are on loan   *)
(* or because the cleanup thread is cancelling it, the request goes back to *)
(* its pool although it is still in use.                                    *)
ReceiveRead(s, st, m) ==
    /\ Idle(s) /\ reads[s] < MaxReads
    /\ reads' = [reads EXCEPT ![s] = @ + 1]
    /\ stream' = [stream EXCEPT ![s] = st]
    /\ limit' = [limit EXCEPT ![s] = m]
    /\ LET out == {f \in forwards[s] : st \in Reliable /\ f[2] = st}
           onLoan == samples[s] \ {f[1] : f \in out}
       IN  \/ /\ req[s] = "none"
              /\ NewRequest(s)
              /\ UNCHANGED <<forwards, returned>>
           \/ /\ req[s] = "live" /\ onLoan = {}
              /\ Dismiss(s, out)
              /\ Cancel(s, "read")
              /\ forward' = [forward EXCEPT ![s] = FALSE]
              /\ UNCHANGED <<max, last, base, elapsed>>
           \/ /\ req[s] = "cancelled" \/ (req[s] = "live" /\ onLoan # {})
              /\ Dismiss(s, out)
              /\ req' = [req EXCEPT ![s] = "freed"]
              /\ forward' = [forward EXCEPT ![s] = FALSE]
              /\ UNCHANGED <<max, last, base, elapsed, event, waiter, listVars>>
    /\ UNCHANGED <<readerVars, forwarded, passVars, delivered>>

\* on_submsg_read for a stream there is not: it fails before it reaches the
\* request, which goes on, but what it reads is dropped
ReceiveBadRead(s) ==
    /\ "message" \in Faults
    /\ Idle(s) /\ reads[s] < MaxReads
    /\ reads' = [reads EXCEPT ![s] = @ + 1]
    /\ forward' = [forward EXCEPT ![s] = FALSE]
    /\ stream' = [stream EXCEPT ![s] = Unknown]
    /\ UNCHANGED <<readerVars, listVars, req, last, max, countVars, pointVars,
                   event, limit, forwards, waiter, passVars, delivered,
                   base>>

(* NANO_XRCE_ProxyClient_on_send_complete (or on_msg_lost): the oldest      *)
(* message of a stream is acknowledged, its sample goes back, and the       *)
(* request ends if it was the last it needed.                               *)
Acknowledged(s, f) ==
    /\ Idle(s) /\ f \in forwards[s]
    /\ \A g \in forwards[s] : g[2] = f[2] => g[1] >= f[1]
    /\ Dismiss(s, {f})
    /\ IF IsComplete(s, rcvd[s] + 1) /\ samples[s] = {f[1]}
       THEN Cancel(s, "drop")
       ELSE UNCHANGED <<req, event, waiter, listVars>>
    /\ UNCHANGED <<readerVars, last, max, elapsed, forwarded, stateVars, passVars,
                   reads, delivered, base>>

\* the session is reset, or the reader deleted: every sample goes back and
\* the request is cancelled
Drop(s) ==
    /\ Idle(s) /\ req[s] = "live"
    /\ Dismiss(s, forwards[s])
    /\ Cancel(s, "drop")
    /\ UNCHANGED <<readerVars, last, max, elapsed, forwarded, stateVars, passVars,
                   reads, delivered, base>>

\* NDDSA_Agent_wait_for_semaphoreEA returns to cancel_readEA
Cancelled(s) ==
    /\ req[s] = "cancelled" /\ event[s] = "none"
    /\ \/ /\ waiter[s] = "read"
          /\ UNCHANGED limit
          /\ NewRequest(s)
       \/ /\ waiter[s] # "read"
          /\ req' = [req EXCEPT ![s] = "none"]
          /\ waiter' = [waiter EXCEPT ![s] = "none"]
          /\ UNCHANGED <<listVars, last, max, countVars, event, forward, limit,
                         base>>
    /\ UNCHANGED <<readerVars, pointVars, stream, forwards, passVars, reads,
                   delivered>>
-----------------------------------------------------------------------------
(* Event thread: NDDSA_Agent_on_data_on_reader *)

\* a cancellation
RunCancel(s) ==
    /\ event[s] = "cancel"
    /\ event' = [event EXCEPT ![s] = "none"]
    /\ UNCHANGED <<readerVars, listVars, req, last, max, countVars, pointVars,
                   stateVars, forwards, waiter, passVars, reads, delivered, base>>

\* Mutant: the cleanup thread is told only of a request it knows already
CompleteUntold(s) ==
    /\ event[s] = "data" /\ req[s] = "live"
    /\ complete[s] \/ IsComplete(s, rcvd[s])
    /\ event' = [event EXCEPT ![s] = "none"]
    /\ complete' = [complete EXCEPT ![s] = TRUE]
    /\ cond' = (cond \/ complete[s])
    /\ UNCHANGED <<readerVars, listVars, req, last, max, rcvd, elapsed, samples,
                   pointVars, stateVars, forwards, waiter, todo, reads, delivered,
                   base>>

\* a request that is complete: the cleanup thread is told to end it
RunComplete(s) ==
    /\ event[s] = "data" /\ req[s] = "live"
    /\ complete[s] \/ IsComplete(s, rcvd[s])
    /\ event' = [event EXCEPT ![s] = "none"]
    /\ complete' = [complete EXCEPT ![s] = TRUE]
    /\ cond' = TRUE
    /\ UNCHANGED <<readerVars, listVars, req, last, max, rcvd, elapsed, samples,
                   pointVars, stateVars, forwards, waiter, todo, reads, delivered,
                   base>>

\* samples of the cache the request has not passed
Fresh(s) == {n \in cache : n > last[s]}

\* Mutant: what one request has passed is dismissed
DismissLargest(passed) ==
    CHOOSE m \in {passed[r] : r \in requests} : \A r \in requests : m >= passed[r]

\* the sample every request in the list has passed
DismissSn(passed) ==
    CHOOSE m \in {passed[r] : r \in requests} : \A r \in requests : m <= passed[r]

(* NDDSA_Reader_requests_updated: the samples all requests have passed are  *)
(* taken out of the cache.                                                  *)
RequestsUpdated(passed) ==
    LET upto  == DismissSn(passed)
        taken == {n \in cache : n <= upto}
    IN  IF upto <= dismissed \/ taken = {}
        THEN UNCHANGED <<cache, dismissed>>
        ELSE /\ cache' = cache \ taken
             /\ dismissed' = Max(taken)

\* NANO_XRCE_Agent_on_data_received says that it keeps the sample
Retained(s) == forward[s] /\ stream[s] \in Reliable

(* NDDSA_Agent_read_from_readerEA for the samples up to m: each is sent to  *)
(* the client (or dropped) in NANO_XRCE_Agent_on_data_received, and stays   *)
(* on loan if the stream is reliable.                                       *)
Forwarded(s, m) ==
    LET out == {n \in Fresh(s) : n <= m}
        loan == Retained(s)
    IN  /\ last' = [last EXCEPT ![s] = m]
        /\ forwarded' = [forwarded EXCEPT ![s] = IF out = {} THEN @ ELSE m]
        /\ returned' = IF StartPoint = "LAST_RETURNED" /\ ~loan /\ out # {}
                       THEN [returned EXCEPT ![s] = m] ELSE returned
        /\ samples' = [samples EXCEPT ![s] = IF loan THEN @ \cup out ELSE @]
        /\ forwards' = [forwards EXCEPT ![s] =
                           IF loan THEN @ \cup (out \X {stream[s]}) ELSE @]
        /\ rcvd' = [rcvd EXCEPT ![s] = IF loan THEN @ ELSE @ + Cardinality(out)]
        /\ delivered' = [delivered EXCEPT ![s] =
                            IF forward[s] /\ out # {} THEN Append(@, out) ELSE @]
        /\ IF out = {} THEN UNCHANGED <<cache, dismissed>>
                       ELSE RequestsUpdated(last')

Reading(s) ==
    /\ event[s] = "data" /\ req[s] = "live"
    /\ ~complete[s] /\ ~IsComplete(s, rcvd[s])
    /\ UNCHANGED <<sn, listVars, req, max, elapsed, stateVars, waiter, todo, reads,
                   base>>

\* everything there is could be sent
RunAll(s) ==
    /\ Reading(s)
    /\ \E m \in {last[s]} \cup Fresh(s) :
          /\ \A n \in Fresh(s) : n <= m
          /\ Forwarded(s, m)
    /\ event' = [event EXCEPT ![s] = "none"]
    /\ complete' = [complete EXCEPT ![s] = IsComplete(s, rcvd'[s])]
    /\ cond' = (cond \/ complete'[s])

(* A sample has to wait, for the pace the client asked for or for room in   *)
(* its stream: the event is posted again, and what was sent stays sent.     *)
RunAgain(s) ==
    /\ Reading(s)
    /\ \E m \in {last[s]} \cup Fresh(s) :
          /\ \E n \in Fresh(s) : n > m
          /\ Forwarded(s, m)
    /\ UNCHANGED <<event, complete, cond>>

\* a sample could not be sent: the request waits for the next one to arrive
RunFail(s) ==
    /\ "send" \in Faults
    /\ Reading(s)
    /\ \E m \in {last[s]} \cup Fresh(s) :
          /\ \E n \in Fresh(s) : n > m
          /\ Forwarded(s, m)
    /\ event' = [event EXCEPT ![s] = "none"]
    /\ UNCHANGED <<complete, cond>>
-----------------------------------------------------------------------------
(* Cleanup thread: NDDSA_Agent_on_cleanup_reads *)

Cleaning == \E s \in Sessions : waiter[s] = "cleanup"

CleanStart ==
    /\ cond /\ todo = {} /\ ~Cleaning
    /\ cond' = FALSE
    /\ todo' = Sessions
    /\ UNCHANGED <<readerVars, listVars, req, last, max, countVars, pointVars,
                   event, stateVars, forwards, waiter, reads, delivered, base>>

\* NDDSA_Agent_find_next_session_w_completed_read rejects the session
CleanSkip(s) ==
    /\ s \in todo /\ ~Cleaning
    /\ req[s] = "none" \/ ~complete[s]
    /\ todo' = todo \ {s}
    /\ UNCHANGED <<readerVars, listVars, req, last, max, countVars, pointVars,
                   event, stateVars, forwards, waiter, cond, reads, delivered,
                   base>>

(* A complete request is cancelled.  If samples are on loan,                *)
(* on_release_read_samples first dismisses the forwards of the reader's     *)
(* stream (all of them, if the session has no such stream), and the last    *)
(* of them to come back cancels the request.                                *)
CleanRead(s) ==
    /\ s \in todo /\ ~Cleaning
    /\ req[s] = "live" /\ complete[s]
    /\ LET out == {f \in forwards[s] : stream[s] \in {f[2], Unknown}}
       IN  /\ Dismiss(s, out)
           /\ IF samples[s] = {f[1] : f \in out}
              THEN Cancel(s, "cleanup")
              ELSE UNCHANGED <<req, event, waiter, listVars>>
    /\ todo' = todo \ {s}
    /\ UNCHANGED <<readerVars, last, max, elapsed, forwarded, stateVars, cond,
                   reads, delivered, base>>

\* a request that is being cancelled already ends the pass
CleanFail(s) ==
    /\ s \in todo /\ ~Cleaning
    /\ req[s] = "cancelled" /\ complete[s]
    /\ todo' = {}
    /\ UNCHANGED <<readerVars, listVars, req, last, max, countVars, pointVars,
                   event, stateVars, forwards, waiter, cond, reads, delivered,
                   base>>
-----------------------------------------------------------------------------
Next ==
    \/ DataArrives
    \/ CleanStart
    \/ \E s \in Sessions :
          \/ TimePasses(s)
          \/ \E st \in Streams, m \in Limits \cup {limit[s]} : ReceiveRead(s, st, m)
          \/ ReceiveBadRead(s)
          \/ \E f \in forwards[s] : Acknowledged(s, f)
          \/ Drop(s) \/ Cancelled(s)
          \/ RunCancel(s) \/ RunComplete(s) \/ RunAll(s) \/ RunAgain(s) \/ RunFail(s)
          \/ CleanSkip(s) \/ CleanRead(s) \/ CleanFail(s)

Spec == Init /\ [][Next]_vars

(* The event thread runs what is in its queue, a thread whose wait is over  *)
(* goes on, and so does the cleanup thread.  A sample that has to wait for  *)
(* the pace or for room in the stream (RunAgain) is sent some day; clients  *)
(* and the DDS network owe nothing.                                         *)
Fairness ==
    /\ \A s \in Sessions :
          /\ WF_vars(RunCancel(s))
          /\ WF_vars(RunComplete(s))
          /\ WF_vars(RunAll(s))
          /\ WF_vars(Cancelled(s))
          /\ WF_vars(CleanSkip(s) \/ CleanRead(s) \/ CleanFail(s))
    /\ WF_vars(CleanStart)

LiveSpec == Spec /\ Fairness
-----------------------------------------------------------------------------
(* Properties *)

(* The list of the reader holds the requests of the attached resources that *)
(* are in use, and no other: the event thread and requests_updated follow   *)
(* its pointers.                                                            *)
RequestsAllocated == \A s \in Sessions : s \in requests <=> req[s] = "live"

(* Why: only READ_DATA, for a request it cannot cancel, takes one out of use *)
(* and leaves it listed, and with one stream it can always cancel it.       *)
OneStream == \A r \in Reliable, st \in Streams : st = r
ListInv ==
    /\ \A s \in Sessions : req[s] # "freed" => (s \in requests <=> req[s] = "live")
    /\ \A s \in Sessions : forwards[s] \subseteq Sn \X Reliable
    /\ OneStream => \A s \in Sessions : req[s] = "freed" => s \notin requests

(* The list of forwards of the XRCE client and the list of samples on loan  *)
(* of the DDS side agree: each forward has a sample of its own to return,   *)
(* in the request there is, and no sample is left that nobody will return.  *)
LoansForwarded ==
    \A s \in Sessions :
        /\ samples[s] = {f[1] : f \in forwards[s]}
        /\ \A f, g \in forwards[s] : f[1] = g[1] => f = g

(* No request loses a sample to the others that share the cache: what has   *)
(* arrived, which the request has not passed and which had not been taken   *)
(* out of the cache before it was created, is in the cache.                 *)
NoSampleLost ==
    \A s \in requests : \A n \in 1..sn :
        n > last[s] /\ n > base[s] => n \in cache

(* Why: the cache holds the samples after the last one taken out of it, and  *)
(* requests_updated took out none that a request in the list was to read.   *)
CacheInv ==
    /\ dismissed <= sn
    /\ cache = {n \in Sn : dismissed < n /\ n <= sn}
    /\ \A s \in Sessions : req[s] = "live" => s \in requests
    /\ \A s \in requests : dismissed <= last[s] \/ dismissed <= base[s]

(* A request without a live owner has nothing on loan, and a live one only  *)
(* samples it has passed.                                                   *)
LoanInv ==
    /\ LoansForwarded
    /\ \A s \in Sessions :
          /\ req[s] \in {"none", "cancelled"} => forwards[s] = {}
          /\ req[s] = "live" => \A f \in forwards[s] : f[1] <= last[s]

(* What the DDS side has passed, what it says it forwarded and what the      *)
(* client was sent agree, where requests start after the last sample sent.  *)
DeliveryInv ==
    StartPoint = "LAST_FORWARDED" =>
        \A s \in Sessions :
            /\ req[s] = "live" => last[s] = forwarded[s]
            /\ \A i \in DOMAIN delivered[s] :
                  \A n \in delivered[s][i] : n <= forwarded[s]

(* The inductive invariant: it holds also in the behaviours in which a      *)
(* request is returned to its pool too early.                               *)
ReadInv == CacheInv /\ LoanInv /\ DeliveryInv

(* A client whose reads start after the last sample it was sent gets every  *)
(* sample at most once and in the order of arrival, over all its requests.  *)
Delivery == INSTANCE SampleDelivery WITH received <- sn
DeliveredInOrder == Delivery!Spec

(* A sample in the cache is forwarded to every request that has not passed  *)
(* it, unless the request ends: no notification is lost while requests come *)
(* and go.                                                                  *)
Waits(s, n) == req[s] = "live" /\ ~complete[s] /\ n \in Fresh(s)
SampleForwarded ==
    \A s \in Sessions, n \in Sn : Waits(s, n) ~> ~Waits(s, n)

(* The same as an invariant: where sending does not fail, a request that    *)
(* has a sample to read always has its event in the queue.                  *)
SampleNoticed ==
    "send" \notin Faults =>
        \A s \in Sessions : (\E n \in Sn : Waits(s, n)) => event[s] = "data"

(* Why: the listener is there as long as a request is in the list, and the  *)
(* event of a live request is never a cancellation.                         *)
NoticeInv ==
    /\ listener <=> requests # {}
    /\ \A s \in Sessions : event[s] = "cancel" => req[s] # "live"
    /\ SampleNoticed

(* A finite request that is complete and has no sample on loan ends.        *)
Over(s) == req[s] = "live" /\ complete[s] /\ samples[s] = {}
CompleteReadEnds == \A s \in Sessions : Over(s) ~> ~Over(s)
=============================================================================
