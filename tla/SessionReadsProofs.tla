------------------------- MODULE SessionReadsProofs -------------------------
(***************************************************************************)
(* More proofs about ClientSessions: the cancellation of reads across the  *)
(* threads, the sessions that are being reset, the loans of disposed       *)
(* clients, the heartbeats and the number of finalizations.                *)
(***************************************************************************)
EXTENDS ClientSessionsProofs

(* The invariant behind CloserKeepsSession and ClientFreedOnce holds        *)
(* throughout: who owns a session's record and its client is never in doubt.*)
THEOREM SessionInvariant == Spec => []SessionInv
<1>1. TypeOK /\ SessionInv /\ [Next]_vars => SessionInv'
  BY OwnerNext
<1> QED
  BY <1>1, OwnerInit, TypeCorrect, PTL DEF Spec

(* The threads: the event thread is not one of the receive threads.         *)
LEMMA ThreadFacts ==
    ASSUME TypeOK
    PROVE  /\ Workers \subseteq Threads /\ EventThread \in Threads
           /\ EventThread \notin Workers
           /\ \A t \in Threads : at[t] \in Keys /\ atGen[t] \in 0..MaxOpens
           /\ \A w \in Workers : at[w] \in Keys /\ atGen[w] \in 0..MaxOpens
  BY SessionsAssumption DEF Threads, TypeOK, ThreadType
-----------------------------------------------------------------------------
(***************************************************************************)
(* Sessions that are being reset.  A step leaves no session marked if it   *)
(* marks none and disturbs no thread that is waiting.                      *)
(***************************************************************************)
LEMMA ResetFrame ==
    ASSUME TypeOK,
           \A k \in Keys : present'[k] /\ resetting'[k] => present[k] /\ resetting[k],
           \A w \in Workers : pc[w] = "wait" =>
              pc'[w] = "wait" /\ at'[w] = at[w] /\ after'[w] = after[w]
    PROVE  MarkTakenOff
  BY DEF MarkTakenOff, LeftMarked, InReset

(* The same for a thread that was not waiting and does something else.      *)
LEMMA ResetIdleFrame ==
    ASSUME TypeOK, UNCHANGED <<present, resetting>>,
           NEW t \in Threads, pc[t] # "wait",
           NEW s, NEW r, NEW k,
           pc' = [pc EXCEPT ![t] = s],
           at' = at \/ at' = [at EXCEPT ![t] = k],
           after' = after \/ after' = [after EXCEPT ![t] = r]
    PROVE  MarkTakenOff
<1>1. \A w \in Workers : pc[w] = "wait" =>
          pc'[w] = "wait" /\ at'[w] = at[w] /\ after'[w] = after[w]
  BY ThreadFacts DEF TypeOK, ThreadType
<1> QED
  BY <1>1, ResetFrame

LEMMA ResetNext ==
    ASSUME "send" \notin Faults, TypeOK, [Next]_vars
    PROVE  MarkTakenOff
<1>s. SendOutcomes = {TRUE}
  BY DEF SendOutcomes
<1>t. Workers \subseteq Threads /\ EventThread \in Threads /\ EventThread \notin Workers
  BY ThreadFacts
<1>1. ASSUME NEW w \in Workers, NEW k \in Keys, OpenNew(w, k)
      PROVE  MarkTakenOff
  <2>1. \A j \in Keys : present'[j] /\ resetting'[j] => present[j] /\ resetting[j]
    BY <1>1 DEF OpenNew, TypeOK, RecordType
  <2> QED
    BY <1>1, <2>1, ResetFrame DEF OpenNew, threadVars
<1>2. ASSUME NEW w \in Workers, NEW k \in Keys, OpenReset(w, k)
      PROVE  MarkTakenOff
  <2>0. UNCHANGED present /\ pc[w] = "idle"
    BY <1>2 DEF OpenReset
  <2>1. CASE UNCHANGED threadVars /\ ResetDone(k, TRUE)
    <3>1. \A j \in Keys : resetting'[j] => resetting[j]
      BY <2>1 DEF ResetDone, TypeOK, RecordType
    <3> QED
      BY <2>0, <2>1, <3>1, ResetFrame DEF threadVars
  <2>2. ASSUME NEW r \in {"reset", "resetLast"}, WaitForRead(w, k, r),
               resetting' = [resetting EXCEPT ![k] = TRUE]
        PROVE  MarkTakenOff
    <3>1. pc'[w] = "wait" /\ at'[w] = k /\ after'[w] = r
      BY <2>2, <1>t DEF WaitForRead, TypeOK, ThreadType
    <3>2. \A v \in Workers \ {w} : pc'[v] = pc[v] /\ at'[v] = at[v] /\ after'[v] = after[v]
      BY <2>2, <1>t DEF WaitForRead, TypeOK, ThreadType
    <3>3. \A j \in Keys \ {k} : resetting'[j] = resetting[j]
      BY <2>2 DEF TypeOK, RecordType
    <3> QED
      BY <2>0, <3>1, <3>2, <3>3 DEF MarkTakenOff, LeftMarked, InReset
  <2>3. CASE read[k] = "cancelling" /\ UNCHANGED threadVars
             /\ resetting' = [resetting EXCEPT ![k] = TRUE]
    <3>1. \A j \in Keys \ {k} : resetting'[j] = resetting[j]
      BY <2>3 DEF TypeOK, RecordType
    <3> QED
      BY <2>0, <2>3, <3>1 DEF MarkTakenOff, LeftMarked, InReset, threadVars
  <2> QED
    BY <1>2, <1>s, <2>1, <2>2, <2>3 DEF OpenReset
<1>3. ASSUME NEW w \in Workers, NEW k \in Keys,
             \/ ReceiveOther(w, k) \/ ReceiveRead(w, k) \/ ReceiveAck(w, k)
             \/ ReceiveDeleteObject(w, k)
      PROVE  MarkTakenOff
  <2>0. UNCHANGED <<present, resetting>> /\ pc[w] # "wait"
    BY <1>3 DEF ReceiveOther, ReceiveRead, ReceiveAck, ReceiveDeleteObject, Receive,
       recVars
  <2>1. CASE UNCHANGED threadVars
    BY <2>0, <2>1, ResetFrame DEF threadVars
  <2>2. ASSUME NEW r, WaitForRead(w, k, r) PROVE MarkTakenOff
    BY <2>0, <2>2, <1>t, ResetIdleFrame DEF WaitForRead
  <2> QED
    BY <1>3, <2>1, <2>2 DEF ReceiveOther, ReceiveRead, ReceiveAck, ReceiveDeleteObject
<1>4. ASSUME NEW w \in Workers, NEW k \in Keys, ReceiveDelete(w, k)
      PROVE  MarkTakenOff
  <2>1. UNCHANGED <<present, resetting>> /\ pc[w] = "idle"
    BY <1>4 DEF ReceiveDelete, Receive, recVars
  <2>2. \A v \in Workers \ {w} : pc'[v] = pc[v] /\ at'[v] = at[v] /\ after'[v] = after[v]
    BY <1>4, <1>t DEF ReceiveDelete, WaitForRead, TypeOK, ThreadType
  <2> QED
    BY <2>1, <2>2, ResetFrame
<1>5. ASSUME NEW w \in Workers, Close(w) PROVE MarkTakenOff
  <2>1. PICK s : pc' = [pc EXCEPT ![w] = s]
    BY <1>5 DEF Close
  <2> QED
    BY <1>5, <1>t, <2>1, ResetIdleFrame DEF Close
<1>6. ASSUME NEW w \in Workers, CloseResume(w) PROVE MarkTakenOff
  <2>1. \A j \in Keys : present'[j] /\ resetting'[j] => present[j] /\ resetting[j]
    BY <1>6 DEF CloseResume, TypeOK, RecordType
  <2>2. \A v \in Workers : pc[v] = "wait" =>
            pc'[v] = "wait" /\ at'[v] = at[v] /\ after'[v] = after[v]
    BY <1>6, <1>t DEF CloseResume, TypeOK, ThreadType
  <2> QED
    BY <2>1, <2>2, ResetFrame
<1>7. ASSUME NEW w \in Workers, CloseNotify(w) PROVE MarkTakenOff
  BY <1>7, <1>t, ResetIdleFrame DEF CloseNotify, recVars
<1>8. ASSUME NEW t \in Threads, ReadCancelled(t) PROVE MarkTakenOff
  <2>1. PICK s : pc' = [pc EXCEPT ![t] = s]
    BY <1>8 DEF ReadCancelled
  <2>2. UNCHANGED <<present, at, after>> /\ at[t] \in Keys
    BY <1>8, ThreadFacts DEF ReadCancelled
  <2>3. resetting' = [resetting EXCEPT ![at[t]] =
            CASE after[t] = "reset" -> FALSE
              [] after[t] = "resetLast" -> FALSE
              [] OTHER -> resetting[at[t]]]
    BY <1>8, <1>s DEF ReadCancelled
  <2>4. \A j \in Keys : resetting'[j] =>
            /\ resetting[j]
            /\ j = at[t] => after[t] \notin {"reset", "resetLast"}
    BY <2>2, <2>3 DEF TypeOK, RecordType
  <2>5. \A w \in Workers : w # t => pc'[w] = pc[w]
    BY <2>1, <1>t DEF TypeOK, ThreadType
  <2> QED
    BY <2>2, <2>4, <2>5 DEF MarkTakenOff, LeftMarked, InReset
<1>9. ASSUME NEW k \in Keys, DataArrives(k) \/ PopRead(k) PROVE MarkTakenOff
  BY <1>9, ResetFrame DEF DataArrives, PopRead, TakeEvent, recVars, threadVars
<1>10. ASSUME NEW k \in Keys, NEW g \in Gens, PopTimeout(k, g) \/ PopHeartbeat(k, g)
       PROVE  MarkTakenOff
  BY <1>10, ResetFrame DEF PopTimeout, PopHeartbeat, TakeEvent, recVars, threadVars
<1>11. CASE RunTimeoutCancel \/ RunTimeoutIgnored \/ RunRead \/ RunHeartbeat
  BY <1>11, ResetFrame DEF RunTimeoutCancel, RunTimeoutIgnored, RunRead, RunHeartbeat,
                           recVars, threadVars
<1>12. CASE RunTimeout
  <2>1. \A w \in Workers : pc'[w] = pc[w] /\ at'[w] = at[w] /\ after'[w] = after[w]
    BY <1>12, <1>t DEF RunTimeout, WaitForRead, threadVars, TypeOK, ThreadType
  <2> QED
    BY <1>12, <2>1, ResetFrame DEF RunTimeout
<1>13. CASE CleanStart \/ CleanEnd \/ CleanReadFail \/ ReadsResume
  BY <1>13, ResetFrame DEF CleanStart, CleanEnd, CleanReadFail, ReadsResume, ReadGone,
     recVars, threadVars
<1>14. ASSUME NEW k \in Keys,
              \/ CleanSkip(k) \/ CleanFail(k) \/ CleanRead(k)
              \/ ReadsCancel(k) \/ CleanResources(k)
       PROVE  MarkTakenOff
  BY <1>14, ResetFrame DEF CleanSkip, CleanFail, CleanRead, ReadsCancel, CleanResources,
     recVars, threadVars
<1>15. ASSUME NEW k \in Keys, CleanSession(k) PROVE MarkTakenOff
  <2>1. \A j \in Keys : present'[j] => present[j]
    BY <1>15 DEF CleanSession, FinalizeTimer, SessionFinalized, TypeOK, RecordType
  <2> QED
    BY <1>15, <2>1, ResetFrame DEF CleanSession, threadVars
<1>16. CASE CleanReadResume
  <2>1. \A j \in Keys : present'[j] => present[j]
    BY <1>16 DEF CleanReadResume, FinalizeTimer, SessionFinalized, TypeOK, RecordType
  <2> QED
    BY <1>16, <2>1, ResetFrame DEF CleanReadResume, threadVars
<1>17. CASE CleanTimerResume
  <2>1. \A j \in Keys : present'[j] => present[j]
    BY <1>17 DEF CleanTimerResume, SessionFinalized, TypeOK, RecordType
  <2> QED
    BY <1>17, <2>1, ResetFrame DEF CleanTimerResume, threadVars
<1>18. CASE UNCHANGED vars
  BY <1>18, ResetFrame DEF vars, recVars, threadVars
<1> QED
  BY <1>1, <1>2, <1>3, <1>4, <1>5, <1>6, <1>7, <1>8, <1>9, <1>10, <1>11, <1>12, <1>13,
     <1>14, <1>15, <1>16, <1>17, <1>18 DEF Next, Worker, EventStep, Cleanup, Pass

(* As long as clients can be answered, a session is left marked as          *)
(* resetting, with no thread in its reset, only by a reset that met the     *)
(* cancellation of its read by another thread, whatever the other threads   *)
(* do meanwhile.                                                            *)
THEOREM ResetMarkTransient == "send" \notin Faults => (Spec => ResettingIsTransient)
<1> SUFFICES ASSUME "send" \notin Faults PROVE Spec => ResettingIsTransient
  OBVIOUS
<1>1. TypeOK /\ [Next]_vars => [MarkTakenOff]_vars
  BY ResetNext
<1> QED
  BY <1>1, TypeCorrect, PTL DEF Spec, ResettingIsTransient
-----------------------------------------------------------------------------
(***************************************************************************)
(* The loans of disposed clients.  What is remembered of a disposed client *)
(* is never taken for a client of a later session of its key.              *)
(***************************************************************************)
DisposedInv ==
    /\ DisposedHasNoLoans
    /\ \A c \in disposed : c[2] <= gen[c[1]]

LEMMA DisposedFrame ==
    ASSUME TypeOK, DisposedInv, UNCHANGED <<gen, disposed>>,
           \A k \in Keys : present'[k] => present[k],
           \A k \in Keys : read'[k] \in {"loaned", "last"} =>
              read[k] \in {"loaned", "last"} \/ Client(k) \notin disposed
    PROVE  DisposedInv'
  BY DEF DisposedInv, DisposedHasNoLoans, Client

(* A client that is disposed now: its own loans are given back.             *)
LEMMA DisposedOne ==
    ASSUME TypeOK, DisposedInv, NEW k \in Keys, UNCHANGED <<gen, present>>,
           disposed' = disposed \cup {Client(k)},
           NEW r, r \notin {"loaned", "last"}, read' = [read EXCEPT ![k] = r]
    PROVE  DisposedInv'
<1>1. read'[k] = r /\ \A j \in Keys \ {k} : read'[j] = read[j]
  BY DEF TypeOK, RequestType
<1>2. DisposedHasNoLoans'
  BY <1>1 DEF DisposedInv, DisposedHasNoLoans, Client
<1>3. gen[k] \in 0..MaxOpens
  BY DEF TypeOK, RecordType
<1>4. \A c \in disposed' : c[2] <= gen[c[1]]
  BY <1>3, SessionsAssumption DEF DisposedInv, Client
<1> QED
  BY <1>2, <1>4 DEF DisposedInv

LEMMA DisposedNext ==
    ASSUME TypeOK, DisposedInv, [Next]_vars
    PROVE  DisposedInv'
<1>r. read \in [Keys -> {"none", "idle", "loaned", "last", "over", "cancelling"}]
  BY DEF TypeOK, RequestType
<1>1. ASSUME NEW w \in Workers, NEW k \in Keys, OpenNew(w, k) PROVE DisposedInv'
  <2>1. /\ UNCHANGED <<disposed, read>>
        /\ gen'[k] = gen[k] + 1 /\ gen[k] \in Nat
        /\ \A j \in Keys \ {k} : gen'[j] = gen[j] /\ present'[j] = present[j]
    BY <1>1, SessionsAssumption DEF OpenNew, readVars, TypeOK, RecordType
  <2>2. \A c \in disposed : /\ c[1] \in Keys /\ c[2] \in Nat /\ c = <<c[1], c[2]>>
                            /\ c[2] <= gen[c[1]]
    BY SessionsAssumption DEF TypeOK, ClientType, DisposedInv
  <2>3. \A c \in disposed : c[2] <= gen'[c[1]]
    <3> TAKE c \in disposed
    <3>1. CASE c[1] = k
      BY <2>1, <2>2, <3>1
    <3>2. CASE c[1] # k
      BY <2>1, <2>2, <3>2
    <3> QED
      BY <3>1, <3>2
  <2>4. <<k, gen'[k]>> \notin disposed
    BY <2>1, <2>2
  <2>5. DisposedHasNoLoans'
    BY <2>1, <2>4 DEF DisposedInv, DisposedHasNoLoans, Client
  <2> QED
    BY <2>1, <2>3, <2>5 DEF DisposedInv
<1>2. ASSUME NEW w \in Workers, NEW k \in Keys, OpenReset(w, k) PROVE DisposedInv'
  <2>1. \A j \in Keys : read'[j] \in {"loaned", "last"} => read[j] \in {"loaned", "last"}
    BY <1>2, <1>r DEF OpenReset, Cancel, Returned, readVars
  <2> QED
    BY <1>2, <2>1, DisposedFrame DEF OpenReset, proxyVars
<1>3. ASSUME NEW w \in Workers, NEW k \in Keys,
             \/ ReceiveOther(w, k) \/ ReceiveRead(w, k) \/ ReceiveAck(w, k)
             \/ ReceiveDeleteObject(w, k)
      PROVE  DisposedInv'
  <2>1. \A j \in Keys : read'[j] \in {"loaned", "last"} => read[j] \in {"loaned", "last"}
    BY <1>3, <1>r DEF ReceiveOther, ReceiveRead, ReceiveAck, ReceiveDeleteObject, Cancel,
       readVars
  <2>2. UNCHANGED <<gen, present, disposed>>
    BY <1>3 DEF ReceiveOther, ReceiveRead, ReceiveAck, ReceiveDeleteObject, Receive,
       recVars, proxyVars
  <2> QED
    BY <2>1, <2>2, DisposedFrame
<1>4. ASSUME NEW w \in Workers, NEW k \in Keys, ReceiveDelete(w, k) PROVE DisposedInv'
  <2>1. disposed' = disposed \cup {Client(k)} /\ UNCHANGED <<gen, present>>
    BY <1>4 DEF ReceiveDelete, Receive, recVars
  <2>2. PICK r : read' = [read EXCEPT ![k] = r] /\ r \notin {"loaned", "last"}
    BY <1>4 DEF ReceiveDelete, Cancel, Returned
  <2> QED
    BY <2>1, <2>2, DisposedOne
<1>5. ASSUME NEW w \in Workers, Close(w) \/ CloseResume(w) \/ CloseNotify(w)
      PROVE  DisposedInv'
  <2>1. \A j \in Keys : present'[j] => present[j]
    BY <1>5 DEF Close, CloseResume, CloseNotify, recVars, TypeOK, RecordType
  <2>2. UNCHANGED <<gen, disposed, read>>
    BY <1>5 DEF Close, CloseResume, CloseNotify, OnSessionClosed, recVars, proxyVars,
                readVars
  <2> QED
    BY <2>1, <2>2, DisposedFrame
<1>6. ASSUME NEW t \in Threads, ReadCancelled(t) PROVE DisposedInv'
  <2>1. \A j \in Keys : read'[j] \in {"loaned", "last"} => read[j] \in {"loaned", "last"}
    BY <1>6, <1>r, ThreadFacts DEF ReadCancelled
  <2> QED
    BY <1>6, <2>1, DisposedFrame DEF ReadCancelled, proxyVars
<1>7. ASSUME NEW k \in Keys, DataArrives(k) \/ PopRead(k) PROVE DisposedInv'
  BY <1>7, DisposedFrame DEF DataArrives, PopRead, TakeEvent, recVars, readVars, proxyVars
<1>8. ASSUME NEW k \in Keys, NEW g \in Gens, PopTimeout(k, g) \/ PopHeartbeat(k, g)
      PROVE  DisposedInv'
  BY <1>8, DisposedFrame DEF PopTimeout, PopHeartbeat, TakeEvent, recVars, readVars,
                             proxyVars
<1>9. CASE RunTimeoutCancel \/ RunTimeoutIgnored \/ RunHeartbeat
  BY <1>9, DisposedFrame DEF RunTimeoutCancel, RunTimeoutIgnored, RunHeartbeat, recVars,
                             readVars, proxyVars
<1>10. CASE RunTimeout
  <2> DEFINE k == event.key
  <2>1. k \in Keys
    BY <1>10, EventType DEF RunTimeout, Handles
  <2>2. disposed' = disposed \cup {Client(k)} /\ UNCHANGED <<gen, present>>
    BY <1>10 DEF RunTimeout
  <2>3. read[k] = "last" => Client(k) \notin disposed
    BY <1>10, <2>1 DEF RunTimeout, Active, DisposedInv, DisposedHasNoLoans
  <2>4. PICK r : read' = [read EXCEPT ![k] = r] /\ r \notin {"loaned", "last"}
    BY <1>10, <2>3 DEF RunTimeout, Cancel, Returned
  <2> QED
    BY <2>1, <2>2, <2>4, DisposedOne
<1>11. CASE RunRead
  <2>1. event.key \in Keys
    BY <1>11, EventType DEF RunRead, Handles
  <2>2. \A j \in Keys : read'[j] \in {"loaned", "last"} =>
            read[j] \in {"loaned", "last"} \/ Client(j) \notin disposed
    BY <1>11, <1>r, <2>1 DEF RunRead, readVars
  <2> QED
    BY <1>11, <2>2, DisposedFrame DEF RunRead, recVars, proxyVars
<1>12. CASE CleanStart \/ CleanEnd
  BY <1>12, DisposedFrame DEF CleanStart, CleanEnd, recVars, readVars, proxyVars
<1>13. ASSUME NEW k \in Keys, CleanSkip(k) \/ CleanFail(k) \/ CleanResources(k)
       PROVE  DisposedInv'
  BY <1>13, DisposedFrame DEF CleanSkip, CleanFail, CleanResources, recVars, readVars, proxyVars
<1>14. ASSUME NEW k \in Keys, CleanRead(k) \/ ReadsCancel(k) PROVE DisposedInv'
  <2>1. \A j \in Keys : read'[j] \in {"loaned", "last"} => read[j] \in {"loaned", "last"}
    BY <1>14, <1>r DEF CleanRead, ReadsCancel, Cancel
  <2> QED
    BY <1>14, <2>1, DisposedFrame DEF CleanRead, ReadsCancel, recVars, proxyVars
<1>15. ASSUME NEW k \in Keys, CleanSession(k) PROVE DisposedInv'
  <2>1. \A j \in Keys : present'[j] => present[j]
    BY <1>15 DEF CleanSession, FinalizeTimer, SessionFinalized, TypeOK, RecordType
  <2>2. UNCHANGED <<gen, disposed, read>>
    BY <1>15 DEF CleanSession, FinalizeTimer, SessionFinalized, OnSessionClosed, readVars,
                 proxyVars
  <2> QED
    BY <2>1, <2>2, DisposedFrame
<1>16. CASE CleanReadResume
  <2>1. \A j \in Keys : present'[j] => present[j]
    BY <1>16 DEF CleanReadResume, FinalizeTimer, SessionFinalized, TypeOK, RecordType
  <2>2. UNCHANGED <<gen, disposed>>
    BY <1>16 DEF CleanReadResume, FinalizeTimer, SessionFinalized, OnSessionClosed,
                 proxyVars
  <2>3. \A j \in Keys : read'[j] \in {"loaned", "last"} => read[j] \in {"loaned", "last"}
    BY <1>16, <1>r DEF CleanReadResume
  <2> QED
    BY <2>1, <2>2, <2>3, DisposedFrame
<1>17. CASE CleanTimerResume
  <2>1. \A j \in Keys : present'[j] => present[j]
    BY <1>17 DEF CleanTimerResume, SessionFinalized, TypeOK, RecordType
  <2>2. UNCHANGED <<gen, disposed, read>>
    BY <1>17 DEF CleanTimerResume, SessionFinalized, OnSessionClosed, readVars, proxyVars
  <2> QED
    BY <2>1, <2>2, DisposedFrame
<1>19. CASE CleanReadFail \/ ReadsResume
  <2>1. \A j \in Keys : read'[j] \in {"loaned", "last"} => read[j] \in {"loaned", "last"}
    BY <1>19, <1>r DEF CleanReadFail, ReadsResume, ReadGone
  <2> QED
    BY <1>19, <2>1, DisposedFrame DEF CleanReadFail, ReadsResume, ReadGone, recVars,
       proxyVars
<1>18. CASE UNCHANGED vars
  BY <1>18, DisposedFrame DEF vars, recVars, readVars, proxyVars
<1> QED
  BY <1>1, <1>2, <1>3, <1>4, <1>5, <1>6, <1>7, <1>8, <1>9, <1>10, <1>11, <1>12, <1>13,
     <1>14, <1>15, <1>16, <1>17, <1>18, <1>19 DEF Next, Worker, EventStep, Cleanup, Pass

(* A client that is disposed, by its own DELETE or by a timeout, holds no   *)
(* sample from then on: whatever is forwarded or acknowledged meanwhile,    *)
(* cancel_readEA never refuses to finalize its session for a loan.          *)
THEOREM DisposedLoansReturned == Spec => []DisposedHasNoLoans
<1>1. Init => DisposedInv
  BY DEF Init, DisposedInv, DisposedHasNoLoans
<1>2. TypeOK /\ DisposedInv /\ [Next]_vars => DisposedInv'
  BY DisposedNext
<1>3. DisposedInv => DisposedHasNoLoans
  BY DEF DisposedInv
<1> QED
  BY <1>1, <1>2, <1>3, TypeCorrect, PTL DEF Spec
-----------------------------------------------------------------------------
(***************************************************************************)
(* The cancellation of reads.  First, what a step has to leave alone for   *)
(* each part of CancelInv to survive it.                                   *)
(***************************************************************************)

\* no read event is taken from the queue or finished
QuietEvent == event' = event \/ (event.kind # "read" /\ event'.kind # "read")

\* a session that is deleted remains so, and gets no new read
DeletedStays ==
    \A k \in Keys : deleted[k] =>
        /\ deleted'[k] /\ timedout'[k] = timedout[k]
        /\ read[k] = "none" => read'[k] = "none"

\* no thread starts to wait for a read, ...
NoNewWaiter ==
    \A t \in Threads : pc'[t] = "wait" =>
        /\ pc[t] = "wait" /\ at'[t] = at[t]
        /\ atGen'[t] = atGen[t] /\ after'[t] = after[t]

\* ... nor does the cleanup thread
NoNewPause ==
    \A s \in {"readWait", "timerWait", "readsWait"} :
        cleaner' = s => cleaner = s /\ ckey' = ckey

\* no thread leaves close_session
ClosersStay ==
    \A w \in Workers : pc[w] = "closeWait" => pc'[w] = "closeWait" /\ at'[w] = at[w]

\* the event thread stays where it is
EventThreadStays ==
    /\ pc'[EventThread] = pc[EventThread]
    /\ pc[EventThread] # "idle" =>
          /\ event'.kind = event.kind /\ at'[EventThread] = at[EventThread]
          /\ after'[EventThread] = after[EventThread]
          /\ timedout[at[EventThread]] => timedout'[at[EventThread]]

LEMMA HeldFrame ==
    ASSUME TypeOK, CancelInv, UNCHANGED <<read, semEvent, readEvent>>, QuietEvent
    PROVE  \A k \in Keys : HeldOnce(k)'
  BY DEF CancelInv, HeldOnce, Running, Cancelling, QuietEvent

LEMMA WaiterFrame ==
    ASSUME TypeOK, CancelInv, NoNewWaiter, NoNewPause,
           \A k \in Keys : present[k] /\ read[k] = "cancelling" =>
              present'[k] /\ gen'[k] = gen[k] /\ read'[k] = "cancelling"
    PROVE  WaiterOwnsSession'
<1>a. \A t \in Threads : at[t] \in Keys
  BY ThreadFacts
<1>b. ckey \in Keys
  BY DEF TypeOK, CleanerType
<1>1. CleanerCancels' => CleanerCancels /\ ckey' = ckey
  BY DEF NoNewPause, CleanerCancels
<1> QED
  BY <1>a, <1>b, <1>1 DEF CancelInv, WaiterOwnsSession, NoNewWaiter

LEMMA CloserFrame ==
    ASSUME TypeOK, CancelInv, ClosersStay,
           \A k \in Keys : present'[k] /\ deleted'[k] /\ ~timedout'[k] =>
              present[k] /\ deleted[k] /\ ~timedout[k]
    PROVE  DeletedHasCloser'
  BY DEF CancelInv, DeletedHasCloser, ClosersStay

LEMMA NoReadFrame ==
    ASSUME TypeOK, CancelInv, NotReopened, DeletedStays, NoNewPause,
           \A k \in Keys : present'[k] => present[k],
           \A k \in Keys : semCleanup'[k] => semCleanup[k]
    PROVE  NoReadLeft'
<1>b. ckey \in Keys
  BY DEF TypeOK, CleanerType
<1>1. \A k \in Keys : semCleanup'[k] => deleted'[k] /\ ~timedout'[k] /\ read'[k] = "none"
  BY DEF CancelInv, NoReadLeft, DeletedStays
<1>2. cleaner' = "readWait" => deleted'[ckey']
  BY <1>b DEF CancelInv, NoReadLeft, DeletedStays, NoNewPause
<1>3. cleaner' = "timerWait" /\ present'[ckey'] => ~timedout'[ckey'] /\ read'[ckey'] = "none"
  BY <1>b DEF CancelInv, NoReadLeft, DeletedStays, NoNewPause, NotReopened
<1> QED
  BY <1>1, <1>2, <1>3 DEF NoReadLeft

LEMMA TimeoutFrame ==
    ASSUME TypeOK, CancelInv, NoNewWaiter, EventThreadStays
    PROVE  WaitsInTimeout'
  BY ThreadFacts DEF CancelInv, WaitsInTimeout, NoNewWaiter, EventThreadStays

(* All of them together. *)
LEMMA CancelStep ==
    ASSUME TypeOK, CancelInv, NotReopened, gen' = gen, DeletedStays, NoNewWaiter,
           NoNewPause, ClosersStay, EventThreadStays,
           \A k \in Keys : HeldOnce(k)',
           \A k \in Keys : present'[k] => present[k],
           \A k \in Keys : semCleanup'[k] => semCleanup[k],
           \A k \in Keys : present[k] /\ read[k] = "cancelling" =>
              present'[k] /\ read'[k] = "cancelling",
           \A k \in Keys : present'[k] /\ deleted'[k] /\ ~timedout'[k] =>
              deleted[k] /\ ~timedout[k]
    PROVE  CancelInv'
<1>1. WaiterOwnsSession'
  BY WaiterFrame
<1>2. DeletedHasCloser'
  BY CloserFrame
<1>3. NoReadLeft'
  BY NoReadFrame
<1>4. WaitsInTimeout'
  BY TimeoutFrame
<1> QED
  BY <1>1, <1>2, <1>3, <1>4 DEF CancelInv

(* A step that touches no read, no thread and no flag. *)
LEMMA CancelFrame ==
    ASSUME TypeOK, CancelInv, NotReopened, NoNewPause, QuietEvent,
           pc[EventThread] # "idle" => event' = event,
           UNCHANGED <<gen, present, deleted, timedout, semCleanup, read, semEvent,
                       readEvent, pc, at, atGen, after>>
    PROVE  CancelInv'
<1>1. NoNewWaiter /\ ClosersStay /\ EventThreadStays /\ DeletedStays
  BY DEF NoNewWaiter, ClosersStay, EventThreadStays, DeletedStays
<1>2. \A k \in Keys : HeldOnce(k)'
  BY HeldFrame
<1> QED
  BY <1>1, <1>2, CancelStep

(* A thread that starts to cancel a read, in a session that is not deleted: *)
(* the request was not being cancelled, so nobody else waits for it.        *)
LEMMA CancelStart ==
    ASSUME TypeOK, CancelInv, NotReopened, NEW k \in Keys, NEW t \in Threads, NEW r,
           Cancel(k), WaitForRead(t, k, r),
           read[k] \notin {"none", "cancelling"}, present[k], ~deleted[k],
           pc[t] = "idle",
           t = EventThread => r = "timeout" /\ event.kind = "timeout" /\ timedout'[k],
           t # EventThread => r # "timeout" /\ timedout' = timedout,
           \A j \in Keys \ {k} : timedout'[j] = timedout[j],
           UNCHANGED <<gen, present, deleted, semCleanup, event, cleaner, ckey>>
    PROVE  CancelInv'
<1>1. /\ read'[k] = "cancelling" /\ \A j \in Keys \ {k} : read'[j] = read[j]
      /\ readEvent'[k] = "cancel" /\ \A j \in Keys \ {k} : readEvent'[j] = readEvent[j]
      /\ semEvent' = semEvent
  BY DEF Cancel, TypeOK, RequestType, QueueType
<1>2. /\ pc'[t] = "wait" /\ at'[t] = k /\ atGen'[t] = gen[k] /\ after'[t] = r
      /\ \A u \in Threads \ {t} : /\ pc'[u] = pc[u] /\ at'[u] = at[u]
                                  /\ atGen'[u] = atGen[u] /\ after'[u] = after[u]
  BY DEF WaitForRead, TypeOK, ThreadType
<1>3. \A j \in Keys : HeldOnce(j)'
  BY <1>1 DEF CancelInv, HeldOnce, Running, Cancelling
<1>4. WaiterOwnsSession'
  <2>1. \A u \in Threads : pc[u] = "wait" => at[u] \in Keys \ {k}
    BY ThreadFacts DEF CancelInv, WaiterOwnsSession
  <2>2. CleanerCancels => ckey \in Keys \ {k}
    BY DEF CancelInv, WaiterOwnsSession, TypeOK, CleanerType
  <2>3. CleanerCancels => present[ckey] /\ read'[ckey] = "cancelling"
    BY <1>1, <2>2 DEF CancelInv, WaiterOwnsSession
  <2>4. \A u \in Threads : pc'[u] = "wait" =>
            /\ present[at'[u]] /\ gen[at'[u]] = atGen'[u]
            /\ read'[at'[u]] = "cancelling"
            /\ ~(CleanerCancels /\ ckey = at'[u])
    BY <1>1, <1>2, <2>1, <2>2 DEF CancelInv, WaiterOwnsSession
  <2>5. \A u, v \in Threads : u # v /\ pc'[u] = "wait" /\ pc'[v] = "wait" =>
            at'[v] # at'[u]
    BY <1>2, <2>1 DEF CancelInv, WaiterOwnsSession
  <2> QED
    BY <2>3, <2>4, <2>5 DEF WaiterOwnsSession, CleanerCancels
<1>5. DeletedHasCloser'
  <2>1. ClosersStay
    BY <1>2, ThreadFacts DEF ClosersStay
  <2> QED
    BY <2>1, CloserFrame
<1>6. NoReadLeft'
  <2>1. DeletedStays
    BY <1>1 DEF DeletedStays
  <2> QED
    BY <2>1, NoReadFrame DEF NoNewPause
<1>7. WaitsInTimeout'
  BY <1>2, ThreadFacts DEF CancelInv, WaitsInTimeout
<1> QED
  BY <1>3, <1>4, <1>5, <1>6, <1>7 DEF CancelInv

(* The cleanup thread finalizes a session that has no read left: only a     *)
(* session that timed out leaves the table, and nobody waits for it.        *)
LEMMA CancelFinalized ==
    ASSUME TypeOK, CancelInv, NotReopened, NEW k \in Keys, present[k], deleted[k],
           FinalizeTimer(k) \/ SessionFinalized(k), ckey' = k,
           \A u \in Threads : pc[u] = "wait" => at[u] # k,
           read'[k] = "none", \A j \in Keys \ {k} : read'[j] = read[j],
           \A j \in Keys : HeldOnce(j)',
           UNCHANGED <<gen, deleted, timedout, event, threadVars>>
    PROVE  CancelInv'
<1>1. /\ \A j \in Keys \ {k} : present'[j] = present[j] /\ semCleanup'[j] = semCleanup[j]
      /\ cleaner' \in {"pass", "timerWait"}
      /\ cleaner' = "timerWait" => ~timedout[k]
      /\ present'[k] => present[k]
      /\ semCleanup'[k] => semCleanup[k] \/ ~timedout[k]
  BY DEF FinalizeTimer, SessionFinalized, TypeOK, RecordType
<1>2. UNCHANGED <<pc, after, at, atGen>>
  BY DEF threadVars
<1>3. WaiterOwnsSession'
  BY <1>1, <1>2, ThreadFacts DEF CancelInv, WaiterOwnsSession, CleanerCancels
<1>4. DeletedHasCloser'
  BY <1>1, <1>2 DEF CancelInv, DeletedHasCloser
<1>5. NoReadLeft'
  BY <1>1 DEF CancelInv, NoReadLeft
<1>6. WaitsInTimeout'
  BY <1>2 DEF CancelInv, WaitsInTimeout
<1> QED
  BY <1>3, <1>4, <1>5, <1>6 DEF CancelInv

(* A read request that is not being cancelled changes hands or is posted    *)
(* again, in an active session.                                             *)
LEMMA CancelRequest ==
    ASSUME TypeOK, CancelInv, NotReopened, NEW k \in Keys,
           NEW r \in {"idle", "loaned", "last", "over"}, NEW e \in {"none", "data"},
           read' = [read EXCEPT ![k] = r],
           readEvent' = [readEvent EXCEPT ![k] = e],
           semEvent' = semEvent,
           read[k] # "cancelling", read[k] = "none" => ~deleted[k],
           \/ event' = event
           \/ /\ event' = NoEvent /\ pc[EventThread] = "idle"
              /\ event.kind = "read" => ~event.cancel,
           UNCHANGED <<gen, present, deleted, timedout, semCleanup, cleaner, ckey,
                       threadVars>>
    PROVE  CancelInv'
<1>1. /\ read'[k] = r /\ \A j \in Keys \ {k} : read'[j] = read[j]
      /\ readEvent'[k] = e /\ \A j \in Keys \ {k} : readEvent'[j] = readEvent[j]
  BY DEF TypeOK, RequestType, QueueType
<1>2. NoNewWaiter /\ ClosersStay /\ NoNewPause
  BY DEF NoNewWaiter, ClosersStay, NoNewPause, threadVars
<1>3. DeletedStays
  BY <1>1 DEF DeletedStays
<1>4. EventThreadStays
  BY DEF EventThreadStays, threadVars
<1>5. \A j \in Keys : HeldOnce(j)'
  BY <1>1 DEF CancelInv, HeldOnce, Running, Cancelling, NoEvent
<1> QED
  BY <1>1, <1>2, <1>3, <1>4, <1>5, CancelStep

(* The samples on loan go back: no request starts or ends with it.          *)
LEMMA ReturnedReads ==
    ASSUME TypeOK, CancelInv, NEW k \in Keys, read' = [read EXCEPT ![k] = Returned(k)],
           UNCHANGED <<semEvent, readEvent>>, QuietEvent
    PROVE  /\ \A j \in Keys : HeldOnce(j)'
           /\ \A j \in Keys : read'[j] = "cancelling" <=> read[j] = "cancelling"
           /\ \A j \in Keys : read'[j] = "none" <=> read[j] = "none"
<1>1. \A j \in Keys : \/ read'[j] = read[j]
                      \/ read[j] = "loaned" /\ read'[j] = "idle"
  BY DEF Returned, TypeOK, RequestType
<1> QED
  BY <1>1 DEF CancelInv, HeldOnce, Running, Cancelling, QuietEvent

LEMMA CancelNext ==
    ASSUME TypeOK, CancelInv, NotReopened, NotReopened', [Next]_vars
    PROVE  CancelInv'
<1>t. /\ Workers \subseteq Threads /\ EventThread \in Threads /\ EventThread \notin Workers
      /\ \A t \in Threads : at[t] \in Keys
  BY ThreadFacts
<1>c. ckey \in Keys
  BY DEF TypeOK, CleanerType
<1>w. pc[EventThread] # "idle" => event # NoEvent /\ event.kind = "timeout"
  BY DEF CancelInv, WaitsInTimeout, NoEvent
<1>1. ASSUME NEW w \in Workers, NEW k \in Keys, OpenNew(w, k) PROVE CancelInv'
  <2>1. /\ ~present[k] /\ cleaner # "readWait"
        /\ UNCHANGED <<read, semEvent, readEvent, event, cleaner, ckey, pc, after, at, atGen>>
    BY <1>1 DEF OpenNew, TableFree, readVars, threadVars
  <2>2. \A j \in Keys \ {k} : /\ gen'[j] = gen[j] /\ present'[j] = present[j]
                              /\ deleted'[j] = deleted[j] /\ timedout'[j] = timedout[j]
                              /\ semCleanup'[j] = semCleanup[j]
    BY <1>1 DEF OpenNew, TypeOK, RecordType
  <2>3. present'[k] /\ ~deleted'[k] /\ ~semCleanup'[k]
    BY <1>1 DEF OpenNew, TypeOK, RecordType
  <2>4. \A j \in Keys : HeldOnce(j)'
    BY <2>1, HeldFrame DEF QuietEvent
  <2>5. WaiterOwnsSession'
    BY <1>t, <1>c, <2>1, <2>2 DEF CancelInv, WaiterOwnsSession, CleanerCancels
  <2>6. DeletedHasCloser'
    BY <2>1, <2>2, <2>3 DEF CancelInv, DeletedHasCloser
  <2>7. NoReadLeft'
    <3>1. cleaner = "timerWait" => ckey # k
      BY <2>1, <2>3 DEF NotReopened
    <3> QED
      BY <1>c, <2>1, <2>2, <2>3, <3>1 DEF CancelInv, NoReadLeft
  <2>8. WaitsInTimeout'
    <3>1. pc[EventThread] # "idle" => at[EventThread] # k
      BY <1>t, <2>1 DEF CancelInv, WaitsInTimeout, WaiterOwnsSession
    <3> QED
      BY <1>t, <2>1, <2>2, <3>1 DEF CancelInv, WaitsInTimeout
  <2> QED
    BY <2>4, <2>5, <2>6, <2>7, <2>8 DEF CancelInv
<1>2. ASSUME NEW w \in Workers, NEW k \in Keys, OpenReset(w, k) PROVE CancelInv'
  <2>1. /\ UNCHANGED <<gen, present, deleted, timedout, semCleanup, event, cleaner, ckey>>
        /\ pc[w] = "idle" /\ present[k] /\ ~deleted[k] /\ w \in Threads /\ w # EventThread
    BY <1>2, <1>t DEF OpenReset, Active, cleanVars
  <2>2. CASE UNCHANGED <<readVars, readEvent, threadVars>>
    BY <2>1, <2>2, CancelFrame DEF NoNewPause, QuietEvent, readVars, threadVars
  <2>3. CASE read' = [read EXCEPT ![k] = Returned(k)]
             /\ UNCHANGED <<semEvent, readEvent, threadVars>>
    <3>1. QuietEvent /\ NoNewPause
      BY <2>1 DEF QuietEvent, NoNewPause
    <3>2. NoNewWaiter /\ ClosersStay /\ EventThreadStays
      BY <2>1, <2>3 DEF NoNewWaiter, ClosersStay, EventThreadStays, threadVars
    <3>3. /\ \A j \in Keys : HeldOnce(j)'
          /\ \A j \in Keys : read'[j] = "cancelling" <=> read[j] = "cancelling"
          /\ \A j \in Keys : read'[j] = "none" <=> read[j] = "none"
      BY <2>3, <3>1, ReturnedReads
    <3>4. DeletedStays
      BY <2>1, <3>3 DEF DeletedStays
    <3> QED
      BY <2>1, <3>1, <3>2, <3>3, <3>4, CancelStep
  <2>4. ASSUME NEW r \in {"reset", "resetLast"}, Cancel(k), WaitForRead(w, k, r),
               read[k] \in {"idle", "loaned", "last", "over"}
        PROVE  CancelInv'
    BY <2>1, <2>4, CancelStart
  <2> QED
    BY <1>2, <2>2, <2>3, <2>4 DEF OpenReset
<1>3. ASSUME NEW w \in Workers, NEW k \in Keys,
             \/ ReceiveOther(w, k) \/ ReceiveRead(w, k) \/ ReceiveAck(w, k)
             \/ ReceiveDeleteObject(w, k)
      PROVE  CancelInv'
  <2>1. /\ UNCHANGED <<gen, present, deleted, timedout, semCleanup, event, cleaner, ckey>>
        /\ pc[w] = "idle" /\ present[k] /\ ~deleted[k] /\ w \in Threads /\ w # EventThread
    BY <1>3, <1>t DEF ReceiveOther, ReceiveRead, ReceiveAck, ReceiveDeleteObject, Receive,
                      Active, recVars, cleanVars
  <2>2. CASE UNCHANGED <<readVars, readEvent, threadVars>>
    BY <2>1, <2>2, CancelFrame DEF NoNewPause, QuietEvent, readVars, threadVars
  <2>3. ASSUME read[k] # "cancelling", read' = [read EXCEPT ![k] = "idle"],
               readEvent' = [readEvent EXCEPT ![k] = "data"] \/ readEvent' = readEvent,
               UNCHANGED <<semEvent, threadVars>>, read[k] = "none" => ~deleted[k]
        PROVE  CancelInv'
    <3>1. readEvent[k] \in {"none", "data"}
      BY <2>3 DEF CancelInv, HeldOnce, TypeOK, QueueType
    <3>2. PICK e \in {"none", "data"} : readEvent' = [readEvent EXCEPT ![k] = e]
      BY <2>3, <3>1 DEF TypeOK, QueueType
    <3> QED
      BY <2>1, <2>3, <3>2, CancelRequest
  <2>4. ASSUME NEW r \in {"read", "ack", "object"}, Cancel(k), WaitForRead(w, k, r),
               read[k] \notin {"none", "cancelling"}
        PROVE  CancelInv'
    BY <2>1, <2>4, CancelStart
  <2> QED
    BY <1>3, <2>1, <2>2, <2>3, <2>4 DEF ReceiveOther, ReceiveRead, ReceiveAck,
       ReceiveDeleteObject
<1>4. ASSUME NEW w \in Workers, NEW k \in Keys, ReceiveDelete(w, k) PROVE CancelInv'
  <2>1. /\ UNCHANGED <<gen, present, deleted, timedout, semCleanup, event, cleaner, ckey>>
        /\ pc[w] = "idle" /\ present[k] /\ ~deleted[k] /\ w \in Threads /\ w # EventThread
    BY <1>4, <1>t DEF ReceiveDelete, Receive, Active, recVars, cleanVars
  <2>2. CASE Cancel(k) /\ WaitForRead(w, k, "delete") /\ read[k] = "last"
    BY <2>1, <2>2, CancelStart
  <2>3. CASE /\ read' = [read EXCEPT ![k] = Returned(k)]
             /\ pc' = [pc EXCEPT ![w] = "closing"] \/ UNCHANGED pc
             /\ at' = [at EXCEPT ![w] = k]
             /\ atGen' = [atGen EXCEPT ![w] = gen[k]]
             /\ UNCHANGED <<semEvent, readEvent, after>>
    <3>1. QuietEvent /\ NoNewPause
      BY <2>1 DEF QuietEvent, NoNewPause
    <3>2. \A u \in Threads \ {w} : pc'[u] = pc[u] /\ at'[u] = at[u] /\ atGen'[u] = atGen[u]
      BY <2>1, <2>3 DEF TypeOK, ThreadType
    <3>3. pc'[w] \in {"closing", "idle"}
      BY <2>1, <2>3 DEF TypeOK, ThreadType
    <3>4. NoNewWaiter /\ ClosersStay /\ EventThreadStays
      BY <1>t, <2>1, <2>3, <3>2, <3>3 DEF NoNewWaiter, ClosersStay, EventThreadStays
    <3>5. /\ \A j \in Keys : HeldOnce(j)'
          /\ \A j \in Keys : read'[j] = "cancelling" <=> read[j] = "cancelling"
          /\ \A j \in Keys : read'[j] = "none" <=> read[j] = "none"
      BY <2>3, <3>1, ReturnedReads
    <3>6. DeletedStays
      BY <2>1, <3>5 DEF DeletedStays
    <3> QED
      BY <2>1, <3>1, <3>4, <3>5, <3>6, CancelStep
  <2> QED
    BY <1>4, <2>2, <2>3 DEF ReceiveDelete
<1>5. ASSUME NEW w \in Workers, Close(w) PROVE CancelInv'
  <2>0. w \in Threads /\ at[w] \in Keys /\ w # EventThread
    BY <1>t
  <2>1. /\ UNCHANGED <<gen, present, timedout, semCleanup, read, semEvent, readEvent, event,
                       cleaner, ckey, after, at>>
        /\ pc[w] = "closing"
        /\ pc' = [pc EXCEPT ![w] = "idle"] \/ pc' = [pc EXCEPT ![w] = "closeWait"]
    BY <1>5 DEF Close, readVars, queueVars
  <2>2. \A u \in Threads \ {w} : pc'[u] = pc[u] /\ atGen'[u] = atGen[u]
    BY <1>5, <2>0 DEF Close, TypeOK, ThreadType
  <2>3. pc'[w] \in {"idle", "closeWait"}
    BY <2>0, <2>1 DEF TypeOK, ThreadType
  <2>4. QuietEvent /\ NoNewPause
    BY <2>1 DEF QuietEvent, NoNewPause
  <2>5. NoNewWaiter /\ ClosersStay /\ EventThreadStays
    BY <1>t, <2>1, <2>2, <2>3 DEF NoNewWaiter, ClosersStay, EventThreadStays
  <2>6. \A k \in Keys : deleted[k] => deleted'[k]
    BY <1>5, <2>0 DEF Close, Dispose, TypeOK, RecordType
  <2>7. DeletedStays
    BY <2>1, <2>6 DEF DeletedStays
  <2>8. DeletedHasCloser'
    <3>1. CASE deleted' = deleted
      BY <2>1, <2>5, <3>1, CloserFrame
    <3>2. CASE deleted' = [deleted EXCEPT ![at[w]] = TRUE] /\ pc'[w] = "closeWait"
      <4>1. \A k \in Keys \ {at[w]} : deleted'[k] = deleted[k]
        BY <3>2 DEF TypeOK, RecordType
      <4> QED
        BY <2>1, <2>5, <3>2, <4>1 DEF CancelInv, DeletedHasCloser, ClosersStay
    <3> QED
      BY <1>5, <2>0, <3>1, <3>2 DEF Close, Dispose, TypeOK, ThreadType
  <2>9. \A k \in Keys : HeldOnce(k)'
    BY <2>1, <2>4, HeldFrame
  <2>10. WaiterOwnsSession'
    BY <2>1, <2>4, <2>5, WaiterFrame
  <2>11. NoReadLeft'
    BY <2>1, <2>4, <2>7, NoReadFrame
  <2>12. WaitsInTimeout'
    BY <2>5, TimeoutFrame
  <2> QED
    BY <2>8, <2>9, <2>10, <2>11, <2>12 DEF CancelInv
<1>6. ASSUME NEW w \in Workers, CloseResume(w) PROVE CancelInv'
  <2>0. w \in Threads /\ at[w] \in Keys /\ w # EventThread
    BY <1>t
  <2>1. /\ UNCHANGED <<gen, deleted, timedout, read, semEvent, readEvent, event, cleaner, ckey,
                       after, at, atGen>>
        /\ pc[w] = "closeWait" /\ semCleanup[at[w]]
        /\ pc' = [pc EXCEPT ![w] = "notify"]
    BY <1>6 DEF CloseResume, readVars, queueVars, cleanVars
  <2>2. /\ \A k \in Keys : present'[k] = (present[k] /\ k # at[w])
        /\ \A k \in Keys : semCleanup'[k] => semCleanup[k]
    BY <1>6, <2>0 DEF CloseResume, TypeOK, RecordType
  <2>3. pc'[w] = "notify" /\ \A u \in Threads \ {w} : pc'[u] = pc[u]
    BY <2>0, <2>1 DEF TypeOK, ThreadType
  <2>4. read[at[w]] = "none"
    BY <2>0, <2>1 DEF CancelInv, NoReadLeft
  <2>5. QuietEvent /\ NoNewPause /\ NoNewWaiter /\ EventThreadStays /\ DeletedStays
    BY <2>0, <2>1, <2>3 DEF QuietEvent, NoNewPause, NoNewWaiter, EventThreadStays,
                            DeletedStays
  <2>6. DeletedHasCloser'
    <3> SUFFICES ASSUME NEW k \in Keys, present'[k], deleted[k], ~timedout[k]
                 PROVE  \E v \in Workers : pc'[v] = "closeWait" /\ at[v] = k
      BY <2>1 DEF DeletedHasCloser
    <3>1. present[k] /\ k # at[w]
      BY <2>2
    <3>2. PICK v \in Workers : pc[v] = "closeWait" /\ at[v] = k
      BY <3>1 DEF CancelInv, DeletedHasCloser
    <3>3. v # w /\ v \in Threads
      BY <1>t, <3>1, <3>2
    <3> QED
      BY <2>3, <3>2, <3>3
  <2>7. \A k \in Keys : HeldOnce(k)'
    BY <2>1, <2>5, HeldFrame
  <2>8. WaiterOwnsSession'
    BY <2>1, <2>2, <2>4, <2>5, WaiterFrame
  <2>9. NoReadLeft'
    BY <2>1, <2>2, <2>5, NoReadFrame
  <2>10. WaitsInTimeout'
    BY <2>5, TimeoutFrame
  <2> QED
    BY <2>6, <2>7, <2>8, <2>9, <2>10 DEF CancelInv
<1>7. ASSUME NEW w \in Workers, CloseNotify(w) PROVE CancelInv'
  <2>0. w \in Threads /\ w # EventThread
    BY <1>t
  <2>1. /\ UNCHANGED <<gen, present, deleted, timedout, semCleanup, read, semEvent, readEvent,
                       event, cleaner, ckey, after, at, atGen>>
        /\ pc[w] = "notify" /\ pc' = [pc EXCEPT ![w] = "idle"]
    BY <1>7 DEF CloseNotify, recVars, readVars, queueVars, cleanVars
  <2>2. pc'[w] = "idle" /\ \A u \in Threads \ {w} : pc'[u] = pc[u]
    BY <2>0, <2>1 DEF TypeOK, ThreadType
  <2>3. QuietEvent /\ NoNewPause /\ NoNewWaiter /\ ClosersStay /\ EventThreadStays /\ DeletedStays
    BY <1>t, <2>0, <2>1, <2>2 DEF QuietEvent, NoNewPause, NoNewWaiter, ClosersStay,
                                  EventThreadStays, DeletedStays
  <2>4. \A k \in Keys : HeldOnce(k)'
    BY <2>1, <2>3, HeldFrame
  <2> QED
    BY <2>1, <2>3, <2>4, CancelStep
<1>8. ASSUME NEW t \in Threads, ReadCancelled(t) PROVE CancelInv'
  <2> DEFINE k == at[t]
  <2>0. k \in Keys /\ pc[t] = "wait" /\ semEvent[k]
    BY <1>8, <1>t DEF ReadCancelled
  <2>1. /\ UNCHANGED <<gen, present, timedout, semCleanup, cleaner, ckey, after, at, atGen>>
        /\ pc' = [pc EXCEPT ![t] = IF after[t] = "delete" THEN "closing" ELSE "idle"]
        /\ event' = IF t = EventThread THEN NoEvent ELSE event
    BY <1>8 DEF ReadCancelled
  <2>2. /\ read[k] = "cancelling"
        /\ ~(CleanerCancels /\ ckey = k)
        /\ \A u \in Threads \ {t} : pc[u] = "wait" => at[u] # k
    BY <2>0 DEF CancelInv, WaiterOwnsSession
  <2>3. readEvent[k] = "none" /\ ~Running(k)
    BY <2>0, <2>2 DEF CancelInv, HeldOnce
  <2>4. t = EventThread => after[t] = "timeout" /\ event.kind = "timeout" /\ timedout[k]
    BY <2>0 DEF CancelInv, WaitsInTimeout
  <2>5. after[t] = "timeout" => t = EventThread
    BY <2>0 DEF CancelInv, WaitsInTimeout, Threads
  <2>6. /\ \A j \in Keys \ {k} : /\ read'[j] = read[j] /\ semEvent'[j] = semEvent[j]
                                 /\ readEvent'[j] = readEvent[j] /\ deleted'[j] = deleted[j]
        /\ read'[k] \in {"idle", "none"} /\ ~semEvent'[k] /\ readEvent'[k] # "cancel"
        /\ read'[k] = "none" => readEvent'[k] = "none"
        /\ deleted'[k] = (deleted[k] \/ after[t] = "timeout")
    <3>1. /\ semEvent' = [semEvent EXCEPT ![k] = FALSE]
          /\ read' = [read EXCEPT ![k] = IF after[t] = "read" THEN "idle" ELSE "none"]
          /\ readEvent' = IF after[t] = "read" THEN [readEvent EXCEPT ![k] = "data"]
                                               ELSE readEvent
          /\ deleted' = [deleted EXCEPT ![k] = @ \/ after[t] = "timeout"]
      BY <1>8 DEF ReadCancelled
    <3> HIDE DEF k
    <3>2. \A j \in Keys \ {k} : read'[j] = read[j] /\ semEvent'[j] = semEvent[j]
      BY <2>0, <3>1 DEF TypeOK, RequestType
    <3>3. \A j \in Keys \ {k} : readEvent'[j] = readEvent[j] /\ deleted'[j] = deleted[j]
      BY <2>0, <3>1 DEF TypeOK, RecordType, QueueType
    <3>4. read'[k] \in {"idle", "none"} /\ ~semEvent'[k]
      BY <2>0, <3>1 DEF TypeOK, RequestType
    <3>5. readEvent'[k] # "cancel" /\ (read'[k] = "none" => readEvent'[k] = "none")
      BY <2>0, <2>3, <3>1 DEF TypeOK, RequestType, QueueType
    <3>6. deleted'[k] = (deleted[k] \/ after[t] = "timeout")
      BY <2>0, <3>1 DEF TypeOK, RecordType
    <3> QED
      BY <3>2, <3>3, <3>4, <3>5, <3>6
  <2>7. /\ \A u \in Threads \ {t} : pc'[u] = pc[u]
        /\ pc'[t] \in {"closing", "idle"}
        /\ t = EventThread => pc'[t] = "idle"
    BY <2>1, <2>4 DEF TypeOK, ThreadType
  <2> HIDE DEF k
  <2>8. \A j \in Keys : HeldOnce(j)'
    BY <2>0, <2>1, <2>2, <2>3, <2>4, <2>6 DEF CancelInv, HeldOnce, Running, Cancelling, NoEvent
  <2>9. NoNewPause /\ NoNewWaiter /\ ClosersStay
    BY <1>t, <2>0, <2>1, <2>7 DEF NoNewPause, NoNewWaiter, ClosersStay
  <2>10. DeletedStays
    BY <2>1, <2>2, <2>6 DEF DeletedStays
  <2>11. WaiterOwnsSession'
    BY <1>t, <1>c, <2>1, <2>2, <2>6, <2>7 DEF CancelInv, WaiterOwnsSession, CleanerCancels,
                                              k
  <2>12. DeletedHasCloser'
    BY <2>1, <2>4, <2>5, <2>6, <2>9, CloserFrame
  <2>13. NoReadLeft'
    BY <2>1, <2>9, <2>10, NoReadFrame
  <2>14. WaitsInTimeout'
    BY <1>t, <2>1, <2>7 DEF CancelInv, WaitsInTimeout
  <2> QED
    BY <2>8, <2>11, <2>12, <2>13, <2>14 DEF CancelInv
<1>9. ASSUME NEW k \in Keys, DataArrives(k) PROVE CancelInv'
  <2>1. /\ UNCHANGED <<gen, present, deleted, timedout, semCleanup, semEvent, event, cleaner,
                       ckey, threadVars>>
        /\ read[k] \in {"idle", "loaned", "last", "over"}
        /\ readEvent' = [readEvent EXCEPT ![k] = "data"]
    BY <1>9 DEF DataArrives, recVars, readVars, cleanVars
  <2>2. read' = [read EXCEPT ![k] = read[k]]
    BY <1>9 DEF DataArrives, readVars, TypeOK, RequestType
  <2> QED
    BY <2>1, <2>2, CancelRequest
<1>10. ASSUME NEW k \in Keys, NEW g \in Gens, PopTimeout(k, g) \/ PopHeartbeat(k, g)
       PROVE  CancelInv'
  <2>1. QuietEvent /\ event = NoEvent
    BY <1>10 DEF PopTimeout, PopHeartbeat, TakeEvent, NoEvent, QuietEvent
  <2>2. /\ UNCHANGED <<gen, present, deleted, timedout, semCleanup, read, semEvent, readEvent,
                       pc, at, atGen, after>>
        /\ NoNewPause
    BY <1>10 DEF PopTimeout, PopHeartbeat, TakeEvent, NoNewPause, recVars, readVars, cleanVars,
                 threadVars
  <2> QED
    BY <1>w, <2>1, <2>2, CancelFrame
<1>11. ASSUME NEW k \in Keys, PopRead(k) PROVE CancelInv'
  <2>1. /\ UNCHANGED <<gen, present, deleted, timedout, semCleanup, read, semEvent, cleaner,
                       ckey, pc, at, atGen, after>>
        /\ event = NoEvent
        /\ event'.kind = "read" /\ event'.key = k /\ event'.cancel = (readEvent[k] = "cancel")
    BY <1>11 DEF PopRead, TakeEvent, recVars, readVars, cleanVars, threadVars
  <2>2. /\ readEvent[k] # "none" /\ readEvent'[k] = "none"
        /\ \A j \in Keys \ {k} : readEvent'[j] = readEvent[j]
    BY <1>11 DEF PopRead, TypeOK, QueueType
  <2>3. \A j \in Keys : HeldOnce(j)'
    BY <2>1, <2>2 DEF CancelInv, HeldOnce, Running, Cancelling, NoEvent
  <2>4. NoNewPause /\ NoNewWaiter /\ ClosersStay /\ EventThreadStays /\ DeletedStays
    BY <1>w, <2>1 DEF NoNewPause, NoNewWaiter, ClosersStay, EventThreadStays, DeletedStays
  <2> QED
    BY <2>1, <2>3, <2>4, CancelStep
<1>12. CASE RunTimeoutCancel \/ RunTimeoutIgnored \/ RunHeartbeat
  <2>1. QuietEvent /\ pc[EventThread] = "idle"
    BY <1>12 DEF RunTimeoutCancel, RunTimeoutIgnored, RunHeartbeat, Handles, NoEvent, QuietEvent
  <2>2. /\ UNCHANGED <<gen, present, deleted, timedout, semCleanup, read, semEvent, readEvent,
                       pc, at, atGen, after>>
        /\ NoNewPause
    BY <1>12 DEF RunTimeoutCancel, RunTimeoutIgnored, RunHeartbeat, NoNewPause, recVars,
                 readVars, queueVars, cleanVars, threadVars
  <2> QED
    BY <2>1, <2>2, CancelFrame
<1>13. CASE RunTimeout
  <2> DEFINE k == event.key
  <2>0. k \in Keys
    BY <1>13, EventType DEF RunTimeout, Handles
  <2>1. /\ UNCHANGED <<gen, present, semCleanup, cleaner, ckey>>
        /\ pc[EventThread] = "idle" /\ event.kind = "timeout"
        /\ present[k] /\ ~deleted[k]
        /\ timedout' = [timedout EXCEPT ![k] = TRUE]
    BY <1>13 DEF RunTimeout, Handles, Active
  <2>2. timedout'[k] /\ \A j \in Keys \ {k} : timedout'[j] = timedout[j]
    BY <2>0, <2>1 DEF TypeOK, RecordType
  <2>3. CASE /\ read[k] = "last" /\ Cancel(k) /\ WaitForRead(EventThread, k, "timeout")
             /\ UNCHANGED <<deleted, event>>
    BY <1>t, <2>0, <2>1, <2>2, <2>3, CancelStart
  <2>4. CASE /\ read' = [read EXCEPT ![k] = Returned(k)] /\ Dispose(k)
             /\ event' = NoEvent /\ UNCHANGED <<semEvent, readEvent, threadVars>>
    <3>1. \A j \in Keys \ {k} : deleted'[j] = deleted[j]
      BY <2>0, <2>4 DEF Dispose, TypeOK, RecordType
    <3>2. QuietEvent
      BY <2>1, <2>4 DEF QuietEvent, NoEvent
    <3>3. /\ \A j \in Keys : HeldOnce(j)'
          /\ \A j \in Keys : read'[j] = "cancelling" <=> read[j] = "cancelling"
          /\ \A j \in Keys : read'[j] = "none" <=> read[j] = "none"
      BY <2>0, <2>4, <3>2, ReturnedReads
    <3>4. NoNewPause /\ NoNewWaiter /\ ClosersStay /\ EventThreadStays
      BY <2>1, <2>4 DEF NoNewPause, NoNewWaiter, ClosersStay, EventThreadStays, threadVars
    <3>5. DeletedStays
      BY <2>0, <2>1, <2>2, <3>1, <3>3 DEF DeletedStays
    <3> HIDE DEF k
    <3> QED
      BY <2>0, <2>1, <2>2, <3>1, <3>3, <3>4, <3>5, CancelStep
  <2> QED
    BY <1>13, <2>3, <2>4 DEF RunTimeout
<1>14. CASE RunRead
  <2> DEFINE k == event.key
  <2>0. k \in Keys
    BY <1>14, EventType DEF RunRead, Handles
  <2>1. /\ UNCHANGED <<gen, present, deleted, timedout, semCleanup, cleaner, ckey, pc, after,
                       at, atGen>>
        /\ pc[EventThread] = "idle" /\ event.kind = "read" /\ event' = NoEvent
    BY <1>14 DEF RunRead, Handles, recVars, cleanVars, threadVars
  <2>2. NoNewPause /\ NoNewWaiter /\ ClosersStay /\ EventThreadStays
    BY <2>1 DEF NoNewPause, NoNewWaiter, ClosersStay, EventThreadStays
  <2>3. CASE event.cancel /\ semEvent' = [semEvent EXCEPT ![k] = TRUE]
             /\ UNCHANGED <<read, readEvent>>
    <3>1. semEvent'[k] /\ \A j \in Keys \ {k} : semEvent'[j] = semEvent[j]
      BY <2>0, <2>3 DEF TypeOK, RequestType
    <3>2. \A j \in Keys : HeldOnce(j)'
      BY <2>0, <2>1, <2>3, <3>1 DEF CancelInv, HeldOnce, Running, Cancelling, NoEvent
    <3>3. DeletedStays
      BY <2>1, <2>3 DEF DeletedStays
    <3> QED
      BY <2>1, <2>2, <2>3, <3>2, <3>3, CancelStep
  <2>4. CASE ~event.cancel /\ UNCHANGED <<readVars, readEvent>>
    <3>1. UNCHANGED <<read, semEvent, readEvent>>
      BY <2>4 DEF readVars
    <3>2. \A j \in Keys : HeldOnce(j)'
      BY <2>1, <2>4, <3>1 DEF CancelInv, HeldOnce, Running, Cancelling, NoEvent
    <3>3. DeletedStays
      BY <2>1, <3>1 DEF DeletedStays
    <3> QED
      BY <2>1, <2>2, <3>1, <3>2, <3>3, CancelStep
  <2>5. CASE /\ ~event.cancel /\ read[k] \in {"idle", "loaned"}
             /\ \E r \in {read[k], "loaned", "last"}, e \in {readEvent[k], "data"} :
                   /\ read' = [read EXCEPT ![k] = r]
                   /\ readEvent' = [readEvent EXCEPT ![k] = e]
             /\ UNCHANGED semEvent
    <3>1. readEvent[k] \in {"none", "data"}
      BY <2>0, <2>5 DEF CancelInv, HeldOnce, TypeOK, QueueType
    <3>2. PICK r \in {"idle", "loaned", "last"}, e \in {"none", "data"} :
                   /\ read' = [read EXCEPT ![k] = r]
                   /\ readEvent' = [readEvent EXCEPT ![k] = e]
      BY <2>5, <3>1
    <3> HIDE DEF k
    <3> QED
      BY <2>0, <2>1, <2>5, <3>2, CancelRequest DEF threadVars
  <2>6. CASE /\ ~event.cancel /\ read[k] = "idle"
             /\ read' = [read EXCEPT ![k] = "over"]
             /\ UNCHANGED <<semEvent, readEvent>>
    <3>1. readEvent[k] \in {"none", "data"}
      BY <2>0, <2>6 DEF CancelInv, HeldOnce, TypeOK, QueueType
    <3>2. readEvent' = [readEvent EXCEPT ![k] = readEvent[k]]
      BY <2>6 DEF TypeOK, QueueType
    <3> HIDE DEF k
    <3> QED
      BY <2>0, <2>1, <2>6, <3>1, <3>2, CancelRequest DEF threadVars
  <2> QED
    BY <1>14, <2>3, <2>4, <2>5, <2>6 DEF RunRead
<1>15. CASE CleanStart \/ CleanEnd
  BY <1>15, CancelFrame DEF CleanStart, CleanEnd, recVars, readVars, queueVars, threadVars,
                            NoNewPause, QuietEvent
<1>16. ASSUME NEW k \in Keys, CleanSkip(k) \/ CleanFail(k) \/ CleanResources(k)
       PROVE  CancelInv'
  BY <1>16, CancelFrame DEF CleanSkip, CleanFail, CleanResources, recVars, readVars,
                            queueVars, cleanVars, threadVars, NoNewPause, QuietEvent
<1>17. ASSUME NEW k \in Keys, CleanSession(k) PROVE CancelInv'
  <2>1. /\ UNCHANGED <<gen, deleted, timedout, event, threadVars, read, semEvent, readEvent>>
        /\ present[k] /\ deleted[k] /\ read[k] = "none" /\ FinalizeTimer(k) /\ ckey' = k
    BY <1>17 DEF CleanSession, readVars
  <2>2. \A j \in Keys : HeldOnce(j)'
    BY <2>1, HeldFrame DEF QuietEvent
  <2>3. \A u \in Threads : pc[u] = "wait" => at[u] # k
    BY <2>1 DEF CancelInv, WaiterOwnsSession
  <2> QED
    BY <2>1, <2>2, <2>3, CancelFinalized
<1>18. ASSUME NEW k \in Keys, CleanRead(k) \/ ReadsCancel(k) PROVE CancelInv'
  <2>1. /\ UNCHANGED <<gen, present, deleted, timedout, semCleanup, event, pc, after, at, atGen>>
        /\ present[k] /\ read[k] \in {"idle", "last", "over"} /\ Cancel(k)
        /\ ~CleanerCancels /\ CleanerCancels' /\ ckey' = k
        /\ cleaner' = "readWait" => deleted[k]
    BY <1>18 DEF CleanRead, ReadsCancel, CleanerCancels, recVars, threadVars
  <2>2. /\ read'[k] = "cancelling" /\ \A j \in Keys \ {k} : read'[j] = read[j]
        /\ readEvent'[k] = "cancel" /\ \A j \in Keys \ {k} : readEvent'[j] = readEvent[j]
        /\ semEvent' = semEvent
    BY <2>1 DEF Cancel, TypeOK, RequestType, QueueType
  <2>3. \A j \in Keys : HeldOnce(j)'
    BY <2>1, <2>2 DEF CancelInv, HeldOnce, Running, Cancelling
  <2>4. WaiterOwnsSession'
    BY <1>t, <2>1, <2>2 DEF CancelInv, WaiterOwnsSession
  <2>5. DeletedHasCloser'
    BY <2>1, CloserFrame DEF ClosersStay
  <2>6. NoReadLeft'
    BY <1>18, <2>1, <2>2 DEF CancelInv, NoReadLeft, CleanRead, ReadsCancel
  <2>7. WaitsInTimeout'
    BY <2>1 DEF CancelInv, WaitsInTimeout
  <2> QED
    BY <2>3, <2>4, <2>5, <2>6, <2>7 DEF CancelInv
<1>19. CASE CleanReadResume
  <2>1. /\ UNCHANGED <<gen, deleted, timedout, event, threadVars, readEvent>>
        /\ cleaner = "readWait" /\ semEvent[ckey] /\ FinalizeTimer(ckey) /\ ckey' = ckey
    BY <1>19 DEF CleanReadResume
  <2>2. /\ present[ckey] /\ read[ckey] = "cancelling" /\ deleted[ckey]
        /\ \A u \in Threads : pc[u] = "wait" => at[u] # ckey
    BY <2>1 DEF CancelInv, WaiterOwnsSession, CleanerCancels, NoReadLeft
  <2>3. readEvent[ckey] = "none" /\ ~Running(ckey)
    BY <1>c, <2>1, <2>2 DEF CancelInv, HeldOnce
  <2>4. /\ read'[ckey] = "none" /\ ~semEvent'[ckey]
        /\ \A j \in Keys \ {ckey} : read'[j] = read[j] /\ semEvent'[j] = semEvent[j]
    BY <1>19, <1>c DEF CleanReadResume, TypeOK, RequestType
  <2>5. \A j \in Keys : HeldOnce(j)'
    BY <2>1, <2>3, <2>4 DEF CancelInv, HeldOnce, Running, Cancelling
  <2> QED
    BY <1>c, <2>1, <2>2, <2>4, <2>5, CancelFinalized
<1>20. CASE CleanTimerResume
  <2>1. /\ UNCHANGED <<gen, deleted, timedout, event, threadVars, read, semEvent, readEvent,
                       ckey>>
        /\ cleaner = "timerWait"
    BY <1>20 DEF CleanTimerResume, readVars, queueVars
  <2>2. CASE present[ckey] /\ SessionFinalized(ckey)
    <3>1. deleted[ckey] /\ read[ckey] = "none"
      BY <2>1, <2>2 DEF CancelInv, NoReadLeft, NotReopened
    <3>2. \A j \in Keys : HeldOnce(j)'
      BY <2>1, HeldFrame DEF QuietEvent
    <3>3. \A u \in Threads : pc[u] = "wait" => at[u] # ckey
      BY <3>1 DEF CancelInv, WaiterOwnsSession
    <3> QED
      BY <1>c, <2>1, <2>2, <3>1, <3>2, <3>3, CancelFinalized
  <2>3. CASE cleaner' = "idle" /\ UNCHANGED <<present, finalized, semCleanup, proxyVars>>
    BY <2>1, <2>3, CancelFrame DEF threadVars, NoNewPause, QuietEvent
  <2> QED
    BY <1>20, <2>2, <2>3 DEF CleanTimerResume
<1>21. CASE UNCHANGED vars
  BY <1>21, CancelFrame DEF vars, recVars, readVars, queueVars, cleanVars, threadVars,
                            NoNewPause, QuietEvent
<1>22. CASE CleanReadFail \/ ReadsResume
  <2>1. /\ UNCHANGED <<gen, present, deleted, timedout, semCleanup, event, readEvent, pc,
                       after, at, atGen>>
        /\ CleanerCancels /\ semEvent[ckey] /\ cleaner' = "idle"
    BY <1>22 DEF CleanReadFail, ReadsResume, ReadGone, CleanerCancels, recVars, queueVars,
                 threadVars
  <2>2. /\ read[ckey] = "cancelling"
        /\ \A u \in Threads : pc[u] = "wait" => at[u] # ckey
    BY <2>1 DEF CancelInv, WaiterOwnsSession
  <2>3. readEvent[ckey] = "none" /\ ~Running(ckey)
    BY <1>c, <2>1, <2>2 DEF CancelInv, HeldOnce
  <2>4. /\ read'[ckey] = "none" /\ ~semEvent'[ckey]
        /\ \A j \in Keys \ {ckey} : read'[j] = read[j] /\ semEvent'[j] = semEvent[j]
    BY <1>22, <1>c DEF CleanReadFail, ReadsResume, ReadGone, TypeOK, RequestType
  <2>5. \A j \in Keys : HeldOnce(j)'
    BY <2>1, <2>3, <2>4 DEF CancelInv, HeldOnce, Running, Cancelling
  <2>6. WaiterOwnsSession'
    BY <1>t, <2>1, <2>2, <2>4 DEF CancelInv, WaiterOwnsSession, CleanerCancels
  <2>7. NoNewPause /\ NoNewWaiter /\ ClosersStay /\ EventThreadStays /\ DeletedStays
    BY <1>c, <2>1, <2>4 DEF NoNewPause, NoNewWaiter, ClosersStay, EventThreadStays,
                            DeletedStays
  <2>8. DeletedHasCloser'
    BY <2>1, <2>7, CloserFrame
  <2>9. NoReadLeft'
    BY <2>1, <2>7, NoReadFrame
  <2>10. WaitsInTimeout'
    BY <2>7, TimeoutFrame
  <2> QED
    BY <2>5, <2>6, <2>8, <2>9, <2>10 DEF CancelInv
<1> QED
  BY <1>1, <1>2, <1>3, <1>4, <1>5, <1>6, <1>7, <1>8, <1>9, <1>10, <1>11, <1>12, <1>13,
     <1>14, <1>15, <1>16, <1>17, <1>18, <1>19, <1>20, <1>21, <1>22
     DEF Next, Worker, EventStep, Cleanup, Pass

LEMMA CancelInit == Init => CancelInv
<1> SUFFICES ASSUME Init PROVE CancelInv
  OBVIOUS
<1>1. EventThread \in Threads /\ Workers \subseteq Threads
  BY DEF Threads
<1>2. \A t \in Threads : pc[t] = "idle"
  BY DEF Init
<1>3. \A k \in Keys : HeldOnce(k)
  BY DEF Init, HeldOnce, Running, Cancelling, NoEvent
<1>4. WaiterOwnsSession
  BY <1>2 DEF Init, WaiterOwnsSession, CleanerCancels
<1>5. DeletedHasCloser /\ NoReadLeft
  BY DEF Init, DeletedHasCloser, NoReadLeft
<1>6. WaitsInTimeout
  BY <1>1, <1>2 DEF WaitsInTimeout
<1> QED
  BY <1>3, <1>4, <1>5, <1>6 DEF CancelInv

(* One holder of a cancellation, in the words of CancelHandshake.           *)
LEMMA HeldHandshake ==
    ASSUME CancelInv
    PROVE  CancelHandshake
<1> SUFFICES ASSUME NEW k \in Keys,
                    NEW held, held = {x \in {"queue", "thread", "semaphore"} :
                        \/ x = "queue" /\ readEvent[k] = "cancel"
                        \/ x = "thread" /\ Cancelling(k)
                        \/ x = "semaphore" /\ semEvent[k]}
             PROVE  /\ read[k] = "cancelling" => \E x \in held : held = {x}
                    /\ read[k] # "cancelling" => held = {}
                    /\ read[k] = "none" => readEvent[k] = "none" /\ ~Running(k)
  BY DEF CancelHandshake
<1>h. HeldOnce(k)
  BY DEF CancelInv
<1>1. CASE read[k] # "cancelling"
  <2>1. held = {} /\ (read[k] = "none" => readEvent[k] = "none" /\ ~Running(k))
    BY <1>h, <1>1 DEF HeldOnce
  <2> QED
    BY <1>1, <2>1
<1>2. CASE read[k] = "cancelling" /\ readEvent[k] = "cancel"
  <2>1. held = {"queue"}
    BY <1>h, <1>2 DEF HeldOnce
  <2> QED
    BY <1>2, <2>1
<1>3. CASE read[k] = "cancelling" /\ readEvent[k] # "cancel" /\ Cancelling(k)
  <2>1. held = {"thread"}
    BY <1>h, <1>3 DEF HeldOnce, Cancelling
  <2> QED
    BY <1>3, <2>1
<1>4. CASE read[k] = "cancelling" /\ readEvent[k] # "cancel" /\ ~Cancelling(k)
  <2>1. held = {"semaphore"}
    BY <1>h, <1>4 DEF HeldOnce
  <2> QED
    BY <1>4, <2>1
<1> QED
  BY <1>1, <1>2, <1>3, <1>4

(* As long as no key is opened again while the cleanup thread waits for the *)
(* timer of its former session, the cancellation of reads is in order.      *)
THEOREM CancelInvariant == Spec /\ []NotReopened => []CancelInv
<1>1. TypeOK /\ CancelInv /\ NotReopened /\ NotReopened' /\ [Next]_vars => CancelInv'
  BY CancelNext
<1> QED
  BY <1>1, CancelInit, TypeCorrect, PTL DEF Spec

(* ... a cancelled read request is held by exactly one of the event queue,  *)
(* the event thread and the semaphore, and when cancel_readEA frees it no   *)
(* event of it is left, for any number of clients and threads, ...          *)
THEOREM CancellationHeldOnce == Spec /\ []NotReopened => []CancelHandshake
<1>1. CancelInv => CancelHandshake
  BY HeldHandshake
<1> QED
  BY <1>1, CancelInvariant, PTL

(* ... a thread that released its session to cancel a read finds it again,  *)
(* with the request it is cancelling, and no two threads cancel one, ...    *)
THEOREM WaiterKeepsSession == Spec /\ []NotReopened => []WaiterOwnsSession
<1>1. CancelInv => WaiterOwnsSession
  BY DEF CancelInv
<1> QED
  BY <1>1, CancelInvariant, PTL

(* ... and a session its client closed always has a thread in close_session *)
(* to remove it.                                                            *)
THEOREM ClosedSessionHasCloser == Spec /\ []NotReopened => []DeletedHasCloser
<1>1. CancelInv => DeletedHasCloser
  BY DEF CancelInv
<1> QED
  BY <1>1, CancelInvariant, PTL
-----------------------------------------------------------------------------
(***************************************************************************)
(* When NotReopened can be relied upon: a key that is opened once only, or *)
(* sessions without a finite timeout ...                                   *)
(***************************************************************************)
TimerWaitInv ==
    /\ cleaner \in {"readWait", "timerWait"} => deleted[ckey]
    /\ cleaner = "timerWait" => FiniteTimeout /\ gen[ckey] >= 1

LEMMA TimerWaitFrame ==
    ASSUME TypeOK, TimerWaitInv, gen' = gen,
           NoNewPause, \A k \in Keys : deleted[k] => deleted'[k]
    PROVE  TimerWaitInv'
  BY DEF TimerWaitInv, NoNewPause, TypeOK, CleanerType

LEMMA TimerWaitNext ==
    ASSUME ~FiniteTimeout \/ MaxOpens <= 1,
           TypeOK, SessionInv, TimerWaitInv, [Next]_vars
    PROVE  TimerWaitInv'
<1>c. ckey \in Keys
  BY DEF TypeOK, CleanerType
<1>m. MaxOpens \in Nat
  BY SessionsAssumption
<1>1. ASSUME NEW w \in Workers, NEW k \in Keys, OpenNew(w, k) PROVE TimerWaitInv'
  <2>1. /\ UNCHANGED <<cleaner, ckey>> /\ cleaner # "readWait"
        /\ gen[k] < MaxOpens /\ gen[k] \in Nat
    BY <1>1, <1>m DEF OpenNew, TableFree, TypeOK, RecordType
  <2>2. \A j \in Keys \ {k} : gen'[j] = gen[j] /\ deleted'[j] = deleted[j]
    BY <1>1 DEF OpenNew, TypeOK, RecordType
  <2>3. cleaner = "timerWait" => ckey # k
    BY <1>m, <2>1 DEF TimerWaitInv
  <2> QED
    BY <1>c, <2>1, <2>2, <2>3 DEF TimerWaitInv
<1>2. ASSUME NEW w \in Workers, NEW k \in Keys,
             \/ OpenReset(w, k) \/ ReceiveOther(w, k) \/ ReceiveRead(w, k)
             \/ ReceiveAck(w, k) \/ ReceiveDelete(w, k) \/ ReceiveDeleteObject(w, k)
      PROVE  TimerWaitInv'
  BY <1>2, TimerWaitFrame DEF NoNewPause, OpenReset, ReceiveOther, ReceiveRead, ReceiveAck, ReceiveDelete,
                              ReceiveDeleteObject, Receive, recVars, cleanVars
<1>3. ASSUME NEW w \in Workers, Close(w) \/ CloseResume(w) \/ CloseNotify(w)
      PROVE  TimerWaitInv'
  <2>1. \A j \in Keys : deleted[j] => deleted'[j]
    BY <1>3, ThreadFacts DEF Close, Dispose, CloseResume, CloseNotify, recVars, TypeOK, RecordType
  <2> QED
    BY <1>3, <2>1, TimerWaitFrame DEF NoNewPause, Close, CloseResume, CloseNotify, recVars, cleanVars
<1>4. ASSUME NEW t \in Threads, ReadCancelled(t) PROVE TimerWaitInv'
  <2>1. \A j \in Keys : deleted[j] => deleted'[j]
    BY <1>4, ThreadFacts DEF ReadCancelled, TypeOK, RecordType
  <2> QED
    BY <1>4, <2>1, TimerWaitFrame DEF NoNewPause, ReadCancelled
<1>5. ASSUME NEW k \in Keys, DataArrives(k) \/ PopRead(k) PROVE TimerWaitInv'
  BY <1>5, TimerWaitFrame DEF NoNewPause, DataArrives, PopRead, TakeEvent, recVars, cleanVars
<1>6. ASSUME NEW k \in Keys, NEW g \in Gens, PopTimeout(k, g) \/ PopHeartbeat(k, g)
      PROVE  TimerWaitInv'
  BY <1>6, TimerWaitFrame DEF NoNewPause, PopTimeout, PopHeartbeat, TakeEvent, recVars, cleanVars
<1>7. CASE RunTimeoutCancel \/ RunTimeoutIgnored \/ RunRead \/ RunHeartbeat
  BY <1>7, TimerWaitFrame DEF NoNewPause, RunTimeoutCancel, RunTimeoutIgnored, RunRead, RunHeartbeat,
                              recVars, cleanVars
<1>8. CASE RunTimeout
  <2>1. \A j \in Keys : deleted[j] => deleted'[j]
    BY <1>8 DEF RunTimeout, Dispose, TypeOK, RecordType
  <2> QED
    BY <1>8, <2>1, TimerWaitFrame DEF NoNewPause, RunTimeout
<1>9. CASE CleanStart \/ CleanEnd \/ CleanReadFail \/ ReadsResume
  BY <1>9, TimerWaitFrame DEF NoNewPause, CleanStart, CleanEnd, CleanReadFail, ReadsResume,
                              ReadGone, recVars
<1>10. ASSUME NEW k \in Keys, CleanSkip(k) \/ CleanFail(k) \/ CleanResources(k)
       PROVE  TimerWaitInv'
  BY <1>10, TimerWaitFrame DEF NoNewPause, CleanSkip, CleanFail, CleanResources, recVars,
                               cleanVars
<1>11. ASSUME NEW k \in Keys, CleanRead(k) \/ ReadsCancel(k) PROVE TimerWaitInv'
  BY <1>11 DEF CleanRead, ReadsCancel, recVars, TimerWaitInv
<1>12. ASSUME NEW k \in Keys, present[k], deleted[k], FinalizeTimer(k), ckey' = k,
              UNCHANGED <<gen, deleted>>
       PROVE  TimerWaitInv'
  <2>1. gen[k] >= 1
    BY <1>12, <1>m DEF SessionInv, Gens
  <2> QED
    BY <1>12, <2>1 DEF FinalizeTimer, SessionFinalized, TimerWaitInv
<1>13. ASSUME NEW k \in Keys, CleanSession(k) PROVE TimerWaitInv'
  BY <1>12, <1>13 DEF CleanSession
<1>14. CASE CleanReadResume
  BY <1>c, <1>12, <1>14 DEF CleanReadResume, SessionInv, TimerWaitInv
<1>15. CASE CleanTimerResume
  BY <1>15 DEF CleanTimerResume, SessionFinalized, TimerWaitInv
<1>16. CASE UNCHANGED vars
  BY <1>16, TimerWaitFrame DEF NoNewPause, vars, recVars, cleanVars
<1> QED
  BY <1>1, <1>2, <1>3, <1>4, <1>5, <1>6, <1>7, <1>8, <1>9, <1>10, <1>11, <1>13, <1>14,
     <1>15, <1>16 DEF Next, Worker, EventStep, Cleanup, Pass

(* No key is opened again under the cleanup thread if a client opens one    *)
(* session only, or if sessions never time out: then CancelInvariant and    *)
(* what follows from it hold without a premise.                             *)
THEOREM NeverReopened ==
    ~FiniteTimeout \/ MaxOpens <= 1 => (Spec => []NotReopened)
<1> SUFFICES ASSUME ~FiniteTimeout \/ MaxOpens <= 1 PROVE Spec => []NotReopened
  OBVIOUS
<1>1. Init => TimerWaitInv
  BY DEF Init, TimerWaitInv
<1>2. TypeOK /\ SessionInv /\ TimerWaitInv /\ [Next]_vars => TimerWaitInv'
  BY TimerWaitNext
<1>3. TimerWaitInv => NotReopened
  BY DEF TimerWaitInv, NotReopened
<1> QED
  BY <1>1, <1>2, <1>3, TypeCorrect, SessionInvariant, PTL DEF Spec
-----------------------------------------------------------------------------
(***************************************************************************)
(* ... or an agent with one client.                                        *)
(***************************************************************************)
LEMMA FinalizedFrame ==
    ASSUME TypeOK, FinalizedInv,
           UNCHANGED <<finalized, present, deleted, timedout, semCleanup, cond, cleaner>>,
           visited \subseteq visited',
           pc'[EventThread] = "wait" => pc[EventThread] = "wait"
    PROVE  FinalizedInv'
  BY DEF FinalizedInv, NoPass

(* The session is disposed: nobody has asked for a pass before.             *)
LEMMA FinalizedDispose ==
    ASSUME TypeOK, FinalizedInv, NEW k, Keys = {k}, present[k], ~deleted[k],
           deleted'[k], cond', UNCHANGED <<finalized, present, semCleanup, cleaner, visited>>,
           pc'[EventThread] # "wait"
    PROVE  FinalizedInv'
<1>1. finalized[k] \in Nat /\ NoPass
  BY DEF TypeOK, RecordType, FinalizedInv
<1> QED
  BY <1>1 DEF FinalizedInv, NoPass

(* The cleanup thread is done with the session.                             *)
LEMMA FinalizedSession ==
    ASSUME TypeOK, FinalizedInv, NEW k, Keys = {k}, present[k], deleted[k],
           finalized[k] = 0, ~cond, k \in visited', pc[EventThread] # "wait",
           FinalizeTimer(k) \/ SessionFinalized(k),
           UNCHANGED <<deleted, timedout, cond, threadVars>>
    PROVE  FinalizedInv'
<1>1. CASE SessionFinalized(k)
  <2>1. finalized'[k] = 1 /\ cleaner' = "pass" /\ (present'[k] => ~timedout[k])
    BY <1>1 DEF SessionFinalized, TypeOK, RecordType
  <2> QED
    BY <2>1 DEF FinalizedInv, NoPass, threadVars
<1>2. CASE cleaner' = "timerWait" /\ UNCHANGED <<present, finalized, semCleanup, proxyVars>>
  BY <1>2 DEF FinalizedInv, NoPass, threadVars
<1> QED
  BY <1>1, <1>2 DEF FinalizeTimer

LEMMA FinalizedNext ==
    ASSUME NEW k, Keys = {k}, TypeOK, CancelInv, FinalizedInv, [Next]_vars
    PROVE  FinalizedInv'
<1>a. k \in Keys /\ ckey = k /\ \A t \in Threads : at[t] = k
  BY ThreadFacts DEF TypeOK, CleanerType
<1>b. finalized[k] \in {0, 1}
  BY DEF FinalizedInv, TypeOK, RecordType
<1>t. Workers \subseteq Threads /\ EventThread \in Threads /\ EventThread \notin Workers
  BY ThreadFacts
<1>1. ASSUME NEW w \in Workers, OpenNew(w, k) PROVE FinalizedInv'
  <2>1. /\ finalized'[k] = 0 /\ ~deleted'[k] /\ ~semCleanup'[k]
        /\ ~present[k] /\ UNCHANGED <<cond, cleaner, pc>>
        /\ cleaner \in {"idle", "timerWait", "readsWait"}
    BY <1>1, <1>a DEF OpenNew, TableFree, threadVars, TypeOK, RecordType
  <2>2. ~cond /\ NoPass
    BY <1>a, <2>1 DEF FinalizedInv, NoPass
  <2> QED
    BY <2>1, <2>2 DEF FinalizedInv, NoPass
<1>2. ASSUME NEW w \in Workers,
             \/ OpenReset(w, k) \/ ReceiveOther(w, k) \/ ReceiveRead(w, k)
             \/ ReceiveAck(w, k) \/ ReceiveDelete(w, k) \/ ReceiveDeleteObject(w, k)
      PROVE  FinalizedInv'
  <2>1. pc'[EventThread] = pc[EventThread]
    BY <1>2, <1>t DEF OpenReset, ReceiveOther, ReceiveRead, ReceiveAck, ReceiveDelete,
                      ReceiveDeleteObject, WaitForRead, threadVars, TypeOK, ThreadType
  <2>2. UNCHANGED <<finalized, present, deleted, timedout, semCleanup, cond, cleaner, visited>>
    BY <1>2 DEF OpenReset, ReceiveOther, ReceiveRead, ReceiveAck, ReceiveDelete,
                ReceiveDeleteObject, Receive, recVars, cleanVars
  <2> QED
    BY <2>1, <2>2, FinalizedFrame
<1>3. ASSUME NEW w \in Workers, Close(w) PROVE FinalizedInv'
  <2>1. /\ UNCHANGED <<finalized, present, timedout, semCleanup, cleaner, visited>>
        /\ pc'[EventThread] = pc[EventThread] /\ at[w] = k
    BY <1>3, <1>a, <1>t DEF Close, TypeOK, ThreadType
  <2>2. CASE Active(k)
    <3>1. pc[EventThread] # "wait"
      BY <1>a, <1>t, <2>2 DEF Active, CancelInv, WaitsInTimeout
    <3>2. deleted'[k] /\ cond'
      BY <1>3, <1>a, <2>1, <2>2 DEF Close, Dispose, TypeOK, RecordType
    <3> QED
      BY <2>1, <2>2, <3>1, <3>2, FinalizedDispose DEF Active
  <2>3. CASE ~Active(k)
    BY <1>3, <2>1, <2>3, FinalizedFrame DEF Close
  <2> QED
    BY <2>2, <2>3
<1>4. ASSUME NEW w \in Workers, CloseResume(w) PROVE FinalizedInv'
  <2>1. /\ UNCHANGED <<finalized, deleted, timedout, cond, cleaner, visited>>
        /\ ~present'[k] /\ ~semCleanup'[k] /\ semCleanup[k]
        /\ cleaner \in {"idle", "timerWait", "readsWait"}
        /\ pc'[EventThread] = pc[EventThread]
    BY <1>4, <1>a, <1>t DEF CloseResume, TableFree, cleanVars, TypeOK, RecordType, ThreadType
  <2>2. finalized[k] = 1 /\ ~cond /\ NoPass
    BY <1>a, <2>1 DEF FinalizedInv, NoPass
  <2> QED
    BY <2>1, <2>2 DEF FinalizedInv, NoPass
<1>5. ASSUME NEW w \in Workers, CloseNotify(w) PROVE FinalizedInv'
  <2>1. pc'[EventThread] = pc[EventThread]
    BY <1>5, <1>t DEF CloseNotify, TypeOK, ThreadType
  <2> QED
    BY <1>5, <2>1, FinalizedFrame DEF CloseNotify, recVars, cleanVars
<1>6. ASSUME NEW t \in Threads, ReadCancelled(t) PROVE FinalizedInv'
  <2>1. /\ UNCHANGED <<finalized, present, timedout, semCleanup, cleaner, visited>>
        /\ pc[t] = "wait" /\ pc'[t] # "wait" /\ at[t] = k
        /\ t # EventThread => pc'[EventThread] = pc[EventThread]
        /\ deleted'[k] = (deleted[k] \/ after[t] = "timeout")
        /\ cond' = (cond \/ after[t] = "timeout")
    BY <1>6, <1>a, <1>t DEF ReadCancelled, TypeOK, ThreadType, RecordType
  <2>2. CASE t = EventThread
    <3>1. present[k] /\ ~deleted[k] /\ after[t] = "timeout"
      BY <1>a, <2>1, <2>2 DEF CancelInv, WaiterOwnsSession, WaitsInTimeout, FinalizedInv
    <3>2. deleted'[k] /\ cond' /\ pc'[EventThread] # "wait"
      BY <2>1, <2>2, <3>1
    <3> QED
      BY <2>1, <3>1, <3>2, FinalizedDispose
  <2>3. CASE t # EventThread
    <3>1. after[t] # "timeout"
      BY <2>1, <2>3 DEF CancelInv, WaitsInTimeout, Threads
    <3>2. deleted'[k] = deleted[k] /\ cond' = cond
      BY <2>1, <3>1 DEF TypeOK, RecordType, CleanerType
    <3> QED
      BY <2>1, <2>3, <3>2 DEF FinalizedInv, NoPass
  <2> QED
    BY <2>2, <2>3
<1>7. CASE DataArrives(k) \/ PopRead(k)
  BY <1>7, FinalizedFrame DEF DataArrives, PopRead, TakeEvent, recVars, cleanVars, threadVars
<1>8. ASSUME NEW g \in Gens, PopTimeout(k, g) \/ PopHeartbeat(k, g) PROVE FinalizedInv'
  BY <1>8, FinalizedFrame DEF PopTimeout, PopHeartbeat, TakeEvent, recVars, cleanVars,
                              threadVars
<1>9. CASE RunTimeoutCancel \/ RunTimeoutIgnored \/ RunRead \/ RunHeartbeat
  BY <1>9, FinalizedFrame DEF RunTimeoutCancel, RunTimeoutIgnored, RunRead, RunHeartbeat,
                              recVars, cleanVars, threadVars
<1>10. CASE RunTimeout
  <2>1. event.key = k
    BY <1>10, EventType DEF RunTimeout, Handles
  <2>2. /\ UNCHANGED <<finalized, present, semCleanup, cleaner, visited>>
        /\ present[k] /\ ~deleted[k] /\ pc[EventThread] = "idle"
    BY <1>10, <2>1 DEF RunTimeout, Active, Handles
  <2>3. CASE UNCHANGED <<deleted, cond>>
    BY <1>a, <2>2, <2>3 DEF FinalizedInv, NoPass
  <2>4. CASE Dispose(k) /\ UNCHANGED threadVars
    <3>1. deleted'[k] /\ cond' /\ pc'[EventThread] # "wait"
      BY <1>a, <2>2, <2>4 DEF Dispose, threadVars, TypeOK, RecordType
    <3> QED
      BY <2>2, <3>1, FinalizedDispose
  <2> QED
    BY <1>10, <2>1, <2>3, <2>4 DEF RunTimeout
<1>11. CASE CleanStart
  BY <1>11 DEF CleanStart, recVars, threadVars, FinalizedInv, NoPass
<1>12. CASE CleanEnd \/ CleanFail(k) \/ CleanReadFail \/ ReadsResume \/ ReadsCancel(k)
  BY <1>12 DEF CleanEnd, CleanFail, CleanReadFail, ReadsResume, ReadGone, ReadsCancel,
               recVars, threadVars, FinalizedInv, NoPass
<1>13. CASE CleanSkip(k) \/ CleanResources(k)
  BY <1>13, FinalizedFrame DEF CleanSkip, CleanResources, recVars, cleanVars, threadVars
<1>14. CASE CleanSession(k)
  <2>1. /\ cleaner = "pass" /\ present[k] /\ k \notin visited /\ deleted[k]
        /\ FinalizeTimer(k) /\ visited' = visited \cup {k}
        /\ UNCHANGED <<deleted, timedout, cond, threadVars>>
    BY <1>14 DEF CleanSession
  <2>2. finalized[k] = 0 /\ ~cond
    BY <1>a, <1>b, <2>1 DEF FinalizedInv, NoPass
  <2>3. pc[EventThread] # "wait"
    BY <1>a, <2>1 DEF FinalizedInv, NoPass
  <2> QED
    BY <2>1, <2>2, <2>3, FinalizedSession
<1>15. CASE CleanRead(k)
  <2>1. /\ cleaner = "pass" /\ present[k] /\ k \notin visited /\ deleted[k]
        /\ cleaner' = "readWait" /\ visited' = visited \cup {k}
        /\ UNCHANGED <<finalized, present, deleted, timedout, semCleanup, cond, pc>>
    BY <1>15 DEF CleanRead, recVars, threadVars
  <2>2. finalized[k] = 0 /\ ~cond
    BY <1>a, <1>b, <2>1 DEF FinalizedInv, NoPass
  <2> QED
    BY <2>1, <2>2 DEF FinalizedInv, NoPass
<1>16. CASE CleanReadResume
  <2>1. /\ cleaner = "readWait" /\ FinalizeTimer(k)
        /\ UNCHANGED <<deleted, timedout, cond, visited, threadVars>>
    BY <1>16, <1>a DEF CleanReadResume
  <2>2. present[k] /\ deleted[k] /\ finalized[k] = 0 /\ ~cond /\ k \in visited
    BY <1>a, <2>1 DEF FinalizedInv, NoPass
  <2>3. pc[EventThread] # "wait"
    BY <1>a, <2>2 DEF FinalizedInv
  <2> QED
    BY <2>1, <2>2, <2>3, FinalizedSession
<1>17. CASE CleanTimerResume
  <2>1. cleaner = "timerWait" /\ UNCHANGED <<deleted, timedout, cond, visited, threadVars>>
    BY <1>17 DEF CleanTimerResume
  <2>2. present[k] /\ deleted[k] /\ finalized[k] = 0 /\ ~cond /\ k \in visited
    BY <1>a, <2>1 DEF FinalizedInv, NoPass
  <2>3. pc[EventThread] # "wait"
    BY <1>a, <2>2 DEF FinalizedInv
  <2>4. SessionFinalized(k)
    BY <1>17, <1>a, <2>2 DEF CleanTimerResume
  <2> QED
    BY <2>1, <2>2, <2>3, <2>4, FinalizedSession
<1>18. CASE UNCHANGED vars
  BY <1>18, FinalizedFrame DEF vars, recVars, cleanVars, threadVars
<1>19. \A j \in Keys : j = k
  OBVIOUS
<1> QED
  BY <1>1, <1>2, <1>3, <1>4, <1>5, <1>6, <1>7, <1>8, <1>9, <1>10, <1>11, <1>12, <1>13,
     <1>14, <1>15, <1>16, <1>17, <1>18, <1>19 DEF Next, Worker, EventStep, Cleanup, Pass

LEMMA FinalizedInit == Init => FinalizedInv
<1> SUFFICES ASSUME Init, NEW k \in Keys PROVE FinalizedInv!(k)
  BY DEF FinalizedInv
<1>1. EventThread \in Threads
  BY DEF Threads
<1>2. pc[EventThread] = "idle" /\ cond = FALSE /\ cleaner = "idle"
  BY <1>1 DEF Init
<1>3. finalized[k] = 0 /\ present[k] = FALSE /\ semCleanup[k] = FALSE
  BY DEF Init
<1> QED
  BY <1>2, <1>3

LEMMA OneClient ==
    ASSUME NEW k, Keys = {k}
    PROVE  Spec => [](CancelInv /\ FinalizedInv /\ NotReopened)
<1>1. TypeOK /\ FinalizedInv => NotReopened
  BY DEF FinalizedInv, NoPass, NotReopened, TypeOK, CleanerType
<1>2. TypeOK /\ CancelInv /\ FinalizedInv /\ [Next]_vars => FinalizedInv'
  BY FinalizedNext
<1>3. TypeOK /\ CancelInv /\ NotReopened /\ NotReopened' /\ [Next]_vars => CancelInv'
  BY CancelNext
<1> QED
  BY <1>1, <1>2, <1>3, CancelInit, FinalizedInit, TypeCorrect, PTL DEF Spec

(* With one client, however often it opens, resets, closes or abandons its  *)
(* session and over however many transports, a pass of the cleanup thread   *)
(* never comes back to the session it has finalized, so the client cannot   *)
(* open the next one under it: CancelInvariant and what follows from it     *)
(* hold without a premise here too.                                         *)
THEOREM OneClientNeverReopens ==
    (\E k : Keys = {k}) => (Spec => []NotReopened)
<1> SUFFICES ASSUME NEW k, Keys = {k} PROVE Spec => []NotReopened
  OBVIOUS
<1> QED
  BY OneClient, PTL
-----------------------------------------------------------------------------
(***************************************************************************)
(* Heartbeats.  A heartbeat event that finds its session resetting is not  *)
(* posted again, so the argument is for clients that read no data, whose   *)
(* sessions are reset in one step, and that can be answered.               *)
(***************************************************************************)
HeartbeatInv ==
    /\ HeartbeatPending
    /\ \A k \in Keys : read[k] = "none" /\ ~resetting[k]
    /\ \A t \in Threads : pc[t] # "wait"

LEMMA HeartbeatFrame ==
    ASSUME TypeOK, HeartbeatInv, gen' = gen, disposed \subseteq disposed',
           \A k \in Keys : read'[k] = "none" /\ ~resetting'[k],
           \A t \in Threads : pc'[t] # "wait",
           \A k \in Keys : present'[k] => present[k],
           \A k \in Keys : deleted[k] => deleted'[k],
           \A k \in Keys : timedout[k] => timedout'[k],
           heartbeat' = heartbeat, event' = event \/ event.kind # "heartbeat"
    PROVE  HeartbeatInv'
  BY DEF HeartbeatInv, HeartbeatPending, Active, Client

LEMMA HeartbeatNext ==
    ASSUME Readers = {}, "send" \notin Faults, TypeOK, SessionInv, HeartbeatInv, [Next]_vars
    PROVE  HeartbeatInv'
<1>s. SendOutcomes = {TRUE}
  BY DEF SendOutcomes
<1>t. Workers \subseteq Threads /\ EventThread \in Threads /\ \A t \in Threads : at[t] \in Keys
  BY ThreadFacts
<1>r. /\ \A k \in Keys : read[k] = "none" /\ ~resetting[k]
      /\ \A t \in Threads : pc[t] # "wait"
  BY DEF HeartbeatInv
<1>1. ASSUME NEW w \in Workers, NEW k \in Keys, OpenNew(w, k) PROVE HeartbeatInv'
  <2>1. /\ UNCHANGED <<read, disposed, event, pc>> /\ <<k, gen'[k]>> \in heartbeat'
        /\ heartbeat \subseteq heartbeat'
    BY <1>1 DEF OpenNew, readVars, threadVars, TypeOK, RecordType
  <2>2. \A j \in Keys \ {k} : /\ gen'[j] = gen[j] /\ present'[j] = present[j]
                              /\ deleted'[j] = deleted[j] /\ timedout'[j] = timedout[j]
                              /\ resetting'[j] = resetting[j]
    BY <1>1 DEF OpenNew, TypeOK, RecordType
  <2>3. ~resetting'[k]
    BY <1>1 DEF OpenNew, TypeOK, RecordType
  <2>4. HeartbeatPending'
    BY <2>1, <2>2 DEF HeartbeatInv, HeartbeatPending, Active, Client
  <2> QED
    BY <1>r, <2>1, <2>2, <2>3, <2>4 DEF HeartbeatInv
<1>2. ASSUME NEW w \in Workers, NEW k \in Keys, OpenReset(w, k) PROVE HeartbeatInv'
  <2>1. /\ resetting' = [resetting EXCEPT ![k] = FALSE]
        /\ UNCHANGED <<read, threadVars>>
    BY <1>2, <1>r, <1>s DEF OpenReset, ResetDone, readVars
  <2>2. \A j \in Keys : ~resetting'[j]
    BY <1>r, <2>1 DEF TypeOK, RecordType
  <2> QED
    BY <1>2, <1>r, <2>1, <2>2, HeartbeatFrame DEF OpenReset, proxyVars, threadVars
<1>3. ASSUME NEW w \in Workers, NEW k \in Keys,
             \/ ReceiveOther(w, k) \/ ReceiveRead(w, k) \/ ReceiveAck(w, k)
             \/ ReceiveDeleteObject(w, k)
      PROVE  HeartbeatInv'
  <2>1. UNCHANGED <<read, threadVars>>
    BY <1>3, <1>r DEF ReceiveOther, ReceiveRead, ReceiveAck, ReceiveDeleteObject, readVars
  <2>2. UNCHANGED <<gen, present, deleted, timedout, resetting, heartbeat, event, proxyVars>>
    BY <1>3 DEF ReceiveOther, ReceiveRead, ReceiveAck, ReceiveDeleteObject, Receive
  <2> QED
    BY <1>r, <2>1, <2>2, HeartbeatFrame DEF proxyVars, threadVars
<1>4. ASSUME NEW w \in Workers, NEW k \in Keys, ReceiveDelete(w, k) PROVE HeartbeatInv'
  <2>1. /\ UNCHANGED <<recVars, heartbeat, event>>
        /\ disposed' = disposed \cup {Client(k)}
        /\ read' = [read EXCEPT ![k] = Returned(k)]
        /\ pc' = [pc EXCEPT ![w] = "closing"] \/ UNCHANGED pc
    BY <1>4, <1>r DEF ReceiveDelete, Receive, recVars
  <2>2. \A j \in Keys : read'[j] = "none"
    BY <1>r, <2>1 DEF Returned, TypeOK, RequestType
  <2>3. \A t \in Threads : pc'[t] # "wait"
    BY <1>r, <1>t, <2>1 DEF TypeOK, ThreadType
  <2> QED
    BY <1>r, <2>1, <2>2, <2>3, HeartbeatFrame DEF recVars
<1>5. ASSUME NEW w \in Workers, Close(w) \/ CloseResume(w) \/ CloseNotify(w)
      PROVE  HeartbeatInv'
  <2>1. UNCHANGED <<gen, timedout, resetting, read, heartbeat, event, disposed>>
    BY <1>5 DEF Close, CloseResume, CloseNotify, OnSessionClosed, recVars, readVars, queueVars,
                proxyVars
  <2>2. \A t \in Threads : pc'[t] # "wait"
    BY <1>5, <1>r, <1>t DEF Close, CloseResume, CloseNotify, TypeOK, ThreadType
  <2>3. \A j \in Keys : (deleted[j] => deleted'[j]) /\ (present'[j] => present[j])
    BY <1>5, <1>t DEF Close, Dispose, CloseResume, CloseNotify, recVars, TypeOK, RecordType
  <2> QED
    BY <1>r, <2>1, <2>2, <2>3, HeartbeatFrame
<1>6. ASSUME NEW t \in Threads PROVE ~ReadCancelled(t)
  BY <1>r DEF ReadCancelled
<1>7. ASSUME NEW k \in Keys, DataArrives(k) \/ PopRead(k) PROVE HeartbeatInv'
  BY <1>7, <1>r, HeartbeatFrame DEF DataArrives, PopRead, TakeEvent, NoEvent, recVars,
                                    readVars, proxyVars, threadVars
<1>8. ASSUME NEW k \in Keys, NEW g \in Gens, PopTimeout(k, g) PROVE HeartbeatInv'
  BY <1>8, <1>r, HeartbeatFrame DEF PopTimeout, TakeEvent, NoEvent, recVars, readVars,
                                    proxyVars, threadVars
<1>9. ASSUME NEW k \in Keys, NEW g \in Gens, PopHeartbeat(k, g) PROVE HeartbeatInv'
  <2>1. /\ UNCHANGED <<gen, present, deleted, timedout, resetting, read, disposed, pc>>
        /\ event = NoEvent /\ heartbeat' = heartbeat \ {<<k, g>>}
        /\ event'.kind = "heartbeat" /\ event'.key = k /\ event'.gen = g
    BY <1>9 DEF PopHeartbeat, TakeEvent, recVars, readVars, proxyVars, threadVars
  <2>2. HeartbeatPending'
    BY <2>1 DEF HeartbeatInv, HeartbeatPending, Active, Client, NoEvent
  <2> QED
    BY <1>r, <2>1, <2>2 DEF HeartbeatInv
<1>10. CASE RunTimeoutCancel \/ RunTimeoutIgnored
  BY <1>10, <1>r, HeartbeatFrame DEF RunTimeoutCancel, RunTimeoutIgnored, Handles, recVars,
                                     readVars, proxyVars, queueVars, threadVars
<1>11. CASE RunRead
  <2>1. event.key \in Keys
    BY <1>11, EventType DEF RunRead, Handles
  <2>2. read' = read
    BY <1>11, <1>r, <2>1 DEF RunRead, readVars
  <2> QED
    BY <1>11, <1>r, <2>2, HeartbeatFrame DEF RunRead, Handles, recVars, proxyVars, threadVars
<1>12. CASE RunTimeout
  <2> DEFINE k == event.key
  <2>1. k \in Keys
    BY <1>12, EventType DEF RunTimeout, Handles
  <2>2. /\ UNCHANGED <<gen, present, resetting, threadVars>>
        /\ timedout' = [timedout EXCEPT ![k] = TRUE]
        /\ deleted' = [deleted EXCEPT ![k] = TRUE]
        /\ heartbeat' = heartbeat \ {Client(k)}
        /\ disposed' = disposed \cup {Client(k)}
        /\ read' = [read EXCEPT ![k] = Returned(k)]
        /\ event.kind = "timeout"
    BY <1>12, <1>r, <2>1 DEF RunTimeout, Dispose, Handles
  <2>3. \A j \in Keys : read'[j] = "none"
    BY <1>r, <2>1, <2>2 DEF Returned, TypeOK, RequestType
  <2>4. \A j \in Keys \ {k} : timedout'[j] = timedout[j] /\ deleted'[j] = deleted[j]
    BY <2>1, <2>2 DEF TypeOK, RecordType
  <2>5. timedout'[k]
    BY <2>1, <2>2 DEF TypeOK, RecordType
  <2> HIDE DEF k
  <2>6. HeartbeatPending'
    BY <2>1, <2>2, <2>4, <2>5 DEF HeartbeatInv, HeartbeatPending, Active, Client
  <2> QED
    BY <1>r, <2>2, <2>3, <2>6 DEF HeartbeatInv, threadVars
<1>13. CASE RunHeartbeat
  <2> DEFINE c == <<event.key, event.gen>>
  <2>1. /\ UNCHANGED <<gen, present, deleted, timedout, resetting, read, disposed, pc>>
    BY <1>13 DEF RunHeartbeat, recVars, readVars, proxyVars, threadVars
  <2>2. event.key \in Keys
    BY <1>13, EventType DEF RunHeartbeat, Handles
  <2>3. PICK again \in BOOLEAN :
            /\ Active(event.key) /\ proxy[event.key][event.gen] = "live" =>
                  again = (c \notin disposed)
            /\ heartbeat' = IF again THEN heartbeat \cup {c} ELSE heartbeat
    BY <1>13, <1>s DEF RunHeartbeat
  <2>4. ASSUME NEW k \in Keys, Active(k), Client(k) \notin disposed
        PROVE  Client(k) \in heartbeat'
    <3>1. CASE c = Client(k)
      <4>1. event.key = k /\ event.gen = gen[k]
        BY <3>1 DEF Client
      <4>2. proxy[k][gen[k]] = "live"
        BY <2>4 DEF Active, SessionInv, SessionHasClient
      <4>3. again
        BY <2>3, <2>4, <3>1, <4>1, <4>2
      <4> QED
        BY <2>3, <3>1, <4>3
    <3>2. CASE c # Client(k)
      <4>1. Client(k) \in heartbeat
        BY <2>4, <3>2 DEF HeartbeatInv, HeartbeatPending
      <4> QED
        BY <2>3, <4>1
    <3> QED
      BY <3>1, <3>2
  <2>5. HeartbeatPending'
    BY <2>1, <2>4 DEF HeartbeatPending, Active, Client
  <2> QED
    BY <1>r, <2>1, <2>5 DEF HeartbeatInv
<1>14. CASE CleanStart \/ CleanEnd
  BY <1>14, <1>r, HeartbeatFrame DEF CleanStart, CleanEnd, recVars, readVars, proxyVars,
                                     queueVars, threadVars
<1>15. ASSUME NEW k \in Keys, CleanSkip(k) \/ CleanFail(k) \/ CleanResources(k)
       PROVE  HeartbeatInv'
  BY <1>15, <1>r, HeartbeatFrame DEF CleanSkip, CleanFail, CleanResources, recVars, readVars,
                                     proxyVars, queueVars, threadVars
<1>16. ASSUME NEW k \in Keys PROVE ~CleanRead(k) /\ ~ReadsCancel(k)
  BY <1>r DEF CleanRead, ReadsCancel
<1>21. CASE CleanReadFail \/ ReadsResume
  <2>1. \A j \in Keys : read'[j] = "none"
    BY <1>21, <1>r DEF CleanReadFail, ReadsResume, ReadGone, TypeOK, RequestType
  <2> QED
    BY <1>21, <1>r, <2>1, HeartbeatFrame DEF CleanReadFail, ReadsResume, ReadGone, recVars,
                                     proxyVars, queueVars, threadVars
<1>17. ASSUME NEW k \in Keys, CleanSession(k) PROVE HeartbeatInv'
  <2>1. \A j \in Keys : present'[j] => present[j]
    BY <1>17 DEF CleanSession, FinalizeTimer, SessionFinalized, TypeOK, RecordType
  <2>2. disposed' = disposed
    BY <1>17 DEF CleanSession, FinalizeTimer, SessionFinalized, OnSessionClosed, proxyVars
  <2> QED
    BY <1>17, <1>r, <2>1, <2>2, HeartbeatFrame DEF CleanSession, readVars, threadVars
<1>18. CASE CleanReadResume
  <2>1. \A j \in Keys : present'[j] => present[j]
    BY <1>18 DEF CleanReadResume, FinalizeTimer, SessionFinalized, TypeOK, RecordType
  <2>2. disposed' = disposed
    BY <1>18 DEF CleanReadResume, FinalizeTimer, SessionFinalized, OnSessionClosed, proxyVars
  <2>3. \A j \in Keys : read'[j] = "none"
    BY <1>18, <1>r DEF CleanReadResume, TypeOK, RequestType
  <2> QED
    BY <1>18, <1>r, <2>1, <2>2, <2>3, HeartbeatFrame DEF CleanReadResume, threadVars
<1>19. CASE CleanTimerResume
  <2>1. \A j \in Keys : present'[j] => present[j]
    BY <1>19 DEF CleanTimerResume, SessionFinalized, TypeOK, RecordType
  <2>2. disposed' = disposed
    BY <1>19 DEF CleanTimerResume, SessionFinalized, OnSessionClosed, proxyVars
  <2> QED
    BY <1>19, <1>r, <2>1, <2>2, HeartbeatFrame DEF CleanTimerResume, readVars, queueVars,
                                                   threadVars
<1>20. CASE UNCHANGED vars
  BY <1>20, <1>r, HeartbeatFrame DEF vars, recVars, readVars, proxyVars, queueVars, threadVars
<1> QED
  BY <1>1, <1>2, <1>3, <1>4, <1>5, <1>6, <1>7, <1>8, <1>9, <1>10, <1>11, <1>12, <1>13,
     <1>14, <1>15, <1>16, <1>17, <1>18, <1>19, <1>20, <1>21
     DEF Next, Worker, EventStep, Cleanup, Pass

(* A client that reads no data and can be answered never stops being sent   *)
(* heartbeats while its session is active: on_periodic_heartbeat posts its  *)
(* event again each time, whatever happens to other sessions and to former  *)
(* sessions of the key.                                                     *)
THEOREM HeartbeatGoesOn ==
    Readers = {} /\ "send" \notin Faults => (Spec => []HeartbeatPending)
<1> SUFFICES ASSUME Readers = {}, "send" \notin Faults PROVE Spec => []HeartbeatPending
  OBVIOUS
<1>1. Init => HeartbeatInv
  BY DEF Init, HeartbeatInv, HeartbeatPending, Active
<1>2. TypeOK /\ SessionInv /\ HeartbeatInv /\ [Next]_vars => HeartbeatInv'
  BY HeartbeatNext
<1>3. HeartbeatInv => HeartbeatPending
  BY DEF HeartbeatInv
<1> QED
  BY <1>1, <1>2, <1>3, TypeCorrect, SessionInvariant, PTL DEF Spec
=============================================================================
