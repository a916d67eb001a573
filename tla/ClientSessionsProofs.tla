------------------------ MODULE ClientSessionsProofs ------------------------
(***************************************************************************)
(* Proofs about ClientSessions, for every set of keys, of receive threads, *)
(* every routing, every set of faults and every bound.                     *)
(***************************************************************************)
EXTENDS ClientSessions, TLAPS

(* What an event in the hands of the event thread is made of. *)
LEMMA EventType ==
    ASSUME TypeOK, event.kind # "none"
    PROVE  event.key \in Keys /\ event.gen \in 0..MaxOpens /\ event.cancel \in BOOLEAN
  BY DEF TypeOK, QueueType, Events, NoEvent

(* An update of a function of two arguments that keeps its type. *)
LEMMA UpdateType ==
    ASSUME NEW A, NEW B, NEW S, NEW f \in [A -> [B -> S]],
           NEW a \in A, NEW b, NEW v \in S
    PROVE  [f EXCEPT ![a][b] = v] \in [A -> [B -> S]]
  OBVIOUS

(* Posting a timeout event keeps the type of the timers. *)
LEMMA ArmedType ==
    ASSUME TypeOK, NEW k \in Keys
    PROVE  Armed(k) \in [Keys -> [Gens -> {"none", "armed", "cancel"}]]
  BY UpdateType DEF TypeOK, QueueType, Armed

(* on_session_closed keeps the types of the clients' state. *)
LEMMA ClosedType ==
    ASSUME TypeOK, NEW k \in Keys, NEW g, NEW ok, OnSessionClosed(<<k, g>>, ok)
    PROVE  ClientType'
<1> DEFINE v == IF <<k, g>> \in request /\ ~ok THEN "leaked" ELSE "freed"
<1>1. proxy' = [proxy EXCEPT ![k][g] = v]
  BY DEF OnSessionClosed
<1>2. v \in {"none", "live", "freed", "leaked"}
  OBVIOUS
<1> HIDE DEF v
<1>3. proxy' \in [Keys -> [Gens -> {"none", "live", "freed", "leaked"}]]
  BY <1>1, <1>2, UpdateType DEF TypeOK, ClientType
<1> QED
  BY <1>3 DEF TypeOK, ClientType, OnSessionClosed

(* So does the end of a session's finalization, and the table's. *)
LEMMA SessionFinalizedType ==
    ASSUME TypeOK, NEW k \in Keys, SessionFinalized(k)
    PROVE  /\ present' \in [Keys -> BOOLEAN]
           /\ semCleanup' \in [Keys -> BOOLEAN]
           /\ finalized' \in [Keys -> Nat]
           /\ ClientType'
<1>1. finalized' \in [Keys -> Nat]
  BY DEF SessionFinalized, TypeOK, RecordType
<1>2. CASE timedout[k]
  BY <1>1, <1>2, ClosedType DEF SessionFinalized, TypeOK, RecordType, Client
<1>3. CASE ~timedout[k]
  BY <1>1, <1>3 DEF SessionFinalized, TypeOK, RecordType, ClientType, proxyVars
<1> QED
  BY <1>2, <1>3

LEMMA FinalizeTimerType ==
    ASSUME TypeOK, NEW k \in Keys, FinalizeTimer(k)
    PROVE  /\ present' \in [Keys -> BOOLEAN]
           /\ semCleanup' \in [Keys -> BOOLEAN]
           /\ finalized' \in [Keys -> Nat]
           /\ ClientType'
           /\ timer' \in [Keys -> [Gens -> {"none", "armed", "cancel"}]]
<1>1. CASE timer' = [timer EXCEPT ![k][gen[k]] = "cancel"]
           /\ UNCHANGED <<present, finalized, semCleanup, proxyVars>>
  BY <1>1, UpdateType DEF TypeOK, RecordType, ClientType, QueueType, proxyVars
<1>2. CASE SessionFinalized(k) /\ UNCHANGED timer
  BY <1>2, SessionFinalizedType DEF TypeOK, QueueType
<1> QED
  BY <1>1, <1>2 DEF FinalizeTimer

(* Every variable keeps its type; in particular no session is numbered      *)
(* beyond MaxOpens and every event names a key.                             *)
LEMMA TypeNext ==
    ASSUME TypeOK, [Next]_vars
    PROVE  TypeOK'
<1>a. MaxOpens \in Nat
  BY SessionsAssumption
<1>b. Workers \subseteq Threads /\ EventThread \in Threads
  BY DEF Threads
<1> USE <1>a, <1>b DEF TypeOK
<1>1. ASSUME NEW w \in Workers, NEW k \in Keys, OpenNew(w, k) PROVE TypeOK'
  <2>1. RecordType'
    BY <1>1 DEF RecordType, OpenNew, readVars, threadVars
  <2>2. RequestType'
    BY <1>1, SessionsAssumption DEF RequestType, OpenNew, readVars
  <2>3. ClientType'
    BY <1>1 DEF RecordType, ClientType, OpenNew, readVars, threadVars, Gens
  <2>4. QueueType'
    BY <1>1 DEF RecordType, QueueType, OpenNew, readVars, threadVars, Events,
       Gens
  <2>5. CleanerType'
    BY <1>1 DEF CleanerType, OpenNew, readVars, threadVars
  <2>6. ThreadType'
    BY <1>1 DEF RecordType, ThreadType, OpenNew, readVars, threadVars
  <2> QED
    BY <2>1, <2>2, <2>3, <2>4, <2>5, <2>6
<1>2. ASSUME NEW w \in Workers, NEW k \in Keys, OpenReset(w, k) PROVE TypeOK'
  <2>1. RecordType'
    BY <1>2 DEF RecordType, OpenReset, ResetDone, Armed, Cancel, WaitForRead,
       Returned, readVars, proxyVars, cleanVars, threadVars
  <2>2. RequestType'
    BY <1>2 DEF RequestType, OpenReset, ResetDone, Armed, Cancel, WaitForRead,
       Returned, readVars, proxyVars, cleanVars, threadVars
  <2>3. ClientType'
    BY <1>2 DEF RecordType, ClientType, OpenReset, ResetDone, Armed, Cancel,
       WaitForRead, Returned, readVars, proxyVars, cleanVars, threadVars
  <2>4. QueueType'
    BY <1>2, ArmedType DEF QueueType, OpenReset, ResetDone, Cancel
  <2>5. CleanerType'
    BY <1>2 DEF CleanerType, OpenReset, ResetDone, Armed, Cancel, WaitForRead,
       Returned, readVars, proxyVars, cleanVars, threadVars
  <2>6. ThreadType'
    BY <1>2 DEF RecordType, ThreadType, OpenReset, ResetDone, Armed, Cancel,
       WaitForRead, Returned, readVars, proxyVars, cleanVars, threadVars,
       WaitReasons
  <2> QED
    BY <2>1, <2>2, <2>3, <2>4, <2>5, <2>6
<1>3. ASSUME NEW w \in Workers, NEW k \in Keys, ReceiveOther(w, k) PROVE TypeOK'
  <2>1. RecordType'
    BY <1>3 DEF RecordType, ReceiveOther, Receive, Armed, recVars, readVars,
       proxyVars, cleanVars, threadVars
  <2>2. RequestType'
    BY <1>3 DEF RequestType, ReceiveOther, Receive, Armed, recVars, readVars,
       proxyVars, cleanVars, threadVars
  <2>3. ClientType'
    BY <1>3 DEF RecordType, ClientType, ReceiveOther, Receive, Armed, recVars,
       readVars, proxyVars, cleanVars, threadVars, Client
  <2>4. QueueType'
    BY <1>3 DEF RecordType, QueueType, ReceiveOther, Receive, Armed, recVars,
       readVars, proxyVars, cleanVars, threadVars, Events, Client
  <2>5. CleanerType'
    BY <1>3 DEF CleanerType, ReceiveOther, Receive, Armed, recVars, readVars,
       proxyVars, cleanVars, threadVars
  <2>6. ThreadType'
    BY <1>3 DEF RecordType, ThreadType, ReceiveOther, Receive, Armed, recVars,
       readVars, proxyVars, cleanVars, threadVars
  <2> QED
    BY <2>1, <2>2, <2>3, <2>4, <2>5, <2>6
<1>4. ASSUME NEW w \in Workers, NEW k \in Keys, ReceiveRead(w, k) PROVE TypeOK'
  <2>1. RecordType'
    BY <1>4 DEF RecordType, ReceiveRead, Receive, Armed, Cancel, WaitForRead,
       recVars, proxyVars, cleanVars, threadVars
  <2>2. RequestType'
    BY <1>4 DEF RequestType, ReceiveRead, Receive, Armed, Cancel, WaitForRead,
       recVars, proxyVars, cleanVars, threadVars
  <2>3. ClientType'
    BY <1>4 DEF RecordType, ClientType, ReceiveRead, Receive, Armed, Cancel,
       WaitForRead, recVars, proxyVars, cleanVars, threadVars, Client
  <2>4. QueueType'
    BY <1>4 DEF RecordType, QueueType, ReceiveRead, Receive, Armed, Cancel,
       WaitForRead, recVars, proxyVars, cleanVars, threadVars, Events, Client
  <2>5. CleanerType'
    BY <1>4 DEF CleanerType, ReceiveRead, Receive, Armed, Cancel, WaitForRead,
       recVars, proxyVars, cleanVars, threadVars
  <2>6. ThreadType'
    BY <1>4 DEF RecordType, ThreadType, ReceiveRead, Receive, Armed, Cancel,
       WaitForRead, recVars, proxyVars, cleanVars, threadVars, WaitReasons
  <2> QED
    BY <2>1, <2>2, <2>3, <2>4, <2>5, <2>6
<1>5. ASSUME NEW w \in Workers, NEW k \in Keys, ReceiveAck(w, k) PROVE TypeOK'
  <2>1. RecordType'
    BY <1>5 DEF RecordType, ReceiveAck, Receive, Armed, Cancel, WaitForRead,
       recVars, proxyVars, cleanVars, threadVars
  <2>2. RequestType'
    BY <1>5 DEF RequestType, ReceiveAck, Receive, Armed, Cancel, WaitForRead,
       recVars, proxyVars, cleanVars, threadVars
  <2>3. ClientType'
    BY <1>5 DEF RecordType, ClientType, ReceiveAck, Receive, Armed, Cancel,
       WaitForRead, recVars, proxyVars, cleanVars, threadVars, Client
  <2>4. QueueType'
    BY <1>5 DEF RecordType, QueueType, ReceiveAck, Receive, Armed, Cancel,
       WaitForRead, recVars, proxyVars, cleanVars, threadVars, Events, Client
  <2>5. CleanerType'
    BY <1>5 DEF CleanerType, ReceiveAck, Receive, Armed, Cancel, WaitForRead,
       recVars, proxyVars, cleanVars, threadVars
  <2>6. ThreadType'
    BY <1>5 DEF RecordType, ThreadType, ReceiveAck, Receive, Armed, Cancel,
       WaitForRead, recVars, proxyVars, cleanVars, threadVars, WaitReasons
  <2> QED
    BY <2>1, <2>2, <2>3, <2>4, <2>5, <2>6
<1>6. ASSUME NEW w \in Workers, NEW k \in Keys, ReceiveDelete(w, k) PROVE TypeOK'
  <2>1. RecordType'
    BY <1>6 DEF RecordType, ReceiveDelete, Receive, Armed, Cancel, WaitForRead,
       Returned, recVars, cleanVars
  <2>2. RequestType'
    BY <1>6 DEF RequestType, ReceiveDelete, Receive, Armed, Cancel, WaitForRead,
       Returned, recVars, cleanVars
  <2>3. ClientType'
    BY <1>6 DEF RecordType, ClientType, ReceiveDelete, Receive, Armed, Cancel,
       WaitForRead, Returned, recVars, cleanVars, Client
  <2>4. QueueType'
    BY <1>6 DEF RecordType, QueueType, ReceiveDelete, Receive, Armed, Cancel,
       WaitForRead, Returned, recVars, cleanVars, Events, Client
  <2>5. CleanerType'
    BY <1>6 DEF CleanerType, ReceiveDelete, Receive, Armed, Cancel, WaitForRead,
       Returned, recVars, cleanVars
  <2>6. ThreadType'
    BY SMTT(30), <1>6 DEF RecordType, ThreadType, ReceiveDelete, Receive, Armed,
       Cancel, WaitForRead, Returned, recVars, cleanVars, WaitReasons
  <2> QED
    BY <2>1, <2>2, <2>3, <2>4, <2>5, <2>6
<1>7. ASSUME NEW w \in Workers, Close(w) PROVE TypeOK'
  <2>1. RecordType'
    BY <1>7 DEF ThreadType, RecordType, Close, Dispose, readVars, proxyVars,
       queueVars
  <2>2. RequestType'
    BY <1>7 DEF ThreadType, RequestType, Close, Dispose, readVars, proxyVars,
       queueVars
  <2>3. ClientType'
    BY <1>7 DEF ThreadType, RecordType, ClientType, Close, Dispose, readVars,
       proxyVars, queueVars
  <2>4. QueueType'
    BY <1>7 DEF ThreadType, RecordType, QueueType, Close, Dispose, readVars,
       proxyVars, queueVars, Events
  <2>5. CleanerType'
    BY <1>7 DEF ThreadType, CleanerType, Close, Dispose, readVars, proxyVars,
       queueVars
  <2>6. ThreadType'
    BY <1>7 DEF RecordType, ThreadType, Close, Dispose, readVars, proxyVars,
       queueVars
  <2> QED
    BY <2>1, <2>2, <2>3, <2>4, <2>5, <2>6
<1>8. ASSUME NEW w \in Workers, CloseResume(w) PROVE TypeOK'
  <2>1. RecordType'
    BY <1>8 DEF ThreadType, RecordType, CloseResume, readVars, proxyVars,
       queueVars, cleanVars
  <2>2. RequestType'
    BY <1>8 DEF ThreadType, RequestType, CloseResume, readVars, proxyVars,
       queueVars, cleanVars
  <2>3. ClientType'
    BY <1>8 DEF ThreadType, RecordType, ClientType, CloseResume, readVars,
       proxyVars, queueVars, cleanVars
  <2>4. QueueType'
    BY <1>8 DEF ThreadType, RecordType, QueueType, CloseResume, readVars,
       proxyVars, queueVars, cleanVars, Events
  <2>5. CleanerType'
    BY <1>8 DEF ThreadType, CleanerType, CloseResume, readVars, proxyVars,
       queueVars, cleanVars
  <2>6. ThreadType'
    BY <1>8 DEF RecordType, ThreadType, CloseResume, readVars, proxyVars,
       queueVars, cleanVars
  <2> QED
    BY <2>1, <2>2, <2>3, <2>4, <2>5, <2>6
<1>9. ASSUME NEW w \in Workers, CloseNotify(w) PROVE TypeOK'
  <2>1. RecordType'
    BY <1>9 DEF ThreadType, RecordType, CloseNotify, OnSessionClosed, recVars,
       readVars, queueVars, cleanVars
  <2>2. RequestType'
    BY <1>9 DEF ThreadType, RequestType, CloseNotify, OnSessionClosed, recVars,
       readVars, queueVars, cleanVars
  <2>3. ClientType'
    BY <1>9, ClosedType DEF ThreadType, CloseNotify
  <2>4. QueueType'
    BY <1>9 DEF ThreadType, RecordType, QueueType, CloseNotify, OnSessionClosed,
       recVars, readVars, queueVars, cleanVars, Events
  <2>5. CleanerType'
    BY <1>9 DEF ThreadType, CleanerType, CloseNotify, OnSessionClosed, recVars,
       readVars, queueVars, cleanVars
  <2>6. ThreadType'
    BY <1>9 DEF RecordType, ThreadType, CloseNotify, OnSessionClosed, recVars,
       readVars, queueVars, cleanVars
  <2> QED
    BY <2>1, <2>2, <2>3, <2>4, <2>5, <2>6
<1>10. ASSUME NEW t \in Threads, ReadCancelled(t) PROVE TypeOK'
  <2>1. RecordType'
    <3>1. at[t] \in Keys
      BY DEF ThreadType
    <3>2. PICK ok \in SendOutcomes : resetting' = [resetting EXCEPT ![at[t]] =
              CASE after[t] = "reset" -> FALSE
                [] after[t] = "resetLast" -> ~ok
                [] OTHER -> @]
      BY <1>10 DEF ReadCancelled
    <3>3. ok \in BOOLEAN
      BY DEF SendOutcomes
    <3>4. resetting' \in [Keys -> BOOLEAN]
      BY <3>1, <3>2, <3>3 DEF RecordType
    <3>5. leftover' \subseteq Keys
      BY <1>10, <3>1 DEF ReadCancelled, RecordType
    <3> QED
      BY <1>10, <3>1, <3>4, <3>5 DEF RecordType, ReadCancelled
  <2>2. RequestType'
    BY <1>10 DEF ThreadType, RequestType, ReadCancelled, Armed, proxyVars
  <2>3. ClientType'
    BY <1>10 DEF ThreadType, RecordType, ClientType, ReadCancelled, Armed,
       proxyVars
  <2>4. QueueType'
    BY <1>10, ArmedType DEF ThreadType, QueueType, ReadCancelled, Events
  <2>5. CleanerType'
    BY <1>10 DEF ThreadType, CleanerType, ReadCancelled, Armed, proxyVars
  <2>6. ThreadType'
    BY <1>10 DEF RecordType, ThreadType, ReadCancelled, Armed, proxyVars,
       WaitReasons
  <2> QED
    BY <2>1, <2>2, <2>3, <2>4, <2>5, <2>6
<1>11. ASSUME NEW k \in Keys, DataArrives(k) PROVE TypeOK'
  <2>1. RecordType'
    BY <1>11 DEF RecordType, DataArrives, recVars, readVars, proxyVars,
       cleanVars, threadVars
  <2>2. RequestType'
    BY <1>11 DEF RequestType, DataArrives, recVars, readVars, proxyVars,
       cleanVars, threadVars
  <2>3. ClientType'
    BY <1>11 DEF RecordType, ClientType, DataArrives, recVars, readVars,
       proxyVars, cleanVars, threadVars
  <2>4. QueueType'
    BY <1>11 DEF RecordType, QueueType, DataArrives, recVars, readVars,
       proxyVars, cleanVars, threadVars, Events
  <2>5. CleanerType'
    BY <1>11 DEF CleanerType, DataArrives, recVars, readVars, proxyVars,
       cleanVars, threadVars
  <2>6. ThreadType'
    BY <1>11 DEF RecordType, ThreadType, DataArrives, recVars, readVars,
       proxyVars, cleanVars, threadVars
  <2> QED
    BY <2>1, <2>2, <2>3, <2>4, <2>5, <2>6
<1>12. ASSUME NEW k \in Keys, NEW g \in Gens, PopTimeout(k, g) PROVE TypeOK'
  <2>1. RecordType'
    BY <1>12 DEF RecordType, PopTimeout, TakeEvent, recVars, readVars,
       proxyVars, cleanVars, threadVars
  <2>2. RequestType'
    BY <1>12 DEF RequestType, PopTimeout, TakeEvent, recVars, readVars,
       proxyVars, cleanVars, threadVars
  <2>3. ClientType'
    BY <1>12 DEF RecordType, ClientType, PopTimeout, TakeEvent, recVars,
       readVars, proxyVars, cleanVars, threadVars
  <2>4. QueueType'
    <3>1. timer' \in [Keys -> [Gens -> {"none", "armed", "cancel"}]]
      BY <1>12, UpdateType DEF QueueType, PopTimeout
    <3>2. event' \in Events
      BY <1>12 DEF PopTimeout, TakeEvent, Events, Gens
    <3> QED
      BY <1>12, <3>1, <3>2 DEF QueueType, PopTimeout
  <2>5. CleanerType'
    BY <1>12 DEF CleanerType, PopTimeout, TakeEvent, recVars, readVars,
       proxyVars, cleanVars, threadVars
  <2>6. ThreadType'
    BY <1>12 DEF RecordType, ThreadType, PopTimeout, TakeEvent, recVars,
       readVars, proxyVars, cleanVars, threadVars
  <2> QED
    BY <2>1, <2>2, <2>3, <2>4, <2>5, <2>6
<1>13. ASSUME NEW k \in Keys, PopRead(k) PROVE TypeOK'
  <2>1. RecordType'
    BY <1>13 DEF RecordType, PopRead, TakeEvent, recVars, readVars, proxyVars,
       cleanVars, threadVars
  <2>2. RequestType'
    BY <1>13 DEF RequestType, PopRead, TakeEvent, recVars, readVars, proxyVars,
       cleanVars, threadVars
  <2>3. ClientType'
    BY <1>13 DEF RecordType, ClientType, PopRead, TakeEvent, recVars, readVars,
       proxyVars, cleanVars, threadVars
  <2>4. QueueType'
    BY <1>13 DEF RecordType, QueueType, PopRead, TakeEvent, recVars, readVars,
       proxyVars, cleanVars, threadVars, Events
  <2>5. CleanerType'
    BY <1>13 DEF CleanerType, PopRead, TakeEvent, recVars, readVars, proxyVars,
       cleanVars, threadVars
  <2>6. ThreadType'
    BY <1>13 DEF RecordType, ThreadType, PopRead, TakeEvent, recVars, readVars,
       proxyVars, cleanVars, threadVars
  <2> QED
    BY <2>1, <2>2, <2>3, <2>4, <2>5, <2>6
<1>14. ASSUME NEW k \in Keys, NEW g \in Gens, PopHeartbeat(k, g) PROVE TypeOK'
  <2>1. RecordType'
    BY <1>14 DEF RecordType, PopHeartbeat, TakeEvent, recVars, readVars,
       proxyVars, cleanVars, threadVars
  <2>2. RequestType'
    BY <1>14 DEF RequestType, PopHeartbeat, TakeEvent, recVars, readVars,
       proxyVars, cleanVars, threadVars
  <2>3. ClientType'
    BY <1>14 DEF RecordType, ClientType, PopHeartbeat, TakeEvent, recVars,
       readVars, proxyVars, cleanVars, threadVars
  <2>4. QueueType'
    BY <1>14 DEF RecordType, QueueType, PopHeartbeat, TakeEvent, recVars,
       readVars, proxyVars, cleanVars, threadVars, Events
  <2>5. CleanerType'
    BY <1>14 DEF CleanerType, PopHeartbeat, TakeEvent, recVars, readVars,
       proxyVars, cleanVars, threadVars
  <2>6. ThreadType'
    BY <1>14 DEF RecordType, ThreadType, PopHeartbeat, TakeEvent, recVars,
       readVars, proxyVars, cleanVars, threadVars
  <2> QED
    BY <2>1, <2>2, <2>3, <2>4, <2>5, <2>6
<1>15. CASE RunTimeoutCancel
  <2>a. event.key \in Keys /\ event.gen \in 0..MaxOpens
    BY <1>15, EventType DEF RunTimeoutCancel, Handles
  <2>1. RecordType'
    BY <1>15, <2>a DEF RecordType, RunTimeoutCancel, readVars, proxyVars,
       queueVars, cleanVars, threadVars
  <2>2. RequestType'
    BY <1>15, <2>a DEF RequestType, RunTimeoutCancel, readVars, proxyVars,
       queueVars, cleanVars, threadVars
  <2>3. ClientType'
    BY <1>15, <2>a DEF RecordType, ClientType, RunTimeoutCancel, readVars,
       proxyVars, queueVars, cleanVars, threadVars
  <2>4. QueueType'
    BY <1>15, <2>a DEF RecordType, QueueType, RunTimeoutCancel, readVars,
       proxyVars, queueVars, cleanVars, threadVars, Events
  <2>5. CleanerType'
    BY <1>15, <2>a DEF CleanerType, RunTimeoutCancel, readVars, proxyVars,
       queueVars, cleanVars, threadVars
  <2>6. ThreadType'
    BY <1>15, <2>a DEF RecordType, ThreadType, RunTimeoutCancel, readVars,
       proxyVars, queueVars, cleanVars, threadVars, WaitReasons
  <2> QED
    BY <2>1, <2>2, <2>3, <2>4, <2>5, <2>6
<1>16. CASE RunTimeoutIgnored
  <2>1. RecordType'
    BY <1>16 DEF RecordType, RunTimeoutIgnored, recVars, readVars, proxyVars,
       queueVars, cleanVars, threadVars
  <2>2. RequestType'
    BY <1>16 DEF RequestType, RunTimeoutIgnored, recVars, readVars, proxyVars,
       queueVars, cleanVars, threadVars
  <2>3. ClientType'
    BY <1>16 DEF RecordType, ClientType, RunTimeoutIgnored, recVars, readVars,
       proxyVars, queueVars, cleanVars, threadVars
  <2>4. QueueType'
    BY <1>16 DEF RecordType, QueueType, RunTimeoutIgnored, recVars, readVars,
       proxyVars, queueVars, cleanVars, threadVars, Events
  <2>5. CleanerType'
    BY <1>16 DEF CleanerType, RunTimeoutIgnored, recVars, readVars, proxyVars,
       queueVars, cleanVars, threadVars
  <2>6. ThreadType'
    BY <1>16 DEF RecordType, ThreadType, RunTimeoutIgnored, recVars, readVars,
       proxyVars, queueVars, cleanVars, threadVars
  <2> QED
    BY <2>1, <2>2, <2>3, <2>4, <2>5, <2>6
<1>17. CASE RunTimeout
  <2>a. event.key \in Keys /\ event.gen \in 0..MaxOpens
    BY <1>17, EventType DEF RunTimeout, Handles
  <2>1. RecordType'
    BY <1>17, <2>a DEF RecordType, RunTimeout, Cancel, WaitForRead, Returned,
       Dispose, threadVars
  <2>2. RequestType'
    BY <1>17, <2>a DEF RequestType, RunTimeout, Cancel, WaitForRead, Returned,
       Dispose, threadVars
  <2>3. ClientType'
    BY <1>17, <2>a DEF RecordType, ClientType, RunTimeout, Cancel, WaitForRead,
       Returned, Dispose, threadVars, Client
  <2>4. QueueType'
    BY <1>17, <2>a DEF RecordType, QueueType, RunTimeout, Cancel, WaitForRead,
       Returned, Dispose, threadVars, Events, Client
  <2>5. CleanerType'
    BY <1>17, <2>a DEF CleanerType, RunTimeout, Cancel, WaitForRead, Returned,
       Dispose, threadVars
  <2>6. ThreadType'
    BY <1>17, <2>a DEF RecordType, ThreadType, RunTimeout, Cancel, WaitForRead,
       Returned, Dispose, threadVars, WaitReasons
  <2> QED
    BY <2>1, <2>2, <2>3, <2>4, <2>5, <2>6
<1>18. CASE RunRead
  <2>a. event.key \in Keys /\ event.gen \in 0..MaxOpens
    BY <1>18, EventType DEF RunRead, Handles
  <2>b. /\ read' \in [Keys -> {"none", "idle", "loaned", "last", "over", "cancelling"}]
        /\ readEvent' \in [Keys -> {"none", "data", "cancel"}]
    <3>1. CASE UNCHANGED <<read, readEvent>>
      BY <3>1 DEF RequestType, QueueType
    <3>2. CASE \E r \in {read[event.key], "loaned", "last"},
                  e \in {readEvent[event.key], "data"} :
                  /\ read' = [read EXCEPT ![event.key] = r]
                  /\ readEvent' = [readEvent EXCEPT ![event.key] = e]
      BY <2>a, <3>2 DEF RequestType, QueueType
    <3>3. CASE read' = [read EXCEPT ![event.key] = "over"] /\ UNCHANGED readEvent
      BY <2>a, <3>3 DEF RequestType, QueueType
    <3> QED
      BY <1>18, <3>1, <3>2, <3>3 DEF RunRead, readVars
  <2>c. semEvent' \in [Keys -> BOOLEAN]
    <3>1. CASE semEvent' = [semEvent EXCEPT ![event.key] = TRUE]
      BY <2>a, <3>1 DEF RequestType
    <3>2. CASE UNCHANGED semEvent
      BY <3>2 DEF RequestType
    <3> QED
      BY <1>18, <3>1, <3>2 DEF RunRead, readVars
  <2>1. RecordType'
    BY <1>18, <2>a DEF RecordType, RunRead, recVars, readVars, proxyVars,
       cleanVars, threadVars
  <2>2. RequestType'
    BY <1>18, <2>b, <2>c DEF RequestType, RunRead
  <2>3. ClientType'
    BY <1>18, <2>a DEF RecordType, ClientType, RunRead, recVars, readVars,
       proxyVars, cleanVars, threadVars
  <2>4. QueueType'
    BY <1>18, <2>b DEF QueueType, RunRead, Events
  <2>5. CleanerType'
    BY <1>18, <2>a DEF CleanerType, RunRead, recVars, readVars, proxyVars,
       cleanVars, threadVars
  <2>6. ThreadType'
    BY <1>18, <2>a DEF RecordType, ThreadType, RunRead, recVars, readVars,
       proxyVars, cleanVars, threadVars
  <2> QED
    BY <2>1, <2>2, <2>3, <2>4, <2>5, <2>6
<1>19. CASE RunHeartbeat
  <2>a. event.key \in Keys /\ event.gen \in 0..MaxOpens
    BY <1>19, EventType DEF RunHeartbeat, Handles
  <2>1. RecordType'
    BY <1>19, <2>a DEF RecordType, RunHeartbeat, recVars, readVars, proxyVars,
       cleanVars, threadVars
  <2>2. RequestType'
    BY <1>19, <2>a DEF RequestType, RunHeartbeat, recVars, readVars, proxyVars,
       cleanVars, threadVars
  <2>3. ClientType'
    BY <1>19, <2>a DEF RecordType, ClientType, RunHeartbeat, recVars, readVars,
       proxyVars, cleanVars, threadVars
  <2>4. QueueType'
    BY <1>19, <2>a DEF RecordType, QueueType, RunHeartbeat, recVars, readVars,
       proxyVars, cleanVars, threadVars, Events
  <2>5. CleanerType'
    BY <1>19, <2>a DEF CleanerType, RunHeartbeat, recVars, readVars, proxyVars,
       cleanVars, threadVars
  <2>6. ThreadType'
    BY <1>19, <2>a DEF RecordType, ThreadType, RunHeartbeat, recVars, readVars,
       proxyVars, cleanVars, threadVars
  <2> QED
    BY <2>1, <2>2, <2>3, <2>4, <2>5, <2>6
<1>20. CASE CleanStart
  <2>1. RecordType'
    BY <1>20 DEF CleanerType, RecordType, CleanStart, recVars, readVars,
       proxyVars, queueVars, threadVars
  <2>2. RequestType'
    BY <1>20 DEF CleanerType, RequestType, CleanStart, recVars, readVars,
       proxyVars, queueVars, threadVars
  <2>3. ClientType'
    BY <1>20 DEF CleanerType, RecordType, ClientType, CleanStart, recVars,
       readVars, proxyVars, queueVars, threadVars, Client
  <2>4. QueueType'
    BY <1>20 DEF CleanerType, RecordType, QueueType, CleanStart, recVars,
       readVars, proxyVars, queueVars, threadVars, Events, Client
  <2>5. CleanerType'
    BY <1>20 DEF CleanerType, CleanStart, recVars, readVars, proxyVars,
       queueVars, threadVars
  <2>6. ThreadType'
    BY <1>20 DEF RecordType, ThreadType, CleanStart, recVars, readVars,
       proxyVars, queueVars, threadVars
  <2> QED
    BY <2>1, <2>2, <2>3, <2>4, <2>5, <2>6
<1>21. ASSUME NEW k \in Keys, CleanSkip(k) PROVE TypeOK'
  <2>1. RecordType'
    BY <1>21 DEF CleanerType, RecordType, CleanSkip, recVars, readVars,
       proxyVars, queueVars, threadVars
  <2>2. RequestType'
    BY <1>21 DEF CleanerType, RequestType, CleanSkip, recVars, readVars,
       proxyVars, queueVars, threadVars
  <2>3. ClientType'
    BY <1>21 DEF CleanerType, RecordType, ClientType, CleanSkip, recVars,
       readVars, proxyVars, queueVars, threadVars, Client
  <2>4. QueueType'
    BY <1>21 DEF CleanerType, RecordType, QueueType, CleanSkip, recVars,
       readVars, proxyVars, queueVars, threadVars, Events, Client
  <2>5. CleanerType'
    BY <1>21 DEF CleanerType, CleanSkip, recVars, readVars, proxyVars,
       queueVars, threadVars
  <2>6. ThreadType'
    BY <1>21 DEF RecordType, ThreadType, CleanSkip, recVars, readVars,
       proxyVars, queueVars, threadVars
  <2> QED
    BY <2>1, <2>2, <2>3, <2>4, <2>5, <2>6
<1>22. ASSUME NEW k \in Keys, CleanSession(k) PROVE TypeOK'
  <2>1. RecordType'
    BY <1>22, FinalizeTimerType DEF RecordType, CleanSession
  <2>2. RequestType'
    BY <1>22 DEF CleanerType, RequestType, CleanSession, FinalizeTimer,
       SessionFinalized, OnSessionClosed, readVars, proxyVars, threadVars
  <2>3. ClientType'
    BY <1>22, FinalizeTimerType DEF CleanSession
  <2>4. QueueType'
    BY <1>22, FinalizeTimerType DEF QueueType, CleanSession
  <2>5. CleanerType'
    BY <1>22 DEF CleanerType, CleanSession, FinalizeTimer, SessionFinalized,
       OnSessionClosed, readVars, proxyVars, threadVars
  <2>6. ThreadType'
    BY <1>22 DEF RecordType, ThreadType, CleanSession, FinalizeTimer,
       SessionFinalized, OnSessionClosed, readVars, proxyVars, threadVars
  <2> QED
    BY <2>1, <2>2, <2>3, <2>4, <2>5, <2>6
<1>23. ASSUME NEW k \in Keys, CleanRead(k) PROVE TypeOK'
  <2>1. RecordType'
    BY <1>23 DEF CleanerType, RecordType, CleanRead, Cancel, recVars, proxyVars,
       threadVars
  <2>2. RequestType'
    BY <1>23 DEF CleanerType, RequestType, CleanRead, Cancel, recVars,
       proxyVars, threadVars
  <2>3. ClientType'
    BY <1>23 DEF CleanerType, RecordType, ClientType, CleanRead, Cancel,
       recVars, proxyVars, threadVars, Client
  <2>4. QueueType'
    BY <1>23 DEF CleanerType, RecordType, QueueType, CleanRead, Cancel, recVars,
       proxyVars, threadVars, Events, Client
  <2>5. CleanerType'
    BY <1>23 DEF CleanerType, CleanRead, Cancel, recVars, proxyVars, threadVars
  <2>6. ThreadType'
    BY <1>23 DEF RecordType, ThreadType, CleanRead, Cancel, recVars, proxyVars,
       threadVars, WaitReasons
  <2> QED
    BY <2>1, <2>2, <2>3, <2>4, <2>5, <2>6
<1>24. ASSUME NEW k \in Keys, CleanFail(k) PROVE TypeOK'
  <2>1. RecordType'
    BY <1>24 DEF CleanerType, RecordType, CleanFail, recVars, readVars,
       proxyVars, queueVars, threadVars
  <2>2. RequestType'
    BY <1>24 DEF CleanerType, RequestType, CleanFail, recVars, readVars,
       proxyVars, queueVars, threadVars
  <2>3. ClientType'
    BY <1>24 DEF CleanerType, RecordType, ClientType, CleanFail, recVars,
       readVars, proxyVars, queueVars, threadVars, Client
  <2>4. QueueType'
    BY <1>24 DEF CleanerType, RecordType, QueueType, CleanFail, recVars,
       readVars, proxyVars, queueVars, threadVars, Events, Client
  <2>5. CleanerType'
    BY <1>24 DEF CleanerType, CleanFail, recVars, readVars, proxyVars,
       queueVars, threadVars
  <2>6. ThreadType'
    BY <1>24 DEF RecordType, ThreadType, CleanFail, recVars, readVars,
       proxyVars, queueVars, threadVars
  <2> QED
    BY <2>1, <2>2, <2>3, <2>4, <2>5, <2>6
<1>25. CASE CleanReadResume
  <2>1. RecordType'
    BY <1>25, FinalizeTimerType DEF CleanerType, RecordType, CleanReadResume
  <2>2. RequestType'
    BY <1>25 DEF CleanerType, RequestType, CleanReadResume, FinalizeTimer,
       SessionFinalized, OnSessionClosed, proxyVars, threadVars
  <2>3. ClientType'
    BY <1>25, FinalizeTimerType DEF CleanerType, CleanReadResume
  <2>4. QueueType'
    BY <1>25, FinalizeTimerType DEF CleanerType, QueueType, CleanReadResume
  <2>5. CleanerType'
    BY <1>25 DEF CleanerType, CleanReadResume, FinalizeTimer, SessionFinalized,
       OnSessionClosed, proxyVars, threadVars
  <2>6. ThreadType'
    BY <1>25 DEF RecordType, ThreadType, CleanReadResume, FinalizeTimer,
       SessionFinalized, OnSessionClosed, proxyVars, threadVars
  <2> QED
    BY <2>1, <2>2, <2>3, <2>4, <2>5, <2>6
<1>26. CASE CleanTimerResume
  <2>1. RecordType'
    BY <1>26, SessionFinalizedType DEF CleanerType, RecordType, CleanTimerResume
  <2>2. RequestType'
    BY <1>26 DEF CleanerType, RequestType, CleanTimerResume, SessionFinalized,
       OnSessionClosed, readVars, proxyVars, queueVars, threadVars
  <2>3. ClientType'
    BY <1>26, SessionFinalizedType DEF CleanerType, ClientType, CleanTimerResume,
       proxyVars
  <2>4. QueueType'
    BY <1>26 DEF CleanerType, RecordType, QueueType, CleanTimerResume,
       SessionFinalized, OnSessionClosed, readVars, proxyVars, queueVars,
       threadVars, Events, Client
  <2>5. CleanerType'
    BY <1>26 DEF CleanerType, CleanTimerResume, SessionFinalized,
       OnSessionClosed, readVars, proxyVars, queueVars, threadVars
  <2>6. ThreadType'
    BY <1>26 DEF RecordType, ThreadType, CleanTimerResume, SessionFinalized,
       OnSessionClosed, readVars, proxyVars, queueVars, threadVars
  <2> QED
    BY <2>1, <2>2, <2>3, <2>4, <2>5, <2>6
<1>27. CASE CleanEnd
  <2>1. RecordType'
    BY <1>27 DEF CleanerType, RecordType, CleanEnd, recVars, readVars,
       proxyVars, queueVars, threadVars
  <2>2. RequestType'
    BY <1>27 DEF CleanerType, RequestType, CleanEnd, recVars, readVars,
       proxyVars, queueVars, threadVars
  <2>3. ClientType'
    BY <1>27 DEF CleanerType, RecordType, ClientType, CleanEnd, recVars,
       readVars, proxyVars, queueVars, threadVars, Client
  <2>4. QueueType'
    BY <1>27 DEF CleanerType, RecordType, QueueType, CleanEnd, recVars,
       readVars, proxyVars, queueVars, threadVars, Events, Client
  <2>5. CleanerType'
    BY <1>27 DEF CleanerType, CleanEnd, recVars, readVars, proxyVars, queueVars,
       threadVars
  <2>6. ThreadType'
    BY <1>27 DEF RecordType, ThreadType, CleanEnd, recVars, readVars, proxyVars,
       queueVars, threadVars
  <2> QED
    BY <2>1, <2>2, <2>3, <2>4, <2>5, <2>6
<1>29. ASSUME NEW w \in Workers, NEW k \in Keys, ReceiveDeleteObject(w, k) PROVE TypeOK'
  <2>1. RecordType'
    BY <1>29 DEF RecordType, ReceiveDeleteObject, Receive
  <2>2. RequestType'
    BY <1>29 DEF RecordType, RequestType, ReceiveDeleteObject, Receive, Cancel, readVars
  <2>3. ClientType'
    BY <1>29 DEF ClientType, ReceiveDeleteObject, proxyVars
  <2>4. QueueType'
    BY <1>29, ArmedType DEF QueueType, ReceiveDeleteObject, Receive, Cancel
  <2>5. CleanerType'
    BY <1>29 DEF CleanerType, ReceiveDeleteObject, Receive, cleanVars
  <2>6. ThreadType'
    BY <1>29 DEF RecordType, ThreadType, ReceiveDeleteObject, Receive, WaitForRead,
       WaitReasons, threadVars, Threads
  <2> QED
    BY <2>1, <2>2, <2>3, <2>4, <2>5, <2>6
<1>30. ASSUME NEW k \in Keys, ReadsCancel(k) PROVE TypeOK'
  BY <1>30 DEF RecordType, RequestType, ClientType, QueueType, CleanerType, ThreadType,
     ReadsCancel, Cancel, recVars, proxyVars, threadVars, Events
<1>31. CASE CleanReadFail \/ ReadsResume
  <2>1. ReadGone
    BY <1>31 DEF CleanReadFail, ReadsResume
  <2>2. RecordType' /\ ClientType'
    BY <2>1 DEF RecordType, ClientType, ReadGone, recVars, proxyVars
  <2>3. RequestType' /\ CleanerType'
    BY <2>1 DEF RequestType, CleanerType, ReadGone
  <2>4. QueueType' /\ ThreadType'
    BY <2>1 DEF QueueType, ThreadType, ReadGone, queueVars, threadVars
  <2> QED
    BY <2>2, <2>3, <2>4
<1>32. ASSUME NEW k \in Keys, CleanResources(k) PROVE TypeOK'
  BY <1>32 DEF RecordType, RequestType, ClientType, QueueType, CleanerType, ThreadType,
     CleanResources, readVars, proxyVars, queueVars, cleanVars, threadVars, Events
<1>28. CASE UNCHANGED vars
  BY <1>28 DEF vars, recVars, readVars, proxyVars, queueVars, cleanVars,
     threadVars, RecordType, RequestType, ClientType, QueueType, CleanerType,
     ThreadType
<1> QED
  BY <1>1, <1>2, <1>3, <1>4, <1>5, <1>6, <1>7, <1>8, <1>9, <1>10, <1>11, <1>12,
     <1>13, <1>14, <1>15, <1>16, <1>17, <1>18, <1>19, <1>20, <1>21, <1>22,
     <1>23, <1>24, <1>25, <1>26, <1>27, <1>28, <1>29, <1>30, <1>31, <1>32
     DEF Next, Worker, EventStep, Cleanup, Pass

(* Every reachable state is well typed: no session is numbered beyond the   *)
(* bound, every event names a key, every thread is in one of its states.    *)
THEOREM TypeCorrect == Spec => []TypeOK
<1>1. Init => TypeOK
  <2> SUFFICES ASSUME Init PROVE TypeOK
    OBVIOUS
  <2>1. ckey \in Keys
    BY DEF Init
  <2>2. RecordType /\ RequestType
    BY SessionsAssumption DEF Init, RecordType, RequestType
  <2>3. ClientType /\ CleanerType
    BY <2>1 DEF Init, ClientType, CleanerType
  <2>4. QueueType
    BY DEF Init, QueueType, Events
  <2>5. ThreadType
    BY <2>1, SessionsAssumption DEF Init, ThreadType, WaitReasons
  <2> QED
    BY <2>2, <2>3, <2>4, <2>5 DEF TypeOK
<1>2. TypeOK /\ [Next]_vars => TypeOK'
  BY TypeNext
<1> QED
  BY <1>1, <1>2, PTL DEF Spec

(***************************************************************************)
(* Who owns a session.  Most steps leave the table, the clients and the    *)
(* threads inside close_session alone.                                     *)
(***************************************************************************)
LEMMA OwnerFrame ==
    ASSUME TypeOK, SessionInv, UNCHANGED <<present, gen, proxy, timedout>>,
           \A k \in Keys : deleted[k] => deleted'[k],
           cleaner' = "readWait" => cleaner = "readWait" /\ ckey' = ckey,
           \A w \in Workers : pc'[w] \in {"closeWait", "notify"} =>
              pc'[w] = pc[w] /\ at'[w] = at[w] /\ atGen'[w] = atGen[w]
    PROVE  SessionInv'
<1>a. \A w \in Workers : at[w] \in Keys
  BY DEF TypeOK, ThreadType, Threads
<1>1. CloserOwnsSession'
  BY <1>a DEF SessionInv, CloserOwnsSession
<1>2. SessionHasClient'
  BY <1>a DEF SessionInv, SessionHasClient
<1> QED
  BY <1>1, <1>2, <1>a DEF SessionInv

(* A thread that starts to wait for a read, or that becomes ready to close  *)
(* its session, was idle before.                                            *)
LEMMA IdleFrame ==
    ASSUME TypeOK, SessionInv, UNCHANGED <<present, gen, proxy, timedout>>,
           UNCHANGED <<cleaner, ckey>>,
           \A k \in Keys : deleted[k] => deleted'[k],
           NEW t \in Threads, NEW s \in {"idle", "wait", "closing"},
           NEW k, NEW g,
           pc' = [pc EXCEPT ![t] = s],
           at' = at \/ at' = [at EXCEPT ![t] = k],
           atGen' = atGen \/ atGen' = [atGen EXCEPT ![t] = g]
    PROVE  SessionInv'
<1>1. \A w \in Workers : pc'[w] \in {"closeWait", "notify"} =>
          pc'[w] = pc[w] /\ at'[w] = at[w] /\ atGen'[w] = atGen[w]
  BY DEF TypeOK, ThreadType, Threads
<1> QED
  BY <1>1, OwnerFrame

(* The end of a session's finalization: only a session that timed out leaves*)
(* the table here, and no thread is closing such a session.                 *)
LEMMA OwnerFinalized ==
    ASSUME TypeOK, SessionInv, NEW k \in Keys, SessionFinalized(k), present[k],
           UNCHANGED <<gen, deleted, timedout, threadVars>>
    PROVE  SessionInv'
<1>a. \A w \in Workers : at[w] \in Keys
  BY DEF TypeOK, ThreadType, Threads
<1>b. cleaner' # "readWait"
  BY DEF SessionFinalized
<1>1. CASE ~timedout[k]
  BY <1>1, <1>b, OwnerFrame DEF SessionFinalized, proxyVars, threadVars
<1>2. CASE timedout[k]
  <2>1. present' = [present EXCEPT ![k] = FALSE]
    BY <1>2 DEF SessionFinalized
  <2>2. PICK ok \in SendOutcomes : OnSessionClosed(Client(k), ok)
    BY <1>2 DEF SessionFinalized
  <2>3. \A j \in Keys, g \in Gens : j # k \/ g # gen[k] => proxy'[j][g] = proxy[j][g]
    BY <2>2 DEF OnSessionClosed, Client, TypeOK, ClientType
  <2>4. CloserOwnsSession'
    BY <1>2, <1>a, <2>1 DEF SessionInv, CloserOwnsSession, threadVars, TypeOK, RecordType
  <2>5. \A j \in Keys : present'[j] => j # k /\ present[j]
    BY <2>1 DEF TypeOK, RecordType
  <2>6. \A w \in Workers : pc[w] = "notify" => at[w] # k \/ atGen[w] # gen[k]
    BY <1>a DEF SessionInv
  <2>7. SessionHasClient'
    BY <1>a, <2>3, <2>5, <2>6 DEF SessionInv, SessionHasClient, threadVars
  <2> QED
    BY <1>a, <1>b, <2>4, <2>5, <2>7 DEF SessionInv, threadVars
<1> QED
  BY <1>1, <1>2

LEMMA OwnerFinalizeTimer ==
    ASSUME TypeOK, SessionInv, NEW k \in Keys, FinalizeTimer(k), present[k],
           UNCHANGED <<gen, deleted, timedout, threadVars>>
    PROVE  SessionInv'
<1>1. CASE SessionFinalized(k)
  BY <1>1, OwnerFinalized
<1>2. CASE cleaner' = "timerWait" /\ UNCHANGED <<present, finalized, semCleanup, proxyVars>>
  BY <1>2, OwnerFrame DEF proxyVars, threadVars
<1> QED
  BY <1>1, <1>2 DEF FinalizeTimer

LEMMA OwnerNext ==
    ASSUME TypeOK, SessionInv, [Next]_vars
    PROVE  SessionInv'
<1>a. MaxOpens \in Nat
  BY SessionsAssumption
<1>b. Workers \subseteq Threads /\ EventThread \in Threads /\ EventThread \notin Workers
  BY SessionsAssumption DEF Threads
<1>c. \A w \in Workers : at[w] \in Keys
  BY <1>b DEF TypeOK, ThreadType
<1> USE <1>a, <1>b, <1>c
<1>1. ASSUME NEW w \in Workers, NEW k \in Keys, OpenNew(w, k) PROVE SessionInv'
  <2>1. /\ ~present[k]
        /\ UNCHANGED <<pc, at, atGen, cleaner, ckey>>
        /\ gen' = [gen EXCEPT ![k] = gen[k] + 1]
        /\ present' = [present EXCEPT ![k] = TRUE]
        /\ deleted' = [deleted EXCEPT ![k] = FALSE]
        /\ timedout' = [timedout EXCEPT ![k] = FALSE]
        /\ proxy' = [proxy EXCEPT ![k][gen[k] + 1] = "live"]
    BY <1>1 DEF OpenNew, threadVars
  <2>2. gen[k] \in 0..MaxOpens /\ gen[k] + 1 \in Gens
    BY <1>1 DEF OpenNew, TypeOK, RecordType, Gens
  <2>3. CloserOwnsSession'
    BY <2>1 DEF SessionInv, CloserOwnsSession, TypeOK, RecordType
  <2>4. proxy'[k][gen[k] + 1] = "live"
    BY <2>1, <2>2 DEF TypeOK, ClientType
  <2>5. \A j \in Keys, g \in Gens : j # k \/ g # gen[k] + 1 => proxy'[j][g] = proxy[j][g]
    BY <2>1 DEF TypeOK, ClientType
  <2>6. gen'[k] = gen[k] + 1 /\ \A j \in Keys \ {k} : gen'[j] = gen[j] /\ present'[j] = present[j]
    BY <2>1 DEF TypeOK, RecordType
  <2>7. \A w2 \in Workers : pc[w2] = "notify" =>
            /\ atGen[w2] \in Gens /\ atGen[w2] <= gen[at[w2]]
            /\ at[w2] = k => atGen[w2] # gen[k] + 1
    BY <2>2 DEF SessionInv, Gens
  <2>8. SessionHasClient'
    BY <2>1, <2>4, <2>5, <2>6, <2>7 DEF SessionInv, SessionHasClient
  <2>9. \A w2 \in Workers : pc[w2] = "notify" =>
            atGen[w2] <= gen'[at[w2]] /\ (present'[at[w2]] => atGen[w2] # gen'[at[w2]])
    BY <2>2, <2>6, <2>7 DEF SessionInv, Gens, TypeOK, RecordType
  <2>10. \A j \in Keys : present'[j] => gen'[j] \in Gens
    BY <2>2, <2>6 DEF SessionInv
  <2>11. cleaner' = "readWait" => present'[ckey']
    BY <2>1 DEF SessionInv, TypeOK, RecordType, CleanerType
  <2> QED
    BY <2>1, <2>3, <2>7, <2>8, <2>9, <2>10, <2>11 DEF SessionInv
<1>2. ASSUME NEW w \in Workers, NEW k \in Keys, OpenReset(w, k) PROVE SessionInv'
  <2>1. CASE UNCHANGED threadVars
    BY <1>2, <2>1, OwnerFrame DEF OpenReset, proxyVars, cleanVars, threadVars
  <2>2. ASSUME NEW r, WaitForRead(w, k, r) PROVE SessionInv'
    BY <1>2, <2>2, IdleFrame DEF OpenReset, WaitForRead, proxyVars, cleanVars
  <2> QED
    BY <1>2, <2>1, <2>2 DEF OpenReset
<1>3. ASSUME NEW w \in Workers, NEW k \in Keys, ReceiveOther(w, k) PROVE SessionInv'
  BY <1>3, OwnerFrame DEF ReceiveOther, Receive, recVars, proxyVars, cleanVars, threadVars
<1>4. ASSUME NEW w \in Workers, NEW k \in Keys, ReceiveRead(w, k) PROVE SessionInv'
  <2>1. CASE UNCHANGED threadVars
    BY <1>4, <2>1, OwnerFrame DEF ReceiveRead, Receive, recVars, proxyVars, cleanVars,
                                  threadVars
  <2>2. CASE WaitForRead(w, k, "read")
    BY <1>4, <2>2, IdleFrame DEF ReceiveRead, Receive, WaitForRead, recVars, proxyVars,
                                 cleanVars
  <2> QED
    BY <1>4, <2>1, <2>2 DEF ReceiveRead
<1>5. ASSUME NEW w \in Workers, NEW k \in Keys, ReceiveAck(w, k) PROVE SessionInv'
  <2>1. CASE UNCHANGED threadVars
    BY <1>5, <2>1, OwnerFrame DEF ReceiveAck, Receive, recVars, proxyVars, cleanVars,
                                  threadVars
  <2>2. CASE WaitForRead(w, k, "ack")
    BY <1>5, <2>2, IdleFrame DEF ReceiveAck, Receive, WaitForRead, recVars, proxyVars,
                                 cleanVars
  <2> QED
    BY <1>5, <2>1, <2>2 DEF ReceiveAck
<1>6. ASSUME NEW w \in Workers, NEW k \in Keys, ReceiveDelete(w, k) PROVE SessionInv'
  <2>1. UNCHANGED <<present, gen, deleted, proxy, timedout, cleaner, ckey>>
    BY <1>6 DEF ReceiveDelete, Receive, recVars, cleanVars
  <2>2. pc[w] = "idle"
    BY <1>6 DEF ReceiveDelete, Receive
  <2>3. /\ at' = [at EXCEPT ![w] = k]
        /\ atGen' = [atGen EXCEPT ![w] = gen[k]]
        /\ \E s \in {"idle", "wait", "closing"} : pc' = [pc EXCEPT ![w] = s]
    BY <1>6, <2>2 DEF ReceiveDelete, WaitForRead, TypeOK, ThreadType
  <2> QED
    BY <2>1, <2>3, IdleFrame
<1>7. ASSUME NEW w \in Workers, Close(w) PROVE SessionInv'
  <2>1. CASE Active(at[w])
    <3>1. /\ UNCHANGED <<present, gen, proxy, timedout, at, cleaner, ckey>>
          /\ deleted' = [deleted EXCEPT ![at[w]] = TRUE]
          /\ pc' = [pc EXCEPT ![w] = "closeWait"]
          /\ atGen' = [atGen EXCEPT ![w] = gen[at[w]]]
          /\ present[at[w]] /\ ~deleted[at[w]] /\ ~timedout[at[w]]
      BY <1>7, <2>1 DEF Close, Dispose, Active, proxyVars
    <3>2. \A w2 \in Workers \ {w} : pc'[w2] = pc[w2] /\ atGen'[w2] = atGen[w2]
      BY <3>1 DEF TypeOK, ThreadType
    <3>3. pc'[w] = "closeWait" /\ atGen'[w] = gen[at[w]]
      BY <3>1 DEF TypeOK, ThreadType
    <3>4. deleted'[at[w]] /\ \A j \in Keys : deleted[j] => deleted'[j]
      BY <3>1 DEF TypeOK, RecordType
    <3>5. \A w2 \in Workers \ {w} : pc[w2] = "closeWait" => at[w2] # at[w]
      BY <3>1 DEF SessionInv, CloserOwnsSession
    <3>6. CloserOwnsSession'
      <4> SUFFICES ASSUME NEW w2 \in Workers, pc'[w2] = "closeWait"
                   PROVE  /\ present[at[w2]] /\ gen[at[w2]] = atGen'[w2]
                          /\ deleted'[at[w2]] /\ ~timedout[at[w2]]
                          /\ \A w3 \in Workers \ {w2} : pc'[w3] = "closeWait" =>
                                at[w3] # at[w2]
        BY <3>1 DEF CloserOwnsSession
      <4>1. CASE w2 = w
        BY <4>1, <3>1, <3>2, <3>3, <3>4, <3>5
      <4>2. CASE w2 # w
        BY <4>2, <3>2, <3>3, <3>4, <3>5 DEF SessionInv, CloserOwnsSession
      <4> QED
        BY <4>1, <4>2
    <3>7. SessionHasClient'
      BY <3>1, <3>2, <3>3 DEF SessionInv, SessionHasClient
    <3> QED
      BY <3>1, <3>2, <3>3, <3>6, <3>7 DEF SessionInv
  <2>2. CASE ~Active(at[w])
    BY <1>7, <2>2, IdleFrame DEF Close, proxyVars
  <2> QED
    BY <2>1, <2>2
<1>8. ASSUME NEW w \in Workers, CloseResume(w) PROVE SessionInv'
  <2>1. /\ UNCHANGED <<gen, deleted, timedout, proxy, at, atGen, cleaner, ckey>>
        /\ present' = [present EXCEPT ![at[w]] = FALSE]
        /\ pc' = [pc EXCEPT ![w] = "notify"]
        /\ pc[w] = "closeWait" /\ cleaner # "readWait"
    BY <1>8 DEF CloseResume, TableFree, proxyVars, cleanVars
  <2>2. /\ \A w2 \in Workers \ {w} : pc'[w2] = pc[w2]
        /\ pc'[w] = "notify"
        /\ \A j \in Keys : present'[j] = (present[j] /\ j # at[w])
    BY <2>1 DEF TypeOK, ThreadType, RecordType
  <2>3. present[at[w]] /\ gen[at[w]] = atGen[w]
    BY <2>1 DEF SessionInv, CloserOwnsSession
  <2>4. CloserOwnsSession'
    BY <2>1, <2>2 DEF SessionInv, CloserOwnsSession
  <2>5. SessionHasClient'
    BY <2>1, <2>2, <2>3 DEF SessionInv, SessionHasClient
  <2>6. gen[at[w]] \in Gens /\ gen[at[w]] <= gen[at[w]]
    BY <2>3 DEF SessionInv, Gens
  <2>7. \A w2 \in Workers \ {w} : pc[w2] = "notify" => at[w2] # at[w] \/ atGen[w2] # atGen[w]
    BY <2>3 DEF SessionInv
  <2>8. \A w2 \in Workers : pc'[w2] = "notify" =>
            /\ atGen[w2] \in Gens /\ atGen[w2] <= gen[at[w2]]
            /\ present'[at[w2]] => atGen[w2] # gen[at[w2]]
    BY <2>2, <2>3, <2>6 DEF SessionInv
  <2>9. \A w2, w3 \in Workers : w2 # w3 /\ pc'[w2] = "notify" /\ pc'[w3] = "notify" =>
            at[w3] # at[w2] \/ atGen[w3] # atGen[w2]
    BY <2>2, <2>7 DEF SessionInv
  <2>10. \A j \in Keys : present'[j] => gen[j] \in Gens
    BY <2>2 DEF SessionInv
  <2> QED
    BY <2>1, <2>4, <2>5, <2>8, <2>9, <2>10 DEF SessionInv
<1>9. ASSUME NEW w \in Workers, CloseNotify(w) PROVE SessionInv'
  <2>1. /\ UNCHANGED <<gen, present, deleted, timedout, at, atGen, cleaner, ckey>>
        /\ pc' = [pc EXCEPT ![w] = "idle"]
        /\ pc[w] = "notify"
    BY <1>9 DEF CloseNotify, recVars, cleanVars
  <2>2. pc'[w] = "idle" /\ \A w2 \in Workers \ {w} : pc'[w2] = pc[w2]
    BY <2>1 DEF TypeOK, ThreadType
  <2>3. PICK ok \in SendOutcomes : OnSessionClosed(<<at[w], atGen[w]>>, ok)
    BY <1>9 DEF CloseNotify
  <2>4. \A j \in Keys, g \in Gens : j # at[w] \/ g # atGen[w] => proxy'[j][g] = proxy[j][g]
    BY <2>3 DEF OnSessionClosed, TypeOK, ClientType
  <2>5. CloserOwnsSession'
    BY <2>1, <2>2 DEF SessionInv, CloserOwnsSession
  <2>6. \A j \in Keys : present[j] => proxy'[j][gen[j]] = "live"
    BY <2>1, <2>4 DEF SessionInv, SessionHasClient
  <2>7. \A w2 \in Workers : pc'[w2] = "notify" => proxy'[at[w2]][atGen[w2]] = "live"
    BY <2>1, <2>2, <2>4 DEF SessionInv, SessionHasClient
  <2>8. SessionHasClient'
    BY <2>1, <2>6, <2>7 DEF SessionHasClient
  <2> QED
    BY <2>1, <2>2, <2>5, <2>8 DEF SessionInv
<1>10. ASSUME NEW t \in Threads, ReadCancelled(t) PROVE SessionInv'
  <2>1. at[t] \in Keys
    BY DEF TypeOK, ThreadType
  <2>2. \A k \in Keys : deleted[k] => deleted'[k]
    BY <1>10, <2>1 DEF ReadCancelled, TypeOK, RecordType
  <2>3. PICK s \in {"idle", "wait", "closing"} : pc' = [pc EXCEPT ![t] = s]
    BY <1>10 DEF ReadCancelled
  <2>4. UNCHANGED <<present, gen, proxy, timedout, cleaner, ckey, at, atGen>>
    BY <1>10 DEF ReadCancelled, proxyVars
  <2> QED
    BY <2>2, <2>3, <2>4, IdleFrame
<1>11. ASSUME NEW k \in Keys, DataArrives(k) PROVE SessionInv'
  BY <1>11, OwnerFrame DEF DataArrives, recVars, proxyVars, cleanVars, threadVars
<1>12. ASSUME NEW k \in Keys, NEW g \in Gens, PopTimeout(k, g) \/ PopHeartbeat(k, g)
       PROVE SessionInv'
  BY <1>12, OwnerFrame DEF PopTimeout, PopHeartbeat, TakeEvent, recVars, proxyVars,
                           cleanVars, threadVars
<1>13. ASSUME NEW k \in Keys, PopRead(k) PROVE SessionInv'
  BY <1>13, OwnerFrame DEF PopRead, TakeEvent, recVars, proxyVars, cleanVars, threadVars
<1>14. CASE RunTimeoutCancel \/ RunTimeoutIgnored \/ RunRead \/ RunHeartbeat
  BY <1>14, OwnerFrame DEF RunTimeoutCancel, RunTimeoutIgnored, RunRead, RunHeartbeat,
                           recVars, proxyVars, cleanVars, threadVars
<1>15. CASE RunTimeout
  <2> DEFINE k == event.key
  <2>1. k \in Keys
    BY <1>15, EventType DEF RunTimeout, Handles
  <2>2. /\ UNCHANGED <<gen, present, proxy, cleaner, ckey>>
        /\ ~deleted[k]
        /\ timedout' = [timedout EXCEPT ![k] = TRUE]
        /\ deleted' = deleted \/ deleted' = [deleted EXCEPT ![k] = TRUE]
    BY <1>15 DEF RunTimeout, Active, Dispose
  <2>3. \A w \in Workers : pc'[w] = pc[w] /\ at'[w] = at[w] /\ atGen'[w] = atGen[w]
    BY <1>15 DEF RunTimeout, WaitForRead, threadVars, TypeOK, ThreadType
  <2>4. \A j \in Keys \ {k} : deleted'[j] = deleted[j] /\ timedout'[j] = timedout[j]
    BY <2>1, <2>2 DEF TypeOK, RecordType
  <2>a. \A w \in Workers : pc[w] = "closeWait" => at[w] \in Keys \ {k}
    BY <2>2 DEF SessionInv, CloserOwnsSession
  <2> HIDE DEF k
  <2>5. CloserOwnsSession'
    BY <2>2, <2>3, <2>4, <2>a DEF SessionInv, CloserOwnsSession
  <2>6. SessionHasClient'
    BY <2>2, <2>3 DEF SessionInv, SessionHasClient
  <2> QED
    BY <2>2, <2>3, <2>5, <2>6 DEF SessionInv
<1>16. CASE CleanStart \/ CleanEnd
  BY <1>16, OwnerFrame DEF CleanStart, CleanEnd, recVars, proxyVars, threadVars
<1>17. ASSUME NEW k \in Keys, CleanSkip(k) \/ CleanFail(k) PROVE SessionInv'
  BY <1>17, OwnerFrame DEF CleanSkip, CleanFail, recVars, proxyVars, threadVars
<1>18. ASSUME NEW k \in Keys, CleanSession(k) PROVE SessionInv'
  BY <1>18, OwnerFinalizeTimer DEF CleanSession
<1>19. ASSUME NEW k \in Keys, CleanRead(k) PROVE SessionInv'
  <2>1. /\ UNCHANGED <<gen, present, deleted, timedout, proxy, pc, at, atGen>>
        /\ present[k] /\ ckey' = k
    BY <1>19 DEF CleanRead, recVars, proxyVars, threadVars
  <2>2. CloserOwnsSession' /\ SessionHasClient'
    BY <2>1 DEF SessionInv, CloserOwnsSession, SessionHasClient
  <2> QED
    BY <2>1, <2>2 DEF SessionInv
<1>20. CASE CleanReadResume
  BY <1>20, OwnerFinalizeTimer DEF CleanReadResume, SessionInv, TypeOK, CleanerType
<1>21. CASE CleanTimerResume
  <2>1. CASE present[ckey] /\ SessionFinalized(ckey)
    BY <1>21, <2>1, OwnerFinalized DEF CleanTimerResume, TypeOK, CleanerType
  <2>2. CASE cleaner' = "idle" /\ UNCHANGED <<present, finalized, semCleanup, proxyVars>>
    BY <1>21, <2>2, OwnerFrame DEF CleanTimerResume, proxyVars, threadVars
  <2> QED
    BY <1>21, <2>1, <2>2 DEF CleanTimerResume
<1>23. ASSUME NEW k \in Keys, ReadsCancel(k) \/ CleanResources(k) PROVE SessionInv'
  BY <1>23, OwnerFrame DEF ReadsCancel, CleanResources, recVars, proxyVars, cleanVars,
                           threadVars
<1>24. CASE CleanReadFail \/ ReadsResume
  BY <1>24, OwnerFrame DEF CleanReadFail, ReadsResume, ReadGone, recVars, proxyVars,
                           threadVars
<1>25. ASSUME NEW w \in Workers, NEW k \in Keys, ReceiveDeleteObject(w, k)
       PROVE SessionInv'
  <2>1. CASE UNCHANGED threadVars
    BY <1>25, <2>1, OwnerFrame DEF ReceiveDeleteObject, Receive, proxyVars, cleanVars,
                                   threadVars
  <2>2. CASE WaitForRead(w, k, "object")
    BY <1>25, <2>2, IdleFrame DEF ReceiveDeleteObject, Receive, WaitForRead, proxyVars,
                                  cleanVars
  <2> QED
    BY <1>25, <2>1, <2>2 DEF ReceiveDeleteObject
<1>22. CASE UNCHANGED vars
  BY <1>22, OwnerFrame DEF vars, recVars, proxyVars, cleanVars, threadVars
<1> QED
  BY <1>1, <1>2, <1>3, <1>4, <1>5, <1>6, <1>7, <1>8, <1>9, <1>10, <1>11, <1>12, <1>13,
     <1>14, <1>15, <1>16, <1>17, <1>18, <1>19, <1>20, <1>21, <1>22, <1>23, <1>24,
     <1>25
     DEF Next, Worker, EventStep, Cleanup, Pass

LEMMA OwnerInit == Init => SessionInv
  BY DEF Init, SessionInv, CloserOwnsSession, SessionHasClient, Threads

(* A thread waiting in close_session owns its record until it wakes up: no  *)
(* timeout, no other close and no pass of the cleanup thread can take it    *)
(* away, for any number of clients, threads, sessions and messages.         *)
THEOREM CloserKeepsSession == Spec => []CloserOwnsSession
<1>1. TypeOK /\ SessionInv /\ [Next]_vars => SessionInv'
  BY OwnerNext
<1>2. SessionInv => CloserOwnsSession
  BY DEF SessionInv
<1> QED
  BY <1>1, <1>2, OwnerInit, TypeCorrect, PTL DEF Spec

(* on_session_closed finds an allocated client, from whichever of the two   *)
(* threads it runs, and every session of the table has one: the client of a *)
(* session is freed exactly once.                                           *)
THEOREM ClientFreedOnce == Spec => []SessionHasClient
<1>1. TypeOK /\ SessionInv /\ [Next]_vars => SessionInv'
  BY OwnerNext
<1>2. SessionInv => SessionHasClient
  BY DEF SessionInv
<1> QED
  BY <1>1, <1>2, OwnerInit, TypeCorrect, PTL DEF Spec
=============================================================================
