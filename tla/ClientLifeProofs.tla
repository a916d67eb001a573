-------------------------- MODULE ClientLifeProofs --------------------------
(***************************************************************************)
(* ClientSessions implements ClientLifecycle where every client keeps to   *)
(* one transport, for every set of keys, threads and faults and every      *)
(* bound.                                                                  *)
(***************************************************************************)
EXTENDS ClientSessionsProofs

(* Steps that make, dispose or free no client and leave the threads inside  *)
(* close_session where they are, or further on.                             *)
LEMMA DisposalFrame ==
    ASSUME TypeOK, DisposalInv, UNCHANGED <<gen, timedout, proxyVars>>,
           \A k \in Keys : present'[k] => present[k],
           \A w \in Workers :
              /\ ToClose(w)' => ToClose(w)
              /\ InClose(w)' => ToClose(w) \/ InClose(w)
              /\ ToClose(w)' \/ InClose(w)' => at'[w] = at[w] /\ atGen'[w] = atGen[w]
    PROVE  DisposalInv'
<1>1. ClientsInTurn'
  BY DEF DisposalInv, ClientsInTurn, proxyVars
<1>2. ExpiredDisposed'
  BY DEF DisposalInv, ExpiredDisposed, Client, proxyVars
<1>3. DeletePending'
  BY DEF DisposalInv, DeletePending, proxyVars
<1>4. ASSUME OneRoute PROVE ClosesDisposed'
  <2>1. ClosesDisposed
    BY <1>4 DEF DisposalInv
  <2> QED
    BY <2>1 DEF ClosesDisposed, proxyVars
<1> QED
  BY <1>1, <1>2, <1>3, <1>4 DEF DisposalInv, OneRoute

(* A thread that starts to wait for a read on another errand. *)
LEMMA DisposalWait ==
    ASSUME TypeOK, DisposalInv, UNCHANGED <<gen, timedout, present, proxyVars>>,
           NEW t \in Threads, NEW k \in Keys, NEW r \in WaitReasons \ {"delete"},
           WaitForRead(t, k, r)
    PROVE  DisposalInv'
<1>1. ASSUME NEW w \in Workers PROVE
         \/ /\ pc'[w] = pc[w] /\ after'[w] = after[w]
            /\ at'[w] = at[w] /\ atGen'[w] = atGen[w]
         \/ pc'[w] = "wait" /\ after'[w] # "delete"
  BY DEF WaitForRead, TypeOK, ThreadType, Threads
<1> QED
  BY <1>1, DisposalFrame DEF ToClose, InClose

(* on_session_closed: its client is allocated, and no DELETE waits for an    *)
(* answer in it any more.                                                   *)
LEMMA ClosedClient ==
    ASSUME TypeOK, DisposalInv, NEW k \in Keys, NEW g \in Gens, NEW ok,
           OnSessionClosed(<<k, g>>, ok), proxy[k][g] = "live",
           UNCHANGED gen
    PROVE  ClientsInTurn' /\ DeletePending'
<1>1. PICK v \in {"leaked", "freed"} : proxy' = [proxy EXCEPT ![k][g] = v]
  BY DEF OnSessionClosed
<1>2. proxy'[k][g] \in {"leaked", "freed"}
  BY <1>1 DEF TypeOK, ClientType
<1>3. \A j \in Keys, h \in Gens : j # k \/ h # g => proxy'[j][h] = proxy[j][h]
  BY <1>1 DEF TypeOK, ClientType
<1>4. ClientsInTurn'
  BY <1>2, <1>3 DEF DisposalInv, ClientsInTurn
<1>5. DeletePending'
  <2> SUFFICES ASSUME NEW c \in request'
               PROVE  c \in disposed' /\ proxy'[c[1]][c[2]] = "live"
    BY DEF DeletePending
  <2>1. c \in request /\ c # <<k, g>> /\ disposed' = disposed
    BY DEF OnSessionClosed
  <2>2. c \in disposed /\ proxy[c[1]][c[2]] = "live"
    BY <2>1 DEF DisposalInv, DeletePending
  <2>3. c \in Keys \X (0..MaxOpens)
    BY <2>1 DEF TypeOK, ClientType
  <2>4. PICK j \in Keys, h \in 0..MaxOpens : c = <<j, h>>
    BY <2>3
  <2>5. proxy'[j][h] = proxy[j][h]
    BY <1>1, <2>1, <2>4 DEF TypeOK, ClientType
  <2> QED
    BY <2>1, <2>2, <2>4, <2>5
<1> QED
  BY <1>4, <1>5

(* The end of a session's finalization. *)
LEMMA DisposalFinalized ==
    ASSUME TypeOK, SessionInv, DisposalInv, NEW k \in Keys, SessionFinalized(k),
           present[k], UNCHANGED <<gen, timedout, threadVars>>
    PROVE  DisposalInv'
<1>1. CASE ~timedout[k]
  BY <1>1, DisposalFrame DEF SessionFinalized, threadVars, ToClose, InClose
<1>2. CASE timedout[k]
  <2>1. present' = [present EXCEPT ![k] = FALSE]
    BY <1>2 DEF SessionFinalized
  <2>2. PICK ok \in SendOutcomes : OnSessionClosed(<<k, gen[k]>>, ok)
    BY <1>2 DEF SessionFinalized, Client
  <2>3. gen[k] \in Gens /\ proxy[k][gen[k]] = "live"
    BY DEF SessionInv, SessionHasClient
  <2>4. ClientsInTurn' /\ DeletePending'
    BY <2>2, <2>3, ClosedClient
  <2>5. ExpiredDisposed'
    BY <2>1, <2>2 DEF OnSessionClosed, DisposalInv, ExpiredDisposed, Client, TypeOK,
       RecordType
  <2>6. ClosesDisposed => ClosesDisposed'
    BY <2>2 DEF OnSessionClosed, ClosesDisposed, ToClose, InClose, threadVars
  <2> QED
    BY <2>4, <2>5, <2>6 DEF DisposalInv, OneRoute
<1> QED
  BY <1>1, <1>2

LEMMA DisposalFinalizeTimer ==
    ASSUME TypeOK, SessionInv, DisposalInv, NEW k \in Keys, FinalizeTimer(k),
           present[k], UNCHANGED <<gen, timedout, threadVars>>
    PROVE  DisposalInv'
<1>1. CASE SessionFinalized(k)
  BY <1>1, DisposalFinalized
<1>2. CASE UNCHANGED <<present, proxyVars>>
  BY <1>2, DisposalFrame DEF threadVars, ToClose, InClose
<1> QED
  BY <1>1, <1>2 DEF FinalizeTimer

(* A new session has a client of its own, and a thread that has still to    *)
(* close the last one would have to be the one that opens it.               *)
LEMMA DisposalOpen ==
    ASSUME TypeOK, DisposalInv, NEW w \in Workers, NEW k \in Keys, OpenNew(w, k)
    PROVE  DisposalInv'
<1>a. MaxOpens \in Nat
  BY SessionsAssumption
<1>b. \A v \in Workers : at[v] \in Keys
  BY DEF TypeOK, ThreadType, Threads
<1>1. /\ gen' = [gen EXCEPT ![k] = gen[k] + 1]
      /\ timedout' = [timedout EXCEPT ![k] = FALSE]
      /\ present' = [present EXCEPT ![k] = TRUE]
      /\ proxy' = [proxy EXCEPT ![k][gen[k] + 1] = "live"]
      /\ UNCHANGED <<disposed, request, pc, after, at, atGen>>
      /\ pc[w] = "idle" /\ <<k, w>> \in Route
  BY DEF OpenNew, threadVars
<1>2. gen[k] \in 0..MaxOpens /\ gen[k] + 1 \in Gens
  BY <1>a DEF OpenNew, TypeOK, RecordType, Gens
<1>3. gen'[k] = gen[k] + 1 /\ \A j \in Keys \ {k} : gen'[j] = gen[j]
  BY <1>1 DEF TypeOK, RecordType
<1>4. proxy'[k][gen[k] + 1] = "live"
  BY <1>1, <1>2 DEF TypeOK, ClientType
<1>5. \A j \in Keys, g \in Gens : j # k \/ g # gen[k] + 1 => proxy'[j][g] = proxy[j][g]
  BY <1>1 DEF TypeOK, ClientType
<1>6. ClientsInTurn'
  <2> SUFFICES ASSUME NEW j \in Keys, NEW g \in Gens
               PROVE  proxy'[j][g] = "none" <=> g > gen'[j]
    BY DEF ClientsInTurn
  <2>1. proxy[j][g] = "none" <=> g > gen[j]
    BY DEF DisposalInv, ClientsInTurn
  <2>2. g \in Nat /\ gen[k] \in Nat
    BY <1>2 DEF Gens
  <2> QED
    BY <1>3, <1>4, <1>5, <2>1, <2>2
<1>7. ExpiredDisposed'
  BY <1>1, <1>3 DEF DisposalInv, ExpiredDisposed, Client, TypeOK, RecordType
<1>8. DeletePending'
  <2> SUFFICES ASSUME NEW c \in request
               PROVE  c \in disposed /\ proxy'[c[1]][c[2]] = "live"
    BY <1>1 DEF DeletePending
  <2>1. c \in disposed /\ proxy[c[1]][c[2]] = "live"
    BY DEF DisposalInv, DeletePending
  <2>2. PICK j \in Keys, h \in 0..MaxOpens : c = <<j, h>>
    BY DEF TypeOK, ClientType
  <2>3. proxy'[j][h] = proxy[j][h] \/ (j = k /\ h = gen[k] + 1)
    BY <1>1 DEF TypeOK, ClientType
  <2> QED
    BY <1>4, <2>1, <2>2, <2>3
<1>9. ASSUME OneRoute PROVE ClosesDisposed'
  <2>1. \A v \in Workers : ToClose(v) => at[v] # k
    BY <1>1, <1>9 DEF OneRoute, DisposalInv, ClosesDisposed, ToClose
  <2> QED
    BY <1>b, <1>1, <1>3, <1>9, <2>1 DEF DisposalInv, ClosesDisposed, ToClose, InClose
<1> QED
  BY <1>6, <1>7, <1>8, <1>9 DEF DisposalInv, OneRoute

(* DELETE disposes the client the session has, in the thread that is going  *)
(* to close it.                                                             *)
LEMMA DisposalDelete ==
    ASSUME TypeOK, SessionInv, DisposalInv, NEW w \in Workers, NEW k \in Keys,
           ReceiveDelete(w, k)
    PROVE  DisposalInv'
<1>1. /\ UNCHANGED <<gen, timedout, present, proxy>> /\ present[k]
      /\ disposed' = disposed \cup {<<k, gen[k]>>}
      /\ request' = request \cup {<<k, gen[k]>>}
      /\ at' = [at EXCEPT ![w] = k] /\ atGen' = [atGen EXCEPT ![w] = gen[k]]
      /\ <<k, w>> \in Route
  BY DEF ReceiveDelete, Receive, Active, Client, WaitForRead, recVars
<1>2. proxy[k][gen[k]] = "live"
  BY <1>1 DEF SessionInv, SessionHasClient
<1>3. \A v \in Workers \ {w} :
         /\ pc'[v] = pc[v] /\ after'[v] = after[v]
         /\ at'[v] = at[v] /\ atGen'[v] = atGen[v]
  <2>1. Workers \subseteq Threads
    BY DEF Threads
  <2>2. /\ pc' = pc \/ \E x : pc' = [pc EXCEPT ![w] = x]
        /\ after' = after \/ \E x : after' = [after EXCEPT ![w] = x]
    BY DEF ReceiveDelete, WaitForRead
  <2> QED
    BY <1>1, <2>1, <2>2 DEF TypeOK, ThreadType
<1>4. at'[w] = k /\ atGen'[w] = gen[k]
  BY <1>1 DEF TypeOK, ThreadType, Threads
<1>5. ClientsInTurn'
  BY <1>1 DEF DisposalInv, ClientsInTurn
<1>6. ExpiredDisposed'
  BY <1>1 DEF DisposalInv, ExpiredDisposed, Client
<1>7. DeletePending'
  BY <1>1, <1>2 DEF DisposalInv, DeletePending
<1>8. ClosesDisposed => ClosesDisposed'
  <2> SUFFICES ASSUME ClosesDisposed, NEW v \in Workers
               PROVE  /\ ToClose(v)' => <<at'[v], v>> \in Route /\ atGen'[v] = gen'[at'[v]]
                      /\ ToClose(v)' \/ InClose(v)' => <<at'[v], atGen'[v]>> \in disposed'
    BY <1>1 DEF ClosesDisposed
  <2>1. CASE v = w
    BY <1>1, <1>4, <2>1
  <2>2. CASE v # w
    BY <1>1, <1>3, <2>2 DEF ClosesDisposed, ToClose, InClose
  <2> QED
    BY <2>1, <2>2
<1> QED
  BY <1>5, <1>6, <1>7, <1>8 DEF DisposalInv, OneRoute

(* So does the timeout of a session. *)
LEMMA DisposalTimeout ==
    ASSUME TypeOK, DisposalInv, RunTimeout
    PROVE  DisposalInv'
<1> DEFINE k == event.key
<1>1. k \in Keys
  BY EventType DEF RunTimeout, Handles
<1>2. /\ UNCHANGED <<gen, present, proxy, request>>
      /\ timedout' = [timedout EXCEPT ![k] = TRUE]
      /\ disposed' = disposed \cup {<<k, gen[k]>>}
  BY DEF RunTimeout, Client
<1>3. \A w \in Workers : /\ pc'[w] = pc[w] /\ after'[w] = after[w]
                         /\ at'[w] = at[w] /\ atGen'[w] = atGen[w]
  <2>1. \A w \in Workers : w \in Threads /\ w # EventThread
    BY SessionsAssumption DEF Threads
  <2>2. UNCHANGED threadVars \/ WaitForRead(EventThread, k, "timeout")
    BY DEF RunTimeout
  <2> QED
    BY <2>1, <2>2 DEF WaitForRead, threadVars, TypeOK, ThreadType
<1> HIDE DEF k
<1>4. ClientsInTurn'
  BY <1>2 DEF DisposalInv, ClientsInTurn
<1>5. ExpiredDisposed'
  BY <1>1, <1>2 DEF DisposalInv, ExpiredDisposed, Client, TypeOK, RecordType
<1>6. DeletePending'
  BY <1>2 DEF DisposalInv, DeletePending
<1>7. ClosesDisposed => ClosesDisposed'
  BY <1>2, <1>3 DEF ClosesDisposed, ToClose, InClose
<1> QED
  BY <1>4, <1>5, <1>6, <1>7 DEF DisposalInv, OneRoute

(* close_session finds the record of the client it was called for. *)
LEMMA DisposalClose ==
    ASSUME TypeOK, DisposalInv, NEW w \in Workers, Close(w)
    PROVE  DisposalInv'
<1>1. w \in Threads /\ at[w] \in Keys
  BY DEF TypeOK, ThreadType, Threads
<1>2. /\ UNCHANGED <<gen, timedout, present, proxyVars, at, after>>
      /\ pc[w] = "closing"
  BY DEF Close
<1>3. \/ pc' = [pc EXCEPT ![w] = "idle"] /\ UNCHANGED atGen
      \/ /\ pc' = [pc EXCEPT ![w] = "closeWait"]
         /\ atGen' = [atGen EXCEPT ![w] = gen[at[w]]]
  BY DEF Close
<1>4. CASE UNCHANGED atGen
  <2>1. \A v \in Workers :
           /\ ToClose(v)' => ToClose(v)
           /\ InClose(v)' => ToClose(v) \/ InClose(v)
    BY <1>1, <1>2, <1>3 DEF ToClose, InClose, TypeOK, ThreadType, Threads
  <2> QED
    BY <1>2, <1>4, <2>1, DisposalFrame
<1>5. CASE /\ pc' = [pc EXCEPT ![w] = "closeWait"]
           /\ atGen' = [atGen EXCEPT ![w] = gen[at[w]]]
  <2>1. ClientsInTurn' /\ ExpiredDisposed' /\ DeletePending'
    BY <1>2 DEF DisposalInv, ClientsInTurn, ExpiredDisposed, DeletePending, Client,
       proxyVars
  <2>2. ClosesDisposed => ClosesDisposed'
    <3>1. ClosesDisposed => atGen[w] = gen[at[w]] /\ <<at[w], atGen[w]>> \in disposed
      BY <1>2 DEF ClosesDisposed, ToClose
    <3>2. pc'[w] = "closeWait" /\ atGen'[w] = gen[at[w]]
      BY <1>1, <1>5 DEF TypeOK, ThreadType
    <3>3. \A v \in Workers \ {w} : pc'[v] = pc[v] /\ atGen'[v] = atGen[v]
      BY <1>5 DEF TypeOK, ThreadType, Threads
    <3> QED
      BY <1>2, <3>1, <3>2, <3>3 DEF ClosesDisposed, ToClose, InClose, proxyVars
  <2> QED
    BY <2>1, <2>2 DEF DisposalInv, OneRoute
<1> QED
  BY <1>3, <1>4, <1>5

(* on_session_closed, called by close_session. *)
LEMMA DisposalNotify ==
    ASSUME TypeOK, SessionInv, DisposalInv, NEW w \in Workers, CloseNotify(w)
    PROVE  DisposalInv'
<1>1. w \in Threads /\ at[w] \in Keys
  BY DEF TypeOK, ThreadType, Threads
<1>2. /\ UNCHANGED <<gen, timedout, present, at, atGen, after>>
      /\ pc[w] = "notify" /\ pc' = [pc EXCEPT ![w] = "idle"]
  BY DEF CloseNotify, recVars
<1>3. PICK ok \in SendOutcomes : OnSessionClosed(<<at[w], atGen[w]>>, ok)
  BY DEF CloseNotify
<1>4. atGen[w] \in Gens /\ proxy[at[w]][atGen[w]] = "live"
  BY <1>2 DEF SessionInv, SessionHasClient
<1>5. ClientsInTurn' /\ DeletePending'
  BY <1>1, <1>2, <1>3, <1>4, ClosedClient
<1>6. ExpiredDisposed'
  BY <1>2, <1>3 DEF OnSessionClosed, DisposalInv, ExpiredDisposed, Client
<1>7. ClosesDisposed => ClosesDisposed'
  <2>1. \A v \in Workers : pc'[v] = pc[v] \/ pc'[v] = "idle"
    BY <1>2 DEF TypeOK, ThreadType, Threads
  <2> QED
    BY <1>2, <1>3, <2>1 DEF OnSessionClosed, ClosesDisposed, ToClose, InClose
<1> QED
  BY <1>5, <1>6, <1>7 DEF DisposalInv, OneRoute

LEMMA DisposalNext ==
    ASSUME TypeOK, SessionInv, DisposalInv, [Next]_vars
    PROVE  DisposalInv'
<1>a. Workers \subseteq Threads /\ EventThread \in Threads
  BY DEF Threads
<1>1. CASE UNCHANGED <<recVars, proxyVars, threadVars>>
  BY <1>1, DisposalFrame DEF recVars, threadVars, ToClose, InClose
<1>2. ASSUME NEW w \in Workers, NEW k \in Keys, OpenNew(w, k) PROVE DisposalInv'
  BY <1>2, DisposalOpen
<1>3. ASSUME NEW w \in Workers, NEW k \in Keys, OpenReset(w, k) PROVE DisposalInv'
  <2>1. UNCHANGED <<gen, timedout, present, proxyVars>>
    BY <1>3 DEF OpenReset
  <2>2. CASE UNCHANGED threadVars
    BY <2>1, <2>2, DisposalFrame DEF threadVars, ToClose, InClose
  <2>3. CASE WaitForRead(w, k, "reset") \/ WaitForRead(w, k, "resetLast")
    BY <1>a, <2>1, <2>3, DisposalWait DEF WaitReasons
  <2> QED
    BY <1>3, <2>2, <2>3 DEF OpenReset
<1>4. ASSUME NEW w \in Workers, NEW k \in Keys, ReceiveOther(w, k) PROVE DisposalInv'
  BY <1>1, <1>4 DEF ReceiveOther, Receive, recVars
<1>5. ASSUME NEW w \in Workers, NEW k \in Keys,
             ReceiveRead(w, k) \/ ReceiveAck(w, k) \/ ReceiveDeleteObject(w, k)
      PROVE  DisposalInv'
  <2>1. UNCHANGED <<gen, timedout, present, proxyVars>>
    BY <1>5 DEF ReceiveRead, ReceiveAck, ReceiveDeleteObject, Receive
  <2>2. CASE UNCHANGED threadVars
    BY <2>1, <2>2, DisposalFrame DEF threadVars, ToClose, InClose
  <2>3. CASE \E reason \in {"read", "ack", "object"} : WaitForRead(w, k, reason)
    BY <1>a, <2>1, <2>3, DisposalWait DEF WaitReasons
  <2> QED
    BY <1>5, <2>2, <2>3 DEF ReceiveRead, ReceiveAck, ReceiveDeleteObject
<1>6. ASSUME NEW w \in Workers, NEW k \in Keys, ReceiveDelete(w, k) PROVE DisposalInv'
  BY <1>6, DisposalDelete
<1>7. ASSUME NEW w \in Workers, Close(w) PROVE DisposalInv'
  BY <1>7, DisposalClose
<1>8. ASSUME NEW w \in Workers, CloseResume(w) PROVE DisposalInv'
  <2>1. /\ UNCHANGED <<gen, timedout, proxyVars, at, atGen, after>>
        /\ present' = [present EXCEPT ![at[w]] = FALSE]
        /\ pc[w] = "closeWait" /\ pc' = [pc EXCEPT ![w] = "notify"]
    BY <1>8 DEF CloseResume
  <2>2. \A k \in Keys : present'[k] => present[k]
    BY <2>1 DEF TypeOK, RecordType
  <2>3. \A v \in Workers : pc'[v] = pc[v] \/ (pc'[v] = "notify" /\ pc[v] = "closeWait")
    BY <1>a, <2>1 DEF TypeOK, ThreadType
  <2> QED
    BY <2>1, <2>2, <2>3, DisposalFrame DEF ToClose, InClose
<1>9. ASSUME NEW w \in Workers, CloseNotify(w) PROVE DisposalInv'
  BY <1>9, DisposalNotify
<1>10. ASSUME NEW t \in Threads, ReadCancelled(t) PROVE DisposalInv'
  <2>1. /\ UNCHANGED <<gen, timedout, present, proxyVars, after, at, atGen>>
        /\ pc[t] = "wait"
        /\ pc' = [pc EXCEPT ![t] = IF after[t] = "delete" THEN "closing" ELSE "idle"]
    BY <1>10 DEF ReadCancelled
  <2>2. \A v \in Workers : \/ pc'[v] = pc[v]
                           \/ pc'[v] = "idle"
                           \/ ToClose(v) /\ pc'[v] = "closing"
    BY <1>a, <2>1 DEF TypeOK, ThreadType, ToClose
  <2> QED
    BY <2>1, <2>2, DisposalFrame DEF ToClose, InClose
<1>11. ASSUME NEW k \in Keys, DataArrives(k) \/ PopRead(k) PROVE DisposalInv'
  BY <1>1, <1>11 DEF DataArrives, PopRead, TakeEvent
<1>12. ASSUME NEW k \in Keys, NEW g \in Gens, PopTimeout(k, g) \/ PopHeartbeat(k, g)
       PROVE  DisposalInv'
  BY <1>1, <1>12 DEF PopTimeout, PopHeartbeat, TakeEvent
<1>13. CASE RunTimeoutIgnored \/ RunRead \/ RunHeartbeat \/ CleanStart \/ CleanEnd
  BY <1>1, <1>13 DEF RunTimeoutIgnored, RunRead, RunHeartbeat, CleanStart, CleanEnd
<1>14. CASE RunTimeoutCancel
  BY <1>14, DisposalFrame DEF RunTimeoutCancel, threadVars, ToClose, InClose
<1>15. CASE RunTimeout
  BY <1>15, DisposalTimeout
<1>16. ASSUME NEW k \in Keys, CleanSkip(k) \/ CleanRead(k) \/ CleanFail(k)
       PROVE  DisposalInv'
  BY <1>1, <1>16 DEF CleanSkip, CleanRead, CleanFail
<1>17. ASSUME NEW k \in Keys, CleanSession(k) PROVE DisposalInv'
  BY <1>17, DisposalFinalizeTimer DEF CleanSession
<1>18. CASE CleanReadResume
  BY <1>18, DisposalFinalizeTimer DEF CleanReadResume, SessionInv, TypeOK, CleanerType
<1>19. CASE CleanTimerResume
  <2>1. ckey \in Keys
    BY DEF TypeOK, CleanerType
  <2>2. CASE present[ckey] /\ SessionFinalized(ckey)
    BY <1>19, <2>1, <2>2, DisposalFinalized DEF CleanTimerResume
  <2>3. CASE UNCHANGED <<present, proxyVars>>
    BY <1>19, <2>3, DisposalFrame DEF CleanTimerResume, threadVars, ToClose, InClose
  <2> QED
    BY <1>19, <2>2, <2>3 DEF CleanTimerResume
<1>20. CASE UNCHANGED vars
  BY <1>1, <1>20 DEF vars
<1>21. ASSUME NEW k \in Keys, ReadsCancel(k) PROVE DisposalInv'
  BY <1>1, <1>21 DEF ReadsCancel
<1>22. CASE CleanReadFail \/ ReadsResume
  BY <1>1, <1>22 DEF CleanReadFail, ReadsResume, ReadGone
<1>23. ASSUME NEW k \in Keys, CleanResources(k) PROVE DisposalInv'
  BY <1>23, DisposalFrame DEF CleanResources, threadVars, ToClose, InClose
<1> QED
  BY <1>2, <1>3, <1>4, <1>5, <1>6, <1>7, <1>8, <1>9, <1>10, <1>11, <1>12, <1>13,
     <1>14, <1>15, <1>16, <1>17, <1>18, <1>19, <1>20, <1>21, <1>22, <1>23
     DEF Next, Worker, EventStep, Cleanup, Pass

(* Who is disposed by the time a session ends, and whose DELETE may still   *)
(* be waiting: never that of a client that has been freed.                  *)
THEOREM DisposalInvariant == Spec => []DisposalInv
<1>1. Init => DisposalInv
  BY DEF Init, DisposalInv, ClientsInTurn, ExpiredDisposed, DeletePending,
     ClosesDisposed, ToClose, InClose, Gens, Threads
<1>2. TypeOK /\ SessionInv /\ [Next]_vars => SessionInv'
  BY OwnerNext
<1>3. TypeOK /\ SessionInv /\ DisposalInv /\ [Next]_vars => DisposalInv'
  BY DisposalNext
<1> QED
  BY <1>1, <1>2, <1>3, OwnerInit, TypeCorrect, PTL DEF Spec

-----------------------------------------------------------------------------
(* The refinement: what a step does to the clients, and the step of          *)
(* ClientLifecycle it is.                                                   *)

(* on_session_closed closes a client that is allocated and disposed. *)
LEMMA ClosesClient ==
    ASSUME NEW k \in Keys, NEW g \in Gens, NEW ok \in SendOutcomes,
           OnSessionClosed(<<k, g>>, ok), proxy[k][g] = "live", <<k, g>> \in disposed
    PROVE  Life!Next
<1>1. Life!Close(<<k, g>>)
  BY DEF OnSessionClosed, Life!Close, Life!Is, Life!Becomes
<1> QED
  BY <1>1 DEF Life!Next

LEMMA FinalizedLife ==
    ASSUME TypeOK, SessionInv, DisposalInv, NEW k \in Keys, SessionFinalized(k),
           present[k]
    PROVE  Life!Next \/ UNCHANGED proxyVars
<1>1. CASE ~timedout[k]
  BY <1>1 DEF SessionFinalized
<1>2. CASE timedout[k]
  <2>1. PICK ok \in SendOutcomes : OnSessionClosed(<<k, gen[k]>>, ok)
    BY <1>2 DEF SessionFinalized, Client
  <2>2. gen[k] \in Gens /\ proxy[k][gen[k]] = "live"
    BY DEF SessionInv, SessionHasClient
  <2>3. <<k, gen[k]>> \in disposed
    BY <1>2 DEF DisposalInv, ExpiredDisposed, Client
  <2> QED
    BY <2>1, <2>2, <2>3, ClosesClient
<1> QED
  BY <1>1, <1>2

LEMMA LifeStep ==
    ASSUME TypeOK, SessionInv, DisposalInv, OneRoute, [Next]_vars
    PROVE  Life!Next \/ UNCHANGED proxyVars
<1>1. ASSUME NEW w \in Workers, NEW k \in Keys, OpenNew(w, k) PROVE Life!Next
  <2> DEFINE c == <<k, gen[k] + 1>>
  <2>1. /\ proxy' = [proxy EXCEPT ![k][gen[k] + 1] = "live"]
        /\ UNCHANGED <<disposed, request>>
    BY <1>1 DEF OpenNew
  <2>2. gen[k] \in Nat /\ gen[k] + 1 \in Gens
    BY <1>1, SessionsAssumption DEF OpenNew, TypeOK, RecordType, Gens
  <2>3. \A g \in Gens : proxy[k][g] = "none" <=> g >= gen[k] + 1
    <3>1. \A g \in Gens : g \in Nat
      BY DEF Gens
    <3> QED
      BY <2>2, <3>1 DEF DisposalInv, ClientsInTurn
  <2>4. Life!Open(c)
    BY <2>1, <2>3 DEF Life!Open, Life!Becomes
  <2>5. c \in Keys \X Gens
    BY <2>2
  <2> HIDE DEF c
  <2> QED
    BY <2>4, <2>5 DEF Life!Next
<1>2. ASSUME NEW k \in Keys, present[k],
             disposed' = disposed \cup {Client(k)},
             request' \in {request, request \cup {Client(k)}},
             Client(k) \in disposed => UNCHANGED request,
             UNCHANGED proxy
      PROVE  Life!Next \/ UNCHANGED proxyVars
  <2>1. CASE Client(k) \in disposed
    BY <1>2, <2>1 DEF proxyVars
  <2>2. CASE Client(k) \notin disposed
    <3>1. gen[k] \in Gens /\ proxy[k][gen[k]] = "live"
      BY <1>2 DEF SessionInv, SessionHasClient
    <3>2. Life!Dispose(Client(k)) /\ Client(k) \in Keys \X Gens
      BY <1>2, <2>2, <3>1 DEF Life!Dispose, Life!Is, Client
    <3> QED
      BY <3>2 DEF Life!Next
  <2> QED
    BY <2>1, <2>2
<1>3. ASSUME NEW w \in Workers, NEW k \in Keys, ReceiveDelete(w, k)
      PROVE  Life!Next \/ UNCHANGED proxyVars
  <2>1. /\ present[k] /\ UNCHANGED proxy
        /\ disposed' = disposed \cup {Client(k)}
        /\ request' = request \cup {Client(k)}
        /\ Client(k) \notin disposed
    BY <1>3 DEF ReceiveDelete, Receive, Active
  <2> QED
    BY <1>2, <2>1
<1>4. CASE RunTimeout
  <2>1. event.key \in Keys
    BY <1>4, EventType DEF RunTimeout, Handles
  <2>2. /\ present[event.key] /\ UNCHANGED <<proxy, request>>
        /\ disposed' = disposed \cup {Client(event.key)}
    BY <1>4 DEF RunTimeout, Active
  <2> QED
    BY <1>2, <2>1, <2>2
<1>5. ASSUME NEW w \in Workers, CloseNotify(w) PROVE Life!Next
  <2>1. at[w] \in Keys /\ pc[w] = "notify"
    BY <1>5 DEF CloseNotify, TypeOK, ThreadType, Threads
  <2>2. PICK ok \in SendOutcomes : OnSessionClosed(<<at[w], atGen[w]>>, ok)
    BY <1>5 DEF CloseNotify
  <2>3. atGen[w] \in Gens /\ proxy[at[w]][atGen[w]] = "live"
    BY <2>1 DEF SessionInv, SessionHasClient
  <2>4. <<at[w], atGen[w]>> \in disposed
    BY <2>1 DEF DisposalInv, ClosesDisposed, InClose
  <2> QED
    BY <2>1, <2>2, <2>3, <2>4, ClosesClient
<1>6. ASSUME NEW k \in Keys, CleanSession(k) PROVE Life!Next \/ UNCHANGED proxyVars
  BY <1>6, FinalizedLife DEF CleanSession, FinalizeTimer
<1>7. CASE CleanReadResume
  <2>1. ckey \in Keys /\ present[ckey] /\ FinalizeTimer(ckey)
    BY <1>7 DEF CleanReadResume, SessionInv, TypeOK, CleanerType
  <2> QED
    BY <2>1, FinalizedLife DEF FinalizeTimer
<1>8. CASE CleanTimerResume
  <2>1. ckey \in Keys
    BY DEF TypeOK, CleanerType
  <2> QED
    BY <1>8, <2>1, FinalizedLife DEF CleanTimerResume
<1>9. ASSUME NEW w \in Workers, NEW k \in Keys,
             OpenReset(w, k) \/ ReceiveOther(w, k) \/ ReceiveRead(w, k)
             \/ ReceiveAck(w, k) \/ ReceiveDeleteObject(w, k)
      PROVE  UNCHANGED proxyVars
  BY <1>9 DEF OpenReset, ReceiveOther, ReceiveRead, ReceiveAck, ReceiveDeleteObject
<1>10. ASSUME NEW w \in Workers, Close(w) \/ CloseResume(w) PROVE UNCHANGED proxyVars
  BY <1>10 DEF Close, CloseResume
<1>11. ASSUME NEW t \in Threads, ReadCancelled(t) PROVE UNCHANGED proxyVars
  BY <1>11 DEF ReadCancelled
<1>12. ASSUME NEW k \in Keys,
              DataArrives(k) \/ PopRead(k) \/ CleanSkip(k) \/ CleanRead(k)
              \/ CleanFail(k) \/ ReadsCancel(k) \/ CleanResources(k)
       PROVE  UNCHANGED proxyVars
  BY <1>12 DEF DataArrives, PopRead, TakeEvent, CleanSkip, CleanRead, CleanFail,
     ReadsCancel, CleanResources
<1>13. ASSUME NEW k \in Keys, NEW g \in Gens, PopTimeout(k, g) \/ PopHeartbeat(k, g)
       PROVE  UNCHANGED proxyVars
  BY <1>13 DEF PopTimeout, PopHeartbeat, TakeEvent
<1>14. CASE RunTimeoutCancel \/ RunTimeoutIgnored \/ RunRead \/ RunHeartbeat
            \/ CleanStart \/ CleanEnd \/ CleanReadFail \/ ReadsResume \/ UNCHANGED vars
  BY <1>14 DEF RunTimeoutCancel, RunTimeoutIgnored, RunRead, RunHeartbeat, CleanStart,
     CleanEnd, CleanReadFail, ReadsResume, ReadGone, vars
<1> QED
  BY <1>1, <1>3, <1>4, <1>5, <1>6, <1>7, <1>8, <1>9, <1>10, <1>11, <1>12, <1>13, <1>14
     DEF Next, Worker, EventStep, Cleanup, Pass

(* Where every client keeps to one transport, ClientSessions implements      *)
(* ClientLifecycle: a client is disposed once, and only then freed, once,    *)
(* by whichever thread; its DELETE is answered at most once, as it is freed. *)
THEOREM LifeRefined == OneRoute => (Spec => ClientLife)
<1> SUFFICES ASSUME OneRoute PROVE Spec => ClientLife
  OBVIOUS
<1>1. Init => Life!Init
  BY DEF Init, Life!Init
<1>2. TypeOK /\ SessionInv /\ [Next]_vars => SessionInv'
  BY OwnerNext
<1>3. TypeOK /\ SessionInv /\ DisposalInv /\ [Next]_vars
         => [Life!Next]_<<proxy, disposed, request>>
  BY LifeStep DEF proxyVars
<1> QED
  BY <1>1, <1>2, <1>3, OwnerInit, TypeCorrect, DisposalInvariant, PTL
     DEF Spec, ClientLife, Life!Spec

-----------------------------------------------------------------------------
(* Nobody is forgotten. *)

(* What ClientHasOwner says of one client. *)
Owned(k, g) ==
    \/ present[k] /\ gen[k] = g
    \/ \E w \in Workers : pc[w] = "notify" /\ at[w] = k /\ atGen[w] = g

(* Steps that leave the table and the clients alone, and every thread that  *)
(* is about to run on_session_closed.                                       *)
LEMMA OwnedFrame ==
    ASSUME ClientHasOwner, UNCHANGED <<gen, present, proxy>>,
           \A w \in Workers : pc[w] = "notify" =>
              pc'[w] = "notify" /\ at'[w] = at[w] /\ atGen'[w] = atGen[w]
    PROVE  ClientHasOwner'
<1> SUFFICES ASSUME NEW k \in Keys, NEW g \in Gens, proxy[k][g] = "live"
             PROVE  Owned(k, g)'
  BY DEF ClientHasOwner, Owned
<1>1. Owned(k, g)
  BY DEF ClientHasOwner, Owned
<1> QED
  BY <1>1 DEF Owned

(* on_session_closed settles the client it runs for; the other ones keep    *)
(* their owners.                                                            *)
LEMMA OwnedClosed ==
    ASSUME TypeOK, ClientHasOwner, NEW k \in Keys, NEW g \in Gens, NEW ok,
           OnSessionClosed(<<k, g>>, ok),
           \A j \in Keys, h \in Gens : (j # k \/ h # g) /\ Owned(j, h) => Owned(j, h)'
    PROVE  ClientHasOwner'
<1>1. PICK v \in {"leaked", "freed"} : proxy' = [proxy EXCEPT ![k][g] = v]
  BY DEF OnSessionClosed
<1> SUFFICES ASSUME NEW j \in Keys, NEW h \in Gens, proxy'[j][h] = "live"
             PROVE  Owned(j, h)'
  BY DEF ClientHasOwner, Owned
<1>2. (j # k \/ h # g) /\ proxy[j][h] = "live"
  BY <1>1 DEF TypeOK, ClientType
<1>3. Owned(j, h)
  BY <1>2 DEF ClientHasOwner, Owned
<1> QED
  BY <1>2, <1>3

LEMMA OwnedFinalized ==
    ASSUME TypeOK, SessionInv, ClientHasOwner, NEW k \in Keys, SessionFinalized(k),
           present[k], UNCHANGED <<gen, threadVars>>
    PROVE  ClientHasOwner'
<1>1. CASE ~timedout[k]
  BY <1>1, OwnedFrame DEF SessionFinalized, proxyVars, threadVars
<1>2. CASE timedout[k]
  <2>1. present' = [present EXCEPT ![k] = FALSE]
    BY <1>2 DEF SessionFinalized
  <2>2. PICK ok \in SendOutcomes : OnSessionClosed(<<k, gen[k]>>, ok)
    BY <1>2 DEF SessionFinalized, Client
  <2>3. gen[k] \in Gens
    BY DEF SessionInv
  <2>4. \A j \in Keys : j # k => present'[j] = present[j]
    BY <2>1 DEF TypeOK, RecordType
  <2>5. \A j \in Keys, h \in Gens : (j # k \/ h # gen[k]) /\ Owned(j, h) => Owned(j, h)'
    BY <2>4 DEF Owned, threadVars
  <2> QED
    BY <2>2, <2>3, <2>5, OwnedClosed
<1> QED
  BY <1>1, <1>2

LEMMA OwnedFinalizeTimer ==
    ASSUME TypeOK, SessionInv, ClientHasOwner, NEW k \in Keys, FinalizeTimer(k),
           present[k], UNCHANGED <<gen, threadVars>>
    PROVE  ClientHasOwner'
<1>1. CASE SessionFinalized(k)
  BY <1>1, OwnedFinalized
<1>2. CASE UNCHANGED <<present, proxyVars>>
  BY <1>2, OwnedFrame DEF proxyVars, threadVars
<1> QED
  BY <1>1, <1>2 DEF FinalizeTimer

(* A thread that is not about to run on_session_closed goes where it likes. *)
LEMMA OwnedThread ==
    ASSUME TypeOK, ClientHasOwner, UNCHANGED <<gen, present, proxy>>,
           NEW t \in Threads, pc[t] # "notify", NEW s, NEW k, NEW g,
           pc' = pc \/ pc' = [pc EXCEPT ![t] = s],
           at' = at \/ at' = [at EXCEPT ![t] = k],
           atGen' = atGen \/ atGen' = [atGen EXCEPT ![t] = g]
    PROVE  ClientHasOwner'
<1>1. \A w \in Workers : pc[w] = "notify" =>
         pc'[w] = "notify" /\ at'[w] = at[w] /\ atGen'[w] = atGen[w]
  BY DEF TypeOK, ThreadType, Threads
<1> QED
  BY <1>1, OwnedFrame

LEMMA OwnedNext ==
    ASSUME TypeOK, SessionInv, ClientHasOwner, [Next]_vars
    PROVE  ClientHasOwner'
<1>a. Workers \subseteq Threads /\ EventThread \in Threads /\ EventThread \notin Workers
  BY SessionsAssumption DEF Threads
<1>1. CASE UNCHANGED <<gen, present, proxy, threadVars>>
  BY <1>1, OwnedFrame DEF threadVars
<1>2. ASSUME NEW w \in Workers, NEW k \in Keys, OpenNew(w, k) PROVE ClientHasOwner'
  <2>1. /\ ~present[k] /\ UNCHANGED threadVars
        /\ gen' = [gen EXCEPT ![k] = gen[k] + 1]
        /\ present' = [present EXCEPT ![k] = TRUE]
        /\ proxy' = [proxy EXCEPT ![k][gen[k] + 1] = "live"]
    BY <1>2 DEF OpenNew
  <2> SUFFICES ASSUME NEW j \in Keys, NEW h \in Gens, proxy'[j][h] = "live"
               PROVE  Owned(j, h)'
    BY DEF ClientHasOwner, Owned
  <2>2. CASE j = k /\ h = gen[k] + 1
    BY <2>1, <2>2 DEF Owned, TypeOK, RecordType
  <2>3. CASE j # k \/ h # gen[k] + 1
    <3>1. proxy[j][h] = "live"
      BY <2>1, <2>3 DEF TypeOK, ClientType
    <3>2. Owned(j, h)
      BY <3>1 DEF ClientHasOwner, Owned
    <3>3. j # k => present'[j] = present[j] /\ gen'[j] = gen[j]
      BY <2>1 DEF TypeOK, RecordType
    <3> QED
      BY <2>1, <3>2, <3>3 DEF Owned, threadVars
  <2> QED
    BY <2>2, <2>3
<1>3. ASSUME NEW t \in Threads, NEW k, NEW r, WaitForRead(t, k, r), pc[t] = "idle",
             UNCHANGED <<gen, present, proxy>>
      PROVE  ClientHasOwner'
  BY <1>3, OwnedThread DEF WaitForRead
<1>4. ASSUME NEW w \in Workers, NEW k \in Keys, OpenReset(w, k) PROVE ClientHasOwner'
  <2>1. UNCHANGED <<gen, present, proxy>> /\ pc[w] = "idle"
    BY <1>4 DEF OpenReset, proxyVars
  <2>2. UNCHANGED threadVars \/ \E r : WaitForRead(w, k, r)
    BY <1>4 DEF OpenReset
  <2> QED
    BY <1>a, <1>1, <1>3, <2>1, <2>2
<1>5. ASSUME NEW w \in Workers, NEW k \in Keys,
             ReceiveOther(w, k) \/ ReceiveRead(w, k) \/ ReceiveAck(w, k)
             \/ ReceiveDeleteObject(w, k)
      PROVE  ClientHasOwner'
  <2>1. UNCHANGED <<gen, present, proxy>> /\ pc[w] = "idle"
    BY <1>5 DEF ReceiveOther, ReceiveRead, ReceiveAck, ReceiveDeleteObject, Receive,
       recVars, proxyVars
  <2>2. UNCHANGED threadVars \/ \E r : WaitForRead(w, k, r)
    BY <1>5 DEF ReceiveOther, ReceiveRead, ReceiveAck, ReceiveDeleteObject
  <2> QED
    BY <1>a, <1>1, <1>3, <2>1, <2>2
<1>6. ASSUME NEW w \in Workers, NEW k \in Keys, ReceiveDelete(w, k) PROVE ClientHasOwner'
  <2>1. /\ UNCHANGED <<gen, present, proxy>> /\ pc[w] = "idle"
        /\ pc' = pc \/ \E s : pc' = [pc EXCEPT ![w] = s]
        /\ at' = [at EXCEPT ![w] = k] /\ atGen' = [atGen EXCEPT ![w] = gen[k]]
    BY <1>6 DEF ReceiveDelete, Receive, WaitForRead, recVars
  <2> QED
    BY <1>a, <2>1, OwnedThread
<1>7. ASSUME NEW w \in Workers, Close(w) PROVE ClientHasOwner'
  <2>1. /\ UNCHANGED <<gen, present, proxy, at>> /\ pc[w] # "notify"
        /\ \E s : pc' = [pc EXCEPT ![w] = s]
        /\ atGen' = atGen \/ atGen' = [atGen EXCEPT ![w] = gen[at[w]]]
    BY <1>7 DEF Close, proxyVars
  <2> QED
    BY <1>a, <2>1, OwnedThread
<1>8. ASSUME NEW w \in Workers, CloseResume(w) PROVE ClientHasOwner'
  <2>1. /\ UNCHANGED <<gen, proxy, at, atGen>> /\ pc[w] = "closeWait"
        /\ present' = [present EXCEPT ![at[w]] = FALSE]
        /\ pc' = [pc EXCEPT ![w] = "notify"]
    BY <1>8 DEF CloseResume, proxyVars
  <2>2. gen[at[w]] = atGen[w]
    BY <2>1 DEF SessionInv, CloserOwnsSession
  <2>3. pc'[w] = "notify" /\ \A v \in Workers \ {w} : pc'[v] = pc[v]
    BY <1>a, <2>1 DEF TypeOK, ThreadType
  <2>4. \A j \in Keys : j # at[w] => present'[j] = present[j]
    BY <2>1 DEF TypeOK, RecordType
  <2> SUFFICES ASSUME NEW j \in Keys, NEW h \in Gens, proxy'[j][h] = "live"
               PROVE  Owned(j, h)'
    BY DEF ClientHasOwner, Owned
  <2>5. Owned(j, h)
    BY <2>1 DEF ClientHasOwner, Owned
  <2>6. CASE j = at[w] /\ h = atGen[w]
    BY <2>1, <2>3, <2>6 DEF Owned
  <2>7. CASE j # at[w] \/ h # atGen[w]
    BY <2>1, <2>2, <2>3, <2>4, <2>5, <2>7 DEF Owned
  <2> QED
    BY <2>6, <2>7
<1>9. ASSUME NEW w \in Workers, CloseNotify(w) PROVE ClientHasOwner'
  <2>1. /\ UNCHANGED <<gen, present, at, atGen>> /\ pc[w] = "notify"
        /\ pc' = [pc EXCEPT ![w] = "idle"] /\ at[w] \in Keys
    BY <1>a, <1>9 DEF CloseNotify, recVars, TypeOK, ThreadType
  <2>2. PICK ok \in SendOutcomes : OnSessionClosed(<<at[w], atGen[w]>>, ok)
    BY <1>9 DEF CloseNotify
  <2>3. \A v \in Workers \ {w} : pc'[v] = pc[v]
    BY <1>a, <2>1 DEF TypeOK, ThreadType
  <2>4. atGen[w] \in Gens
    BY <2>1 DEF SessionInv
  <2>5. \A j \in Keys, h \in Gens :
           (j # at[w] \/ h # atGen[w]) /\ Owned(j, h) => Owned(j, h)'
    BY <2>1, <2>3 DEF Owned
  <2> QED
    BY <2>1, <2>2, <2>4, <2>5, OwnedClosed
<1>10. ASSUME NEW t \in Threads, ReadCancelled(t) PROVE ClientHasOwner'
  <2>1. /\ UNCHANGED <<gen, present, proxy, at, atGen>> /\ pc[t] # "notify"
        /\ \E s : pc' = [pc EXCEPT ![t] = s]
    BY <1>10 DEF ReadCancelled, proxyVars
  <2> QED
    BY <2>1, OwnedThread
<1>11. ASSUME NEW k \in Keys,
              DataArrives(k) \/ PopRead(k) \/ CleanSkip(k) \/ CleanRead(k)
              \/ CleanFail(k) \/ ReadsCancel(k) \/ CleanResources(k)
       PROVE  ClientHasOwner'
  BY <1>1, <1>11 DEF DataArrives, PopRead, TakeEvent, CleanSkip, CleanRead, CleanFail,
     ReadsCancel, CleanResources, recVars, proxyVars
<1>12. ASSUME NEW k \in Keys, NEW g \in Gens, PopTimeout(k, g) \/ PopHeartbeat(k, g)
       PROVE  ClientHasOwner'
  BY <1>1, <1>12 DEF PopTimeout, PopHeartbeat, TakeEvent, recVars, proxyVars
<1>13. CASE RunTimeoutCancel \/ RunTimeoutIgnored \/ RunRead \/ RunHeartbeat
            \/ CleanStart \/ CleanEnd \/ CleanReadFail \/ ReadsResume \/ UNCHANGED vars
  BY <1>1, <1>13 DEF RunTimeoutCancel, RunTimeoutIgnored, RunRead, RunHeartbeat,
     CleanStart, CleanEnd, CleanReadFail, ReadsResume, ReadGone, vars, recVars, proxyVars
<1>14. CASE RunTimeout
  <2>1. UNCHANGED <<gen, present, proxy>> /\ pc[EventThread] = "idle"
    BY <1>14 DEF RunTimeout, Handles
  <2>2. UNCHANGED threadVars \/ \E k : WaitForRead(EventThread, k, "timeout")
    BY <1>14 DEF RunTimeout
  <2> QED
    BY <1>a, <1>1, <1>3, <2>1, <2>2
<1>15. ASSUME NEW k \in Keys, CleanSession(k) PROVE ClientHasOwner'
  BY <1>15, OwnedFinalizeTimer DEF CleanSession
<1>16. CASE CleanReadResume
  BY <1>16, OwnedFinalizeTimer DEF CleanReadResume, SessionInv, TypeOK, CleanerType
<1>17. CASE CleanTimerResume
  <2>1. ckey \in Keys /\ UNCHANGED <<gen, threadVars>>
    BY <1>17 DEF CleanTimerResume, TypeOK, CleanerType
  <2>2. CASE present[ckey] /\ SessionFinalized(ckey)
    BY <2>1, <2>2, OwnedFinalized
  <2>3. CASE UNCHANGED <<present, proxyVars>>
    BY <1>1, <2>1, <2>3 DEF proxyVars
  <2> QED
    BY <1>17, <2>2, <2>3 DEF CleanTimerResume
<1> QED
  BY <1>2, <1>4, <1>5, <1>6, <1>7, <1>8, <1>9, <1>10, <1>11, <1>12, <1>13, <1>14, <1>15,
     <1>16, <1>17
     DEF Next, Worker, EventStep, Cleanup, Pass

(* No client object is forgotten, whichever threads end its session, in any *)
(* number of sessions: it has a record, or a thread about to free it.       *)
THEOREM NoClientForgotten == Spec => []ClientHasOwner
<1>1. Init => ClientHasOwner
  BY DEF Init, ClientHasOwner
<1>2. TypeOK /\ SessionInv /\ [Next]_vars => SessionInv'
  BY OwnerNext
<1>3. TypeOK /\ SessionInv /\ ClientHasOwner /\ [Next]_vars => ClientHasOwner'
  BY OwnedNext
<1> QED
  BY <1>1, <1>2, <1>3, OwnerInit, TypeCorrect, PTL DEF Spec
=============================================================================
