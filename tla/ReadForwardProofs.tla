------------------------- MODULE ReadForwardProofs -------------------------
(***************************************************************************)
(* Proofs about ReadForward, for every set of sessions, every finite set   *)
(* of streams, every set of limits and faults, every start point and every *)
(* bound.                                                                  *)
(***************************************************************************)
EXTENDS ReadForward, FiniteSetTheorems, WellFoundedInduction, TLAPS

(* A set of naturals that is not empty has a least element. *)
LEMMA LeastExists ==
    ASSUME NEW T \in SUBSET Nat, T # {}
    PROVE  \E m \in T : \A n \in T : m <= n
<1>1. PICK m \in T : \A n \in T : ~ (<<n, m>> \in OpToRel(<, Nat))
  BY NatLessThanWellFounded, WFMin
<1>2. ASSUME NEW n \in T PROVE m <= n
  <2>1. m \in Nat /\ n \in Nat
    OBVIOUS
  <2>2. ~ (n < m)
    BY <1>1, <2>1, Zenon DEF OpToRel
  <2> QED
    BY <2>1, <2>2
<1> QED
  BY <1>2

(* A bounded set of naturals that is not empty has a greatest element. *)
LEMMA GreatestExists ==
    ASSUME NEW k \in Nat, NEW T \in SUBSET (0..k), T # {}
    PROVE  \E m \in T : \A n \in T : m >= n
<1> DEFINE D == {k - n : n \in T}
<1>1. D \in SUBSET Nat /\ D # {}
  <2>1. \A n \in T : k - n \in Nat
    OBVIOUS
  <2> QED
    BY <2>1
<1>2. PICK d \in D : \A e \in D : d <= e
  <2> HIDE DEF D
  <2> QED
    BY <1>1, LeastExists
<1>3. PICK m \in T : d = k - m
  OBVIOUS
<1>4. ASSUME NEW n \in T PROVE m >= n
  <2>1. k - n \in D /\ n \in 0..k /\ m \in 0..k
    OBVIOUS
  <2>2. k - m <= k - n
    BY <1>2, <1>3, <2>1
  <2> HIDE DEF D
  <2> QED
    BY <2>1, <2>2
<1> QED
  BY <1>4

(* Max returns the greatest element of a set of samples. *)
LEMMA MaxSample ==
    ASSUME NEW T \in SUBSET Sn, T # {}
    PROVE  Max(T) \in T /\ \A n \in T : n <= Max(T)
<1>1. MaxSn \in Nat /\ T \in SUBSET (0..MaxSn)
  BY ReadAssumption DEF Sn
<1>2. \E m \in T : \A n \in T : m >= n
  BY <1>1, GreatestExists
<1> QED
  BY <1>1, <1>2 DEF Max

(* DismissSn returns the least of the samples the listed requests have passed. *)
LEMMA LeastPassed ==
    ASSUME NEW passed \in [Sessions -> 0..MaxSn], requests \subseteq Sessions,
           requests # {}
    PROVE  /\ DismissSn(passed) \in 0..MaxSn
           /\ \A r \in requests : DismissSn(passed) <= passed[r]
<1> DEFINE T == {passed[r] : r \in requests}
<1>1. T \in SUBSET Nat /\ T # {} /\ T \subseteq 0..MaxSn
  BY ReadAssumption
<1>2. PICK m \in T : \A n \in T : m <= n
  <2> HIDE DEF T
  <2> QED
    BY <1>1, LeastExists
<1>3. \A r \in requests : m <= passed[r]
  BY <1>2
<1>4. DismissSn(passed) \in T /\ \A r \in requests : DismissSn(passed) <= passed[r]
  BY <1>2, <1>3 DEF DismissSn
<1> QED
  BY <1>1, <1>4

(* Sets of samples and of forwards are finite: they can be counted. *)
LEMMA CountSamples ==
    ASSUME NEW T \in SUBSET Sn
    PROVE  Cardinality(T) \in Nat
<1>1. IsFiniteSet(Sn)
  BY ReadAssumption, FS_Interval DEF Sn
<1> QED
  BY <1>1, FS_Subset, FS_CardinalityType

LEMMA CountForwards ==
    ASSUME NEW T \in SUBSET (Sn \X Streams)
    PROVE  Cardinality(T) \in Nat
<1>1. IsFiniteSet(Sn)
  BY ReadAssumption, FS_Interval DEF Sn
<1>2. IsFiniteSet(Sn \X Streams)
  BY <1>1, ReadAssumption, FS_Product
<1> QED
  BY <1>2, FS_Subset, FS_CardinalityType

-----------------------------------------------------------------------------
(* Type correctness: the parts the actions are made of, then the actions. *)

LEMMA DismissType ==
    ASSUME TypeOK, NEW s \in Sessions, NEW out \in SUBSET forwards[s],
           Dismiss(s, out)
    PROVE  /\ forwards' \in [Sessions -> SUBSET (Sn \X Streams)]
           /\ samples' \in [Sessions -> SUBSET Sn]
           /\ rcvd' \in [Sessions -> Nat]
           /\ complete' \in [Sessions -> BOOLEAN]
           /\ returned' \in [Sessions -> 0..MaxSn]
<1>1. out \in SUBSET (Sn \X Streams)
  BY DEF TypeOK, ForwardType
<1>2. Cardinality(out) \in Nat
  BY <1>1, CountForwards
<1>3. rcvd' \in [Sessions -> Nat]
  BY <1>2 DEF Dismiss, TypeOK, RequestType
<1>4. complete' \in [Sessions -> BOOLEAN]
  BY Zenon DEF Dismiss, TypeOK, RequestType
<1>5. returned' \in [Sessions -> 0..MaxSn]
  BY DEF Dismiss, TypeOK, RequestType
<1> QED
  BY <1>3, <1>4, <1>5 DEF Dismiss, TypeOK, RequestType, ForwardType

LEMMA CancelType ==
    ASSUME TypeOK, NEW s \in Sessions, NEW who \in {"read", "drop", "cleanup"},
           Cancel(s, who)
    PROVE  /\ req' \in [Sessions -> {"none", "live", "cancelled", "freed"}]
           /\ event' \in [Sessions -> {"none", "data", "cancel"}]
           /\ waiter' \in [Sessions -> {"none", "read", "drop", "cleanup"}]
           /\ requests' \subseteq Sessions
           /\ listener' \in BOOLEAN
  BY DEF Cancel, Unlisted, TypeOK, RequestType, ReaderType, ThreadType

LEMMA NewRequestType ==
    ASSUME TypeOK, NEW s \in Sessions, limit'[s] \in Nat, NewRequest(s)
    PROVE  /\ req' \in [Sessions -> {"none", "live", "cancelled", "freed"}]
           /\ event' \in [Sessions -> {"none", "data", "cancel"}]
           /\ waiter' \in [Sessions -> {"none", "read", "drop", "cleanup"}]
           /\ requests' \subseteq Sessions
           /\ listener' \in BOOLEAN
           /\ max' \in [Sessions -> Nat]
           /\ last' \in [Sessions -> 0..MaxSn]
           /\ base' \in [Sessions -> 0..MaxSn]
           /\ rcvd' \in [Sessions -> Nat]
           /\ elapsed' \in [Sessions -> BOOLEAN]
           /\ complete' \in [Sessions -> BOOLEAN]
           /\ samples' \in [Sessions -> SUBSET Sn]
           /\ forward' \in [Sessions -> BOOLEAN]
<1>1. StartSn(s) \in 0..MaxSn
  BY ReadAssumption DEF StartSn, TypeOK, RequestType
<1>2. /\ max' \in [Sessions -> Nat]
      /\ last' \in [Sessions -> 0..MaxSn]
      /\ base' \in [Sessions -> 0..MaxSn]
      /\ rcvd' \in [Sessions -> Nat]
      /\ samples' \in [Sessions -> SUBSET Sn]
  BY <1>1 DEF NewRequest, OnReadCreated, TypeOK, RequestType, ReaderType, ThreadType
<1>3. /\ elapsed' \in [Sessions -> BOOLEAN]
      /\ complete' \in [Sessions -> BOOLEAN]
      /\ forward' \in [Sessions -> BOOLEAN]
  BY DEF NewRequest, OnReadCreated, TypeOK, RequestType, ForwardType
<1>4. CASE Cancel(s, "drop")
  BY <1>2, <1>3, <1>4, CancelType
<1>5. CASE ~Cancel(s, "drop")
  BY <1>2, <1>3, <1>5 DEF NewRequest, OnReadCreated, Listed, TypeOK, RequestType, ReaderType,
     ThreadType
<1> QED
  BY <1>4, <1>5

(* The samples read_from_readerEA may end at are samples of the reader. *)
LEMMA ForwardedType ==
    ASSUME TypeOK, NEW s \in Sessions,
           NEW m \in {last[s]} \cup Fresh(s), Forwarded(s, m)
    PROVE  /\ last' \in [Sessions -> 0..MaxSn]
           /\ forwarded' \in [Sessions -> 0..MaxSn]
           /\ returned' \in [Sessions -> 0..MaxSn]
           /\ samples' \in [Sessions -> SUBSET Sn]
           /\ forwards' \in [Sessions -> SUBSET (Sn \X Streams)]
           /\ rcvd' \in [Sessions -> Nat]
           /\ delivered' \in [Sessions -> Seq(SUBSET Sn)]
           /\ cache' \subseteq Sn
           /\ dismissed' \in 0..MaxSn
<1> DEFINE out == {n \in Fresh(s) : n <= m}
<1> DEFINE loan == Retained(s)
<1>1. m \in 0..MaxSn /\ out \in SUBSET Sn
  <2>1. Fresh(s) \subseteq Sn
    BY DEF TypeOK, ReaderType, Fresh
  <2>2. \A n \in Sn : n \in 0..MaxSn
    BY ReadAssumption DEF Sn
  <2>3. last[s] \in 0..MaxSn
    BY DEF TypeOK, RequestType
  <2> QED
    BY <2>1, <2>2, <2>3
<1>2. Cardinality(out) \in Nat
  <2> HIDE DEF out
  <2> QED
    BY <1>1, CountSamples
<1>3. last' \in [Sessions -> 0..MaxSn] /\ forwarded' \in [Sessions -> 0..MaxSn]
  BY <1>1 DEF Forwarded, TypeOK, RequestType
<1>4. returned' \in [Sessions -> 0..MaxSn]
  BY <1>1 DEF Forwarded, TypeOK, RequestType
<1>5. samples' = [samples EXCEPT ![s] = IF loan THEN @ \cup out ELSE @]
  BY DEF Forwarded
<1>6. forwards' = [forwards EXCEPT ![s] = IF loan THEN @ \cup (out \X {stream[s]})
                                                   ELSE @]
  BY DEF Forwarded
<1>7. rcvd' = [rcvd EXCEPT ![s] = IF loan THEN @ ELSE @ + Cardinality(out)]
  BY DEF Forwarded
<1>8. delivered' = [delivered EXCEPT ![s] =
                       IF forward[s] /\ out # {} THEN Append(@, out) ELSE @]
  BY DEF Forwarded
<1>9. cache' \subseteq Sn /\ dismissed' \in 0..MaxSn
  <2>1. CASE UNCHANGED <<cache, dismissed>>
    BY <2>1 DEF TypeOK, ReaderType
  <2>2. CASE ~UNCHANGED <<cache, dismissed>>
    <3> DEFINE taken == {n \in cache : n <= DismissSn(last')}
    <3>1. taken # {} /\ cache' = cache \ taken /\ dismissed' = Max(taken)
      BY <2>2 DEF Forwarded, RequestsUpdated
    <3>2. taken \in SUBSET Sn
      BY DEF TypeOK, ReaderType
    <3> HIDE DEF taken
    <3>3. Max(taken) \in Sn
      BY <3>1, <3>2, MaxSample
    <3>4. Max(taken) \in 0..MaxSn
      BY <3>3, ReadAssumption DEF Sn
    <3> QED
      BY <3>1, <3>4 DEF TypeOK, ReaderType
  <2> QED
    BY <2>1, <2>2
<1> HIDE DEF out
<1>10. loan => stream[s] \in Streams
  BY ReadAssumption DEF Retained
<1>11. forwards' \in [Sessions -> SUBSET (Sn \X Streams)]
  BY <1>1, <1>6, <1>10 DEF TypeOK, ForwardType
<1>12. delivered' \in [Sessions -> Seq(SUBSET Sn)]
  BY <1>1, <1>8 DEF TypeOK, ThreadType
<1>13. samples' \in [Sessions -> SUBSET Sn] /\ rcvd' \in [Sessions -> Nat]
  BY <1>1, <1>2, <1>5, <1>7 DEF TypeOK, RequestType
<1> QED
  BY <1>3, <1>4, <1>9, <1>11, <1>12, <1>13

(* No step of any thread leaves the types. *)
LEMMA TypeNext == TypeOK /\ [Next]_vars => TypeOK'
<1> SUFFICES ASSUME TypeOK, [Next]_vars PROVE TypeOK'
  OBVIOUS
<1> USE DEF TypeOK
<1>1. CASE DataArrives
  <2>1. sn' \in 0..MaxSn /\ cache' \subseteq Sn
    BY <1>1, ReadAssumption DEF DataArrives, ReaderType, Sn
  <2>2. event' \in [Sessions -> {"none", "data", "cancel"}]
    BY <1>1 DEF DataArrives, RequestType
  <2> QED
    BY <1>1, <2>1, <2>2 DEF DataArrives, ReaderType, RequestType, ForwardType,
       ThreadType, listVars, countVars, pointVars, stateVars, passVars
<1>2. CASE CleanStart
  BY <1>2 DEF CleanStart, ReaderType, RequestType, ForwardType, ThreadType,
     readerVars, listVars, countVars, pointVars, stateVars
<1>3. ASSUME NEW s \in Sessions, TimePasses(s) PROVE TypeOK'
  <2>1. elapsed' \in [Sessions -> BOOLEAN]
    BY <1>3 DEF TimePasses, RequestType
  <2> QED
    BY <1>3, <2>1 DEF TimePasses, ReaderType, RequestType, ForwardType, ThreadType,
       readerVars, listVars, pointVars, stateVars, passVars
<1>4. ASSUME NEW s \in Sessions, NEW st \in Streams,
             NEW m \in Limits \cup {limit[s]}, ReceiveRead(s, st, m)
      PROVE  TypeOK'
  <2> DEFINE out == {f \in forwards[s] : st \in Reliable /\ f[2] = st}
  <2>1. /\ reads' \in [Sessions -> Nat]
        /\ stream' \in [Sessions -> Streams \cup {Unknown}]
        /\ limit' \in [Sessions -> Nat]
    BY <1>4, ReadAssumption DEF ReceiveRead, ThreadType, ForwardType
  <2>2. /\ UNCHANGED <<readerVars, forwarded, passVars, delivered>>
    BY <1>4 DEF ReceiveRead
  <2>3. CASE req[s] = "none"
    <3>1. NewRequest(s) /\ UNCHANGED <<forwards, returned>>
      BY <1>4, <2>3 DEF ReceiveRead
    <3> QED
      BY <2>1, <2>2, <3>1, NewRequestType DEF ReaderType, RequestType, ForwardType,
         ThreadType, readerVars, passVars
  <2>4. CASE req[s] # "none"
    <3>1. Dismiss(s, out) /\ forward' = [forward EXCEPT ![s] = FALSE]
      BY <1>4, <2>4 DEF ReceiveRead
    <3>2. UNCHANGED <<max, last, base, elapsed>>
      BY <1>4, <2>4 DEF ReceiveRead
    <3>3. \/ Cancel(s, "read")
          \/ req' = [req EXCEPT ![s] = "freed"] /\ UNCHANGED <<event, waiter, listVars>>
      BY <1>4, <2>4 DEF ReceiveRead
    <3>4. forward' \in [Sessions -> BOOLEAN]
      BY <3>1 DEF ForwardType
    <3>5. /\ forwards' \in [Sessions -> SUBSET (Sn \X Streams)]
          /\ samples' \in [Sessions -> SUBSET Sn]
          /\ rcvd' \in [Sessions -> Nat]
          /\ complete' \in [Sessions -> BOOLEAN]
          /\ returned' \in [Sessions -> 0..MaxSn]
      <4>1. out \in SUBSET forwards[s]
        OBVIOUS
      <4> HIDE DEF out
      <4> QED
        BY <4>1, <3>1, DismissType
    <3>6. /\ req' \in [Sessions -> {"none", "live", "cancelled", "freed"}]
          /\ event' \in [Sessions -> {"none", "data", "cancel"}]
          /\ waiter' \in [Sessions -> {"none", "read", "drop", "cleanup"}]
          /\ requests' \subseteq Sessions
          /\ listener' \in BOOLEAN
      <4>1. CASE Cancel(s, "read")
        BY <4>1, CancelType
      <4>2. CASE ~Cancel(s, "read")
        BY <3>3, <4>2 DEF listVars, ReaderType, RequestType, ThreadType
      <4> QED
        BY <4>1, <4>2
    <3> QED
      BY <2>1, <2>2, <3>2, <3>4, <3>5, <3>6 DEF ReaderType, RequestType,
         ForwardType, ThreadType, readerVars, passVars
  <2> QED
    BY <2>3, <2>4
<1>5. ASSUME NEW s \in Sessions, ReceiveBadRead(s) PROVE TypeOK'
  <2>1. reads' \in [Sessions -> Nat] /\ forward' \in [Sessions -> BOOLEAN]
    BY <1>5 DEF ReceiveBadRead, ForwardType, ThreadType
  <2>2. stream' \in [Sessions -> Streams \cup {Unknown}]
    BY <1>5 DEF ReceiveBadRead, ForwardType
  <2> QED
    BY <1>5, <2>1, <2>2 DEF ReceiveBadRead, ReaderType, RequestType, ForwardType,
       ThreadType, readerVars, listVars, countVars, pointVars, passVars
<1>6. ASSUME NEW s \in Sessions, NEW f \in forwards[s], Acknowledged(s, f)
      PROVE  TypeOK'
  <2>1. /\ forwards' \in [Sessions -> SUBSET (Sn \X Streams)]
        /\ samples' \in [Sessions -> SUBSET Sn]
        /\ rcvd' \in [Sessions -> Nat]
        /\ complete' \in [Sessions -> BOOLEAN]
        /\ returned' \in [Sessions -> 0..MaxSn]
    BY <1>6, DismissType DEF Acknowledged
  <2>2. CASE Cancel(s, "drop")
    BY <1>6, <2>1, <2>2, CancelType DEF Acknowledged, ReaderType, RequestType,
       ForwardType, ThreadType, readerVars, stateVars, passVars
  <2>3. CASE ~Cancel(s, "drop")
    <3>1. UNCHANGED <<req, event, waiter, listVars>>
      BY <1>6, <2>3 DEF Acknowledged
    <3> QED
      BY <1>6, <2>1, <3>1 DEF Acknowledged, ReaderType, RequestType,
         ForwardType, ThreadType, readerVars, listVars, stateVars, passVars
  <2> QED
    BY <2>2, <2>3
<1>7. ASSUME NEW s \in Sessions, Drop(s) PROVE TypeOK'
  <2>1. /\ forwards' \in [Sessions -> SUBSET (Sn \X Streams)]
        /\ samples' \in [Sessions -> SUBSET Sn]
        /\ rcvd' \in [Sessions -> Nat]
        /\ complete' \in [Sessions -> BOOLEAN]
        /\ returned' \in [Sessions -> 0..MaxSn]
    BY <1>7, DismissType DEF Drop
  <2> QED
    BY <1>7, <2>1, CancelType DEF Drop, ReaderType, RequestType, ForwardType,
       ThreadType, readerVars, stateVars, passVars
<1>8. ASSUME NEW s \in Sessions, Cancelled(s) PROVE TypeOK'
  <2>1. CASE waiter[s] = "read"
    <3>1. NewRequest(s) /\ UNCHANGED limit
      BY <1>8, <2>1 DEF Cancelled
    <3>2. limit'[s] \in Nat
      BY <3>1 DEF ForwardType
    <3> QED
      BY <1>8, <3>1, <3>2, NewRequestType DEF Cancelled, ReaderType, RequestType,
         ForwardType, ThreadType, readerVars, pointVars, passVars
  <2>2. CASE waiter[s] # "read"
    <3>1. /\ req' = [req EXCEPT ![s] = "none"]
          /\ waiter' = [waiter EXCEPT ![s] = "none"]
          /\ UNCHANGED <<listVars, last, max, countVars, event, forward, limit, base>>
      BY <1>8, <2>2 DEF Cancelled
    <3> QED
      BY <1>8, <3>1 DEF Cancelled, ReaderType, RequestType, ForwardType, ThreadType,
         readerVars, listVars, countVars, pointVars, passVars
  <2> QED
    BY <2>1, <2>2
<1>9. ASSUME NEW s \in Sessions, RunCancel(s) PROVE TypeOK'
  BY <1>9 DEF RunCancel, ReaderType, RequestType, ForwardType, ThreadType,
     readerVars, listVars, countVars, pointVars, stateVars, passVars
<1>10. ASSUME NEW s \in Sessions, RunComplete(s) PROVE TypeOK'
  <2>1. complete' \in [Sessions -> BOOLEAN]
    BY <1>10 DEF RunComplete, RequestType
  <2> QED
    BY <1>10, <2>1 DEF RunComplete, ReaderType, RequestType, ForwardType, ThreadType,
       readerVars, listVars, pointVars, stateVars
<1>11. ASSUME NEW s \in Sessions, RunAll(s) \/ RunAgain(s) \/ RunFail(s)
       PROVE  TypeOK'
  <2>1. PICK m \in {last[s]} \cup Fresh(s) : Forwarded(s, m)
    BY <1>11 DEF RunAll, RunAgain, RunFail
  <2>2. UNCHANGED <<sn, listVars, req, max, elapsed, stateVars, waiter, todo, reads,
                    base>>
    BY <1>11 DEF RunAll, RunAgain, RunFail, Reading
  <2>3. event' \in [Sessions -> {"none", "data", "cancel"}]
    BY <1>11 DEF RunAll, RunAgain, RunFail, RequestType
  <2>4. complete' \in [Sessions -> BOOLEAN]
    <3>1. CASE complete' = [complete EXCEPT ![s] = IsComplete(s, rcvd'[s])]
      BY <3>1, Zenon DEF RequestType, IsComplete
    <3>2. CASE UNCHANGED complete
      BY <3>2 DEF RequestType
    <3> QED
      BY <1>11, <3>1, <3>2 DEF RunAll, RunAgain, RunFail
  <2>5. cond' \in BOOLEAN
    BY <1>11, Zenon DEF RunAll, RunAgain, RunFail, ThreadType
  <2> QED
    BY <2>1, <2>2, <2>3, <2>4, <2>5, ForwardedType DEF ReaderType, RequestType,
       ForwardType, ThreadType, listVars, stateVars
<1>12. ASSUME NEW s \in Sessions, CleanSkip(s) \/ CleanFail(s) PROVE TypeOK'
  BY <1>12 DEF CleanSkip, CleanFail, ReaderType, RequestType, ForwardType,
     ThreadType, readerVars, listVars, countVars, pointVars, stateVars
<1>13. ASSUME NEW s \in Sessions, CleanRead(s) PROVE TypeOK'
  <2> DEFINE out == {f \in forwards[s] : stream[s] \in {f[2], Unknown}}
  <2>1. Dismiss(s, out) /\ out \in SUBSET forwards[s]
    BY <1>13 DEF CleanRead
  <2>2. Cancel(s, "cleanup") \/ UNCHANGED <<req, event, waiter, listVars>>
    BY <1>13 DEF CleanRead
  <2>3. /\ todo' = todo \ {s}
        /\ UNCHANGED <<readerVars, last, max, elapsed, forwarded, stateVars, cond,
                       reads, delivered, base>>
    BY <1>13 DEF CleanRead
  <2> HIDE DEF out
  <2>4. /\ forwards' \in [Sessions -> SUBSET (Sn \X Streams)]
        /\ samples' \in [Sessions -> SUBSET Sn]
        /\ rcvd' \in [Sessions -> Nat]
        /\ complete' \in [Sessions -> BOOLEAN]
        /\ returned' \in [Sessions -> 0..MaxSn]
    BY <2>1, DismissType
  <2>5. CASE Cancel(s, "cleanup")
    BY <2>3, <2>4, <2>5, CancelType DEF ReaderType, RequestType, ForwardType,
       ThreadType, readerVars, stateVars
  <2>6. CASE UNCHANGED <<req, event, waiter, listVars>>
    BY <2>3, <2>4, <2>6 DEF ReaderType, RequestType, ForwardType, ThreadType,
       readerVars, listVars, stateVars
  <2> QED
    BY <2>2, <2>5, <2>6
<1>14. CASE UNCHANGED vars
  BY <1>14 DEF vars, ReaderType, RequestType, ForwardType, ThreadType, readerVars,
     listVars, countVars, pointVars, stateVars, passVars
<1> QED
  BY <1>1, <1>2, <1>3, <1>4, <1>5, <1>6, <1>7, <1>8, <1>9, <1>10, <1>11, <1>12,
     <1>13, <1>14 DEF Next

(* Every reachable state is well typed: the point a request starts to read   *)
(* from, what it has passed and what requests_updated takes out of the cache *)
(* are numbers of samples the reader received, whatever the start point.     *)
THEOREM TypeCorrect == Spec => []TypeOK
<1>1. Init => TypeOK
  <2> SUFFICES ASSUME Init PROVE TypeOK
    OBVIOUS
  <2>1. 0 \in 0..MaxSn /\ 0 \in Nat
    BY ReadAssumption
  <2>2. ReaderType
    BY <2>1 DEF Init, ReaderType
  <2>3. RequestType
    BY <2>1 DEF Init, RequestType
  <2>4. ForwardType
    BY DEF Init, ForwardType
  <2>5. ThreadType
    <3>1. delivered \in [Sessions -> Seq(SUBSET Sn)]
      BY DEF Init
    <3> QED
      BY <2>1, <3>1 DEF Init, ThreadType
  <2> QED
    BY <2>2, <2>3, <2>4, <2>5 DEF TypeOK
<1>2. TypeOK /\ [Next]_vars => TypeOK'
  BY TypeNext
<1> QED
  BY <1>1, <1>2, PTL DEF Spec

-----------------------------------------------------------------------------
(* The shared cache.  Most steps leave the reader and what its requests have *)
(* passed alone, or take a request out of the list.                          *)

LEMMA CacheFrame ==
    ASSUME TypeOK, CacheInv, UNCHANGED <<readerVars, last, base>>,
           requests' \subseteq requests,
           \A s \in Sessions : req'[s] = "live" => req[s] = "live" /\ s \in requests'
    PROVE  CacheInv'
  BY DEF CacheInv, readerVars

(* A request that is cancelled is not live and not in the list. *)
LEMMA CancelFrame ==
    ASSUME TypeOK, CacheInv, UNCHANGED <<readerVars, last, base>>,
           NEW s \in Sessions, NEW who, Cancel(s, who)
    PROVE  CacheInv'
<1>1. \A r \in Sessions : req'[r] = "live" => req[r] = "live" /\ r # s
  BY DEF Cancel, TypeOK, RequestType
<1>2. requests' = requests \ {s}
  BY DEF Cancel, Unlisted
<1> QED
  BY <1>1, <1>2, CacheFrame DEF CacheInv

(* A new request finds in the cache what was not taken out before. *)
LEMMA NewRequestCache ==
    ASSUME TypeOK, CacheInv, UNCHANGED readerVars, NEW s \in Sessions, NewRequest(s)
    PROVE  CacheInv'
<1>1. \A r \in Sessions : r # s => last'[r] = last[r] /\ base'[r] = base[r]
  BY DEF NewRequest, OnReadCreated, TypeOK, RequestType, ThreadType
<1>2. base'[s] = dismissed
  BY DEF NewRequest, OnReadCreated, TypeOK, ThreadType
<1>3. requests' \subseteq requests \cup {s} /\ requests \ {s} \subseteq requests'
  BY DEF NewRequest, OnReadCreated, Listed, Cancel, Unlisted
<1>4. \A r \in Sessions : req'[r] = "live" => r \in requests'
  BY DEF NewRequest, OnReadCreated, Listed, Cancel, Unlisted, CacheInv, TypeOK, RequestType
<1>5. dismissed <= dismissed
  BY DEF TypeOK, ReaderType
<1> QED
  BY <1>1, <1>2, <1>3, <1>4, <1>5 DEF CacheInv, readerVars, TypeOK, ReaderType

(* read_from_readerEA moves its request forward; requests_updated takes out   *)
(* of the cache only what every request in the list has passed.              *)
LEMMA ForwardedCache ==
    ASSUME TypeOK, CacheInv, NEW s \in Sessions, req[s] = "live",
           NEW m \in {last[s]} \cup Fresh(s), Forwarded(s, m),
           UNCHANGED <<sn, requests, req, base>>
    PROVE  CacheInv'
<1>1. s \in requests /\ requests \subseteq Sessions
  BY DEF CacheInv, TypeOK, ReaderType
<1>2. last' = [last EXCEPT ![s] = m] /\ last' \in [Sessions -> 0..MaxSn]
  BY ForwardedType DEF Forwarded
<1>3. last[s] <= m
  BY ReadAssumption DEF TypeOK, RequestType, ReaderType, Fresh, Sn
<1>4. CASE UNCHANGED <<cache, dismissed>>
  <2>1. ASSUME NEW r \in requests PROVE dismissed <= last'[r] \/ dismissed <= base[r]
    <3>1. dismissed <= last[r] \/ dismissed <= base[r]
      BY DEF CacheInv
    <3>2. r = s => last'[r] = m
      BY <1>2 DEF TypeOK, RequestType
    <3>3. r # s => last'[r] = last[r]
      BY <1>1, <1>2 DEF TypeOK, RequestType
    <3>4. last[r] \in Nat /\ last'[r] \in Nat /\ dismissed \in Nat
      BY <1>1, <1>2, ReadAssumption DEF TypeOK, RequestType, ReaderType
    <3> QED
      BY <1>3, <3>1, <3>2, <3>3, <3>4
  <2> QED
    BY <1>4, <2>1 DEF CacheInv
<1>5. CASE ~UNCHANGED <<cache, dismissed>>
  <2> DEFINE upto == DismissSn(last')
  <2> DEFINE taken == {n \in cache : n <= upto}
  <2>1. taken # {} /\ cache' = cache \ taken /\ dismissed' = Max(taken)
    BY <1>5 DEF Forwarded, RequestsUpdated
  <2>2. taken \in SUBSET Sn
    BY DEF TypeOK, ReaderType
  <2>3. upto \in 0..MaxSn /\ \A r \in requests : upto <= last'[r]
    BY <1>1, <1>2, LeastPassed
  <2>4. dismissed' \in taken /\ \A n \in taken : n <= dismissed'
    <3> HIDE DEF taken
    <3> QED
      BY <2>1, <2>2, MaxSample
  <2>5. dismissed' \in Sn /\ dismissed' <= upto /\ dismissed < dismissed'
    BY <2>2, <2>4 DEF CacheInv
  <2>6. \A r \in requests : dismissed' <= last'[r]
    <3> HIDE DEF upto
    <3>1. \A r \in requests : last'[r] \in 0..MaxSn
      BY <1>1, <1>2
    <3> QED
      BY <2>3, <2>5, <3>1, ReadAssumption DEF Sn
  <2>7. ASSUME NEW n \in Sn PROVE n \in cache' <=> dismissed' < n /\ n <= sn
    <3> HIDE DEF upto
    <3>1. n \in cache <=> dismissed < n /\ n <= sn
      BY DEF CacheInv
    <3>2. n \in taken <=> n \in cache /\ n <= upto
      OBVIOUS
    <3>3. n \in Nat /\ dismissed \in Nat /\ dismissed' \in Nat /\ upto \in Nat
      BY <2>3, <2>5, ReadAssumption DEF Sn, TypeOK, ReaderType
    <3> HIDE DEF taken
    <3> QED
      BY <2>1, <2>4, <2>5, <3>1, <3>2, <3>3
  <2>8. dismissed' <= sn
    BY <2>2, <2>4 DEF CacheInv
  <2>9. cache' \subseteq Sn
    BY <2>1 DEF TypeOK, ReaderType
  <2> QED
    BY <2>6, <2>7, <2>8, <2>9 DEF CacheInv
<1> QED
  BY <1>4, <1>5

LEMMA CacheNext == TypeOK /\ CacheInv /\ [Next]_vars => CacheInv'
<1> SUFFICES ASSUME TypeOK, CacheInv, [Next]_vars PROVE CacheInv'
  OBVIOUS
<1>1. CASE DataArrives
  <2>1. /\ sn < MaxSn /\ sn' = sn + 1
        /\ cache' = cache \cup {sn + 1} /\ dismissed' = dismissed
    BY <1>1 DEF DataArrives
  <2>2. sn \in Nat /\ dismissed \in Nat /\ dismissed <= sn
    BY ReadAssumption DEF CacheInv, TypeOK, ReaderType
  <2>3. \A n \in Sn : n \in Nat
    BY DEF Sn
  <2>4. sn + 1 \in Sn
    BY <2>1, <2>2, ReadAssumption DEF Sn
  <2>5. ASSUME NEW n \in Sn PROVE n \in cache' <=> dismissed' < n /\ n <= sn'
    BY <2>1, <2>2, <2>3 DEF CacheInv
  <2>6. cache' = {n \in Sn : dismissed' < n /\ n <= sn'}
    BY <2>1, <2>4, <2>5 DEF TypeOK, ReaderType
  <2>7. dismissed' <= sn'
    BY <2>1, <2>2
  <2> QED
    BY <1>1, <2>6, <2>7 DEF DataArrives, CacheInv, listVars
<1>2. CASE CleanStart
  BY <1>2 DEF CleanStart, CacheInv, readerVars, listVars
<1>3. ASSUME NEW s \in Sessions,
             TimePasses(s) \/ ReceiveBadRead(s) \/ RunCancel(s) \/ RunComplete(s)
             \/ CleanSkip(s) \/ CleanFail(s)
      PROVE  CacheInv'
  <2>1. UNCHANGED <<readerVars, listVars, req, last, base>>
    BY <1>3 DEF TimePasses, ReceiveBadRead, RunCancel, RunComplete, CleanSkip,
       CleanFail
  <2> QED
    BY <2>1 DEF CacheInv, readerVars, listVars
<1>4. ASSUME NEW s \in Sessions, NEW st \in Streams,
             NEW m \in Limits \cup {limit[s]}, ReceiveRead(s, st, m)
      PROVE  CacheInv'
  <2>1. UNCHANGED readerVars
    BY <1>4 DEF ReceiveRead
  <2>2. CASE NewRequest(s)
    BY <2>1, <2>2, NewRequestCache
  <2>3. CASE Cancel(s, "read") /\ UNCHANGED <<last, base>>
    BY <2>1, <2>3, CancelFrame
  <2>4. CASE /\ req' = [req EXCEPT ![s] = "freed"]
             /\ UNCHANGED <<last, base, listVars>>
    <3>1. \A r \in Sessions : req'[r] = "live" => req[r] = "live" /\ r \in requests
      BY <2>4 DEF TypeOK, RequestType, CacheInv
    <3> QED
      BY <2>1, <2>4, <3>1, CacheFrame DEF listVars
  <2> QED
    BY <1>4, <2>2, <2>3, <2>4 DEF ReceiveRead
<1>5. ASSUME NEW s \in Sessions, NEW f \in forwards[s], Acknowledged(s, f)
      PROVE  CacheInv'
  <2>1. UNCHANGED <<readerVars, last, base>>
    BY <1>5 DEF Acknowledged
  <2>2. CASE Cancel(s, "drop")
    BY <2>1, <2>2, CancelFrame
  <2>3. CASE UNCHANGED <<req, listVars>>
    BY <2>1, <2>3 DEF CacheInv, readerVars, listVars
  <2> QED
    BY <1>5, <2>2, <2>3 DEF Acknowledged
<1>6. ASSUME NEW s \in Sessions, Drop(s) PROVE CacheInv'
  <2>1. UNCHANGED <<readerVars, last, base>> /\ Cancel(s, "drop")
    BY <1>6 DEF Drop
  <2> QED
    BY <2>1, CancelFrame
<1>7. ASSUME NEW s \in Sessions, Cancelled(s) PROVE CacheInv'
  <2>1. UNCHANGED readerVars
    BY <1>7 DEF Cancelled
  <2>2. CASE NewRequest(s)
    BY <2>1, <2>2, NewRequestCache
  <2>3. CASE req' = [req EXCEPT ![s] = "none"] /\ UNCHANGED <<listVars, last, base>>
    <3>1. \A r \in Sessions : req'[r] = "live" => req[r] = "live" /\ r \in requests
      BY <2>3 DEF TypeOK, RequestType, CacheInv
    <3> QED
      BY <2>1, <2>3, <3>1, CacheFrame DEF listVars
  <2> QED
    BY <1>7, <2>2, <2>3 DEF Cancelled
<1>8. ASSUME NEW s \in Sessions, RunAll(s) \/ RunAgain(s) \/ RunFail(s)
      PROVE  CacheInv'
  <2>1. PICK m \in {last[s]} \cup Fresh(s) : Forwarded(s, m)
    BY <1>8 DEF RunAll, RunAgain, RunFail
  <2>2. req[s] = "live" /\ UNCHANGED <<sn, requests, req, base>>
    BY <1>8 DEF RunAll, RunAgain, RunFail, Reading, listVars
  <2> QED
    BY <2>1, <2>2, ForwardedCache
<1>9. ASSUME NEW s \in Sessions, CleanRead(s) PROVE CacheInv'
  <2>1. UNCHANGED <<readerVars, last, base>>
    BY <1>9 DEF CleanRead
  <2>2. CASE Cancel(s, "cleanup")
    BY <2>1, <2>2, CancelFrame
  <2>3. CASE UNCHANGED <<req, listVars>>
    BY <2>1, <2>3 DEF CacheInv, readerVars, listVars
  <2> QED
    BY <1>9, <2>2, <2>3 DEF CleanRead
<1>10. CASE UNCHANGED vars
  BY <1>10 DEF vars, CacheInv, readerVars, listVars
<1> QED
  BY <1>1, <1>2, <1>3, <1>4, <1>5, <1>6, <1>7, <1>8, <1>9, <1>10 DEF Next

LEMMA CacheInit == Init => CacheInv
  BY ReadAssumption DEF Init, CacheInv, Sn

(* No request loses a sample to the others that share the cache, however     *)
(* many sessions come and go: the cache is the interval of samples after     *)
(* dismiss_sn, and dismiss_sn never overtakes a request in the list.         *)
THEOREM NothingLost == Spec => []NoSampleLost
<1>1. TypeOK /\ CacheInv /\ [Next]_vars => CacheInv'
  BY CacheNext
<1>2. TypeOK /\ CacheInv => NoSampleLost
  <2> SUFFICES ASSUME TypeOK, CacheInv, NEW s \in requests, NEW n \in 1..sn,
                      n > last[s], n > base[s]
               PROVE  n \in cache
    BY DEF NoSampleLost
  <2>1. dismissed <= last[s] \/ dismissed <= base[s]
    BY DEF CacheInv
  <2>2. /\ last[s] \in 0..MaxSn /\ base[s] \in 0..MaxSn
        /\ dismissed \in 0..MaxSn /\ sn \in 0..MaxSn
    BY DEF TypeOK, ReaderType, RequestType, ThreadType
  <2>3. n \in Sn /\ dismissed < n /\ n <= sn
    BY <2>1, <2>2, ReadAssumption DEF Sn
  <2> QED
    BY <2>3 DEF CacheInv
<1> QED
  BY <1>1, <1>2, CacheInit, TypeCorrect, PTL DEF Spec

-----------------------------------------------------------------------------
(* The two lists of what is on loan. *)

(* Dismissing forwards returns the samples they stand for, and no other. *)
LEMMA DismissLoans ==
    ASSUME TypeOK, LoanInv, NEW s \in Sessions, NEW out \in SUBSET forwards[s],
           Dismiss(s, out)
    PROVE  /\ LoansForwarded'
           /\ \A r \in Sessions : forwards'[r] \subseteq forwards[r]
           /\ samples[s] \subseteq {f[1] : f \in out} => forwards'[s] = {}
<1>1. /\ forwards' = [forwards EXCEPT ![s] = @ \ out]
      /\ samples' = [samples EXCEPT ![s] = @ \ {f[1] : f \in out}]
  BY DEF Dismiss
<1>2. /\ forwards'[s] = forwards[s] \ out
      /\ samples'[s] = samples[s] \ {f[1] : f \in out}
      /\ \A r \in Sessions : r # s => forwards'[r] = forwards[r] /\ samples'[r] = samples[r]
  BY <1>1 DEF TypeOK, RequestType, ForwardType
<1>3. /\ samples[s] = {f[1] : f \in forwards[s]}
      /\ \A f, g \in forwards[s] : f[1] = g[1] => f = g
  BY DEF LoanInv, LoansForwarded
<1>4. samples'[s] = {f[1] : f \in forwards'[s]}
  BY <1>2, <1>3
<1>5. samples[s] \subseteq {f[1] : f \in out} => forwards'[s] = {}
  BY <1>2, <1>3
<1>6. ASSUME NEW r \in Sessions
      PROVE  /\ samples'[r] = {f[1] : f \in forwards'[r]}
             /\ \A f, g \in forwards'[r] : f[1] = g[1] => f = g
  <2>1. CASE r = s
    BY <1>2, <1>3, <1>4, <2>1
  <2>2. CASE r # s
    BY <1>2, <2>2 DEF LoanInv, LoansForwarded
  <2> QED
    BY <2>1, <2>2
<1> QED
  BY <1>2, <1>5, <1>6 DEF LoansForwarded

(* What follows for a step that dismisses forwards and may end a request     *)
(* whose samples all went back.                                              *)
LEMMA LoanFrame ==
    ASSUME TypeOK, LoanInv, NEW s \in Sessions, NEW out \in SUBSET forwards[s],
           Dismiss(s, out), UNCHANGED last,
           \A r \in Sessions :
               /\ req'[r] = "live" => req[r] = "live"
               /\ req'[r] \in {"none", "cancelled"} =>
                     \/ req[r] \in {"none", "cancelled"}
                     \/ r = s /\ samples[s] \subseteq {f[1] : f \in out}
    PROVE  LoanInv'
<1>1. /\ LoansForwarded'
      /\ \A r \in Sessions : forwards'[r] \subseteq forwards[r]
      /\ samples[s] \subseteq {f[1] : f \in out} => forwards'[s] = {}
  BY DismissLoans
<1>2. ASSUME NEW r \in Sessions
      PROVE  /\ req'[r] \in {"none", "cancelled"} => forwards'[r] = {}
             /\ req'[r] = "live" => \A f \in forwards'[r] : f[1] <= last'[r]
  BY <1>1 DEF LoanInv
<1> QED
  BY <1>1, <1>2 DEF LoanInv

(* A new request takes the place of one without loans. *)
LEMMA NewRequestLoans ==
    ASSUME TypeOK, LoanInv, NEW s \in Sessions, req[s] \in {"none", "cancelled"},
           NewRequest(s), UNCHANGED forwards
    PROVE  LoanInv'
<1>1. /\ samples' = [samples EXCEPT ![s] = {}]
      /\ last' = [last EXCEPT ![s] = StartSn(s)]
  BY DEF NewRequest, OnReadCreated
<1>2. \A r \in Sessions : r # s =>
         /\ samples'[r] = samples[r]
         /\ last'[r] = last[r]
         /\ req'[r] = req[r]
  BY <1>1 DEF NewRequest, OnReadCreated, Cancel, TypeOK, RequestType
<1>3. forwards[s] = {} /\ samples'[s] = {}
  BY <1>1 DEF LoanInv, TypeOK, RequestType
<1>4. ASSUME NEW r \in Sessions
      PROVE  /\ samples'[r] = {f[1] : f \in forwards[r]}
             /\ \A f, g \in forwards[r] : f[1] = g[1] => f = g
             /\ req'[r] \in {"none", "cancelled"} => forwards[r] = {}
             /\ req'[r] = "live" => \A f \in forwards[r] : f[1] <= last'[r]
  <2>1. CASE r = s
    BY <1>3, <2>1
  <2>2. CASE r # s
    BY <1>2, <2>2 DEF LoanInv, LoansForwarded
  <2> QED
    BY <2>1, <2>2
<1> QED
  BY <1>4 DEF LoanInv, LoansForwarded

(* Samples that are lent are new to the request: each gets a forward. *)
LEMMA ForwardedLoans ==
    ASSUME TypeOK, LoanInv, NEW s \in Sessions, req[s] = "live",
           NEW m \in {last[s]} \cup Fresh(s), Forwarded(s, m), UNCHANGED req
    PROVE  LoanInv'
<1> DEFINE out == {n \in Fresh(s) : n <= m}
<1> DEFINE loan == Retained(s)
<1> DEFINE new == out \X {stream[s]}
<1>1. samples' = [samples EXCEPT ![s] = IF loan THEN @ \cup out ELSE @]
  BY DEF Forwarded
<1>2. forwards' = [forwards EXCEPT ![s] = IF loan THEN @ \cup new ELSE @]
  BY DEF Forwarded
<1>3. last' = [last EXCEPT ![s] = m]
  BY DEF Forwarded
<1>4. \A n \in out : n \in Nat /\ last[s] < n /\ n <= m
  BY DEF Fresh, TypeOK, ReaderType, Sn
<1>5. last[s] \in Nat /\ m \in Nat /\ last[s] <= m
  BY ReadAssumption DEF TypeOK, RequestType, ReaderType, Fresh, Sn
<1>6. /\ \A f \in new : f[1] \in out /\ f = <<f[1], stream[s]>>
      /\ out = {f[1] : f \in new}
  <2> HIDE DEF out
  <2>1. \A f \in new : f[1] \in out /\ f = <<f[1], stream[s]>>
    OBVIOUS
  <2>2. \A n \in out : <<n, stream[s]>> \in new /\ <<n, stream[s]>>[1] = n
    OBVIOUS
  <2> HIDE DEF new
  <2> QED
    BY <2>1, <2>2
<1>7. /\ samples[s] = {f[1] : f \in forwards[s]}
      /\ \A f, g \in forwards[s] : f[1] = g[1] => f = g
      /\ \A f \in forwards[s] : f[1] \in Nat /\ f[1] <= last[s]
  BY DEF LoanInv, LoansForwarded, TypeOK, ForwardType, Sn
<1>8. /\ samples'[s] = IF loan THEN samples[s] \cup out ELSE samples[s]
      /\ forwards'[s] = IF loan THEN forwards[s] \cup new ELSE forwards[s]
      /\ last'[s] = m
      /\ \A r \in Sessions : r # s => /\ forwards'[r] = forwards[r]
                                     /\ samples'[r] = samples[r]
                                     /\ last'[r] = last[r]
  BY <1>1, <1>2, <1>3 DEF TypeOK, RequestType, ForwardType
<1> HIDE DEF out, new, loan
<1>9. samples'[s] = {f[1] : f \in forwards'[s]}
  BY <1>6, <1>7, <1>8
<1>10. \A f, g \in forwards'[s] : f[1] = g[1] => f = g
  <2>1. \A f \in new : f[1] \in Nat /\ last[s] < f[1]
    BY <1>4, <1>6
  <2>2. \A f \in forwards[s], g \in new : f[1] # g[1]
    BY <2>1, <1>5, <1>7
  <2> QED
    BY <2>2, <1>6, <1>7, <1>8
<1>11. \A f \in forwards'[s] : f[1] <= m
  BY <1>4, <1>5, <1>6, <1>7, <1>8
<1>12. ASSUME NEW r \in Sessions
       PROVE  /\ samples'[r] = {f[1] : f \in forwards'[r]}
              /\ \A f, g \in forwards'[r] : f[1] = g[1] => f = g
              /\ req[r] \in {"none", "cancelled"} => forwards'[r] = {}
              /\ req[r] = "live" => \A f \in forwards'[r] : f[1] <= last'[r]
  <2>1. CASE r = s
    BY <1>8, <1>9, <1>10, <1>11, <2>1
  <2>2. CASE r # s
    BY <1>8, <2>2 DEF LoanInv, LoansForwarded
  <2> QED
    BY <2>1, <2>2
<1> QED
  BY <1>12 DEF LoanInv, LoansForwarded

LEMMA LoanNext == TypeOK /\ LoanInv /\ [Next]_vars => LoanInv'
<1> SUFFICES ASSUME TypeOK, LoanInv, [Next]_vars PROVE LoanInv'
  OBVIOUS
<1>1. CASE UNCHANGED <<samples, forwards, req, last>>
  BY <1>1 DEF LoanInv, LoansForwarded
<1>2. CASE DataArrives \/ CleanStart
  BY <1>1, <1>2 DEF DataArrives, CleanStart, countVars
<1>3. ASSUME NEW s \in Sessions,
             TimePasses(s) \/ ReceiveBadRead(s) \/ RunCancel(s) \/ RunComplete(s)
             \/ CleanSkip(s) \/ CleanFail(s)
      PROVE  LoanInv'
  BY <1>1, <1>3 DEF TimePasses, ReceiveBadRead, RunCancel, RunComplete, CleanSkip,
     CleanFail, countVars
<1>4. ASSUME NEW s \in Sessions, NEW st \in Streams,
             NEW m \in Limits \cup {limit[s]}, ReceiveRead(s, st, m)
      PROVE  LoanInv'
  <2> DEFINE out == {f \in forwards[s] : st \in Reliable /\ f[2] = st}
  <2>1. CASE req[s] = "none"
    <3>1. NewRequest(s) /\ UNCHANGED forwards
      BY <1>4, <2>1 DEF ReceiveRead
    <3> QED
      BY <2>1, <3>1, NewRequestLoans
  <2>2. CASE req[s] # "none"
    <3>1. Dismiss(s, out) /\ UNCHANGED last
      BY <1>4, <2>2 DEF ReceiveRead
    <3>2. \/ /\ samples[s] \subseteq {f[1] : f \in out}
             /\ Cancel(s, "read")
          \/ req' = [req EXCEPT ![s] = "freed"]
      BY <1>4, <2>2 DEF ReceiveRead
    <3>3. out \in SUBSET forwards[s]
      OBVIOUS
    <3> HIDE DEF out
    <3>4. CASE req' = [req EXCEPT ![s] = "freed"]
      <4>1. \A r \in Sessions : req'[r] # "freed" => req'[r] = req[r]
        BY <3>4 DEF TypeOK, RequestType
      <4> QED
        BY <4>1, <3>1, <3>3, LoanFrame
    <3>5. CASE Cancel(s, "read") /\ samples[s] \subseteq {f[1] : f \in out}
      <4>1. \A r \in Sessions : r # s => req'[r] = req[r]
        BY <3>5 DEF Cancel, TypeOK, RequestType
      <4>2. req'[s] = "cancelled"
        BY <3>5 DEF Cancel, TypeOK, RequestType
      <4> QED
        BY <4>1, <4>2, <3>1, <3>3, <3>5, LoanFrame
    <3> QED
      BY <3>2, <3>4, <3>5
  <2> QED
    BY <2>1, <2>2
<1>5. ASSUME NEW s \in Sessions, NEW f \in forwards[s], Acknowledged(s, f)
      PROVE  LoanInv'
  <2>1. Dismiss(s, {f}) /\ UNCHANGED last
    BY <1>5 DEF Acknowledged
  <2>2. CASE Cancel(s, "drop") /\ samples[s] = {f[1]}
    <3>1. \A r \in Sessions : r # s => req'[r] = req[r]
      BY <2>2 DEF Cancel, TypeOK, RequestType
    <3>2. req'[s] = "cancelled"
      BY <2>2 DEF Cancel, TypeOK, RequestType
    <3>3. samples[s] \subseteq {g[1] : g \in {f}}
      BY <2>2
    <3> QED
      BY <2>1, <3>1, <3>2, <3>3, LoanFrame
  <2>3. CASE UNCHANGED req
    BY <2>1, <2>3, LoanFrame
  <2> QED
    BY <1>5, <2>2, <2>3 DEF Acknowledged
<1>6. ASSUME NEW s \in Sessions, Drop(s) PROVE LoanInv'
  <2>1. Dismiss(s, forwards[s]) /\ UNCHANGED last /\ Cancel(s, "drop")
    BY <1>6 DEF Drop
  <2>2. \A r \in Sessions : r # s => req'[r] = req[r]
    BY <2>1 DEF Cancel, TypeOK, RequestType
  <2>3. req'[s] = "cancelled"
    BY <2>1 DEF Cancel, TypeOK, RequestType
  <2>4. samples[s] \subseteq {f[1] : f \in forwards[s]}
    BY DEF LoanInv, LoansForwarded
  <2> QED
    BY <2>1, <2>2, <2>3, <2>4, LoanFrame
<1>7. ASSUME NEW s \in Sessions, Cancelled(s) PROVE LoanInv'
  <2>1. req[s] = "cancelled" /\ UNCHANGED forwards
    BY <1>7 DEF Cancelled
  <2>2. CASE NewRequest(s)
    BY <2>1, <2>2, NewRequestLoans
  <2>3. CASE req' = [req EXCEPT ![s] = "none"] /\ UNCHANGED <<last, countVars>>
    <3>1. /\ \A r \in Sessions : r # s => req'[r] = req[r]
          /\ req'[s] = "none"
      BY <2>3 DEF TypeOK, RequestType
    <3>2. UNCHANGED <<samples, last>>
      BY <2>3 DEF countVars
    <3>3. ASSUME NEW r \in Sessions
          PROVE  /\ req'[r] \in {"none", "cancelled"} => forwards'[r] = {}
                 /\ req'[r] = "live" => \A f \in forwards'[r] : f[1] <= last'[r]
      BY <2>1, <3>1, <3>2 DEF LoanInv
    <3> QED
      BY <2>1, <3>2, <3>3 DEF LoanInv, LoansForwarded
  <2> QED
    BY <1>7, <2>2, <2>3 DEF Cancelled
<1>8. ASSUME NEW s \in Sessions, RunAll(s) \/ RunAgain(s) \/ RunFail(s)
      PROVE  LoanInv'
  <2>1. PICK m \in {last[s]} \cup Fresh(s) : Forwarded(s, m)
    BY <1>8 DEF RunAll, RunAgain, RunFail
  <2>2. req[s] = "live" /\ UNCHANGED req
    BY <1>8 DEF RunAll, RunAgain, RunFail, Reading
  <2> QED
    BY <2>1, <2>2, ForwardedLoans
<1>9. ASSUME NEW s \in Sessions, CleanRead(s) PROVE LoanInv'
  <2> DEFINE out == {f \in forwards[s] : stream[s] \in {f[2], Unknown}}
  <2>1. Dismiss(s, out) /\ UNCHANGED last /\ out \in SUBSET forwards[s]
    BY <1>9 DEF CleanRead
  <2>2. \/ Cancel(s, "cleanup") /\ samples[s] = {f[1] : f \in out}
        \/ UNCHANGED req
    BY <1>9 DEF CleanRead
  <2> HIDE DEF out
  <2>3. CASE Cancel(s, "cleanup") /\ samples[s] = {f[1] : f \in out}
    <3>1. \A r \in Sessions : r # s => req'[r] = req[r]
      BY <2>3 DEF Cancel, TypeOK, RequestType
    <3>2. req'[s] = "cancelled"
      BY <2>3 DEF Cancel, TypeOK, RequestType
    <3> QED
      BY <2>1, <2>3, <3>1, <3>2, LoanFrame
  <2>4. CASE UNCHANGED req
    BY <2>1, <2>4, LoanFrame
  <2> QED
    BY <2>2, <2>3, <2>4
<1>10. CASE UNCHANGED vars
  BY <1>1, <1>10 DEF vars, countVars
<1> QED
  BY <1>2, <1>3, <1>4, <1>5, <1>6, <1>7, <1>8, <1>9, <1>10 DEF Next

LEMMA LoanInit == Init => LoanInv
  BY DEF Init, LoanInv, LoansForwarded

(* The client's list of forwards and the request's list of samples agree     *)
(* after any mix of acknowledgements, repeated reads, resets and completed    *)
(* reads: no return_loan misses its sample, and none is left behind.         *)
THEOREM LoansAgree == Spec => []LoansForwarded
<1>1. TypeOK /\ LoanInv /\ [Next]_vars => LoanInv'
  BY LoanNext
<1>2. LoanInv => LoansForwarded
  BY DEF LoanInv
<1> QED
  BY <1>1, <1>2, LoanInit, TypeCorrect, PTL DEF Spec

-----------------------------------------------------------------------------
(* The order of what a client is sent. *)

(* read_from_readerEA sends samples after the last one it forwarded, and     *)
(* remembers the last of them.                                               *)
LEMMA ForwardedOrder ==
    ASSUME TypeOK, CacheInv, DeliveryInv, StartPoint = "LAST_FORWARDED",
           NEW s \in Sessions, req[s] = "live",
           NEW m \in {last[s]} \cup Fresh(s), Forwarded(s, m)
    PROVE  /\ last'[s] = forwarded'[s] /\ last'[s] \in Nat
           /\ forwarded[s] <= forwarded'[s]
           /\ \A r \in Sessions : r # s => /\ last'[r] = last[r]
                                          /\ forwarded'[r] = forwarded[r]
                                          /\ delivered'[r] = delivered[r]
           /\ \/ UNCHANGED delivered
              \/ \E batch \in SUBSET (1..sn) :
                    /\ \A n \in batch : forwarded[s] < n /\ n <= forwarded'[s]
                    /\ delivered' = [delivered EXCEPT ![s] = Append(@, batch)]
<1> DEFINE out == {n \in Fresh(s) : n <= m}
<1>1. /\ last' = [last EXCEPT ![s] = m]
      /\ forwarded' = [forwarded EXCEPT ![s] = IF out = {} THEN @ ELSE m]
      /\ delivered' = [delivered EXCEPT ![s] =
                          IF forward[s] /\ out # {} THEN Append(@, out) ELSE @]
  BY DEF Forwarded
<1>2. last[s] = forwarded[s] /\ last[s] \in Nat
  BY ReadAssumption DEF DeliveryInv, TypeOK, RequestType
<1>3. m \in Nat /\ (m # last[s] => m \in out /\ last[s] < m)
  <2>1. Fresh(s) \subseteq Nat /\ \A n \in Fresh(s) : last[s] < n
    <3>1. cache \subseteq Nat
      BY DEF TypeOK, ReaderType, Sn
    <3> QED
      BY <1>2, <3>1 DEF Fresh
  <2> QED
    BY <1>2, <2>1
<1>4. out \in SUBSET (1..sn) /\ \A n \in out : last[s] < n /\ n <= m
  BY DEF Fresh, CacheInv, Sn
<1>5. out # {} => last[s] < m
  BY <1>2, <1>3, <1>4
<1> HIDE DEF out
<1>6. last'[s] = m /\ forwarded'[s] = m
  BY <1>1, <1>2, <1>3 DEF TypeOK, RequestType
<1>7. forwarded[s] <= forwarded'[s]
  BY <1>2, <1>3, <1>5, <1>6
<1>8. \A r \in Sessions : r # s => /\ last'[r] = last[r]
                                  /\ forwarded'[r] = forwarded[r]
                                  /\ delivered'[r] = delivered[r]
  BY <1>1 DEF TypeOK, RequestType, ThreadType
<1>9. CASE forward[s] /\ out # {}
  <2>1. delivered' = [delivered EXCEPT ![s] = Append(@, out)]
    BY <1>1, <1>9
  <2> QED
    BY <1>2, <1>3, <1>4, <1>6, <1>7, <1>8, <2>1
<1>10. CASE ~(forward[s] /\ out # {})
  <2>1. UNCHANGED delivered
    BY <1>1, <1>10 DEF TypeOK, ThreadType
  <2> QED
    BY <1>3, <1>6, <1>7, <1>8, <2>1
<1> QED
  BY <1>9, <1>10

(* Steps that forward nothing; a new request starts after what was sent. *)
LEMMA DeliveryFrame ==
    ASSUME TypeOK, DeliveryInv, UNCHANGED <<forwarded, delivered>>,
           \A r \in Sessions : req'[r] = "live" =>
               \/ req[r] = "live" /\ last'[r] = last[r]
               \/ last'[r] = StartSn(r)
    PROVE  DeliveryInv'
<1> SUFFICES ASSUME StartPoint = "LAST_FORWARDED", NEW r \in Sessions
             PROVE  /\ req'[r] = "live" => last'[r] = forwarded'[r]
                    /\ \A i \in DOMAIN delivered'[r] :
                          \A n \in delivered'[r][i] : n <= forwarded'[r]
  BY DEF DeliveryInv
<1>1. StartSn(r) = forwarded[r]
  BY DEF StartSn
<1> QED
  BY <1>1 DEF DeliveryInv

LEMMA NewRequestStart ==
    ASSUME TypeOK, NEW s \in Sessions, NewRequest(s)
    PROVE  \A r \in Sessions : req'[r] = "live" =>
               \/ req[r] = "live" /\ last'[r] = last[r]
               \/ last'[r] = StartSn(r)
  BY DEF NewRequest, OnReadCreated, Cancel, TypeOK, RequestType

LEMMA DeliveryNext ==
    TypeOK /\ CacheInv /\ DeliveryInv /\ [Next]_vars => DeliveryInv'
<1> SUFFICES ASSUME TypeOK, CacheInv, DeliveryInv, [Next]_vars PROVE DeliveryInv'
  OBVIOUS
<1>1. CASE UNCHANGED <<req, last, forwarded, delivered>>
  BY <1>1, DeliveryFrame
<1>2. CASE DataArrives \/ CleanStart
  BY <1>1, <1>2 DEF DataArrives, CleanStart, pointVars
<1>3. ASSUME NEW s \in Sessions,
             TimePasses(s) \/ ReceiveBadRead(s) \/ RunCancel(s) \/ RunComplete(s)
             \/ CleanSkip(s) \/ CleanFail(s)
      PROVE  DeliveryInv'
  BY <1>1, <1>3 DEF TimePasses, ReceiveBadRead, RunCancel, RunComplete, CleanSkip,
     CleanFail, pointVars
<1>4. ASSUME NEW s \in Sessions, NEW st \in Streams,
             NEW m \in Limits \cup {limit[s]}, ReceiveRead(s, st, m)
      PROVE  DeliveryInv'
  <2>1. UNCHANGED <<forwarded, delivered>>
    BY <1>4 DEF ReceiveRead
  <2>2. CASE NewRequest(s)
    BY <2>1, <2>2, NewRequestStart, DeliveryFrame
  <2>3. CASE ~NewRequest(s)
    <3>1. UNCHANGED last
      BY <1>4, <2>3 DEF ReceiveRead
    <3>2. \A r \in Sessions : req'[r] = "live" => req[r] = "live"
      BY <1>4, <2>3 DEF ReceiveRead, Cancel, TypeOK, RequestType
    <3> QED
      BY <2>1, <3>1, <3>2, DeliveryFrame
  <2> QED
    BY <2>2, <2>3
<1>5. ASSUME NEW s \in Sessions,
             Drop(s) \/ CleanRead(s) \/ \E f \in forwards[s] : Acknowledged(s, f)
      PROVE  DeliveryInv'
  <2>1. UNCHANGED <<last, forwarded, delivered>>
    BY <1>5 DEF Drop, CleanRead, Acknowledged
  <2>2. \A r \in Sessions : req'[r] = "live" => req[r] = "live"
    BY <1>5 DEF Drop, CleanRead, Acknowledged, Cancel, TypeOK, RequestType
  <2> QED
    BY <2>1, <2>2, DeliveryFrame
<1>6. ASSUME NEW s \in Sessions, Cancelled(s) PROVE DeliveryInv'
  <2>1. UNCHANGED <<forwarded, delivered>>
    BY <1>6 DEF Cancelled, pointVars
  <2>2. CASE NewRequest(s)
    BY <2>1, <2>2, NewRequestStart, DeliveryFrame
  <2>3. CASE ~NewRequest(s)
    <3>1. UNCHANGED last
      BY <1>6, <2>3 DEF Cancelled
    <3>2. \A r \in Sessions : req'[r] = "live" => req[r] = "live"
      BY <1>6, <2>3 DEF Cancelled, TypeOK, RequestType
    <3> QED
      BY <2>1, <3>1, <3>2, DeliveryFrame
  <2> QED
    BY <2>2, <2>3
<1>7. ASSUME NEW s \in Sessions, RunAll(s) \/ RunAgain(s) \/ RunFail(s)
      PROVE  DeliveryInv'
  <2>1. PICK m \in {last[s]} \cup Fresh(s) : Forwarded(s, m)
    BY <1>7 DEF RunAll, RunAgain, RunFail
  <2>2. req[s] = "live" /\ UNCHANGED req
    BY <1>7 DEF RunAll, RunAgain, RunFail, Reading
  <2> SUFFICES ASSUME StartPoint = "LAST_FORWARDED", NEW r \in Sessions
               PROVE  /\ req'[r] = "live" => last'[r] = forwarded'[r]
                      /\ \A i \in DOMAIN delivered'[r] :
                            \A n \in delivered'[r][i] : n <= forwarded'[r]
    BY DEF DeliveryInv
  <2>3. /\ last'[s] = forwarded'[s] /\ last'[s] \in Nat
        /\ forwarded[s] <= forwarded'[s]
        /\ \A q \in Sessions : q # s => /\ last'[q] = last[q]
                                       /\ forwarded'[q] = forwarded[q]
                                       /\ delivered'[q] = delivered[q]
        /\ \/ UNCHANGED delivered
           \/ \E batch \in SUBSET (1..sn) :
                 /\ \A n \in batch : forwarded[s] < n /\ n <= forwarded'[s]
                 /\ delivered' = [delivered EXCEPT ![s] = Append(@, batch)]
    BY <2>1, <2>2, ForwardedOrder
  <2>4. CASE r # s
    BY <2>2, <2>3, <2>4 DEF DeliveryInv
  <2>5. CASE r = s
    <3>1. \A i \in DOMAIN delivered[s] : \A n \in delivered[s][i] :
             n \in Nat /\ n <= forwarded[s]
      BY DEF DeliveryInv, TypeOK, ThreadType, Sn
    <3>2. forwarded[s] \in Nat
      BY ReadAssumption DEF TypeOK, RequestType
    <3>3. \A i \in DOMAIN delivered[s] : \A n \in delivered[s][i] : n <= forwarded'[s]
      BY <2>3, <3>1, <3>2
    <3>4. CASE UNCHANGED delivered
      BY <2>3, <2>5, <3>3, <3>4
    <3>5. ASSUME NEW batch \in SUBSET (1..sn),
                 \A n \in batch : forwarded[s] < n /\ n <= forwarded'[s],
                 delivered' = [delivered EXCEPT ![s] = Append(@, batch)]
          PROVE  \A i \in DOMAIN delivered'[s] :
                    \A n \in delivered'[s][i] : n <= forwarded'[s]
      <4>1. delivered[s] \in Seq(SUBSET Sn)
        BY DEF TypeOK, ThreadType
      <4>2. delivered'[s] = Append(delivered[s], batch)
        BY <3>5 DEF TypeOK, ThreadType
      <4>3. ASSUME NEW i \in DOMAIN delivered'[s]
            PROVE  \/ i \in DOMAIN delivered[s] /\ delivered'[s][i] = delivered[s][i]
                   \/ delivered'[s][i] = batch
        BY <4>1, <4>2, <4>3
      <4> QED
        BY <3>3, <3>5, <4>3
    <3> QED
      BY <2>3, <2>5, <3>4, <3>5
  <2> QED
    BY <2>4, <2>5
<1>8. CASE UNCHANGED vars
  BY <1>1, <1>8 DEF vars, pointVars
<1> QED
  BY <1>2, <1>3, <1>4, <1>5, <1>6, <1>7, <1>8 DEF Next

LEMMA DeliveryInit == Init => DeliveryInv
  BY DEF Init, DeliveryInv

(* Each step receives a sample, delivers a batch, or is invisible. *)
LEMMA DeliveryStep ==
    ASSUME TypeOK, CacheInv, DeliveryInv, StartPoint = "LAST_FORWARDED", [Next]_vars
    PROVE  [Delivery!Next]_<<sn, delivered>>
<1>1. CASE DataArrives
  BY <1>1 DEF DataArrives, Delivery!Next, Delivery!Receive
<1>2. CASE UNCHANGED <<sn, delivered>>
  BY <1>2
<1>3. ASSUME NEW s \in Sessions, RunAll(s) \/ RunAgain(s) \/ RunFail(s)
      PROVE  [Delivery!Next]_<<sn, delivered>>
  <2>1. PICK m \in {last[s]} \cup Fresh(s) : Forwarded(s, m)
    BY <1>3 DEF RunAll, RunAgain, RunFail
  <2>2. req[s] = "live" /\ UNCHANGED sn
    BY <1>3 DEF RunAll, RunAgain, RunFail, Reading
  <2>3. CASE UNCHANGED delivered
    BY <2>2, <2>3
  <2>4. CASE ~UNCHANGED delivered
    <3>1. PICK batch \in SUBSET (1..sn) :
             /\ \A n \in batch : forwarded[s] < n
             /\ delivered' = [delivered EXCEPT ![s] = Append(@, batch)]
      BY <2>1, <2>2, <2>4, ForwardedOrder
    <3>2. \A i \in DOMAIN delivered[s] : \A n \in delivered[s][i] :
             n \in Nat /\ n <= forwarded[s]
      BY DEF DeliveryInv, TypeOK, ThreadType, Sn
    <3>3. forwarded[s] \in Nat /\ \A n \in batch : n \in Nat
      BY ReadAssumption DEF TypeOK, RequestType
    <3>4. \A i \in DOMAIN delivered[s] :
             \A n \in batch, k \in delivered[s][i] : n > k
      <4> SUFFICES ASSUME NEW i \in DOMAIN delivered[s], NEW n \in batch,
                          NEW k \in delivered[s][i]
                   PROVE  n > k
        OBVIOUS
      <4>1. n \in Nat /\ forwarded[s] \in Nat /\ forwarded[s] < n
        BY <3>1, <3>3
      <4>2. k \in Nat /\ k <= forwarded[s]
        BY <3>2
      <4> QED
        BY <4>1, <4>2
    <3> QED
      BY <2>2, <3>1, <3>4 DEF Delivery!Next, Delivery!Deliver
  <2> QED
    BY <2>3, <2>4
<1>4. CASE CleanStart \/ UNCHANGED vars
  BY <1>2, <1>4 DEF CleanStart, vars, readerVars
<1>5. ASSUME NEW s \in Sessions,
             TimePasses(s) \/ ReceiveBadRead(s) \/ Drop(s) \/ Cancelled(s)
             \/ RunCancel(s) \/ RunComplete(s)
      PROVE  UNCHANGED <<sn, delivered>>
  BY <1>5 DEF TimePasses, ReceiveBadRead, Drop, Cancelled, RunCancel, RunComplete,
     readerVars
<1>6. ASSUME NEW s \in Sessions,
             CleanSkip(s) \/ CleanRead(s) \/ CleanFail(s)
             \/ (\E f \in forwards[s] : Acknowledged(s, f))
             \/ (\E st \in Streams, m \in Limits \cup {limit[s]} : ReceiveRead(s, st, m))
      PROVE  UNCHANGED <<sn, delivered>>
  BY <1>6 DEF CleanSkip, CleanRead, CleanFail, Acknowledged, ReceiveRead, readerVars
<1> QED
  BY <1>1, <1>2, <1>3, <1>4, <1>5, <1>6 DEF Next

(* Where a client's reads start after the last sample forwarded, what it is  *)
(* sent over all its requests refines SampleDelivery: every sample at most   *)
(* once and in the order of reception.                                       *)
THEOREM InOrder == StartPoint = "LAST_FORWARDED" => (Spec => DeliveredInOrder)
<1> SUFFICES ASSUME StartPoint = "LAST_FORWARDED" PROVE Spec => DeliveredInOrder
  OBVIOUS
<1>1. Init => Delivery!Init
  BY DEF Init, Delivery!Init
<1>2. TypeOK /\ CacheInv /\ [Next]_vars => CacheInv'
  BY CacheNext
<1>3. TypeOK /\ CacheInv /\ DeliveryInv /\ [Next]_vars => DeliveryInv'
  BY DeliveryNext
<1>4. TypeOK /\ CacheInv /\ DeliveryInv /\ [Next]_vars
         => [Delivery!Next]_<<sn, delivered>>
  BY DeliveryStep
<1> QED
  BY <1>1, <1>2, <1>3, <1>4, CacheInit, DeliveryInit, TypeCorrect, PTL
     DEF Spec, DeliveredInOrder, Delivery!Spec

(* The cache, the loans and the order of delivery are one invariant.      *)
THEOREM ReadInvariant == Spec => []ReadInv
<1>1. TypeOK /\ CacheInv /\ [Next]_vars => CacheInv'
  BY CacheNext
<1>2. TypeOK /\ LoanInv /\ [Next]_vars => LoanInv'
  BY LoanNext
<1>3. TypeOK /\ CacheInv /\ DeliveryInv /\ [Next]_vars => DeliveryInv'
  BY DeliveryNext
<1>4. CacheInv /\ LoanInv /\ DeliveryInv => ReadInv
  BY DEF ReadInv
<1> QED
  BY <1>1, <1>2, <1>3, <1>4, CacheInit, LoanInit, DeliveryInit, TypeCorrect, PTL
     DEF Spec

-----------------------------------------------------------------------------
(* The list of requests. *)

(* How a step changes the list: not at all, or it takes a request out with   *)
(* its cancellation, puts a new one in, ends one or takes it out of use.     *)
LEMMA ListStep ==
    ASSUME TypeOK, [Next]_vars
    PROVE  \/ UNCHANGED <<req, listVars>>
           \/ \E s \in Sessions :
                 \/ \E who : Cancel(s, who)
                 \/ req' = [req EXCEPT ![s] = "live"] /\ Listed(s)
                 \/ req' = [req EXCEPT ![s] = "none"] /\ req[s] = "cancelled"
                    /\ UNCHANGED listVars
                 \/ \E st \in Streams, m \in Limits \cup {limit[s]} :
                       /\ ReceiveRead(s, st, m)
                       /\ req' = [req EXCEPT ![s] = "freed"]
                       /\ UNCHANGED listVars
<1> DEFINE Quiet == UNCHANGED <<req, listVars>>
<1> DEFINE Moved(s) == \/ \E who : Cancel(s, who)
                       \/ req' = [req EXCEPT ![s] = "live"] /\ Listed(s)
<1>1. ASSUME NEW s \in Sessions, NewRequest(s) PROVE Moved(s)
  BY <1>1 DEF NewRequest, OnReadCreated
<1>2. CASE DataArrives \/ CleanStart \/ UNCHANGED vars
  BY <1>2 DEF DataArrives, CleanStart, vars, listVars
<1>3. ASSUME NEW s \in Sessions,
             TimePasses(s) \/ ReceiveBadRead(s) \/ RunCancel(s) \/ RunComplete(s)
             \/ CleanSkip(s) \/ CleanFail(s) \/ RunAll(s) \/ RunAgain(s) \/ RunFail(s)
      PROVE  Quiet
  BY <1>3 DEF TimePasses, ReceiveBadRead, RunCancel, RunComplete, CleanSkip,
     CleanFail, RunAll, RunAgain, RunFail, Reading
<1>4. ASSUME NEW s \in Sessions,
             Drop(s) \/ CleanRead(s) \/ (\E f \in forwards[s] : Acknowledged(s, f))
      PROVE  Quiet \/ \E who : Cancel(s, who)
  BY <1>4 DEF Drop, CleanRead, Acknowledged
<1>5. ASSUME NEW s \in Sessions, Cancelled(s)
      PROVE  \/ NewRequest(s)
             \/ req' = [req EXCEPT ![s] = "none"] /\ req[s] = "cancelled"
                /\ UNCHANGED listVars
  BY <1>5 DEF Cancelled
<1>6. ASSUME NEW s \in Sessions, NEW st \in Streams,
             NEW m \in Limits \cup {limit[s]}, ReceiveRead(s, st, m)
      PROVE  \/ NewRequest(s) \/ Cancel(s, "read")
             \/ req' = [req EXCEPT ![s] = "freed"] /\ UNCHANGED listVars
  BY <1>6 DEF ReceiveRead
<1>7. CASE \E s \in Sessions, st \in Streams :
              \E m \in Limits \cup {limit[s]} : ReceiveRead(s, st, m)
  <2> HIDE DEF Moved
  <2>1. PICK s \in Sessions, st \in Streams :
           \E m \in Limits \cup {limit[s]} : ReceiveRead(s, st, m)
    BY <1>7
  <2>2. PICK m \in Limits \cup {limit[s]} : ReceiveRead(s, st, m)
    BY <2>1
  <2>3. CASE Moved(s)
    BY <2>3 DEF Moved
  <2>4. CASE Cancel(s, "read")
    BY <2>4
  <2>5. CASE req' = [req EXCEPT ![s] = "freed"] /\ UNCHANGED listVars
    BY <2>2, <2>5
  <2> QED
    BY <1>1, <1>6, <2>2, <2>3, <2>4, <2>5
<1>8. CASE \E s \in Sessions : Cancelled(s)
  BY <1>1, <1>5, <1>8
<1> HIDE DEF Quiet, Moved
<1>9. CASE Quiet
  BY <1>9 DEF Quiet
<1>10. CASE \E s \in Sessions : \E who : Cancel(s, who)
  BY <1>10
<1>11. CASE \E s \in Sessions : Drop(s) \/ CleanRead(s)
                                \/ (\E f \in forwards[s] : Acknowledged(s, f))
  BY <1>4, <1>9, <1>10, <1>11
<1> QED
  BY <1>2, <1>3, <1>7, <1>8, <1>9, <1>11 DEF Next

(* Forwards are made on reliable streams only. *)
LEMMA ForwardsReliable ==
    ASSUME TypeOK, ListInv, [Next]_vars, NEW r \in Sessions
    PROVE  forwards'[r] \subseteq Sn \X Reliable
<1>1. CASE UNCHANGED forwards
  BY <1>1 DEF ListInv
<1>2. CASE forwards'[r] \subseteq forwards[r]
  BY <1>2 DEF ListInv
<1>3. ASSUME NEW s \in Sessions, NEW out, Dismiss(s, out)
      PROVE  forwards'[r] \subseteq forwards[r]
  BY <1>3 DEF Dismiss, TypeOK, ForwardType
<1>4. CASE DataArrives \/ CleanStart \/ UNCHANGED vars
  BY <1>1, <1>4 DEF DataArrives, CleanStart, vars
<1>5. ASSUME NEW s \in Sessions,
             TimePasses(s) \/ ReceiveBadRead(s) \/ RunCancel(s) \/ RunComplete(s)
             \/ CleanSkip(s) \/ CleanFail(s) \/ Cancelled(s)
      PROVE  UNCHANGED forwards
  BY <1>5 DEF TimePasses, ReceiveBadRead, RunCancel, RunComplete, CleanSkip,
     CleanFail, Cancelled
<1>6. ASSUME NEW s \in Sessions,
             \/ Drop(s) \/ CleanRead(s)
             \/ \E f \in forwards[s] : Acknowledged(s, f)
             \/ \E st \in Streams, m \in Limits \cup {limit[s]} : ReceiveRead(s, st, m)
      PROVE  UNCHANGED forwards \/ \E out : Dismiss(s, out)
  BY <1>6 DEF Drop, CleanRead, Acknowledged, ReceiveRead
<1>7. ASSUME NEW s \in Sessions, RunAll(s) \/ RunAgain(s) \/ RunFail(s)
      PROVE  forwards'[r] \subseteq Sn \X Reliable
  <2>1. PICK m \in {last[s]} \cup Fresh(s) : Forwarded(s, m)
    BY <1>7 DEF RunAll, RunAgain, RunFail
  <2>2. \E out \in SUBSET Fresh(s) :
           forwards' = [forwards EXCEPT ![s] =
                           IF Retained(s) THEN @ \cup (out \X {stream[s]}) ELSE @]
    BY <2>1 DEF Forwarded
  <2>3. Fresh(s) \subseteq Sn
    BY DEF Fresh, TypeOK, ReaderType
  <2>4. forwards[r] \subseteq Sn \X Reliable /\ forwards[s] \subseteq Sn \X Reliable
    BY DEF ListInv
  <2> QED
    BY <2>2, <2>3, <2>4 DEF Retained, TypeOK, ForwardType
<1> QED
  BY <1>1, <1>2, <1>3, <1>4, <1>5, <1>6, <1>7 DEF Next

(* With one stream READ_DATA dismisses all the forwards of its request: what *)
(* it cannot cancel, the cleanup thread is cancelling, and is not in the list. *)
LEMMA OneStreamFrees ==
    ASSUME TypeOK, LoanInv, ListInv, OneStream, NEW s \in Sessions,
           NEW st \in Streams, NEW m \in Limits \cup {limit[s]},
           ReceiveRead(s, st, m), req' = [req EXCEPT ![s] = "freed"]
    PROVE  s \notin requests
<1> DEFINE out == {f \in forwards[s] : st \in Reliable /\ f[2] = st}
<1>1. ASSUME NEW f \in forwards[s] PROVE f \in out
  BY <1>1 DEF OneStream, ListInv
<1>2. samples[s] \ {f[1] : f \in out} = {}
  BY <1>1 DEF LoanInv, LoansForwarded
<1>3. req'[s] = "freed"
  BY DEF TypeOK, RequestType
<1>4. req'[s] # "freed" \/ req[s] = "cancelled"
         \/ samples[s] \ {f[1] : f \in out} # {}
  BY <1>3 DEF ReceiveRead, NewRequest, OnReadCreated, Cancel, TypeOK, RequestType
<1> QED
  BY <1>2, <1>3, <1>4 DEF ListInv

LEMMA ListNext == TypeOK /\ LoanInv /\ ListInv /\ [Next]_vars => ListInv'
<1> SUFFICES ASSUME TypeOK, LoanInv, ListInv, [Next]_vars PROVE ListInv'
  OBVIOUS
<1>1. \A r \in Sessions : forwards'[r] \subseteq Sn \X Reliable
  BY ForwardsReliable
<1>2. ASSUME NEW r \in Sessions
      PROVE  /\ req'[r] # "freed" => (r \in requests' <=> req'[r] = "live")
             /\ OneStream => (req'[r] = "freed" => r \notin requests')
  <2>1. CASE UNCHANGED <<req, listVars>>
    BY <2>1 DEF listVars, ListInv
  <2>2. ASSUME NEW s \in Sessions, NEW who, Cancel(s, who)
        PROVE  /\ req'[r] # "freed" => (r \in requests' <=> req'[r] = "live")
               /\ OneStream => (req'[r] = "freed" => r \notin requests')
    BY <2>2 DEF Cancel, Unlisted, ListInv, TypeOK, RequestType
  <2>3. ASSUME NEW s \in Sessions, req' = [req EXCEPT ![s] = "live"], Listed(s)
        PROVE  /\ req'[r] # "freed" => (r \in requests' <=> req'[r] = "live")
               /\ OneStream => (req'[r] = "freed" => r \notin requests')
    BY <2>3 DEF Listed, ListInv, TypeOK, RequestType
  <2>4. ASSUME NEW s \in Sessions, req' = [req EXCEPT ![s] = "none"],
               req[s] = "cancelled", UNCHANGED listVars
        PROVE  /\ req'[r] # "freed" => (r \in requests' <=> req'[r] = "live")
               /\ OneStream => (req'[r] = "freed" => r \notin requests')
    BY <2>4 DEF listVars, ListInv, TypeOK, RequestType
  <2>5. ASSUME NEW s \in Sessions, NEW st \in Streams,
               NEW m \in Limits \cup {limit[s]}, ReceiveRead(s, st, m),
               req' = [req EXCEPT ![s] = "freed"], UNCHANGED listVars
        PROVE  /\ req'[r] # "freed" => (r \in requests' <=> req'[r] = "live")
               /\ OneStream => (req'[r] = "freed" => r \notin requests')
    <3>1. OneStream => s \notin requests
      BY <2>5, OneStreamFrees
    <3> QED
      BY <2>5, <3>1 DEF listVars, ListInv, TypeOK, RequestType
  <2> QED
    BY ListStep, <2>1, <2>2, <2>3, <2>4, <2>5
<1> QED
  BY <1>1, <1>2 DEF ListInv

(* The list of the reader points to requests in use, and to all of them; or  *)
(* to one that READ_DATA took out of use, which takes a second stream.       *)
THEOREM ListInvariant == Spec => []ListInv
<1>1. Init => ListInv
  BY DEF Init, ListInv
<1>2. TypeOK /\ LoanInv /\ [Next]_vars => LoanInv'
  BY LoanNext
<1>3. TypeOK /\ LoanInv /\ ListInv /\ [Next]_vars => ListInv'
  BY ListNext
<1> QED
  BY <1>1, <1>2, <1>3, LoanInit, TypeCorrect, PTL DEF Spec

(* Where the clients have one stream, no pointer in the list of a reader is  *)
(* stale, whatever the order of reads, acknowledgements, resets and cleanup. *)
THEOREM ListedInUse == OneStream => (Spec => []RequestsAllocated)
<1> SUFFICES ASSUME OneStream PROVE Spec => []RequestsAllocated
  OBVIOUS
<1>1. ListInv => RequestsAllocated
  BY DEF ListInv, RequestsAllocated
<1> QED
  BY <1>1, ListInvariant, PTL

-----------------------------------------------------------------------------
(* Notifications. *)

(* What NoticeInv says of one session. *)
Noticed(r) ==
    /\ event[r] = "cancel" => req[r] # "live"
    /\ "send" \notin Faults /\ (\E n \in Sn : Waits(r, n)) => event[r] = "data"

(* The listener is installed with the first request in the list and removed  *)
(* with the last one.                                                        *)
LEMMA ListenerNext ==
    ASSUME TypeOK, listener <=> requests # {}, [Next]_vars
    PROVE  listener' <=> requests' # {}
<1>1. CASE UNCHANGED listVars
  BY <1>1 DEF listVars
<1>2. ASSUME NEW s \in Sessions, Unlisted(s) PROVE listener' <=> requests' # {}
  BY <1>2 DEF Unlisted, TypeOK, ReaderType
<1>3. ASSUME NEW s \in Sessions, Listed(s) PROVE listener' <=> requests' # {}
  BY <1>3 DEF Listed, TypeOK, ReaderType
<1> QED
  BY <1>1, <1>2, <1>3, ListStep DEF Cancel

(* A session whose request reads from where it did, in the same cache, stays *)
(* noticed if its event does, or if the request is not live any more.        *)
LEMMA NoticeFrame ==
    ASSUME NEW r \in Sessions, Noticed(r), UNCHANGED cache,
           req'[r] # "live" \/ /\ req'[r] = req[r] /\ last'[r] = last[r]
                               /\ event'[r] = event[r]
                               /\ complete[r] => complete'[r]
    PROVE  Noticed(r)'
<1>1. CASE req'[r] # "live"
  BY <1>1 DEF Noticed, Waits
<1>2. CASE /\ req'[r] = req[r] /\ last'[r] = last[r] /\ event'[r] = event[r]
           /\ complete[r] => complete'[r]
  <2>1. \A n \in Sn : Waits(r, n)' => Waits(r, n)
    BY <1>2 DEF Waits, Fresh
  <2> QED
    BY <1>2, <2>1 DEF Noticed
<1> QED
  BY <1>1, <1>2

(* A request that is cancelled is over, and the other ones are left alone. *)
LEMMA CancelNotice ==
    ASSUME TypeOK, NEW s \in Sessions, NEW who, Cancel(s, who),
           NEW r \in Sessions, Noticed(r), UNCHANGED <<cache, last>>,
           r # s => complete'[r] = complete[r]
    PROVE  Noticed(r)'
<1>1. r = s => req'[r] # "live"
  BY DEF Cancel, TypeOK, RequestType
<1>2. r # s => req'[r] = req[r] /\ event'[r] = event[r]
  BY DEF Cancel, TypeOK, RequestType
<1> QED
  BY <1>1, <1>2, NoticeFrame

(* A new request starts with its event in the queue. *)
LEMMA NewRequestNotice ==
    ASSUME TypeOK, NEW s \in Sessions, NewRequest(s),
           NEW r \in Sessions, Noticed(r), UNCHANGED cache
    PROVE  Noticed(r)'
<1>1. CASE r = s
  <2>1. req'[s] # "live" \/ event'[s] = "data"
    BY DEF NewRequest, OnReadCreated, Cancel, TypeOK, RequestType
  <2> QED
    BY <1>1, <2>1 DEF Noticed, Waits
<1>2. CASE r # s
  <2>1. /\ req'[r] = req[r] /\ event'[r] = event[r]
        /\ last'[r] = last[r] /\ complete'[r] = complete[r]
    BY <1>2 DEF NewRequest, OnReadCreated, Cancel, TypeOK, RequestType
  <2> QED
    BY <2>1, NoticeFrame
<1> QED
  BY <1>1, <1>2

(* Samples that come back leave the other sessions alone and may only make   *)
(* their own request complete.                                               *)
LEMMA DismissNotice ==
    ASSUME TypeOK, NEW s \in Sessions, NEW out, Dismiss(s, out),
           NEW r \in Sessions
    PROVE  /\ r # s => complete'[r] = complete[r]
           /\ complete[r] => complete'[r]
<1>1. r # s => complete'[r] = complete[r]
  BY DEF Dismiss, TypeOK, RequestType
<1>2. complete'[s] = (complete[s] \/ (out # {} /\ IsComplete(s, rcvd[s] + Cardinality(out))))
  BY Zenon DEF Dismiss, TypeOK, RequestType
<1> QED
  BY <1>1, <1>2

(* Reading the cache for a request leaves nothing to read, or its event in   *)
(* the queue, unless a send fails; what it takes out of the cache makes no   *)
(* other request wait.                                                       *)
LEMMA ForwardedNotice ==
    ASSUME TypeOK, NEW s \in Sessions, RunAll(s) \/ RunAgain(s) \/ RunFail(s),
           NEW r \in Sessions, Noticed(r)
    PROVE  Noticed(r)'
<1>1. PICK m \in {last[s]} \cup Fresh(s) :
         /\ Forwarded(s, m)
         /\ \/ \A n \in Fresh(s) : n <= m
            \/ "send" \in Faults
            \/ UNCHANGED event
  BY DEF RunAll, RunAgain, RunFail
<1>2. /\ last' = [last EXCEPT ![s] = m] /\ event[s] = "data"
      /\ event' = [event EXCEPT ![s] = "none"] \/ event' = event
      /\ UNCHANGED req
  BY <1>1 DEF RunAll, RunAgain, RunFail, Reading, Forwarded
<1>3. cache' \subseteq cache
  BY <1>1 DEF Forwarded, RequestsUpdated
<1>4. CASE r = s
  <2>1. event'[s] # "cancel"
    BY <1>2 DEF TypeOK, RequestType
  <2>2. CASE \A n \in Fresh(s) : n <= m
    <3>1. ASSUME NEW n \in Fresh(s)' PROVE FALSE
      <4>1. n \in cache /\ n > m
        BY <1>2, <1>3, <3>1 DEF Fresh, TypeOK, RequestType
      <4>2. n \in Nat /\ m \in Nat /\ last[s] \in Nat /\ last[s] <= m
        BY <4>1, ReadAssumption DEF Fresh, TypeOK, RequestType, ReaderType, Sn
      <4>3. n \in Fresh(s)
        BY <4>1, <4>2 DEF Fresh
      <4> QED
        BY <2>2, <4>1, <4>2, <4>3
    <3>2. \A n \in Sn : ~ Waits(s, n)'
      BY <3>1 DEF Waits
    <3> QED
      BY <1>4, <2>1, <3>2 DEF Noticed
  <2>3. CASE "send" \in Faults
    BY <1>4, <2>1, <2>3 DEF Noticed
  <2>4. CASE UNCHANGED event
    BY <1>2, <1>4, <2>4 DEF Noticed
  <2> QED
    BY <1>1, <2>2, <2>3, <2>4
<1>5. CASE r # s
  <2>1. last'[r] = last[r] /\ event'[r] = event[r] /\ req'[r] = req[r]
    BY <1>2, <1>5 DEF TypeOK, RequestType
  <2>2. complete'[r] = complete[r]
    BY <1>5 DEF RunAll, RunAgain, RunFail, TypeOK, RequestType
  <2>3. \A n \in Sn : Waits(r, n)' => Waits(r, n)
    BY <1>3, <2>1, <2>2 DEF Waits, Fresh
  <2> QED
    BY <2>1, <2>3 DEF Noticed
<1> QED
  BY <1>4, <1>5

(* Every step keeps every session noticed. *)
LEMMA NoticedNext ==
    ASSUME TypeOK, CacheInv, listener <=> requests # {}, [Next]_vars,
           \A t \in Sessions : Noticed(t), NEW r \in Sessions
    PROVE  Noticed(r)'
<1> Noticed(r)
  OBVIOUS
<1>1. CASE DataArrives
  <2>1. event'[r] = IF listener /\ r \in requests THEN "data" ELSE event[r]
    BY <1>1 DEF DataArrives
  <2>2. UNCHANGED <<req, last>>
    BY <1>1 DEF DataArrives
  <2>3. req[r] = "live" => r \in requests /\ listener
    BY DEF CacheInv
  <2> QED
    BY <2>1, <2>2, <2>3 DEF Noticed, Waits
<1>2. CASE CleanStart \/ UNCHANGED vars
  <2>1. UNCHANGED <<cache, req, last, event, complete>>
    BY <1>2 DEF CleanStart, vars, readerVars, countVars
  <2> QED
    BY <2>1, NoticeFrame
<1>3. ASSUME NEW s \in Sessions,
             TimePasses(s) \/ ReceiveBadRead(s) \/ CleanSkip(s) \/ CleanFail(s)
      PROVE  Noticed(r)'
  <2>1. UNCHANGED <<cache, req, last, event, complete>>
    BY <1>3 DEF TimePasses, ReceiveBadRead, CleanSkip, CleanFail, readerVars, countVars
  <2> QED
    BY <2>1, NoticeFrame
<1>4. ASSUME NEW s \in Sessions, RunCancel(s) PROVE Noticed(r)'
  <2>1. /\ UNCHANGED <<cache, req, last, complete>> /\ event[s] = "cancel"
        /\ event' = [event EXCEPT ![s] = "none"]
    BY <1>4 DEF RunCancel, readerVars, countVars
  <2>2. req[s] # "live"
    BY <2>1 DEF Noticed
  <2>3. r = s \/ event'[r] = event[r]
    BY <2>1 DEF TypeOK, RequestType
  <2> QED
    BY <2>1, <2>2, <2>3, NoticeFrame
<1>5. ASSUME NEW s \in Sessions, RunComplete(s) PROVE Noticed(r)'
  <2>1. /\ UNCHANGED <<cache, req, last>>
        /\ event' = [event EXCEPT ![s] = "none"]
        /\ complete' = [complete EXCEPT ![s] = TRUE]
    BY <1>5 DEF RunComplete, readerVars
  <2>2. CASE r = s
    <3>1. event'[s] = "none"
      BY <2>1 DEF TypeOK, RequestType
    <3>2. complete'[s]
      BY <2>1 DEF TypeOK, RequestType
    <3> QED
      BY <2>2, <3>1, <3>2 DEF Noticed, Waits
  <2>3. CASE r # s
    <3>1. event'[r] = event[r] /\ complete'[r] = complete[r]
      BY <2>1, <2>3 DEF TypeOK, RequestType
    <3> QED
      BY <2>1, <3>1, NoticeFrame
  <2> QED
    BY <2>2, <2>3
<1>6. ASSUME NEW s \in Sessions, NEW out, Dismiss(s, out),
             UNCHANGED <<cache, last>>,
             UNCHANGED <<req, event>> \/ \E who : Cancel(s, who)
      PROVE  Noticed(r)'
  <2>1. (r # s => complete'[r] = complete[r]) /\ (complete[r] => complete'[r])
    BY <1>6, DismissNotice
  <2>2. CASE UNCHANGED <<req, event>>
    BY <1>6, <2>1, <2>2, NoticeFrame
  <2>3. CASE \E who : Cancel(s, who)
    BY <1>6, <2>1, <2>3, CancelNotice
  <2> QED
    BY <1>6, <2>2, <2>3
<1>7. ASSUME NEW s \in Sessions,
             Drop(s) \/ CleanRead(s) \/ (\E f \in forwards[s] : Acknowledged(s, f))
      PROVE  Noticed(r)'
  <2>1. PICK out : Dismiss(s, out)
    BY <1>7 DEF Drop, CleanRead, Acknowledged
  <2>2. UNCHANGED <<cache, last>>
    BY <1>7 DEF Drop, CleanRead, Acknowledged, readerVars
  <2>3. UNCHANGED <<req, event>> \/ \E who : Cancel(s, who)
    BY <1>7 DEF Drop, CleanRead, Acknowledged
  <2> QED
    BY <1>6, <2>1, <2>2, <2>3
<1>8. ASSUME NEW s \in Sessions, NEW st \in Streams,
             NEW m \in Limits \cup {limit[s]}, ReceiveRead(s, st, m)
      PROVE  Noticed(r)'
  <2>1. UNCHANGED cache
    BY <1>8 DEF ReceiveRead, readerVars
  <2>2. \/ NewRequest(s)
        \/ /\ \E out : Dismiss(s, out)
           /\ UNCHANGED last
           /\ \/ Cancel(s, "read")
              \/ req' = [req EXCEPT ![s] = "freed"] /\ UNCHANGED event
    BY <1>8 DEF ReceiveRead
  <2>3. CASE NewRequest(s)
    BY <2>1, <2>3, NewRequestNotice
  <2>4. CASE /\ \E out : Dismiss(s, out)
             /\ UNCHANGED <<last, event>>
             /\ req' = [req EXCEPT ![s] = "freed"]
    <3>1. (r # s => complete'[r] = complete[r]) /\ (complete[r] => complete'[r])
      BY <2>4, DismissNotice
    <3>2. (r = s /\ req'[r] # "live") \/ req'[r] = req[r]
      BY <2>4 DEF TypeOK, RequestType
    <3> QED
      BY <2>1, <2>4, <3>1, <3>2, NoticeFrame
  <2>5. CASE (\E out : Dismiss(s, out)) /\ UNCHANGED last /\ Cancel(s, "read")
    BY <1>6, <2>1, <2>5
  <2> QED
    BY <2>2, <2>3, <2>4, <2>5
<1>9. ASSUME NEW s \in Sessions, Cancelled(s) PROVE Noticed(r)'
  <2>1. UNCHANGED cache
    BY <1>9 DEF Cancelled, readerVars
  <2>2. CASE NewRequest(s)
    BY <2>1, <2>2, NewRequestNotice
  <2>3. CASE req' = [req EXCEPT ![s] = "none"] /\ UNCHANGED <<last, countVars, event>>
    <3>1. req'[r] # "live" \/ req'[r] = req[r]
      BY <2>3 DEF TypeOK, RequestType
    <3> QED
      BY <2>1, <2>3, <3>1, NoticeFrame DEF countVars
  <2> QED
    BY <1>9, <2>2, <2>3 DEF Cancelled
<1>10. ASSUME NEW s \in Sessions, RunAll(s) \/ RunAgain(s) \/ RunFail(s)
       PROVE  Noticed(r)'
  BY <1>10, ForwardedNotice
<1> QED
  BY <1>1, <1>2, <1>3, <1>4, <1>5, <1>7, <1>8, <1>9, <1>10 DEF Next

(* The listener and the events of the requests, after any step. *)
THEOREM NoticeInvariant == Spec => []NoticeInv
<1>1. NoticeInv <=> (listener <=> requests # {}) /\ \A r \in Sessions : Noticed(r)
  BY DEF NoticeInv, SampleNoticed, Noticed
<1>2. Init => NoticeInv
  BY DEF Init, NoticeInv, SampleNoticed, Waits
<1>3. TypeOK /\ CacheInv /\ [Next]_vars => CacheInv'
  BY CacheNext
<1>4. TypeOK /\ CacheInv /\ NoticeInv /\ [Next]_vars => NoticeInv'
  <2> SUFFICES ASSUME TypeOK, CacheInv, NoticeInv, [Next]_vars PROVE NoticeInv'
    OBVIOUS
  <2>1. listener' <=> requests' # {}
    BY ListenerNext DEF NoticeInv
  <2>2. (listener <=> requests # {}) /\ \A r \in Sessions : Noticed(r)
    BY <1>1
  <2>3. \A r \in Sessions : Noticed(r)'
    BY <2>2, NoticedNext
  <2> QED
    BY <2>1, <2>3 DEF NoticeInv, SampleNoticed, Noticed
<1> QED
  BY <1>2, <1>3, <1>4, CacheInit, TypeCorrect, PTL DEF Spec

(* No notification is lost: while sends succeed, a request with a sample to  *)
(* read has its event in the queue, whoever starts, ends or shares reads.    *)
THEOREM NoNoticeLost == Spec => []SampleNoticed
<1>1. NoticeInv => SampleNoticed
  BY DEF NoticeInv
<1> QED
  BY <1>1, NoticeInvariant, PTL
=============================================================================
