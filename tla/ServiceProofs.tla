---------------------------- MODULE ServiceProofs ----------------------------
(***************************************************************************)
(* Proofs about AgentService and the mappings it shares, for every set of  *)
(* transports, locators and keys and every set of faults.                  *)
(***************************************************************************)
EXTENDS AgentService, TLAPS

(* The transport the main thread has come to is one of the transports. *)
LEMMA CurrentIsThread ==
    ASSUME TypeOK PROVE Current \in Threads
  BY ServiceAssumption DEF TypeOK, ServiceType, Current

(* A step along the list of transports stays in it. *)
LEMMA AdvanceType ==
    ASSUME TypeOK, NEW then, Advance(then)
    PROVE  ix' \in DOMAIN Transports /\ main' \in {main, then}
  BY ServiceAssumption DEF TypeOK, ServiceType, Advance

LEMMA BackToCloseType ==
    ASSUME TypeOK, NEW then, BackToClose(then)
    PROVE  ix' \in DOMAIN Transports /\ main' \in {"close", "unwind", then}
  BY ServiceAssumption DEF TypeOK, ServiceType, BackToClose

(* What is in a sequence. *)
LEMMA SeqEntry ==
    ASSUME NEW S, NEW s \in Seq(S), NEW i \in DOMAIN s PROVE s[i] \in S
  OBVIOUS

(* With one entry per locator the look-up finds that entry. *)
LEMMA KeyAtEntry ==
    ASSUME UniqueLocator, NEW i \in DOMAIN mappings
    PROVE  KeyAt(mappings[i].loc) = mappings[i].key
<1> DEFINE l == mappings[i].loc
<1>1. Places(l) = {i}
  BY DEF UniqueLocator, Places
<1>2. First(l) = i
  BY <1>1 DEF First
<1> QED
  BY <1>1, <1>2 DEF KeyAt

LEMMA KeyAtType ==
    ASSUME TypeOK, UniqueLocator, NEW l \in Locators
    PROVE  KeyAt(l) \in Keys \cup {None}
<1>1. CASE Places(l) = {}
  BY <1>1 DEF KeyAt
<1>2. CASE Places(l) # {}
  <2>1. PICK i \in DOMAIN mappings : mappings[i].loc = l
    BY <1>2 DEF Places
  <2>2. mappings[i] \in [loc : Locators, key : Keys]
    BY SeqEntry DEF TypeOK, MappingsType
  <2>3. KeyAt(l) = mappings[i].key
    BY <2>1, KeyAtEntry
  <2> QED
    BY <2>2, <2>3
<1> QED
  BY <1>1, <1>2

(* Storing a mapping keeps one entry per locator, changes what the locator  *)
(* is mapped to and nothing else.                                           *)
LEMMA MappedKeeps ==
    ASSUME TypeOK, UniqueLocator, NEW l \in Locators, NEW k \in Keys,
           mappings' = Mapped(l, k)
    PROVE  /\ mappings' \in Seq([loc : Locators, key : Keys])
           /\ UniqueLocator'
           /\ KeyAt(l)' = k
           /\ \A x \in Locators \ {l} : KeyAt(x)' = KeyAt(x)
<1> DEFINE Entry == [loc : Locators, key : Keys]
<1>0. mappings \in Seq(Entry) /\ [loc |-> l, key |-> k] \in Entry
  BY DEF TypeOK, MappingsType
<1>1. CASE Places(l) = {}
  <2>1. mappings' = Append(mappings, [loc |-> l, key |-> k])
    BY <1>1 DEF Mapped
  <2>2. mappings' \in Seq(Entry)
    BY <1>0, <2>1
  <2>3. /\ DOMAIN mappings' = DOMAIN mappings \cup {Len(mappings) + 1}
        /\ \A i \in DOMAIN mappings : mappings'[i] = mappings[i]
        /\ mappings'[Len(mappings) + 1] = [loc |-> l, key |-> k]
        /\ Len(mappings) + 1 \notin DOMAIN mappings
    BY <1>0, <2>1
  <2>4. \A i \in DOMAIN mappings : mappings[i].loc # l
    BY <1>1 DEF Places
  <2>5. UniqueLocator'
    BY <2>3, <2>4 DEF UniqueLocator
  <2>6. KeyAt(l)' = k
    <3>1. Places(l)' = {Len(mappings) + 1}
      BY <2>3, <2>4 DEF Places
    <3>2. First(l)' = Len(mappings) + 1
      BY <3>1, <1>0 DEF First
    <3> QED
      BY <3>1, <3>2, <2>3 DEF KeyAt
  <2>7. ASSUME NEW x \in Locators \ {l} PROVE KeyAt(x)' = KeyAt(x)
    <3>1. Places(x)' = Places(x)
      BY <2>3 DEF Places
    <3>2. First(x)' = First(x)
      BY <3>1 DEF First
    <3>3. CASE Places(x) = {}
      BY <3>1, <3>3 DEF KeyAt
    <3>4. CASE Places(x) # {}
      <4>1. PICK i \in DOMAIN mappings : i \in Places(x)
        BY <3>4 DEF Places
      <4>2. Places(x) = {i}
        BY <4>1 DEF UniqueLocator, Places
      <4>3. First(x) = i
        BY <4>2, <1>0 DEF First
      <4> QED
        BY <3>1, <3>2, <3>4, <4>3, <2>3 DEF KeyAt
    <3> QED
      BY <3>3, <3>4
  <2> QED
    BY <2>2, <2>5, <2>6, <2>7
<1>2. CASE Places(l) # {}
  <2>1. PICK p \in DOMAIN mappings : mappings[p].loc = l
    BY <1>2 DEF Places
  <2>2. Places(l) = {p}
    BY <2>1 DEF UniqueLocator, Places
  <2>3. First(l) = p
    BY <2>2, <1>0 DEF First
  <2>4. mappings' = [mappings EXCEPT ![p].key = k]
    BY <1>2, <2>3 DEF Mapped
  <2>5. /\ DOMAIN mappings' = DOMAIN mappings
        /\ \A i \in DOMAIN mappings \ {p} : mappings'[i] = mappings[i]
        /\ mappings'[p] = [mappings[p] EXCEPT !.key = k]
    BY <1>0, <2>4
  <2>6. mappings[p] \in Entry
    BY <1>0, SeqEntry
  <2>7. mappings'[p].loc = l /\ mappings'[p].key = k /\ mappings'[p] \in Entry
    BY <2>1, <2>5, <2>6
  <2>8. mappings' \in Seq(Entry)
    BY <1>0, <2>4, <2>6
  <2>9. \A i \in DOMAIN mappings : mappings'[i].loc = mappings[i].loc
    BY <2>1, <2>5, <2>7
  <2>10. UniqueLocator'
    BY <2>5, <2>9 DEF UniqueLocator
  <2>11. KeyAt(l)' = k
    <3>1. Places(l)' = {p}
      BY <2>2, <2>5, <2>9 DEF Places
    <3>2. First(l)' = p
      BY <3>1, <1>0 DEF First
    <3> QED
      BY <3>1, <3>2, <2>7 DEF KeyAt
  <2>12. ASSUME NEW x \in Locators \ {l} PROVE KeyAt(x)' = KeyAt(x)
    <3>1. Places(x)' = Places(x)
      BY <2>5, <2>9 DEF Places
    <3>2. First(x)' = First(x)
      BY <3>1 DEF First
    <3>3. CASE Places(x) = {}
      BY <3>1, <3>3 DEF KeyAt
    <3>4. CASE Places(x) # {}
      <4>1. PICK i \in DOMAIN mappings : i \in Places(x)
        BY <3>4 DEF Places
      <4>2. Places(x) = {i} /\ i # p
        BY <4>1, <2>1 DEF UniqueLocator, Places
      <4>3. First(x) = i
        BY <4>2, <1>0 DEF First
      <4> QED
        BY <3>1, <3>2, <3>4, <4>2, <4>3, <2>5 DEF KeyAt
    <3> QED
      BY <3>3, <3>4
  <2> QED
    BY <2>8, <2>10, <2>11, <2>12
<1> QED
  BY <1>1, <1>2
-----------------------------------------------------------------------------
(* Routing.  The argument: a locator belongs to one transport, so that only *)
(* the thread which handles a message of the locator changes its mapping;   *)
(* what that thread found when it looked the mapping up is therefore still  *)
(* there when it decides not to store the mapping again.                    *)

FoundOf(t) ==
    /\ pc[t] \in Handling => msg[t] \in Messages /\ Home[msg[t].loc] = t
    /\ pc[t] = "lookup" => msg[t].header = None
    /\ pc[t] = "cache" => msg[t].kind = "create"
    /\ pc[t] = "closing" => found[t] \in Keys
    /\ pc[t] \notin {"dispatch", "cache", "closing"} => found[t] = None
    /\ pc[t] \in {"dispatch", "cache"} =>
          found[t] = IF msg[t].header = None THEN KeyAt(msg[t].loc) ELSE None

RoutingInv ==
    /\ UniqueLocator
    /\ RoutesToLatest
    /\ \A t \in Threads : FoundOf(t)

LEMMA MessageType ==
    ASSUME NEW m \in Messages
    PROVE  /\ m.loc \in Locators
           /\ m.header \in Keys \cup {None}
           /\ m.kind \in {"create", "data", "delete"}
           /\ m.kind = "create" => m.key \in Keys
  BY DEF Messages

LEMMA SameKeyAt ==
    ASSUME mappings' = mappings, NEW l PROVE KeyAt(l)' = KeyAt(l)
  BY DEF KeyAt, First, Places

(* A step of one thread that leaves the mappings alone. *)
LEMMA RoutingKept ==
    ASSUME TypeOK, RoutingInv, NEW t \in Threads,
           mappings' = mappings, latest' = latest, FoundOf(t)',
           \A u \in Threads \ {t} :
              pc'[u] = pc[u] /\ msg'[u] = msg[u] /\ found'[u] = found[u]
    PROVE  RoutingInv'
<1>1. UniqueLocator' /\ RoutesToLatest'
  BY SameKeyAt DEF RoutingInv, UniqueLocator, RoutesToLatest
<1>2. ASSUME NEW u \in Threads \ {t} PROVE FoundOf(u)'
  BY <1>2, SameKeyAt DEF RoutingInv, FoundOf
<1> QED
  BY <1>1, <1>2 DEF RoutingInv

(* After the handling of a message nothing is left of it. *)
LEMMA HandledFound ==
    ASSUME TypeOK, NEW t \in Threads, Handled(t)
    PROVE  /\ FoundOf(t)'
           /\ pc' \in [Threads -> {"none", "start", "loop", "recv", "ended"} \cup Handling]
           /\ msg' \in [Threads -> Messages \cup {NoMessage}]
           /\ found' \in [Threads -> Keys \cup {None}]
           /\ \A u \in Threads \ {t} :
                 pc'[u] = pc[u] /\ msg'[u] = msg[u] /\ found'[u] = found[u]
<1>1. /\ pc'[t] = "loop" /\ found'[t] = None
      /\ \A u \in Threads \ {t} :
            pc'[u] = pc[u] /\ msg'[u] = msg[u] /\ found'[u] = found[u]
  BY DEF TypeOK, MappingsType, Handled
<1>2. FoundOf(t)'
  BY <1>1 DEF FoundOf, Handling
<1> QED
  BY <1>1, <1>2 DEF TypeOK, MappingsType, Handled

(* Opening a session. *)
LEMMA OpenedType ==
    ASSUME TypeOK, NEW t \in Threads, msg[t] \in Messages, msg[t].kind = "create",
           NEW ok, Opened(t, ok)
    PROVE  /\ session' \in [Keys -> {"none", "open", "expired", "disposed", "cleaned"}]
           /\ bind' \in [Keys -> Locators \cup {None}]
           /\ latest' \in [Locators -> Keys \cup {None}]
           /\ latest'[msg[t].loc] \in {msg[t].key, None}
           /\ \A l \in Locators \ {msg[t].loc} : latest'[l] = latest[l]
  BY MessageType DEF TypeOK, MappingsType, Opened
(* What is known of the client of a message that is dispatched. *)
LEMMA KnownType ==
    ASSUME TypeOK, RoutingInv, NEW t \in Threads, pc[t] = "dispatch"
    PROVE  msg[t] \in Messages /\ Known(t) \in Keys \cup {None}
<1>1. msg[t] \in Messages /\ found[t] \in Keys \cup {None}
  BY DEF TypeOK, MappingsType, RoutingInv, FoundOf, Handling
<1> QED
  BY <1>1, MessageType DEF Known

(* Every step in which a thread handles its message keeps the types and the *)
(* routing.                                                                 *)
LEMMA HandleKeeps ==
    ASSUME TypeOK, RoutingInv, NEW t \in Threads, Handle(t)
    PROVE  MappingsType' /\ RoutingInv'
<1>0. FoundOf(t)
  BY DEF RoutingInv
<1>1. CASE Lookup(t)
  <2>0. /\ pc[t] = "lookup" /\ msg[t] \in Messages /\ msg[t].header = None
        /\ Home[msg[t].loc] = t /\ msg[t].loc \in Locators
    BY <1>0, <1>1, MessageType DEF Lookup, FoundOf, Handling
  <2>1. CASE KeyAt(msg[t].loc) = None /\ ~AutoMapping
    <3>1. Handled(t) /\ UNCHANGED <<mappings, session, bind, obstacle, latest>> /\ mutex' = t
      BY <1>1, <2>1 DEF Lookup
    <3>2. RoutingInv'
      BY <3>1, HandledFound, RoutingKept
    <3> QED
      BY <3>1, <3>2, HandledFound DEF TypeOK, MappingsType
  <2>2. CASE ~(KeyAt(msg[t].loc) = None /\ ~AutoMapping)
    <3>1. /\ found' = [found EXCEPT ![t] = KeyAt(msg[t].loc)]
          /\ pc' = [pc EXCEPT ![t] = "dispatch"]
          /\ UNCHANGED <<mutex, msg, mappings, session, bind, obstacle, latest>>
      BY <1>1, <2>2 DEF Lookup
    <3>2. KeyAt(msg[t].loc) \in Keys \cup {None}
      BY <2>0, KeyAtType DEF RoutingInv
    <3>3. MappingsType'
      BY <3>1, <3>2 DEF TypeOK, MappingsType, Handling
    <3>4. /\ pc'[t] = "dispatch" /\ found'[t] = KeyAt(msg[t].loc)
          /\ \A u \in Threads \ {t} : pc'[u] = pc[u] /\ found'[u] = found[u]
      BY <3>1 DEF TypeOK, MappingsType
    <3>5. FoundOf(t)'
      BY <2>0, <3>1, <3>4, SameKeyAt DEF FoundOf, Handling
    <3>6. RoutingInv'
      BY <3>1, <3>4, <3>5, RoutingKept
    <3> QED
      BY <3>3, <3>6
  <2> QED
    BY <2>1, <2>2
<1>2. CASE CreateRejected(t) \/ Deliver(t)
  <2>1. Handled(t) /\ UNCHANGED <<mutex, mappings, session, bind, latest>>
    BY <1>2 DEF CreateRejected, Deliver
  <2>2. RoutingInv'
    BY <2>1, HandledFound, RoutingKept
  <2>3. obstacle' \in [Keys -> {"none", "entry", "pass"}]
    BY <1>2 DEF CreateRejected, Deliver, TypeOK, MappingsType
  <2> QED
    BY <2>1, <2>2, <2>3, HandledFound DEF TypeOK, MappingsType
<1>7. CASE CreateAgain(t)
  <2>0. /\ pc[t] = "dispatch" /\ msg[t] \in Messages /\ msg[t].loc \in Locators
        /\ Handled(t) /\ UNCHANGED <<mutex, mappings, session, bind, obstacle>>
    BY <1>0, <1>7, MessageType DEF CreateAgain, FoundOf, Handling
  <2>1. /\ latest' \in [Locators -> Keys \cup {None}]
        /\ \A l \in Locators : latest'[l] \in {latest[l], None}
    BY <1>7, <2>0 DEF CreateAgain, TypeOK, MappingsType
  <2>2. UniqueLocator' /\ RoutesToLatest'
    BY <2>0, <2>1, SameKeyAt DEF RoutingInv, UniqueLocator, RoutesToLatest
  <2>3. ASSUME NEW u \in Threads \ {t} PROVE FoundOf(u)'
    BY <2>0, <2>3, HandledFound, SameKeyAt DEF RoutingInv, FoundOf
  <2>4. RoutingInv'
    BY <2>0, <2>2, <2>3, HandledFound DEF RoutingInv
  <2> QED
    BY <2>0, <2>1, <2>4, HandledFound DEF TypeOK, MappingsType
<1>3. CASE CreateNew(t)
  <2>0. /\ pc[t] = "dispatch" /\ msg[t].kind = "create" /\ msg[t] \in Messages
        /\ Home[msg[t].loc] = t /\ msg[t].loc \in Locators /\ msg[t].key \in Keys
        /\ UNCHANGED <<mutex, mappings, obstacle>>
    BY <1>0, <1>3, MessageType DEF CreateNew, FoundOf, Handling
  <2>1. CASE CacheMapping(t)
    <3>1. /\ pc' = [pc EXCEPT ![t] = "cache"]
          /\ UNCHANGED <<session, bind, latest, msg, found>>
      BY <1>3, <2>1 DEF CreateNew
    <3>2. pc'[t] = "cache" /\ \A u \in Threads \ {t} : pc'[u] = pc[u]
      BY <3>1 DEF TypeOK, MappingsType
    <3>3. FoundOf(t)'
      BY <1>0, <2>0, <3>1, <3>2, SameKeyAt DEF FoundOf, Handling
    <3>4. RoutingInv'
      BY <2>0, <3>1, <3>2, <3>3, RoutingKept
    <3> QED
      BY <2>0, <3>1, <3>4 DEF TypeOK, MappingsType, Handling
  <2>2. CASE ~CacheMapping(t)
    <3>1. PICK ok \in Replies : Opened(t, ok)
      BY <1>3, <2>2 DEF CreateNew
    <3>2. Handled(t)
      BY <1>3, <2>2 DEF CreateNew
    <3>3. KeyAt(msg[t].loc) = msg[t].key
      BY <1>0, <2>0, <2>2 DEF FoundOf, CacheMapping, KeyChanged, Known, Handling
    <3>4. UniqueLocator'
      BY <2>0 DEF RoutingInv, UniqueLocator
    <3>5. RoutesToLatest'
      BY <2>0, <3>1, <3>3, OpenedType, SameKeyAt DEF RoutingInv, RoutesToLatest
    <3>6. ASSUME NEW u \in Threads \ {t} PROVE FoundOf(u)'
      BY <2>0, <3>2, <3>6, HandledFound, SameKeyAt DEF RoutingInv, FoundOf
    <3>7. RoutingInv'
      BY <3>2, <3>4, <3>5, <3>6, HandledFound DEF RoutingInv
    <3> QED
      BY <2>0, <3>1, <3>2, <3>7, HandledFound, OpenedType DEF TypeOK, MappingsType
  <2> QED
    BY <2>1, <2>2
<1>4. CASE CreateCached(t)
  <2>0. /\ pc[t] = "cache" /\ msg[t].kind = "create" /\ msg[t] \in Messages
        /\ Home[msg[t].loc] = t /\ msg[t].loc \in Locators /\ msg[t].key \in Keys
        /\ Handled(t) /\ UNCHANGED <<mutex, obstacle>>
    BY <1>0, <1>4, MessageType DEF CreateCached, FoundOf, Handling
  <2>1. PICK ok \in Replies : Opened(t, ok)
    BY <1>4 DEF CreateCached
  <2>2. PICK l \in Locators, k \in Keys : l = msg[t].loc /\ k = msg[t].key
    BY <2>0
  <2>3. mappings' = Mapped(l, k)
    BY <1>4, <2>2 DEF CreateCached
  <2>4. /\ mappings' \in Seq([loc : Locators, key : Keys])
        /\ UniqueLocator'
        /\ KeyAt(l)' = k
        /\ \A x \in Locators \ {l} : KeyAt(x)' = KeyAt(x)
    BY <2>3, MappedKeeps DEF RoutingInv
  <2>5. RoutesToLatest'
    BY <2>0, <2>1, <2>2, <2>4, OpenedType DEF RoutingInv, RoutesToLatest
  <2>6. ASSUME NEW u \in Threads \ {t} PROVE FoundOf(u)'
    <3>1. FoundOf(u) /\ pc'[u] = pc[u] /\ msg'[u] = msg[u] /\ found'[u] = found[u]
      BY <2>0, <2>6, HandledFound DEF RoutingInv
    <3>2. CASE pc[u] \in {"dispatch", "cache"}
      <4>1. PICK x \in Locators : x = msg[u].loc
        BY <3>1, <3>2, MessageType DEF FoundOf, Handling
      <4>2. x # l
        BY <2>0, <2>2, <3>1, <3>2, <4>1 DEF FoundOf, Handling
      <4>3. KeyAt(x)' = KeyAt(x)
        BY <2>4, <4>2
      <4> QED
        BY <3>1, <3>2, <4>1, <4>3 DEF FoundOf
    <3>3. CASE pc[u] \notin {"dispatch", "cache"}
      BY <3>1, <3>3 DEF FoundOf
    <3> QED
      BY <3>2, <3>3
  <2>7. RoutingInv'
    BY <2>0, <2>4, <2>5, <2>6, HandledFound DEF RoutingInv
  <2> QED
    BY <2>0, <2>1, <2>4, <2>7, HandledFound, OpenedType DEF TypeOK, MappingsType
<1>5. CASE CloseStart(t)
  <2>1. /\ pc[t] = "dispatch" /\ Known(t) \in Keys /\ msg[t] \in Messages
        /\ session' = [session EXCEPT ![Known(t)] = "disposed"]
        /\ pc' = [pc EXCEPT ![t] = "closing"]
        /\ found' = [found EXCEPT ![t] = Known(t)]
        /\ UNCHANGED <<mutex, mappings, bind, msg, obstacle, latest>>
    BY <1>5, KnownType DEF CloseStart
  <2>2. pc'[t] = "closing" /\ found'[t] = Known(t)
    BY <2>1 DEF TypeOK, MappingsType
  <2>3. FoundOf(t)'
    BY <1>0, <2>1, <2>2 DEF FoundOf, Handling
  <2>4. \A u \in Threads \ {t} : pc'[u] = pc[u] /\ found'[u] = found[u]
    BY <2>1 DEF TypeOK, MappingsType
  <2>5. RoutingInv'
    BY <2>1, <2>3, <2>4, RoutingKept
  <2> QED
    BY <2>1, <2>5 DEF TypeOK, MappingsType, Handling
<1>6. CASE CloseEnd(t)
  <2>1. /\ found[t] \in Keys /\ Handled(t)
        /\ UNCHANGED <<mutex, mappings, obstacle, latest>>
        /\ session' = [session EXCEPT ![found[t]] = "none"]
        /\ bind' = [bind EXCEPT ![found[t]] = None]
    BY <1>0, <1>6 DEF CloseEnd, FoundOf
  <2>2. RoutingInv'
    BY <2>1, HandledFound, RoutingKept
  <2> QED
    BY <2>1, <2>2, HandledFound DEF TypeOK, MappingsType
<1> QED
  BY <1>1, <1>2, <1>3, <1>4, <1>5, <1>6, <1>7 DEF Handle
-----------------------------------------------------------------------------
(* The end of the receive threads.  The argument: sem_thread_exit is given  *)
(* once, by the thread as its last act, and the main thread does not give a *)
(* transport a second thread.                                               *)

ThreadOf(t) ==
    /\ handle[t] # "thread" => pc[t] \notin Alive /\ sem[t] = 0
    /\ pc[t] \in Alive => sem[t] = 0
    /\ sem[t] <= 1

JoinInv ==
    /\ \A t \in Threads : ThreadOf(t)
    /\ main = "register" => \A t \in Threads : handle[t] = "none"
    /\ main = "listen" => \A i \in DOMAIN Transports :
                             i >= ix => handle[Transports[i]] = "none"

ServiceInv == TypeOK /\ RoutingInv /\ JoinInv

LEMMA RoutingSame ==
    ASSUME RoutingInv, UNCHANGED <<mappings, pc, msg, found, latest>>
    PROVE  RoutingInv'
  BY SameKeyAt DEF RoutingInv, UniqueLocator, RoutesToLatest, FoundOf

LEMMA JoinSame ==
    ASSUME JoinInv, UNCHANGED <<pc, handle, sem, ix>>,
           main' = main \/ main' \notin {"register", "listen"}
    PROVE  JoinInv'
  BY DEF JoinInv, ThreadOf

(* A thread that handles a message goes on handling it or returns to its    *)
(* loop.                                                                    *)
LEMMA HandlePc ==
    ASSUME TypeOK, NEW t \in Threads, Handle(t)
    PROVE  /\ pc[t] \in Alive /\ pc'[t] \in Alive
           /\ \A u \in Threads \ {t} : pc'[u] = pc[u]
<1>1. /\ pc[t] \in Handling
      /\ \/ pc' = [pc EXCEPT ![t] = "loop"]
         \/ pc' = [pc EXCEPT ![t] = "dispatch"]
         \/ pc' = [pc EXCEPT ![t] = "cache"]
         \/ pc' = [pc EXCEPT ![t] = "closing"]
  BY DEF Handle, Handled, Lookup, CreateRejected, CreateNew, CreateCached,
         CreateAgain, Deliver, CloseStart, CloseEnd, Handling
<1> QED
  BY <1>1 DEF TypeOK, MappingsType, Alive, Handling

(* A step of one thread that neither gives its semaphore nor ends. *)
LEMMA JoinKept ==
    ASSUME JoinInv, NEW t \in Threads, pc[t] \in Alive, pc'[t] \in Alive,
           \A u \in Threads \ {t} : pc'[u] = pc[u],
           UNCHANGED <<handle, sem, ix, main>>
    PROVE  JoinInv'
  BY DEF JoinInv, ThreadOf

LEMMA InitInv == Init => ServiceInv
<1> SUFFICES ASSUME Init PROVE ServiceInv
  OBVIOUS
<1>1. TypeOK
  BY ServiceAssumption, MappingsAssumption
     DEF Init, MappingsInit, TypeOK, MappingsType, ServiceType
<1>2. RoutingInv
  BY DEF Init, MappingsInit, RoutingInv, UniqueLocator, RoutesToLatest, FoundOf, Handling
<1>3. JoinInv
  BY DEF Init, MappingsInit, JoinInv, ThreadOf, Alive, Handling
<1> QED
  BY <1>1, <1>2, <1>3 DEF ServiceInv

(* Receive threads *)
LEMMA ThreadKeeps ==
    ASSUME ServiceInv, NEW t \in Threads,
           Thread(t) \/ ThreadReceive(t) \/ ThreadHandle(t)
    PROVE  ServiceInv'
<1> USE DEF ServiceInv
<1>0. FoundOf(t) /\ ThreadOf(t)
  BY DEF RoutingInv, JoinInv
<1>1. CASE ThreadStart(t) \/ ThreadLoop(t)
  <2>1. /\ pc[t] \in {"start", "loop"}
        /\ UNCHANGED <<mutex, mappings, session, bind, msg, found, obstacle, latest, mainVars,
                       ready, handle, active, wake, failures, running>>
        /\ \/ pc' = [pc EXCEPT ![t] = "recv"] /\ UNCHANGED sem
           \/ /\ pc' = [pc EXCEPT ![t] = "ended"]
              /\ sem' = [sem EXCEPT ![t] = @ + 1]
    BY <1>1 DEF ThreadStart, ThreadLoop
  <2>2. TypeOK'
    <3>1. MappingsType'
      BY <2>1 DEF TypeOK, MappingsType
    <3>2. sem' \in [Threads -> Nat]
      BY <2>1 DEF TypeOK, ServiceType
    <3>3. ServiceType'
      BY <2>1, <3>2 DEF TypeOK, ServiceType, mainVars
    <3> QED
      BY <3>1, <3>3 DEF TypeOK
  <2>3. /\ pc'[t] \in {"recv", "ended"}
        /\ \A u \in Threads \ {t} : pc'[u] = pc[u] /\ sem'[u] = sem[u]
        /\ pc'[t] = "recv" => sem'[t] = sem[t]
        /\ pc'[t] = "ended" => sem'[t] = sem[t] + 1
    BY <2>1 DEF TypeOK, MappingsType, ServiceType
  <2>4. FoundOf(t)'
    BY <1>0, <2>1, <2>3 DEF FoundOf, Handling
  <2>5. RoutingInv'
    BY <2>1, <2>3, <2>4, RoutingKept
  <2>6. ThreadOf(t)'
    BY <1>0, <2>1, <2>3 DEF ThreadOf, Alive, Handling
  <2>7. JoinInv'
    BY <2>1, <2>3, <2>6 DEF JoinInv, ThreadOf, mainVars
  <2> QED
    BY <2>2, <2>5, <2>7
<1>2. CASE ThreadWake(t)
  <2>1. /\ pc[t] = "recv" /\ pc' = [pc EXCEPT ![t] = "loop"]
        /\ wake' = [wake EXCEPT ![t] = FALSE]
        /\ UNCHANGED <<mutex, mappings, session, bind, msg, found, obstacle, latest, mainVars,
                       ready, handle, active, sem, failures, running>>
    BY <1>2 DEF ThreadWake
  <2>2. TypeOK'
    <3>1. MappingsType'
      BY <2>1 DEF TypeOK, MappingsType
    <3>2. wake' \in [Threads -> BOOLEAN]
      BY <2>1 DEF TypeOK, ServiceType
    <3>3. ServiceType'
      BY <2>1, <3>2 DEF TypeOK, ServiceType, mainVars
    <3> QED
      BY <3>1, <3>3 DEF TypeOK
  <2>3. pc'[t] = "loop" /\ \A u \in Threads \ {t} : pc'[u] = pc[u]
    BY <2>1 DEF TypeOK, MappingsType
  <2>4. FoundOf(t)'
    BY <1>0, <2>1, <2>3 DEF FoundOf, Handling
  <2>5. RoutingInv'
    BY <2>1, <2>3, <2>4, RoutingKept
  <2>6. JoinInv'
    BY <2>1, <2>3, JoinKept DEF mainVars, Alive
  <2> QED
    BY <2>2, <2>5, <2>6
<1>3. CASE ThreadReceive(t)
  <2>1. PICK m \in Messages : Receive(t, m)
    BY <1>3 DEF ThreadReceive
  <2>2. UNCHANGED <<mainVars, transVars, running>>
    BY <1>3 DEF ThreadReceive
  <2>3. TypeOK'
    BY <2>1, <2>2 DEF Receive, TypeOK, MappingsType, ServiceType, mainVars,
                      transVars, Handling
  <2>4. /\ pc[t] = "recv" /\ msg'[t] = m /\ found' = found /\ Home[m.loc] = t
        /\ pc'[t] = IF m.header = None THEN "lookup" ELSE "dispatch"
        /\ \A u \in Threads \ {t} : pc'[u] = pc[u] /\ msg'[u] = msg[u]
    BY <2>1 DEF Receive, TypeOK, MappingsType
  <2>5. FoundOf(t)'
    BY <1>0, <2>4 DEF FoundOf, Handling
  <2>6. RoutingInv'
    BY <2>1, <2>4, <2>5, RoutingKept DEF Receive
  <2>7. JoinInv'
    BY <2>2, <2>4, JoinKept DEF mainVars, transVars, Alive, Handling
  <2> QED
    BY <2>3, <2>6, <2>7
<1>4. CASE ThreadHandle(t)
  <2>1. Handle(t) /\ UNCHANGED <<mainVars, transVars, running>>
    BY <1>4 DEF ThreadHandle
  <2>2. MappingsType' /\ RoutingInv'
    BY <2>1, HandleKeeps
  <2>3. ServiceType'
    BY <2>1 DEF TypeOK, ServiceType, mainVars, transVars
  <2>4. JoinInv'
    BY <2>1, HandlePc, JoinKept DEF mainVars, transVars
  <2> QED
    BY <2>2, <2>3, <2>4 DEF TypeOK
<1> QED
  BY <1>1, <1>2, <1>3, <1>4 DEF Thread
(* Threads of the DDS agent, which change sessions only *)
LEMMA AgentKeeps ==
    ASSUME ServiceInv, NEW k \in Keys,
           Expire(k) \/ Clean(k) \/ CleanMissed(k) \/ CleanResources(k)
    PROVE  ServiceInv'
<1> USE DEF ServiceInv
<1>1. UNCHANGED <<mutex, mappings, pc, msg, found, latest, mainVars, transVars, running>>
  BY DEF Expire, Clean, CleanMissed, CleanResources
<1>2. session' \in [Keys -> {"none", "open", "expired", "disposed", "cleaned"}]
  BY DEF Expire, Clean, CleanMissed, CleanResources, TypeOK, MappingsType
<1>3. bind' \in [Keys -> Locators \cup {None}]
  BY DEF Expire, Clean, CleanMissed, CleanResources, TypeOK, MappingsType
<1>6. obstacle' \in [Keys -> {"none", "entry", "pass"}]
  BY DEF Expire, Clean, CleanMissed, CleanResources, TypeOK, MappingsType
<1>4. TypeOK'
  BY <1>1, <1>2, <1>3, <1>6 DEF TypeOK, MappingsType, ServiceType, mainVars, transVars
<1>5. RoutingInv' /\ JoinInv'
  BY <1>1, RoutingSame, JoinSame DEF mainVars, transVars
<1> QED
  BY <1>4, <1>5

(* The main thread while it starts the transports *)
LEMMA StartKeeps ==
    ASSUME ServiceInv, Register \/ Listen PROVE ServiceInv'
<1> USE DEF ServiceInv
<1>0. Current \in Threads /\ ix \in DOMAIN Transports /\ ix \in Nat
  BY CurrentIsThread, ServiceAssumption DEF TypeOK, ServiceType
<1>1. CASE Register
  <2>1. /\ main = "register"
        /\ UNCHANGED <<mapVars, at, handle, active, sem, wake, failures, running>>
        /\ \/ ready' = ready \cup {Current} /\ Advance("listen")
           \/ main' = "sessions" /\ ix' = 1 /\ UNCHANGED ready
    BY <1>1 DEF Register
  <2>2. ix' \in DOMAIN Transports /\ main' \in {"register", "listen", "sessions"}
    BY <2>1, AdvanceType, ServiceAssumption
  <2>3. TypeOK'
    BY <1>0, <2>1, <2>2 DEF TypeOK, MappingsType, ServiceType, mapVars
  <2>4. RoutingInv'
    BY <2>1, RoutingSame DEF mapVars
  <2>5. \A i \in DOMAIN Transports : handle[Transports[i]] = "none"
    BY <2>1, ServiceAssumption DEF JoinInv
  <2>6. JoinInv'
    BY <2>1, <2>2, <2>5 DEF JoinInv, ThreadOf, mapVars
  <2> QED
    BY <2>3, <2>4, <2>6
<1>2. CASE Listen
  <2>0. PICK c \in Threads : c = Current
    BY <1>0
  <2>1. PICK h \in {"thread", "none", "empty"} :
           /\ handle' = [handle EXCEPT ![c] = h]
           /\ pc' = [pc EXCEPT ![c] = IF h = "thread" THEN "start" ELSE @]
           /\ IF h = "none" THEN main' = "unwind" /\ ix' = 1 ELSE Advance("up")
    BY <1>2, <2>0 DEF Listen, SerialListens, UdpListens
  <2>2. /\ main = "listen" /\ active' = [active EXCEPT ![c] = TRUE]
        /\ UNCHANGED <<mutex, mappings, session, bind, msg, found, obstacle, latest,
                       at, ready, sem, wake, failures, running>>
    BY <1>2, <2>0 DEF Listen
  <2>3. ix' \in DOMAIN Transports /\ main' \in {"listen", "unwind", "up"}
    BY <2>1, <2>2, AdvanceType, ServiceAssumption
  <2>4. TypeOK'
    <3>1. MappingsType'
      BY <2>1, <2>2 DEF TypeOK, MappingsType
    <3>2. active' \in [Threads -> BOOLEAN]
      BY <2>2 DEF TypeOK, ServiceType
    <3>3. handle' \in [Threads -> {"none", "thread", "empty"}]
      BY <2>1 DEF TypeOK, ServiceType
    <3>4. ServiceType'
      BY <2>2, <2>3, <3>2, <3>3 DEF TypeOK, ServiceType
    <3> QED
      BY <3>1, <3>4 DEF TypeOK
  <2>5. handle[c] = "none" /\ sem[c] = 0 /\ pc[c] \notin Alive /\ FoundOf(c)
    BY <1>0, <2>0, <2>2 DEF JoinInv, ThreadOf, Current, RoutingInv
  <2>6. /\ handle'[c] = h
        /\ pc'[c] = IF h = "thread" THEN "start" ELSE pc[c]
        /\ \A u \in Threads \ {c} : handle'[u] = handle[u] /\ pc'[u] = pc[u]
    BY <2>1 DEF TypeOK, MappingsType, ServiceType
  <2>7. FoundOf(c)'
    BY <2>2, <2>5, <2>6 DEF FoundOf, Alive, Handling
  <2>8. RoutingInv'
    BY <2>2, <2>6, <2>7, RoutingKept
  <2>9. \A t \in Threads : ThreadOf(t)'
    BY <2>2, <2>5, <2>6 DEF JoinInv, ThreadOf
  <2>10. ASSUME main' = "listen", NEW i \in DOMAIN Transports, i >= ix'
         PROVE  handle'[Transports[i]] = "none"
    <3>1. ix' = ix + 1
      BY <2>1, <2>10 DEF Advance
    <3>2. i >= ix /\ i # ix /\ Transports[i] \in Threads
      BY <1>0, <2>10, <3>1, ServiceAssumption
    <3>3. Transports[i] # c
      BY <1>0, <2>0, <3>2, ServiceAssumption DEF Current
    <3> QED
      BY <2>2, <2>6, <3>2, <3>3 DEF JoinInv
  <2>11. JoinInv'
    BY <2>3, <2>9, <2>10 DEF JoinInv
  <2> QED
    BY <2>4, <2>8, <2>11
<1> QED
  BY <1>1, <1>2

(* The main thread while it closes the transports *)
LEMMA CloseKeeps ==
    ASSUME ServiceInv, Close \/ Join PROVE ServiceInv'
<1> USE DEF ServiceInv
<1>0. PICK c \in Threads : c = Current
  BY CurrentIsThread
<1>1. CASE Close
  <2>1. /\ main \in {"unwind", "close"}
        /\ active' = [active EXCEPT ![c] = FALSE]
        /\ UNCHANGED <<mapVars, at, ready, handle, sem, running>>
        /\ CloseUdp \/ CloseSerial
    BY <1>0, <1>1 DEF Close
  <2>2. /\ ix' \in DOMAIN Transports
        /\ main' \in {"unwind", "close", "closeJoin", "unwindJoin", "sessions"}
    BY <2>1, AdvanceType DEF CloseUdp, CloseSerial, JoinState, TypeOK, ServiceType
  <2>3. wake' \in [Threads -> BOOLEAN]
    BY <1>0, <2>1 DEF CloseUdp, CloseSerial, TypeOK, ServiceType
  <2>4. failures' \in 0..MaxFailures
    BY <2>1, ServiceAssumption DEF CloseUdp, CloseSerial, TypeOK, ServiceType
  <2>5. active' \in [Threads -> BOOLEAN]
    BY <2>1 DEF TypeOK, ServiceType
  <2>6. TypeOK'
    BY <2>1, <2>2, <2>3, <2>4, <2>5 DEF TypeOK, MappingsType, ServiceType, mapVars
  <2>7. RoutingInv'
    BY <2>1, RoutingSame DEF mapVars
  <2>8. JoinInv'
    BY <2>1, <2>2 DEF JoinInv, ThreadOf, mapVars
  <2> QED
    BY <2>6, <2>7, <2>8
<1>2. CASE Join
  <2>1. /\ sem[c] > 0
        /\ sem' = [sem EXCEPT ![c] = @ - 1]
        /\ handle' = [handle EXCEPT ![c] = "none"]
        /\ BackToClose("sessions")
        /\ UNCHANGED <<mapVars, at, ready, active, wake, failures, running>>
    BY <1>0, <1>2 DEF Join
  <2>2. ix' \in DOMAIN Transports /\ main' \in {"close", "unwind", "sessions"}
    BY <2>1, BackToCloseType
  <2>3. sem' \in [Threads -> Nat]
    BY <2>1 DEF TypeOK, ServiceType
  <2>4. TypeOK'
    BY <2>1, <2>2, <2>3 DEF TypeOK, MappingsType, ServiceType, mapVars
  <2>5. RoutingInv'
    BY <2>1, RoutingSame DEF mapVars
  <2>6. /\ sem'[c] = sem[c] - 1 /\ handle'[c] = "none"
        /\ \A u \in Threads \ {c} : sem'[u] = sem[u] /\ handle'[u] = handle[u]
        /\ sem[c] \in Nat
    BY <2>1 DEF TypeOK, ServiceType
  <2>7. ThreadOf(c)'
    BY <2>1, <2>6 DEF JoinInv, ThreadOf, mapVars
  <2>8. JoinInv'
    BY <2>1, <2>2, <2>6, <2>7 DEF JoinInv, ThreadOf, mapVars
  <2> QED
    BY <2>4, <2>5, <2>8
<1> QED
  BY <1>1, <1>2

(* The main thread from a signal on, and as it takes the sessions and the   *)
(* server down                                                              *)
LEMMA EndKeeps ==
    ASSUME ServiceInv,
           \/ Signal \/ AwaitLost \/ Await \/ StopServer \/ Free
           \/ \E k \in Keys : DisposeNext(k)
    PROVE  ServiceInv'
<1> USE DEF ServiceInv
<1>1. /\ UNCHANGED <<mutex, mappings, pc, msg, found, obstacle, latest, handle,
                     active, sem, wake, failures>>
      /\ ix' \in {ix, 1}
      /\ main' \in {"close", "free", "sessions", "server", "done", "await"}
      /\ ready' \in {ready, {}} /\ running' \in {running, FALSE}
      /\ at' \in Keys \cup {at, None}
  BY DEF Signal, AwaitLost, Await, StopServer, Free, DisposeNext, mapVars, transVars
<1>2. ix' \in DOMAIN Transports
  BY <1>1, ServiceAssumption DEF TypeOK, ServiceType
<1>3. session' \in [Keys -> {"none", "open", "expired", "disposed", "cleaned"}]
  BY DEF Signal, AwaitLost, Await, StopServer, Free, DisposeNext, mapVars, TypeOK,
         MappingsType
<1>4. bind' \in [Keys -> Locators \cup {None}]
  BY DEF Signal, AwaitLost, Await, StopServer, Free, DisposeNext, mapVars, TypeOK,
         MappingsType
<1>5. MappingsType'
  BY <1>1, <1>3, <1>4 DEF TypeOK, MappingsType
<1>6. ServiceType'
  BY <1>1, <1>2 DEF TypeOK, ServiceType
<1>7. RoutingInv'
  BY <1>1, RoutingSame
<1>8. JoinInv'
  BY <1>1 DEF JoinInv, ThreadOf
<1> QED
  BY <1>5, <1>6, <1>7, <1>8 DEF TypeOK

LEMMA NextInv == ServiceInv /\ [Next]_vars => ServiceInv'
<1> SUFFICES ASSUME ServiceInv, [Next]_vars PROVE ServiceInv'
  OBVIOUS
<1>1. CASE MainStep \/ Signal \/ AwaitLost
  BY <1>1, StartKeeps, CloseKeeps, EndKeeps DEF MainStep
<1>2. CASE \E t \in Threads : Thread(t) \/ ThreadReceive(t) \/ ThreadHandle(t)
  BY <1>2, ThreadKeeps
<1>3. CASE \E k \in Keys :
              Expire(k) \/ Clean(k) \/ CleanMissed(k) \/ CleanResources(k)
  BY <1>3, AgentKeeps
<1>4. CASE UNCHANGED vars
  <2>1. UNCHANGED <<mapVars, mainVars, transVars, running>>
    BY <1>4 DEF vars
  <2>2. TypeOK'
    BY <2>1 DEF ServiceInv, TypeOK, MappingsType, ServiceType, mapVars, mainVars,
                transVars
  <2>3. RoutingInv' /\ JoinInv'
    BY <2>1, RoutingSame, JoinSame DEF ServiceInv, mapVars, mainVars, transVars
  <2> QED
    BY <2>2, <2>3 DEF ServiceInv
<1> QED
  BY <1>1, <1>2, <1>3, <1>4 DEF Next

(* The inductive invariant of the service holds in every reachable state. *)
THEOREM Invariance == Spec => []ServiceInv
  BY InitInv, NextInv, PTL DEF Spec

(* Every reachable state is well typed: the main thread never runs past the *)
(* transports that were registered, and a thread never finds a key that     *)
(* nobody has.                                                              *)
THEOREM TypeCorrect == Spec => []TypeOK
<1>1. ServiceInv => TypeOK
  BY DEF ServiceInv
<1> QED
  BY <1>1, Invariance, PTL

(* client_mappings has one entry per locator. *)
THEOREM OneEntry == Spec => []UniqueLocator
<1>1. ServiceInv => UniqueLocator
  BY DEF ServiceInv, RoutingInv
<1> QED
  BY <1>1, Invariance, PTL

(* A message without a key reaches the session that the last CREATE_CLIENT  *)
(* from its locator opened, on any number of transports.                    *)
THEOREM LatestIsRouted == Spec => []RoutesToLatest
<1>1. ServiceInv => RoutesToLatest
  BY DEF ServiceInv, RoutingInv
<1> QED
  BY <1>1, Invariance, PTL

(* A receive thread the main thread has given up has ended. *)
THEOREM ThreadsEnd == Spec => []JoinedThreadEnded
<1>1. ServiceInv => JoinedThreadEnded
  BY DEF ServiceInv, JoinInv, ThreadOf, JoinedThreadEnded
<1> QED
  BY <1>1, Invariance, PTL
==============================================================================
