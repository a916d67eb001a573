--------------------------- MODULE ClientMappings ---------------------------
(***************************************************************************)
(* How the XRCE agent finds the session a message belongs to.  A message   *)
(* carries its client's key in its header or not at all; the key of a      *)
(* message without one is the key last mapped to the locator it came from  *)
(* (client_mappings), an array the receive threads share under             *)
(* mappings_mutex.  This module holds the handling of one message by a     *)
(* receive thread; AgentService adds the threads, their start and end.     *)
(***************************************************************************)
EXTENDS Naturals, Sequences

CONSTANTS
    Threads,        \* receive threads, one per transport
    Locators,       \* addresses of clients
    Home,           \* the transport a locator belongs to
    Keys,           \* client keys
    None,           \* no key, locator or thread
    AutoMapping,    \* props.auto_client_mapping
    Faults          \* faults that may happen

ASSUME MappingsAssumption ==
    /\ Home \in [Locators -> Threads]
    /\ AutoMapping \in BOOLEAN
    /\ None \notin Threads \cup Locators \cup Keys

VARIABLES
    mutex,      \* thread that has taken mappings_mutex, between two steps
    mappings,   \* client_mappings, an array of locators and keys
    session,    \* sessions table of the DDS agent, by client key
    bind,       \* bind_entry.locator of the session's client
    pc,         \* what a receive thread is doing
    msg,        \* the message it handles
    found,      \* key of the mapping it found, or of the session it closes
    obstacle,   \* what keeps a session from being finalized
    latest      \* history: key of the session that the last CREATE_CLIENT from a
                \* locator opened; none if it opened no session of its own

mapVars == <<mutex, mappings, session, bind, pc, msg, found, obstacle, latest>>

\* only CREATE_CLIENT has the key of its client in its payload
Messages ==
    [loc : Locators, header : Keys \cup {None}, key : Keys, kind : {"create"}]
    \cup [loc : Locators, header : Keys \cup {None}, key : {None},
          kind : {"data", "delete"}]
NoMessage == [loc |-> None, header |-> None, key |-> None, kind |-> "none"]

Handling == {"lookup", "dispatch", "cache", "closing"}

MappingsType ==
    /\ mutex \in Threads \cup {None}
    /\ mappings \in Seq([loc : Locators, key : Keys])
    /\ session \in [Keys -> {"none", "open", "expired", "disposed", "cleaned"}]
    /\ bind \in [Keys -> Locators \cup {None}]
    /\ pc \in [Threads -> {"none", "start", "loop", "recv", "ended"} \cup Handling]
    /\ msg \in [Threads -> Messages \cup {NoMessage}]
    /\ found \in [Threads -> Keys \cup {None}]
    /\ obstacle \in [Keys -> {"none", "entry", "pass"}]
    /\ latest \in [Locators -> Keys \cup {None}]

MappingsInit ==
    /\ mutex = None
    /\ mappings = <<>>
    /\ session = [k \in Keys |-> "none"]
    /\ bind = [k \in Keys |-> None]
    /\ pc = [t \in Threads |-> "none"]
    /\ msg = [t \in Threads |-> NoMessage]
    /\ found = [t \in Threads |-> None]
    /\ obstacle = [k \in Keys |-> "none"]
    /\ latest = [l \in Locators |-> None]
-----------------------------------------------------------------------------
(* Helpers.  A definition whose comment starts with "Mutant" plants a bug in *)
(* the one that follows it, to show that a property notices; nothing else   *)
(* uses it.                                                                 *)

Places(l) == {i \in DOMAIN mappings : mappings[i].loc = l}
First(l) == CHOOSE i \in Places(l) : \A j \in Places(l) : i <= j

\* NANO_XRCE_Agent_find_client_locator_mapping: the first match
KeyAt(l) == IF Places(l) = {} THEN None ELSE mappings[First(l)].key

\* Mutant: a mapping is added without another look at the array
AddedMapping(l, k) == Append(mappings, [loc |-> l, key |-> k])

\* on_session_opened: the entry of the locator is overwritten, or a new one added
Mapped(l, k) ==
    IF Places(l) = {} THEN Append(mappings, [loc |-> l, key |-> k])
                      ELSE [mappings EXCEPT ![First(l)].key = k]

\* the key known before the payload is looked at
Known(t) == IF msg[t].header # None THEN msg[t].header ELSE found[t]

\* NANO_XRCE_Agent_deserialize_client_repr
KeyChanged(t) == Known(t) # None /\ Known(t) # msg[t].key

\* Mutant: a mapping to another key is left alone
CacheMissing(t) == found[t] = None

\* client->cache_mapping: a message with a key in its header has no mapping
CacheMapping(t) == found[t] = None \/ KeyChanged(t)

\* on_session_opened runs with the record of the session locked
Locked(k) == \E t \in Threads : pc[t] = "cache" /\ msg[t].key = k

\* what sending the reply to CREATE_CLIENT may return
Replies == IF "send" \in Faults THEN BOOLEAN ELSE {TRUE}

\* the thread returns from on_message_received
Handled(t) ==
    /\ pc' = [pc EXCEPT ![t] = "loop"]
    /\ msg' = [msg EXCEPT ![t] = NoMessage]
    /\ found' = [found EXCEPT ![t] = None]

(* The end of on_session_opened.  When the reply cannot be sent the session *)
(* is not opened and its client is freed.                                   *)
Opened(t, ok) ==
    /\ session' = [session EXCEPT ![msg[t].key] = IF ok THEN "open" ELSE "none"]
    /\ bind' = [bind EXCEPT ![msg[t].key] = IF ok THEN msg[t].loc ELSE None]
    /\ latest' = [latest EXCEPT ![msg[t].loc] = IF ok THEN msg[t].key ELSE None]
-----------------------------------------------------------------------------
(* Receive threads *)

\* NANO_XRCE_Agent_receive_message up to the look-up of the mapping
Receive(t, m) ==
    /\ pc[t] = "recv" /\ Home[m.loc] = t
    /\ pc' = [pc EXCEPT ![t] = IF m.header = None THEN "lookup" ELSE "dispatch"]
    /\ msg' = [msg EXCEPT ![t] = m]
    /\ UNCHANGED <<mutex, mappings, session, bind, found, obstacle, latest>>

\* Mutant: the mutex is given back only where a mapping was found
LookupKeeps(t) ==
    /\ pc[t] = "lookup" /\ mutex \in {None, t}
    /\ found' = [found EXCEPT ![t] = KeyAt(msg[t].loc)]
    /\ pc' = [pc EXCEPT ![t] = "dispatch"]
    /\ mutex' = IF KeyAt(msg[t].loc) = None THEN t ELSE mutex
    /\ UNCHANGED <<mappings, session, bind, msg, obstacle, latest>>

(* The look-up of a message without a key.  Without automatic mapping the   *)
(* function returns before it gives the mutex back; the mutex is recursive, *)
(* so its owner goes on taking it.                                          *)
Lookup(t) ==
    /\ pc[t] = "lookup" /\ mutex \in {None, t}
    /\ IF KeyAt(msg[t].loc) = None /\ ~AutoMapping
       THEN mutex' = t /\ Handled(t)
       ELSE /\ found' = [found EXCEPT ![t] = KeyAt(msg[t].loc)]
            /\ pc' = [pc EXCEPT ![t] = "dispatch"]
            /\ UNCHANGED <<mutex, msg>>
    /\ UNCHANGED <<mappings, session, bind, obstacle, latest>>

\* process_create_client: the header has one key and the payload another
CreateRejected(t) ==
    /\ pc[t] = "dispatch" /\ msg[t].kind = "create"
    /\ msg[t].header # None /\ KeyChanged(t)
    /\ Handled(t)
    /\ UNCHANGED <<mutex, mappings, session, bind, obstacle, latest>>

(* process_create_client and NDDSA_Agent_open_session, where there is no    *)
(* session of the key.                                                      *)
CreateNew(t) ==
    /\ pc[t] = "dispatch" /\ msg[t].kind = "create"
    /\ ~(msg[t].header # None /\ KeyChanged(t))
    /\ ~Locked(msg[t].key) /\ session[msg[t].key] = "none"
    /\ \/ /\ CacheMapping(t)
          /\ pc' = [pc EXCEPT ![t] = "cache"]
          /\ UNCHANGED <<session, bind, latest, msg, found>>
       \/ /\ ~CacheMapping(t)
          /\ \E ok \in Replies : Opened(t, ok)
          /\ Handled(t)
    /\ UNCHANGED <<mutex, mappings, obstacle>>

\* on_session_opened, for a client whose mapping is to be cached
CreateCached(t) ==
    /\ pc[t] = "cache" /\ mutex \in {None, t}
    /\ mappings' = Mapped(msg[t].loc, msg[t].key)
    /\ \E ok \in Replies : Opened(t, ok)
    /\ Handled(t)
    /\ UNCHANGED <<mutex, obstacle>>

(* NDDSA_Agent_open_session, where there is a session: on_session_reset     *)
(* keeps the client there was, with the locator it is bound to, neither     *)
(* uses nor frees the new one and stores no mapping; a session that is not  *)
(* active refuses.                                                          *)
CreateAgain(t) ==
    /\ pc[t] = "dispatch" /\ msg[t].kind = "create"
    /\ ~(msg[t].header # None /\ KeyChanged(t))
    /\ ~Locked(msg[t].key) /\ session[msg[t].key] # "none"
    /\ latest' = [latest EXCEPT ![msg[t].loc] =
                    IF session[msg[t].key] = "open" /\ @ # msg[t].key THEN None ELSE @]
    /\ Handled(t)
    /\ UNCHANGED <<mutex, mappings, session, bind, obstacle>>

(* D2S2_Agent_receive_message for the session of the key, if there are      *)
(* both.  What the message does there is left to the other modules, but for *)
(* this: DELETE of an object leaves an entry in the list of the session     *)
(* which cannot be detached when the session is finalized.                  *)
Deliver(t) ==
    /\ pc[t] = "dispatch" /\ msg[t].kind # "create"
    /\ Known(t) # None => /\ ~Locked(Known(t))
                          /\ msg[t].kind = "delete" => session[Known(t)] # "open"
    /\ \/ UNCHANGED obstacle
       \/ /\ msg[t].kind = "data" /\ Known(t) # None /\ session[Known(t)] = "open"
          /\ obstacle' = [obstacle EXCEPT ![Known(t)] = "entry"]
    /\ Handled(t)
    /\ UNCHANGED <<mutex, mappings, session, bind, latest>>

\* DELETE of the client object: NDDSA_Agent_close_session, up to its wait
CloseStart(t) ==
    /\ pc[t] = "dispatch" /\ msg[t].kind = "delete"
    /\ Known(t) # None /\ ~Locked(Known(t)) /\ session[Known(t)] = "open"
    /\ session' = [session EXCEPT ![Known(t)] = "disposed"]
    /\ pc' = [pc EXCEPT ![t] = "closing"]
    /\ found' = [found EXCEPT ![t] = Known(t)]
    /\ UNCHANGED <<mutex, mappings, bind, msg, obstacle, latest>>

\* ... and from there; the mapping stays
CloseEnd(t) ==
    /\ pc[t] = "closing" /\ session[found[t]] = "cleaned"
    /\ session' = [session EXCEPT ![found[t]] = "none"]
    /\ bind' = [bind EXCEPT ![found[t]] = None]
    /\ Handled(t)
    /\ UNCHANGED <<mutex, mappings, obstacle, latest>>

\* the rest of the handling of a message, which waits for nobody outside
Handle(t) ==
    \/ Lookup(t) \/ CreateRejected(t) \/ CreateNew(t) \/ CreateCached(t)
    \/ CreateAgain(t) \/ Deliver(t) \/ CloseStart(t) \/ CloseEnd(t)
-----------------------------------------------------------------------------
(* Properties *)

(* The array of mappings has one entry per locator, although sessions are   *)
(* opened from a locator again and again, with and without a key in the     *)
(* header, and the mapping may be missing when it is looked up but not when *)
(* it is stored: find_client_locator_mapping would only ever see the first. *)
UniqueLocator ==
    \A i, j \in DOMAIN mappings : mappings[i].loc = mappings[j].loc => i = j

(* A message without a key reaches the session that the last CREATE_CLIENT  *)
(* from its locator opened, whoever was mapped to the locator before,       *)
(* whether or not that client's own messages carry a key, and also after    *)
(* the client has reset its session from there.  Nothing is promised where  *)
(* the last CREATE_CLIENT opened no session: a client that resets from a    *)
(* locator the session it opened from another one gets no mapping there     *)
(* (AgentIntf.c:315), and one whose reply failed has taken the mapping of   *)
(* the client before it (AgentIntf.c:246).                                  *)
RoutesToLatest ==
    \A l \in Locators : latest[l] # None => KeyAt(l) = latest[l]
=============================================================================
