-------------------------- MODULE ClientLifecycle --------------------------
(***************************************************************************)
(* What becomes of the client objects (NANO_XRCE_ProxyClient), whatever    *)
(* thread it is that ends a session: a client is made for every session of *)
(* a key in turn, is disposed once, by its own DELETE or because it fell   *)
(* silent, and only then freed, once.  A DELETE it asked for is answered   *)
(* as it is freed; if it cannot be, the client is never freed.             *)
(***************************************************************************)
EXTENDS Naturals

CONSTANTS
    Keys,       \* keys of clients
    Gens        \* numbers of their sessions

VARIABLES
    proxy,      \* [Keys -> [Gens -> {"none", "live", "freed", "leaked"}]]
    disposed,   \* <<k, g>>: the client is disposed
    request     \* <<k, g>>: its DELETE waits for an answer

Init ==
    /\ proxy = [k \in Keys |-> [g \in Gens |-> "none"]]
    /\ disposed = {}
    /\ request = {}

Is(c, state) == proxy[c[1]][c[2]] = state
Becomes(c, state) == proxy' = [proxy EXCEPT ![c[1]][c[2]] = state]

\* the next session of a key
Open(c) ==
    /\ \A g \in Gens : proxy[c[1]][g] = "none" <=> g >= c[2]
    /\ Becomes(c, "live")
    /\ UNCHANGED <<disposed, request>>

\* the client asks for its deletion, or has timed out
Dispose(c) ==
    /\ Is(c, "live") /\ c \notin disposed
    /\ disposed' = disposed \cup {c}
    /\ request' \in {request, request \cup {c}}
    /\ UNCHANGED proxy

\* the session has ended, and a pending DELETE is answered
Close(c) ==
    /\ Is(c, "live") /\ c \in disposed
    /\ \/ Becomes(c, "freed")
       \/ c \in request /\ Becomes(c, "leaked")
    /\ request' = request \ {c}
    /\ UNCHANGED disposed

Next == \E c \in Keys \X Gens : Open(c) \/ Dispose(c) \/ Close(c)

Spec == Init /\ [][Next]_<<proxy, disposed, request>>
=============================================================================
