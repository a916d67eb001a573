---------------------------- MODULE MCSessions ----------------------------
(* Instances of ClientSessions for TLC. *)
EXTENDS ClientSessions

CONSTANTS k1, k2, w1, w2

\* one client reached over two transports
OneKeyTwoWorkers == {<<k1, w1>>, <<k1, w2>>}
\* one client over one transport
OneKeyOneWorker == {<<k1, w1>>}
\* two clients, each over a transport of its own
EachItsOwn == {<<k1, w1>>, <<k2, w2>>}
============================================================================
