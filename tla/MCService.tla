----------------------------- MODULE MCService -----------------------------
(* Instances of AgentService for TLC. *)
EXTENDS AgentService, TLC

CONSTANTS udp, serial, u1, s1

\* a client over UDP and one over the serial line
OneAndOne == [l \in {u1, s1} |-> IF l = s1 THEN serial ELSE udp]
\* the order of NANO_AgentDaemon_initialize_xrce
UdpFirst == <<udp, serial>>
\* nothing tells the clients' keys apart
KeySymmetry == Permutations(Keys)
============================================================================
