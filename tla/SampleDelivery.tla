--------------------------- MODULE SampleDelivery ---------------------------
(***************************************************************************)
(* What a client that reads from a DataReader is promised: samples of the  *)
(* reader, none twice, in the order in which the reader received them.     *)
(* Samples may be left out (the client was not reading when they came).    *)
(***************************************************************************)
EXTENDS Naturals, Sequences

CONSTANT Sessions

VARIABLES
    received,    \* samples received by the reader
    delivered    \* the batches of samples sent to each client

Init ==
    /\ received = 0
    /\ delivered = [s \in Sessions |-> <<>>]

Receive ==
    /\ received' = received + 1
    /\ UNCHANGED delivered

\* a batch, sent in ascending order, that goes on after what was sent before
Deliver(s) ==
    /\ \E batch \in SUBSET (1..received) :
          /\ \A i \in DOMAIN delivered[s] :
                \A n \in batch, m \in delivered[s][i] : n > m
          /\ delivered' = [delivered EXCEPT ![s] = Append(@, batch)]
    /\ UNCHANGED received

Next == Receive \/ \E s \in Sessions : Deliver(s)

Spec == Init /\ [][Next]_<<received, delivered>>
=============================================================================
