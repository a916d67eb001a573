--------------------------- MODULE RequestsProofs ---------------------------
(***************************************************************************)
(* Proofs about XrceRequests, for every number of request buffers and      *)
(* every set of faults.                                                    *)
(***************************************************************************)
EXTENDS XrceRequests, TLAPS

Samples == <<"write", "samples">>
Outcomes == {"sent", "lost", "none"}

\* the handler has come to the end of on_submsg
Ending == pc \in {"done", "released"}

(* What is known of one request at any time: its replies are true, its      *)
(* reply buffer is there as long as a reply is owed and no longer, and if   *)
(* nobody has it any more, it is in the pool or a READ.                     *)
RequestOf(r) ==
    LET q == req[r] IN
    /\ q.answers \in {<<>>, <<"ok">>, <<"error">>, <<"lost">>}
    /\ q.answers # <<>> => ~q.reply
    /\ q.answers = <<"ok">> /\ q.op # Samples => q.carried
    /\ q.answers = <<"error">> => ~q.carried
    /\ q.mbuf => q.reliable /\ (q.reply \/ r = dispose)
    /\ Owes(r) /\ q.reliable => q.mbuf
    /\ r = dispose => q.answers = <<>> /\ ~q.carried /\ ~q.reply
    /\ r = cur /\ pc = "handle" =>
          /\ q.answers = <<>> /\ ~q.carried
          /\ q.op[1] \in {"create", "delete"} => q.reply
    /\ r = cur /\ Ending /\ q.reply =>
          IF rc THEN q.carried \/ q.op = Samples ELSE ~q.carried
    /\ r # cur /\ q.op[1] # "read" => r = dispose \/ (pool[r] = 1 /\ ~q.mbuf)

(* Who has which buffer. *)
OwnersInv ==
    /\ pc = "idle" <=> cur = None
    /\ closed => disposed /\ dispose = None /\ pc = "idle"
    /\ dispose # None => disposed
    /\ pc = "handle" => ~disposed
    /\ Ending => (dispose = cur <=> req[cur].op = <<"delete", "client">>)
    /\ reader.req = cur /\ cur # None =>
          Ending /\ rc /\ req[cur].op[1] = "read"
    /\ dispose # None => dispose # reader.req
    /\ \A r \in Requests : pool[r] \in {0, 1}
    /\ \A r \in {reader.req, dispose} \cap Requests : pool[r] = 0
    /\ pc = "handle" => pool[cur] = 0
    /\ Ending => pool[cur] = IF rc /\ req[cur].op[1] = "write" THEN 1 ELSE 0

RequestsInv == TypeOK /\ OwnersInv /\ \A r \in Requests : RequestOf(r)

USE DEF Ending

(* What a reply does to a request. *)
LEMMA AnsweredIs ==
    ASSUME NEW q \in RequestType, NEW status \in {"ok", "error"}, NEW o \in Outcomes
    PROVE  LET a == Answered(q, status, o) IN
           /\ a \in RequestType
           /\ a.op = q.op /\ a.reliable = q.reliable /\ a.carried = q.carried
           /\ o = "none" => a = q
           /\ o # "none" => ~a.reply /\ ~a.mbuf
           /\ o # "none" /\ q.answers = <<>> =>
                 a.answers = IF o = "sent" THEN <<status>> ELSE <<"lost">>
<1>1. CASE o = "none"
  BY <1>1 DEF Answered
<1>2. CASE o # "none"
  <2> DEFINE x == IF o = "sent" THEN status ELSE "lost"
             a == Answered(q, status, o)
  <2>1. x \in {"ok", "error", "lost"}
    BY DEF Outcomes
  <2>2. a = [q EXCEPT !.answers = Append(@, x), !.reply = FALSE, !.mbuf = FALSE]
    BY <1>2 DEF Answered
  <2>3. Append(q.answers, x) \in Seq({"ok", "error", "lost"})
    BY <2>1 DEF RequestType
  <2>4. q.answers = <<>> => Append(q.answers, x) = <<x>>
    OBVIOUS
  <2>5. /\ a.answers = Append(q.answers, x) /\ ~a.reply /\ ~a.mbuf
        /\ a.op = q.op /\ a.reliable = q.reliable /\ a.carried = q.carried
    BY <2>2 DEF RequestType
  <2>6. a \in RequestType
    BY <2>2, <2>3 DEF RequestType
  <2> QED
    BY <1>2, <2>4, <2>5, <2>6
<1> QED
  BY <1>1, <1>2

(* ... and a success. *)
LEMMA SucceededIs ==
    ASSUME NEW q \in RequestType, NEW o \in Outcomes
    PROVE  LET a == Succeeded(q, o) IN
           /\ a \in RequestType
           /\ a.op = q.op /\ a.reliable = q.reliable /\ a.carried
           /\ o = "none" => a.reply = q.reply /\ a.mbuf = q.mbuf /\ a.answers = q.answers
           /\ o # "none" => ~a.reply /\ ~a.mbuf
           /\ o # "none" /\ q.answers = <<>> =>
                 a.answers = IF o = "sent" THEN <<"ok">> ELSE <<"lost">>
<1> DEFINE b == Answered(q, "ok", o)
<1>1. /\ b \in RequestType
      /\ b.op = q.op /\ b.reliable = q.reliable
      /\ o = "none" => b = q
      /\ o # "none" => ~b.reply /\ ~b.mbuf
      /\ o # "none" /\ q.answers = <<>> =>
            b.answers = IF o = "sent" THEN <<"ok">> ELSE <<"lost">>
  BY AnsweredIs
<1> HIDE DEF b
<1>2. [b EXCEPT !.carried = TRUE] \in RequestType
  BY <1>1 DEF RequestType
<1>3. LET a == [b EXCEPT !.carried = TRUE] IN
      /\ a.op = b.op /\ a.reliable = b.reliable /\ a.carried
      /\ a.reply = b.reply /\ a.mbuf = b.mbuf /\ a.answers = b.answers
  BY <1>1 DEF RequestType
<1>4. Succeeded(q, o) = [b EXCEPT !.carried = TRUE]
  BY DEF Succeeded, b
<1> QED
  BY <1>1, <1>2, <1>3, <1>4

(* A reply on a reliable stream has a buffer to be sent in. *)
LEMMA SendsIs ==
    ASSUME NEW r \in Requests, NEW o \in Sends(r)
    PROVE  o \in Outcomes /\ (o = "none" => ~req[r].reliable)
  BY DEF Sends, Outcomes

(* What is returned to the pool. *)
LEMMA ReturnIs ==
    ASSUME TypeOK, NEW r \in Requests \cup {None}
    PROVE  /\ Return(r) \in [Requests -> Nat]
           /\ \A q \in Requests : Return(r)[q] = IF q = r THEN pool[q] + 1 ELSE pool[q]
  BY DEF TypeOK, Return

(* A request that a step does not touch. *)
LEMMA Untouched ==
    ASSUME NEW r \in Requests, RequestOf(r), r # cur, r # cur',
           req'[r] = req[r], pool'[r] = pool[r], r = dispose' <=> r = dispose
    PROVE  RequestOf(r)'
  BY DEF RequestOf, Owes
(* The request that is handled. *)
LEMMA CurrentIs ==
    ASSUME RequestsInv, pc # "idle"
    PROVE  cur \in Requests /\ req[cur] \in RequestType /\ RequestOf(cur)
  BY DEF RequestsInv, TypeOK, OwnersInv

LEMMA InitInv == Init => RequestsInv
<1> SUFFICES ASSUME Init PROVE RequestsInv
  OBVIOUS
<1>1. Unused \in RequestType
  BY DEF Unused, RequestType, Operations
<1>2. TypeOK
  BY <1>1 DEF Init, TypeOK, ReaderType
<1>3. OwnersInv
  BY RequestsAssumption DEF Init, OwnersInv
<1>4. ASSUME NEW r \in Requests PROVE RequestOf(r)
  BY RequestsAssumption DEF Init, RequestOf, Owes, Unused, Samples
<1> QED
  BY <1>2, <1>3, <1>4 DEF RequestsInv
-----------------------------------------------------------------------------
(* A handler that goes on to the end of on_submsg, but for those of READ    *)
(* and of the client's own DELETE.                                          *)
LEMMA FinishKeeps ==
    ASSUME RequestsInv, pc = "handle", NEW c \in Requests, c = cur,
           NEW q \in RequestType, q.op = req[c].op, q.op # <<"delete", "client">>,
           NEW ok \in BOOLEAN, Ending', rc' = ok, leftover' \in BOOLEAN,
           req' = [req EXCEPT ![c] = q],
           pool' = IF ok /\ q.op[1] = "write" THEN Return(c) ELSE pool,
           reader' \in ReaderType, reader'.req \in {reader.req, None},
           UNCHANGED <<cur, disposed, dispose, closed>>,
           RequestOf(c)'
    PROVE  RequestsInv'
<1> USE DEF RequestsInv
<1>1. TypeOK'
  BY ReturnIs DEF TypeOK, Finish
<1>2. req'[c] = q /\ \A r \in Requests \ {c} : req'[r] = req[r]
  BY DEF TypeOK
<1>3. /\ pool'[c] = IF ok /\ q.op[1] = "write" THEN 1 ELSE 0
      /\ \A r \in Requests \ {c} : pool'[r] = pool[r]
  BY ReturnIs DEF OwnersInv
<1>4. ASSUME NEW r \in Requests \ {c} PROVE RequestOf(r)'
  BY <1>2, <1>3, Untouched
<1>5. dispose = None /\ reader.req # c /\ c # None
  BY RequestsAssumption DEF OwnersInv
<1>6. OwnersInv'
  BY <1>2, <1>3, <1>5 DEF OwnersInv, Finish
<1> QED
  BY <1>1, <1>4, <1>6

LEMMA FailKeeps ==
    ASSUME RequestsInv, Fail PROVE RequestsInv'
<1> USE DEF RequestsInv
<1>1. PICK c \in Requests : c = cur
  BY CurrentIs DEF Fail
<1>2. PICK q \in RequestType : q = req[c]
  BY DEF TypeOK
<1>3. req' = [req EXCEPT ![c] = q]
  BY <1>2 DEF Fail, TypeOK
<1>4. RequestOf(c)'
  BY <1>1 DEF RequestOf, Owes, Fail, Finish
<1>5. PICK ok \in BOOLEAN : ok = FALSE
  OBVIOUS
<1>6. /\ pc = "handle" /\ Ending' /\ rc' = ok /\ leftover' \in BOOLEAN
      /\ q.op = req[c].op /\ q.op # <<"delete", "client">>
      /\ pool' = IF ok /\ q.op[1] = "write" THEN Return(c) ELSE pool
      /\ reader' \in ReaderType /\ reader'.req \in {reader.req, None}
      /\ UNCHANGED <<cur, disposed, dispose, closed>>
  BY <1>1, <1>2, <1>5 DEF Fail, Finish, TypeOK
<1> QED
  BY <1>1, <1>3, <1>4, <1>6, FinishKeeps

LEMMA CreateKeeps ==
    ASSUME RequestsInv, Create PROVE RequestsInv'
<1> USE DEF RequestsInv
<1>1. PICK c \in Requests : c = cur /\ pc = "handle" /\ req[c].op[1] = "create"
  BY CurrentIs DEF Create, Handles
<1>2. /\ NewReader \in ReaderType /\ NewReader.req = None
      /\ DetachedReader \in ReaderType /\ DetachedReader.req = reader.req
  BY DEF NewReader, DetachedReader, ReaderType, TypeOK
<1>3. PICK o \in Outcomes :
         /\ o \in Sends(c) \/ o = "none"
         /\ req' = [req EXCEPT ![c] = IF o = "sent" THEN Succeeded(@, o)
                                                   ELSE Answered(@, "ok", o)]
         /\ reader' \in {reader, NewReader, DetachedReader}
         /\ Finish(o = "sent")
  BY <1>1, SendsIs DEF Create, Outcomes
<1>4. req[c] \in RequestType /\ RequestOf(c) /\ req[c].op # <<"delete", "client">>
  BY <1>1 DEF TypeOK
<1>5. PICK q \in RequestType :
         q = IF o = "sent" THEN Succeeded(req[c], o) ELSE Answered(req[c], "ok", o)
  BY <1>4, AnsweredIs, SucceededIs
<1>6. /\ q.op = req[c].op /\ q.reliable = req[c].reliable
      /\ o = "none" => q = req[c]
      /\ o # "none" => ~q.reply /\ ~q.mbuf /\ q.answers = IF o = "sent" THEN <<"ok">> ELSE <<"lost">>
      /\ q.carried <=> o = "sent"
  <2>1. req[c].answers = <<>> /\ ~req[c].carried
    BY <1>1, <1>4 DEF RequestOf
  <2>2. CASE o = "sent"
    BY <1>4, <1>5, <2>1, <2>2, SucceededIs
  <2>3. CASE o # "sent"
    BY <1>4, <1>5, <2>1, <2>3, AnsweredIs
  <2> QED
    BY <2>2, <2>3
<1>7. req' = [req EXCEPT ![c] = q] /\ req'[c] = q
  BY <1>3, <1>5 DEF TypeOK
<1>8. UNCHANGED <<pool, cur, disposed, dispose, closed>>
  BY DEF Create
<1>9. dispose = None /\ c # None
  BY <1>1, RequestsAssumption DEF OwnersInv
<1>10. RequestOf(c)'
  <2>1. CASE o = "none"
    BY <1>1, <1>3, <1>4, <1>6, <1>7, <1>8, <1>9, <2>1 DEF RequestOf, Owes, Finish
  <2>2. CASE o # "none"
    BY <1>1, <1>3, <1>4, <1>6, <1>7, <1>8, <1>9, <2>2 DEF RequestOf, Owes, Finish
  <2> QED
    BY <2>1, <2>2
<1>11. PICK ok \in BOOLEAN : ok = (o = "sent")
  OBVIOUS
<1>12. /\ q.op # <<"delete", "client">> /\ Ending' /\ rc' = ok
       /\ leftover' \in BOOLEAN
       /\ pool' = IF ok /\ q.op[1] = "write" THEN Return(c) ELSE pool
       /\ reader' \in ReaderType /\ reader'.req \in {reader.req, None}
  BY <1>1, <1>2, <1>3, <1>4, <1>6, <1>8, <1>11 DEF TypeOK, Finish, Create
<1> QED
  BY <1>1, <1>6, <1>7, <1>8, <1>10, <1>12, FinishKeeps
(* A handler that succeeds, and whose callback may reply. *)
LEMMA SuccessKeeps ==
    ASSUME RequestsInv, pc = "handle", NEW c \in Requests, c = cur,
           req[c].op # <<"delete", "client">>,
           NEW o \in Outcomes, req' = [req EXCEPT ![c] = Succeeded(@, o)],
           Ending', rc' = TRUE, leftover' \in BOOLEAN,
           pool' = IF req[c].op[1] = "write" THEN Return(c) ELSE pool,
           reader' \in ReaderType, reader'.req \in {reader.req, None},
           UNCHANGED <<cur, disposed, dispose, closed>>
    PROVE  RequestsInv'
<1> USE DEF RequestsInv
<1>1. req[c] \in RequestType /\ RequestOf(c) /\ dispose = None /\ c # None
  BY RequestsAssumption DEF TypeOK, OwnersInv
<1>2. req[c].answers = <<>> /\ ~req[c].carried
  BY <1>1 DEF RequestOf
<1>3. PICK q \in RequestType : q = Succeeded(req[c], o)
  BY <1>1, SucceededIs
<1>4. /\ q.op = req[c].op /\ q.reliable = req[c].reliable /\ q.carried
      /\ o = "none" => /\ q.reply = req[c].reply /\ q.mbuf = req[c].mbuf
                       /\ q.answers = <<>>
      /\ o # "none" => /\ ~q.reply /\ ~q.mbuf
                       /\ q.answers = IF o = "sent" THEN <<"ok">> ELSE <<"lost">>
  BY <1>1, <1>2, <1>3, SucceededIs
<1>5. req' = [req EXCEPT ![c] = q] /\ req'[c] = q
  BY <1>3 DEF TypeOK
<1>6. pool[c] = 0
  BY DEF OwnersInv
<1>7. RequestOf(c)'
  <2>0. c # dispose /\ c # dispose' /\ c = cur' /\ Ending' /\ rc'
    BY <1>1
  <2>1. CASE o = "none"
    <3>1. /\ q.mbuf => q.reliable /\ q.reply
          /\ q.reply /\ q.reliable => q.mbuf
      BY <1>1, <1>4, <1>6, <2>0, <2>1 DEF RequestOf, Owes
    <3> QED
      BY <1>4, <1>5, <2>0, <2>1, <3>1 DEF RequestOf, Owes
  <2>2. CASE o # "none"
    BY <1>4, <1>5, <2>0, <2>2 DEF RequestOf, Owes
  <2> QED
    BY <2>1, <2>2
<1>8. PICK ok \in BOOLEAN : ok = TRUE
  OBVIOUS
<1>9. rc' = ok /\ pool' = IF ok /\ q.op[1] = "write" THEN Return(c) ELSE pool
  BY <1>4, <1>8
<1>10. q.op # <<"delete", "client">>
  BY <1>4
<1> HIDE DEF RequestsInv
<1> QED
  BY <1>4, <1>5, <1>7, <1>9, <1>10, FinishKeeps, ZenonT(40)

LEMMA DeleteKeeps ==
    ASSUME RequestsInv, Delete \/ DeleteMissing PROVE RequestsInv'
<1> USE DEF RequestsInv
<1>1. PICK c \in Requests : c = cur /\ pc = "handle"
  BY CurrentIs DEF Delete, DeleteMissing, Handles
<1>2. /\ req[c].op[1] = "delete" /\ req[c].op # <<"delete", "client">>
      /\ Ending' /\ rc' = TRUE /\ leftover' \in BOOLEAN
      /\ UNCHANGED <<pool, cur, disposed, dispose, closed>>
  <2>1. req[c].op[1] = "delete" /\ req[c].op[2] # "client"
    BY <1>1 DEF Delete, DeleteMissing, Handles
  <2>2. /\ Ending' /\ rc' = TRUE /\ leftover' \in BOOLEAN
        /\ UNCHANGED <<pool, cur, disposed, dispose, closed>>
    BY DEF Delete, DeleteMissing, Finish, TypeOK
  <2>3. ASSUME req[c].op = <<"delete", "client">> PROVE FALSE
    <3>1. <<"delete", "client">>[2] = "client"
      OBVIOUS
    <3> QED
      BY <2>1, <2>3, <3>1
  <2> QED
    BY <2>1, <2>2, <2>3
<1>3. reader' \in ReaderType /\ reader'.req \in {reader.req, None}
  BY DEF Delete, DeleteMissing, DetachedReader, ReaderType, TypeOK
<1>4. PICK o \in Outcomes : req' = [req EXCEPT ![c] = Succeeded(@, o)]
  <2>1. CASE Delete
    BY <1>1, <2>1, SendsIs DEF Delete
  <2>2. CASE DeleteMissing
    <3>1. req' = [req EXCEPT ![c] = Succeeded(@, "none")]
      BY <1>1, <2>2 DEF DeleteMissing, Succeeded, Answered
    <3> QED
      BY <3>1 DEF Outcomes
  <2> QED
    BY <2>1, <2>2
<1> QED
  BY <1>1, <1>2, <1>3, <1>4, SuccessKeeps

LEMMA WriteKeeps ==
    ASSUME RequestsInv, Write \/ WriteNothing PROVE RequestsInv'
<1> USE DEF RequestsInv
<1>1. PICK c \in Requests : c = cur /\ pc = "handle"
  BY CurrentIs DEF Write, WriteNothing, Handles
<1>2. /\ req[c] \in RequestType /\ req[c].op[1] = "write"
      /\ Finish(TRUE) /\ pool' = Return(c)
      /\ UNCHANGED <<cur, reader, disposed, dispose, leftover, closed>>
  BY <1>1 DEF Write, WriteNothing, Handles, TypeOK
<1>3. reader' \in ReaderType /\ leftover' \in BOOLEAN /\ Ending' /\ rc' = TRUE
  BY <1>2 DEF TypeOK, Finish
<1>0. req[c].op # <<"delete", "client">>
  BY <1>2
<1>4. CASE Write
  <2>1. PICK o \in Outcomes : req' = [req EXCEPT ![c] = Succeeded(@, o)]
    BY <1>1, <1>4, SendsIs DEF Write, Outcomes
  <2> QED
    BY <1>0, <1>1, <1>2, <1>3, <2>1, SuccessKeeps
<1>5. CASE WriteNothing
  <2>1. PICK q \in RequestType : q = req[c]
    BY <1>2
  <2>2. req' = [req EXCEPT ![c] = q] /\ req' = req
    BY <1>5, <2>1 DEF WriteNothing, TypeOK
  <2>3. req[c].op = Samples
    BY <1>1, <1>2, <1>5 DEF WriteNothing, RequestType, Operations, Samples
  <2>4. RequestOf(c)'
    <3>1. pool'[c] = 1 /\ RequestOf(c)
      BY <1>1, <1>2, ReturnIs DEF OwnersInv
    <3> QED
      BY <1>1, <1>2, <2>2, <2>3, <3>1 DEF RequestOf, Owes, Finish
  <2>5. PICK ok \in BOOLEAN : ok = TRUE
    OBVIOUS
  <2>6. rc' = ok /\ pool' = IF ok /\ q.op[1] = "write" THEN Return(c) ELSE pool
    BY <1>2, <1>3, <2>1, <2>5
  <2> QED
    BY <1>0, <1>1, <1>2, <1>3, <2>1, <2>2, <2>4, <2>6, FinishKeeps
<1> QED
  BY <1>4, <1>5

LEMMA DisposeKeeps ==
    ASSUME RequestsInv, Dispose PROVE RequestsInv'
<1> USE DEF RequestsInv
<1>1. PICK c \in Requests : c = cur /\ pc = "handle" /\ c # None
  BY CurrentIs, RequestsAssumption DEF Dispose
<1>2. /\ req[c] \in RequestType /\ RequestOf(c) /\ pool[c] = 0
      /\ reader.req # c /\ req[c].op = <<"delete", "client">>
  BY <1>1 DEF TypeOK, OwnersInv, Dispose
<1>3. /\ req'[c] = [req[c] EXCEPT !.reply = FALSE]
      /\ \A r \in Requests \ {c} : req'[r] = req[r]
      /\ req' \in [Requests -> RequestType]
  BY <1>1, <1>2 DEF Dispose, TypeOK, RequestType
<1>4. /\ req'[c].op = req[c].op /\ req'[c].reliable = req[c].reliable
      /\ req'[c].mbuf = req[c].mbuf /\ req'[c].answers = req[c].answers
      /\ req'[c].carried = req[c].carried /\ ~req'[c].reply
  BY <1>2, <1>3 DEF RequestType
<1>5. /\ disposed' /\ dispose' = c /\ pc' = "done" /\ rc'
      /\ UNCHANGED <<pool, cur, reader, leftover, closed>>
  BY <1>1 DEF Dispose, Finish
<1>6. TypeOK'
  BY <1>3, <1>5 DEF TypeOK, Dispose, Finish
<1>7. OwnersInv'
  BY <1>1, <1>2, <1>4, <1>5 DEF OwnersInv
<1>8. RequestOf(c)'
  BY <1>1, <1>2, <1>4, <1>5 DEF RequestOf, Owes
<1>9. ASSUME NEW r \in Requests \ {c} PROVE RequestOf(r)'
  <2>1. r # cur /\ r # cur' /\ r # dispose /\ r # dispose'
    BY <1>1, <1>5, RequestsAssumption DEF OwnersInv
  <2> QED
    BY <1>3, <1>5, <2>1, Untouched
<1> QED
  BY <1>6, <1>7, <1>8, <1>9
(* A READ that is forgotten: its request is neither replied to nor          *)
(* returned.                                                                *)
LEMMA ForgottenOf ==
    ASSUME RequestsInv, pc = "handle", NEW c \in Requests, c = cur,
           req[c].op[1] = "read", req'[c] = req[c], pool'[c] = pool[c],
           cur' = None, pc' = "idle", dispose' = dispose
    PROVE  RequestOf(c)'
  BY RequestsAssumption DEF RequestsInv, RequestOf, Owes

LEMMA ReadRefusedKeeps ==
    ASSUME RequestsInv, ReadRefused PROVE RequestsInv'
<1> USE DEF RequestsInv
<1>1. PICK c \in Requests : c = cur /\ pc = "handle" /\ req[c].op[1] = "read"
  BY CurrentIs DEF ReadRefused, Handles
<1>2. /\ cur' = None /\ pc' = "idle"
      /\ UNCHANGED <<pool, req, rc, reader, disposed, dispose, leftover, closed>>
  BY DEF ReadRefused
<1>3. TypeOK'
  BY <1>2 DEF TypeOK
<1>4. OwnersInv'
  BY <1>1, <1>2 DEF OwnersInv
<1>5. RequestOf(c)'
  BY <1>1, <1>2, ForgottenOf
<1>6. ASSUME NEW r \in Requests \ {c} PROVE RequestOf(r)'
  BY <1>1, <1>2, Untouched, RequestsAssumption
<1> QED
  BY <1>3, <1>4, <1>5, <1>6

(* The request the state of a reader held goes back to the pool. *)
LEMMA HeldReturned ==
    ASSUME RequestsInv, pc = "handle", NEW c \in Requests, c = cur,
           NEW h \in {reader.req, None}, pool' = Return(h)
    PROVE  /\ h # c /\ dispose = None
           /\ pool' \in [Requests -> Nat] /\ pool'[c] = 0
           /\ \A r \in Requests : pool'[r] \in {0, 1}
           /\ \A r \in Requests : pool'[r] # pool[r] =>
                 r = reader.req /\ req[r].op[1] = "read" /\ pool'[r] = 1
<1> USE DEF RequestsInv
<1>1. h \in Requests \cup {None} /\ c # None /\ dispose = None /\ pool[c] = 0
  BY RequestsAssumption DEF TypeOK, ReaderType, OwnersInv
<1>2. h # c
  BY <1>1 DEF OwnersInv
<1>3. /\ pool' \in [Requests -> Nat]
      /\ \A r \in Requests : pool'[r] = IF r = h THEN pool[r] + 1 ELSE pool[r]
  BY <1>1, ReturnIs
<1>4. ASSUME NEW r \in Requests, r = h
      PROVE  pool[r] = 0 /\ r = reader.req /\ req[r].op[1] = "read"
  <2>1. r = reader.req /\ pool[r] = 0
    BY <1>4, RequestsAssumption DEF OwnersInv
  <2> QED
    BY <1>1, <1>2, <1>4, <2>1, RequestsAssumption DEF RequestOf
<1> QED
  BY <1>1, <1>2, <1>3, <1>4 DEF OwnersInv

(* Another request, while a READ is handled. *)
LEMMA OtherOf ==
    ASSUME RequestsInv, pc = "handle", NEW c \in Requests, c = cur,
           NEW r \in Requests \ {c}, cur' \in {c, None}, dispose' = dispose,
           req'[r] = req[r],
           pool'[r] # pool[r] => req[r].op[1] = "read" /\ pool'[r] = 1
    PROVE  RequestOf(r)'
  BY RequestsAssumption DEF RequestsInv, RequestOf, Owes

LEMMA ReadFailsKeeps ==
    ASSUME RequestsInv, ReadFails PROVE RequestsInv'
<1> USE DEF RequestsInv
<1>1. PICK c \in Requests : c = cur /\ pc = "handle" /\ req[c].op[1] = "read"
  BY CurrentIs DEF ReadFails, Handles
<1>2. /\ cur' = None /\ pc' = "idle" /\ reader' = [reader EXCEPT !.req = c]
      /\ UNCHANGED <<req, rc, disposed, dispose, leftover, closed>>
  BY <1>1 DEF ReadFails
<1>3. PICK h \in {reader.req, None} : pool' = Return(h)
  BY DEF ReadFails, HeldRequests
<1>4. /\ h # c /\ dispose = None
      /\ pool' \in [Requests -> Nat] /\ pool'[c] = 0
      /\ \A r \in Requests : pool'[r] \in {0, 1}
      /\ \A r \in Requests : pool'[r] # pool[r] =>
            r = reader.req /\ req[r].op[1] = "read" /\ pool'[r] = 1
  BY <1>1, <1>3, HeldReturned
<1>5. reader' \in ReaderType /\ reader'.req = c
  BY <1>2 DEF TypeOK, ReaderType
<1>6. TypeOK'
  BY <1>2, <1>4, <1>5 DEF TypeOK
<1>7. OwnersInv'
  BY <1>1, <1>2, <1>4, <1>5, RequestsAssumption DEF OwnersInv
<1>8. pool'[c] = pool[c]
  BY <1>1, <1>4 DEF OwnersInv
<1>9. RequestOf(c)'
  BY <1>1, <1>2, <1>8, ForgottenOf
<1>10. ASSUME NEW r \in Requests \ {c} PROVE RequestOf(r)'
  BY <1>1, <1>2, <1>4, OtherOf
<1> QED
  BY <1>6, <1>7, <1>9, <1>10
LEMMA ReadKeeps ==
    ASSUME RequestsInv, Read PROVE RequestsInv'
<1> USE DEF RequestsInv
<1>1. PICK c \in Requests : c = cur /\ pc = "handle" /\ req[c].op[1] = "read"
  BY CurrentIs DEF Read, Handles
<1>2. c # None /\ req[c] \in RequestType /\ RequestOf(c) /\ pool[c] = 0
  BY <1>1, RequestsAssumption DEF TypeOK, OwnersInv
<1>3. req[c].answers = <<>> /\ ~req[c].carried
  BY <1>1, <1>2 DEF RequestOf
<1>4. PICK h \in {reader.req, None} : h = reader.req /\ pool' = Return(h)
  BY DEF Read
<1>5. /\ h # c /\ dispose = None
      /\ pool' \in [Requests -> Nat] /\ pool'[c] = 0
      /\ \A r \in Requests : pool'[r] \in {0, 1}
      /\ \A r \in Requests : pool'[r] # pool[r] =>
            r = reader.req /\ req[r].op[1] = "read" /\ pool'[r] = 1
  BY <1>1, <1>4, HeldReturned
<1>6. UNCHANGED <<disposed, dispose, leftover, closed>>
  BY DEF Read
<1>7. /\ [reader EXCEPT !.req = c] \in ReaderType
      /\ [reader EXCEPT !.req = c].req = c
      /\ [reader EXCEPT !.req = None] \in ReaderType
      /\ [reader EXCEPT !.req = None].req = None
  BY DEF TypeOK, ReaderType
<1>8. ASSUME NEW o \in Outcomes, req' = [req EXCEPT ![c] = Succeeded(@, o)],
             reader' = [reader EXCEPT !.req = c], Finish(TRUE), UNCHANGED cur
      PROVE  RequestsInv'
  <2>1. PICK q \in RequestType : q = Succeeded(req[c], o)
    BY <1>2, SucceededIs
  <2>2. /\ q.op = req[c].op /\ q.reliable = req[c].reliable /\ q.carried
        /\ o = "none" => /\ q.reply = req[c].reply /\ q.mbuf = req[c].mbuf
                         /\ q.answers = <<>>
        /\ o # "none" => /\ ~q.reply /\ ~q.mbuf
                         /\ q.answers = IF o = "sent" THEN <<"ok">> ELSE <<"lost">>
    BY <1>2, <1>3, <2>1, SucceededIs
  <2>3. req'[c] = q /\ \A r \in Requests \ {c} : req'[r] = req[r]
    BY <1>8, <2>1 DEF TypeOK
  <2>4. TypeOK'
    BY <1>5, <1>6, <1>7, <1>8, <2>1 DEF TypeOK, Finish
  <2>5. OwnersInv'
    <3>1. req'[c].op # <<"delete", "client">> /\ req'[c].op[1] = "read"
      BY <1>1, <2>2, <2>3
    <3>2. /\ cur' = c /\ pc' = "done" /\ rc' /\ reader'.req = c /\ dispose' = None
          /\ ~closed' /\ pool'[c] = 0
      BY <1>1, <1>5, <1>6, <1>7, <1>8 DEF Finish, OwnersInv
    <3> QED
      BY <1>2, <1>5, <3>1, <3>2, RequestsAssumption DEF OwnersInv
  <2>6. RequestOf(c)'
    <3>1. CASE o = "none"
      BY <1>1, <1>2, <1>5, <1>6, <1>8, <2>2, <2>3, <3>1 DEF RequestOf, Owes, Finish
    <3>2. CASE o # "none"
      BY <1>1, <1>2, <1>5, <1>6, <1>8, <2>2, <2>3, <3>2 DEF RequestOf, Owes, Finish
    <3> QED
      BY <3>1, <3>2
  <2>7. ASSUME NEW r \in Requests \ {c} PROVE RequestOf(r)'
    BY <1>1, <1>5, <1>6, <1>8, <2>3, OtherOf
  <2> QED
    BY <2>4, <2>5, <2>6, <2>7
<1>9. ASSUME NEW o \in Outcomes, o # "sent",
             req' = [req EXCEPT ![c] = Answered(@, "ok", o)],
             reader' = [reader EXCEPT !.req = None],
             cur' = None, pc' = "idle", UNCHANGED rc
      PROVE  RequestsInv'
  <2>1. PICK q \in RequestType : q = Answered(req[c], "ok", o)
    BY <1>2, AnsweredIs
  <2>2. /\ q.op = req[c].op /\ q.reliable = req[c].reliable /\ ~q.carried
        /\ o = "none" => q = req[c]
        /\ o # "none" => ~q.reply /\ ~q.mbuf /\ q.answers = <<"lost">>
    BY <1>2, <1>3, <1>9, <2>1, AnsweredIs
  <2>3. req'[c] = q /\ \A r \in Requests \ {c} : req'[r] = req[r]
    BY <1>9, <2>1 DEF TypeOK
  <2>4. TypeOK'
    BY <1>5, <1>6, <1>7, <1>9, <2>1 DEF TypeOK
  <2>5. OwnersInv'
    BY <1>1, <1>2, <1>5, <1>6, <1>7, <1>9, RequestsAssumption DEF OwnersInv
  <2>6. RequestOf(c)'
    <3>1. CASE o = "none"
      BY <1>1, <1>2, <1>5, <1>6, <1>9, <2>2, <2>3, <3>1 DEF RequestOf, Owes
    <3>2. CASE o # "none"
      <4>1. <<"lost">> # <<"ok">> /\ <<"lost">> # <<"error">> /\ c # dispose'
        BY <1>2, <1>5, <1>6
      <4>2. /\ req'[c].op[1] = "read" /\ ~req'[c].reply /\ ~req'[c].mbuf
            /\ req'[c].answers = <<"lost">> /\ c # cur'
        BY <1>1, <1>2, <1>9, <2>2, <2>3, <3>2
      <4> QED
        BY <4>1, <4>2 DEF RequestOf, Owes
    <3> QED
      BY <3>1, <3>2
  <2>7. ASSUME NEW r \in Requests \ {c} PROVE RequestOf(r)'
    BY <1>1, <1>5, <1>6, <1>9, <2>3, OtherOf
  <2> QED
    BY <2>4, <2>5, <2>6, <2>7
<1>10. CASE ~req[c].reply
  <2>1. /\ req' = [req EXCEPT ![c] = Succeeded(@, "none")]
        /\ reader' = [reader EXCEPT !.req = c] /\ Finish(TRUE) /\ UNCHANGED cur
    BY <1>1, <1>10 DEF Read, Succeeded, Answered
  <2> QED
    BY <1>8, <2>1 DEF Outcomes
<1>11. CASE req[c].reply
  <2>1. PICK o \in Sends(c) :
           IF o = "sent"
           THEN /\ req' = [req EXCEPT ![c] = Succeeded(@, o)]
                /\ reader' = [reader EXCEPT !.req = c]
                /\ Finish(TRUE) /\ UNCHANGED cur
           ELSE /\ req' = [req EXCEPT ![c] = Answered(@, "ok", o)]
                /\ reader' = [reader EXCEPT !.req = None]
                /\ cur' = None /\ pc' = "idle" /\ UNCHANGED rc
    BY <1>1, <1>11 DEF Read
  <2>2. o \in Outcomes
    BY <2>1, SendsIs
  <2> QED
    BY <1>8, <1>9, <2>1, <2>2
<1> QED
  BY <1>10, <1>11

(* The end of on_submsg *)
LEMMA DoneKeeps ==
    ASSUME RequestsInv, Done PROVE RequestsInv'
<1> USE DEF RequestsInv
<1>1. PICK c \in Requests : c = cur /\ Ending
  BY CurrentIs DEF Done
<1>2. c # None /\ req[c] \in RequestType /\ RequestOf(c) /\ Status \in {"ok", "error"}
  BY <1>1, RequestsAssumption DEF TypeOK, Status
<1>3. PICK o \in Outcomes :
         /\ IF req[c].reply THEN o \in Sends(c) ELSE o = "none"
         /\ req' = [req EXCEPT ![c] = Answered(@, Status, o)]
  BY <1>1, SendsIs DEF Done, Outcomes
<1>4. PICK q \in RequestType : q = Answered(req[c], Status, o)
  BY <1>2, AnsweredIs
<1>5. /\ cur' = None /\ pc' = "idle"
      /\ UNCHANGED <<rc, reader, disposed, dispose, leftover, closed>>
      /\ pool' = IF Returned THEN Return(c) ELSE pool
  BY <1>1 DEF Done
<1>6. req'[c] = q /\ \A r \in Requests \ {c} : req'[r] = req[r]
  BY <1>3, <1>4 DEF TypeOK
<1>7. /\ q.op = req[c].op /\ q.reliable = req[c].reliable
      /\ q.carried = req[c].carried
      /\ o = "none" => q = req[c]
      /\ o # "none" => ~q.reply /\ ~q.mbuf
      /\ o # "none" /\ req[c].answers = <<>> =>
            q.answers = IF o = "sent" THEN <<Status>> ELSE <<"lost">>
  BY <1>2, <1>4, AnsweredIs
<1>8. /\ pool' \in [Requests -> Nat]
      /\ \A r \in Requests \ {c} : pool'[r] = pool[r]
      /\ pool'[c] \in {0, 1} /\ pool[c] \in {0, 1}
      /\ Returned => pool[c] = 0 /\ pool'[c] = 1
      /\ ~Returned => pool'[c] = pool[c]
  <2>1. Returned => pool[c] = 0
    BY <1>1 DEF Returned, OwnersInv
  <2> QED
    BY <1>5, <2>1, ReturnIs DEF OwnersInv, TypeOK
<1>9. TypeOK'
  BY <1>3, <1>4, <1>5, <1>8 DEF TypeOK
<1>10. dispose = c \/ reader.req = c => ~Returned
  <2>1. dispose = c => req[c].op = <<"delete", "client">>
    BY <1>1 DEF OwnersInv
  <2>2. reader.req = c => rc /\ req[c].op[1] = "read"
    BY <1>1, <1>2 DEF OwnersInv
  <2> QED
    BY <1>1, <2>1, <2>2 DEF Returned
<1>11. OwnersInv'
  BY <1>1, <1>2, <1>5, <1>8, <1>10 DEF OwnersInv
<1>12. req[c].op[1] # "read" => c = dispose \/ pool'[c] = 1
  BY <1>1, <1>8 DEF OwnersInv, Returned
<1>13. RequestOf(c)'
  <2>1. CASE o = "none"
    <3>1. req[c].reply => ~req[c].reliable
      BY <1>3, <2>1, SendsIs
    <3> QED
      BY <1>1, <1>2, <1>5, <1>6, <1>7, <1>8, <1>12, <2>1, <3>1 DEF RequestOf, Owes
  <2>2. CASE o # "none"
    <3>1. req[c].reply
      BY <1>3, <2>2
    <3>2. q.answers \in {<<Status>>, <<"lost">>}
      BY <1>2, <1>7, <2>2, <3>1 DEF RequestOf
    <3>3. c # dispose
      BY <1>2, <3>1 DEF RequestOf
    <3>4. IF rc THEN req[c].carried \/ req[c].op = Samples ELSE ~req[c].carried
      BY <1>1, <1>2, <3>1 DEF RequestOf
    <3> QED
      BY <1>1, <1>2, <1>5, <1>6, <1>7, <1>12, <2>2, <3>2, <3>3, <3>4
         DEF RequestOf, Owes, Status
  <2> QED
    BY <2>1, <2>2
<1>14. ASSUME NEW r \in Requests \ {c} PROVE RequestOf(r)'
  BY <1>1, <1>2, <1>5, <1>6, <1>8, Untouched, RequestsAssumption
<1> QED
  BY <1>9, <1>11, <1>13, <1>14
(* A new submessage *)
LEMMA ReceiveKeeps ==
    ASSUME RequestsInv, NEW r \in Requests, NEW op \in Operations,
           NEW reliable \in BOOLEAN, NEW reply \in BOOLEAN,
           Receive(r, op, reliable, reply)
    PROVE  RequestsInv'
<1> USE DEF RequestsInv
<1> DEFINE q == [Unused EXCEPT !.op = op, !.reliable = reliable,
                   !.reply = reply, !.mbuf = reliable /\ reply]
<1>1. q \in RequestType
  <2>1. Unused \in RequestType
    BY DEF Unused, RequestType, Operations
  <2>2. ASSUME NEW u \in RequestType, NEW b \in BOOLEAN
        PROVE  [u EXCEPT !.op = op, !.reliable = reliable, !.reply = reply, !.mbuf = b]
                  \in RequestType
    BY DEF RequestType
  <2>3. (reliable /\ reply) \in BOOLEAN
    OBVIOUS
  <2> QED
    BY <2>1, <2>2, <2>3
<1>2. /\ q.op = op /\ q.reliable = reliable /\ q.reply = reply
      /\ q.mbuf = (reliable /\ reply) /\ q.answers = <<>> /\ ~q.carried
  BY DEF Unused
<1>3. /\ pc = "idle" /\ ~disposed /\ pool[r] > 0
      /\ op[1] \in {"create", "delete"} => reply
      /\ pool' = [pool EXCEPT ![r] = @ - 1] /\ req' = [req EXCEPT ![r] = q]
      /\ cur' = r /\ pc' = "handle"
      /\ UNCHANGED <<rc, reader, disposed, dispose, leftover, closed>>
  BY DEF Receive
<1> HIDE DEF q
<1>4. /\ req'[r] = q /\ pool'[r] = 0 /\ pool[r] = 1
      /\ \A x \in Requests \ {r} : req'[x] = req[x] /\ pool'[x] = pool[x]
  BY <1>3 DEF TypeOK, OwnersInv
<1>5. cur = None /\ r # None /\ dispose = None /\ reader.req # r
  BY <1>3, <1>4, RequestsAssumption DEF OwnersInv
<1>6. TypeOK'
  BY <1>1, <1>3, <1>4 DEF TypeOK, OwnersInv
<1>7. OwnersInv'
  BY <1>3, <1>4, <1>5 DEF OwnersInv
<1>8. RequestOf(r)'
  BY <1>2, <1>3, <1>4, <1>5 DEF RequestOf, Owes
<1>9. ASSUME NEW x \in Requests \ {r} PROVE RequestOf(x)'
  BY <1>3, <1>4, <1>5, Untouched, RequestsAssumption
<1> QED
  BY <1>6, <1>7, <1>8, <1>9

(* The end of the session and a new one *)
LEMMA CloseKeeps ==
    ASSUME RequestsInv, Close PROVE RequestsInv'
<1> USE DEF RequestsInv
<1>1. /\ pc = "idle" /\ disposed /\ ~closed /\ closed' /\ dispose' = None
      /\ pool' = Return(dispose) /\ cur = None
      /\ UNCHANGED <<cur, pc, rc, reader, disposed, leftover>>
  BY DEF Close, OwnersInv
<1>2. /\ pool' \in [Requests -> Nat]
      /\ \A r \in Requests : pool'[r] = IF r = dispose THEN pool[r] + 1 ELSE pool[r]
  BY <1>1, ReturnIs DEF TypeOK
<1>3. CASE dispose = None
  <2>1. req' = req /\ \A r \in Requests : pool'[r] = pool[r]
    BY <1>2, <1>3, RequestsAssumption DEF Close
  <2>2. TypeOK'
    BY <1>1, <1>2, <2>1 DEF TypeOK
  <2>3. OwnersInv'
    BY <1>1, <1>3, <2>1, RequestsAssumption DEF OwnersInv
  <2>4. ASSUME NEW r \in Requests PROVE RequestOf(r)'
    BY <1>1, <1>3, <2>1, Untouched, RequestsAssumption
  <2> QED
    BY <2>2, <2>3, <2>4
<1>4. CASE dispose # None
  <2>1. PICK c \in Requests : c = dispose
    BY <1>4 DEF TypeOK
  <2>2. /\ c # None /\ req[c] \in RequestType /\ RequestOf(c) /\ pool[c] = 0
        /\ c # reader.req
    BY <1>4, <2>1 DEF TypeOK, OwnersInv
  <2>3. PICK o \in Sends(c) :
           req' = [req EXCEPT ![c] = Succeeded([@ EXCEPT !.reply = TRUE], o)]
    BY <1>4, <2>1 DEF Close
  <2>4. PICK p \in RequestType : p = [req[c] EXCEPT !.reply = TRUE]
    BY <2>2 DEF RequestType
  <2>5. /\ p.op = req[c].op /\ p.reliable = req[c].reliable /\ p.reply
        /\ p.mbuf = req[c].mbuf /\ p.answers = <<>>
    BY <2>1, <2>2, <2>4 DEF RequestOf, RequestType
  <2>6. o \in Outcomes /\ (o = "none" => ~req[c].reliable)
    BY <2>3, SendsIs
  <2>7. PICK q \in RequestType : q = Succeeded(p, o)
    BY <2>6, SucceededIs
  <2>8. /\ q.op = p.op /\ q.reliable = p.reliable /\ q.carried
        /\ o = "none" => q.reply /\ q.mbuf = p.mbuf /\ q.answers = <<>>
        /\ o # "none" => /\ ~q.reply /\ ~q.mbuf
                         /\ q.answers = IF o = "sent" THEN <<"ok">> ELSE <<"lost">>
    BY <2>5, <2>6, <2>7, SucceededIs
  <2>9. req'[c] = q /\ \A r \in Requests \ {c} : req'[r] = req[r]
    BY <2>3, <2>4, <2>7 DEF TypeOK
  <2>10. pool'[c] = 1 /\ \A r \in Requests \ {c} : pool'[r] = pool[r]
    BY <1>2, <2>1, <2>2
  <2>11. req' \in [Requests -> RequestType]
    BY <2>3, <2>4, <2>7 DEF TypeOK
  <2>12. TypeOK'
    BY <1>1, <1>2, <2>11 DEF TypeOK
  <2>13. OwnersInv'
    BY <1>1, <2>1, <2>2, <2>10, RequestsAssumption DEF OwnersInv
  <2>14. q.mbuf => q.reliable /\ q.reply /\ o = "none"
    BY <2>2, <2>5, <2>8 DEF RequestOf
  <2>15. ~q.mbuf
    BY <2>5, <2>6, <2>8, <2>14
  <2>16. RequestOf(c)'
    BY <1>1, <2>2, <2>8, <2>9, <2>10, <2>15 DEF RequestOf, Owes
  <2>17. ASSUME NEW r \in Requests \ {c} PROVE RequestOf(r)'
    BY <1>1, <2>1, <2>9, <2>10, Untouched, RequestsAssumption
  <2> QED
    BY <2>12, <2>13, <2>16, <2>17
<1> QED
  BY <1>3, <1>4

LEMMA SessionKeeps ==
    ASSUME RequestsInv, Expire \/ Obstruct \/ Reconnect PROVE RequestsInv'
<1> USE DEF RequestsInv
<1>1. CASE Expire \/ Obstruct
  <2>1. /\ UNCHANGED <<pool, req, cur, pc, rc, reader, dispose, closed>>
        /\ disposed' = disposed \/ (disposed' /\ pc # "handle")
        /\ disposed => disposed'
    BY <1>1 DEF Expire, Obstruct
  <2>2. TypeOK'
    BY <1>1, <2>1 DEF TypeOK, Expire, Obstruct
  <2>3. OwnersInv'
    BY <2>1 DEF OwnersInv
  <2>4. ASSUME NEW r \in Requests PROVE RequestOf(r)'
    BY <2>1 DEF RequestOf, Owes
  <2> QED
    BY <2>2, <2>3, <2>4
<1>2. CASE Reconnect
  <2>1. /\ closed /\ pc = "idle" /\ cur = None /\ dispose = None
        /\ pool' = [r \in Requests |-> 1] /\ req' = [r \in Requests |-> Unused]
        /\ rc' = TRUE /\ reader' = [state |-> "none", req |-> None]
        /\ disposed' = FALSE /\ leftover' = FALSE /\ closed' = FALSE
        /\ UNCHANGED <<cur, pc, dispose>>
    BY <1>2 DEF Reconnect, OwnersInv
  <2>2. Unused \in RequestType
    BY DEF Unused, RequestType, Operations
  <2>3. TypeOK'
    BY <2>1, <2>2 DEF TypeOK, ReaderType
  <2>4. OwnersInv'
    BY <2>1, RequestsAssumption DEF OwnersInv
  <2>5. ASSUME NEW r \in Requests PROVE RequestOf(r)'
    BY <2>1, RequestsAssumption DEF RequestOf, Owes, Unused, Samples
  <2> QED
    BY <2>3, <2>4, <2>5
<1> QED
  BY <1>1, <1>2

LEMMA NextInv == RequestsInv /\ [Next]_vars => RequestsInv'
<1> SUFFICES ASSUME RequestsInv, [Next]_vars PROVE RequestsInv'
  OBVIOUS
<1>1. CASE \E r \in Requests, op \in Operations, reliable, reply \in BOOLEAN :
              Receive(r, op, reliable, reply)
  BY <1>1, ReceiveKeeps
<1>2. CASE Handle
  BY <1>2, FailKeeps, CreateKeeps, DeleteKeeps, DisposeKeeps, WriteKeeps,
     ReadRefusedKeeps, ReadFailsKeeps, ReadKeeps, DoneKeeps DEF Handle
<1>3. CASE Expire \/ Obstruct \/ Close \/ Reconnect
  BY <1>3, CloseKeeps, SessionKeeps
<1>4. CASE UNCHANGED vars
  BY <1>4 DEF vars, RequestsInv, TypeOK, OwnersInv, RequestOf, Owes
<1> QED
  BY <1>1, <1>2, <1>3, <1>4 DEF Next

(* The inductive invariant of the requests holds in every reachable state. *)
THEOREM Invariance == Spec => []RequestsInv
  BY InitInv, NextInv, PTL DEF Spec

(* Every reachable state is well typed. *)
THEOREM TypeCorrect == Spec => []TypeOK
<1>1. RequestsInv => TypeOK
  BY DEF RequestsInv
<1> QED
  BY <1>1, Invariance, PTL

(* The precondition of reply_to_operation holds wherever a reply is sent on *)
(* a reliable stream.                                                       *)
THEOREM BufferForReply == Spec => []ReplyHasBuffer
<1>1. RequestsInv => ReplyHasBuffer
  BY DEF RequestsInv, RequestOf, ReplyHasBuffer
<1> QED
  BY <1>1, Invariance, PTL

(* No request buffer is returned twice or used by two, for any number of    *)
(* buffers.                                                                 *)
THEOREM PoolKept == Spec => []PoolSound
<1>1. ASSUME RequestsInv PROVE PoolSound
  <2>1. \A r \in Requests : pool[r] <= 1
    <3>1. \A r \in Requests : pool[r] \in {0, 1} /\ pool[r] \in Nat
      BY <1>1 DEF RequestsInv, OwnersInv, TypeOK
    <3>2. \A n \in Nat : n \in {0, 1} => n <= 1
      OBVIOUS
    <3> QED
      BY <3>1, <3>2
  <2>2. \A r \in {reader.req, dispose} \cap Requests : pool[r] = 0
    BY <1>1 DEF RequestsInv, OwnersInv
  <2>3. cur # None => \/ pool[cur] = 0
                      \/ pc # "handle" /\ rc /\ req[cur].op[1] = "write"
    BY <1>1 DEF RequestsInv, OwnersInv, TypeOK
  <2> QED
    BY <2>1, <2>2, <2>3 DEF PoolSound
<1> QED
  BY <1>1, Invariance, PTL

(* Only READ_DATA loses request buffers. *)
THEOREM LeaksAreReads == Spec => []OnlyReadsLeak
<1>1. RequestsInv => OnlyReadsLeak
  BY RequestsAssumption DEF RequestsInv, RequestOf, OwnersInv, OnlyReadsLeak
<1> QED
  BY <1>1, Invariance, PTL

(* What a client is told of its request is what happened to it. *)
THEOREM RepliesAreTrue == Spec => []AnswersTrue
<1>1. ASSUME RequestsInv PROVE AnswersTrue
  <2>1. ASSUME NEW r \in Requests PROVE Len(req[r].answers) <= 1
    <3>1. req[r].answers \in {<<>>, <<"ok">>, <<"error">>, <<"lost">>}
      BY <1>1 DEF RequestsInv, RequestOf
    <3>2. Len(<<>>) <= 1 /\ \A x \in {"ok", "error", "lost"} : Len(<<x>>) <= 1
      OBVIOUS
    <3> QED
      BY <3>1, <3>2
  <2> QED
    BY <1>1, <2>1 DEF RequestsInv, RequestOf, AnswersTrue, Samples
<1> QED
  BY <1>1, Invariance, PTL
============================================================================
