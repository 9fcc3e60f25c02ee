------------------------- MODULE ChatSessionsProofs -------------------------
(***************************************************************************)
(* Proofs about ChatSessions for every number of requests, users and       *)
(* sessions and every size of the window.                                  *)
(***************************************************************************)
EXTENDS ChatSessions, SequenceTheorems, TLAPS

-----------------------------------------------------------------------------
(* Lemmas about the operators on messages. *)

(* The window of a sequence is a sequence of the same messages, no longer  *)
(* than asked for (ConversationBuffer.add, MessageStore.load_recent).      *)
LEMMA LastNType ==
  ASSUME NEW S, NEW seq \in Seq(S), NEW n \in Nat
  PROVE  LastN(seq, n) \in Seq(S) /\ Len(LastN(seq, n)) <= n
<1>1. CASE Len(seq) <= n
  BY <1>1 DEF LastN
<1>2. CASE ~(Len(seq) <= n)
  <2>1. LastN(seq, n) = SubSeq(seq, Len(seq) - n + 1, Len(seq))
    BY <1>2 DEF LastN
  <2>2. /\ SubSeq(seq, Len(seq) - n + 1, Len(seq)) \in Seq(S)
        /\ Len(SubSeq(seq, Len(seq) - n + 1, Len(seq))) = n
    BY <1>2, LenProperties, SubSeqProperties
  <2>. QED BY <2>1, <2>2
<1>. QED BY <1>1, <1>2

(* Nobody has a message in the window who has none in the sequence. *)
LEMMA LastNAuthors ==
  ASSUME NEW seq \in Seq(Message), NEW n \in Nat
  PROVE  Authors(LastN(seq, n)) \subseteq Authors(seq)
<1>1. CASE Len(seq) <= n
  BY <1>1 DEF LastN
<1>2. CASE ~(Len(seq) <= n)
  <2> DEFINE tail == SubSeq(seq, Len(seq) - n + 1, Len(seq))
  <2>1. LastN(seq, n) = tail
    BY <1>2 DEF LastN
  <2>2. /\ Len(seq) \in Nat
        /\ tail \in Seq(Message)
        /\ Len(tail) = n
        /\ \A i \in 1..n : tail[i] = seq[Len(seq) - n + i]
    BY <1>2, LenProperties, SubSeqProperties
  <2>3. ASSUME NEW i \in DOMAIN tail
        PROVE  \E j \in DOMAIN seq : seq[j].by = tail[i].by
    <3>1. i \in 1..n
      BY <2>2, <2>3
    <3>2. Len(seq) - n + i \in DOMAIN seq
      BY <1>2, <2>2, <3>1
    <3>. QED BY <2>2, <3>1, <3>2
  <2>. QED BY <2>1, <2>3 DEF Authors
<1>. QED BY <1>1, <1>2

(* Appending turns adds exactly their authors. *)
LEMMA ConcatAuthors ==
  ASSUME NEW a \in Seq(Message), NEW b \in Seq(Message)
  PROVE  /\ a \o b \in Seq(Message)
         /\ Authors(a \o b) = Authors(a) \cup Authors(b)
<1>1. /\ a \o b \in Seq(Message)
      /\ Len(a \o b) = Len(a) + Len(b)
      /\ \A i \in 1..(Len(a) + Len(b)) :
           (a \o b)[i] = IF i <= Len(a) THEN a[i] ELSE b[i - Len(a)]
      /\ Len(a) \in Nat /\ Len(b) \in Nat
  BY ConcatProperties, LenProperties
<1>2. Authors(a \o b) \subseteq Authors(a) \cup Authors(b)
  <2>1. ASSUME NEW i \in DOMAIN (a \o b)
        PROVE  (a \o b)[i].by \in Authors(a) \cup Authors(b)
    <3>1. i \in 1..(Len(a) + Len(b))
      BY <1>1, <2>1
    <3>2. CASE i <= Len(a)
      BY <1>1, <3>1, <3>2 DEF Authors
    <3>3. CASE ~(i <= Len(a))
      <4>1. i - Len(a) \in DOMAIN b
        BY <1>1, <3>1, <3>3
      <4>. QED BY <1>1, <3>1, <3>3, <4>1 DEF Authors
    <3>. QED BY <3>2, <3>3
  <2>. QED BY <2>1 DEF Authors
<1>3. Authors(a) \subseteq Authors(a \o b)
  <2>1. ASSUME NEW i \in DOMAIN a
        PROVE  i \in DOMAIN (a \o b) /\ (a \o b)[i] = a[i]
    BY <1>1, <2>1
  <2>. QED BY <2>1 DEF Authors
<1>4. Authors(b) \subseteq Authors(a \o b)
  <2>1. ASSUME NEW i \in DOMAIN b
        PROVE  /\ Len(a) + i \in DOMAIN (a \o b)
               /\ (a \o b)[Len(a) + i] = b[i]
    BY <1>1, <2>1
  <2>. QED BY <2>1 DEF Authors
<1>. QED BY <1>1, <1>2, <1>3, <1>4

(* An exchange is two messages of one request. *)
LEMMA ExchangeAuthors ==
  ASSUME NEW r \in Requests
  PROVE  Exchange(r) \in Seq(Message) /\ Authors(Exchange(r)) = {r}
<1>1. Exchange(r) \in Seq(Message)
  BY DEF Exchange, Message
<1>2. /\ DOMAIN Exchange(r) = {1, 2}
      /\ Exchange(r)[1].by = r
      /\ Exchange(r)[2].by = r
  BY DEF Exchange
<1>. QED BY <1>1, <1>2 DEF Authors

(* A buffer that was just created holds nobody's messages. *)
LEMMA NoAuthors == Authors(<<>>) = {} /\ <<>> \in Seq(Message) /\ Len(<<>>) = 0
BY DEF Authors

(* Only requests write messages. *)
LEMMA AuthorsAreRequests ==
  ASSUME NEW a \in Seq(Message)
  PROVE  Authors(a) \subseteq Requests
<1>1. \A i \in DOMAIN a : a[i] \in Message
  BY LenProperties
<1>. QED BY <1>1 DEF Authors, Message

(* The last n of a longer sequence, one by one.                            *)
LEMMA LastNElements ==
  ASSUME NEW S, NEW seq \in Seq(S), NEW n \in Nat, n <= Len(seq)
  PROVE  /\ LastN(seq, n) \in Seq(S) /\ Len(LastN(seq, n)) = n
         /\ \A i \in 1..n : LastN(seq, n)[i] = seq[Len(seq) - n + i]
<1>1. CASE Len(seq) = n
  BY <1>1 DEF LastN
<1>2. CASE Len(seq) # n
  <2>1. LastN(seq, n) = SubSeq(seq, Len(seq) - n + 1, Len(seq))
    BY <1>2 DEF LastN
  <2>2. QED
    BY <1>2, <2>1, LenProperties, SubSeqProperties
<1>3. QED
  BY <1>1, <1>2

(* What the window drops early it would have dropped anyway: turns that    *)
(* are added to a window leave the window of all of them.                  *)
LEMMA LastNConcat ==
  ASSUME NEW S, NEW a \in Seq(S), NEW b \in Seq(S), NEW n \in Nat
  PROVE  LastN(LastN(a, n) \o b, n) = LastN(a \o b, n)
<1>1. CASE Len(a) <= n
  BY <1>1 DEF LastN
<1>2. CASE n < Len(a)
  <2> DEFINE t == LastN(a, n)
  <2>1. /\ t \in Seq(S) /\ Len(t) = n
        /\ \A i \in 1..n : t[i] = a[Len(a) - n + i]
    <3>1. n <= Len(a)
      BY <1>2
    <3>2. QED
      BY <3>1, LastNElements
  <2>2. Len(a) \in Nat /\ Len(b) \in Nat
    OBVIOUS
  <2> HIDE DEF t
  <2>3. /\ t \o b \in Seq(S) /\ Len(t \o b) = n + Len(b)
        /\ \A i \in 1..(n + Len(b)) : (t \o b)[i] = IF i <= n THEN t[i] ELSE b[i - n]
    BY <2>1, ConcatProperties
  <2>4. /\ a \o b \in Seq(S) /\ Len(a \o b) = Len(a) + Len(b)
        /\ \A i \in 1..(Len(a) + Len(b)) :
             (a \o b)[i] = IF i <= Len(a) THEN a[i] ELSE b[i - Len(a)]
    BY ConcatProperties
  <2> DEFINE x == t \o b
             y == a \o b
  <2> HIDE DEF x, y
  <2>5. /\ LastN(x, n) \in Seq(S) /\ Len(LastN(x, n)) = n
        /\ \A i \in 1..n : LastN(x, n)[i] = x[Len(b) + i]
    <3>1. n <= Len(x) /\ x \in Seq(S) /\ \A i \in 1..n : Len(x) - n + i = Len(b) + i
      BY <2>2, <2>3 DEF x
    <3>2. /\ LastN(x, n) \in Seq(S) /\ Len(LastN(x, n)) = n
          /\ \A i \in 1..n : LastN(x, n)[i] = x[Len(x) - n + i]
      BY <3>1, LastNElements
    <3>3. QED
      BY <3>1, <3>2
  <2>6. /\ LastN(y, n) \in Seq(S) /\ Len(LastN(y, n)) = n
        /\ \A i \in 1..n : LastN(y, n)[i] = y[Len(a) - n + Len(b) + i]
    <3>1. /\ n <= Len(y) /\ y \in Seq(S)
          /\ \A i \in 1..n : Len(y) - n + i = Len(a) - n + Len(b) + i
      BY <1>2, <2>2, <2>4 DEF y
    <3>2. /\ LastN(y, n) \in Seq(S) /\ Len(LastN(y, n)) = n
          /\ \A i \in 1..n : LastN(y, n)[i] = y[Len(y) - n + i]
      BY <3>1, LastNElements
    <3>3. QED
      BY <3>1, <3>2
  <2>7. ASSUME NEW i \in 1..n
        PROVE  x[Len(b) + i] = y[Len(a) - n + Len(b) + i]
    <3>1. CASE Len(b) + i <= n
      <4>1. x[Len(b) + i] = t[Len(b) + i] /\ Len(b) + i \in 1..n
        BY <2>2, <2>3, <3>1 DEF x
      <4>2. t[Len(b) + i] = a[Len(a) - n + (Len(b) + i)]
        BY <2>1, <4>1
      <4>3. Len(a) - n + (Len(b) + i) = Len(a) - n + Len(b) + i
        BY <2>2
      <4>4. y[Len(a) - n + Len(b) + i] = a[Len(a) - n + Len(b) + i]
        BY <1>2, <2>2, <2>4, <3>1 DEF y
      <4>5. QED
        BY <4>1, <4>2, <4>3, <4>4
    <3>2. CASE n < Len(b) + i
      <4>1. x[Len(b) + i] = b[Len(b) + i - n]
        BY <2>2, <2>3, <3>2 DEF x
      <4>2. /\ Len(a) - n + Len(b) + i \in 1..(Len(a) + Len(b))
            /\ ~(Len(a) - n + Len(b) + i <= Len(a))
            /\ Len(a) - n + Len(b) + i - Len(a) = Len(b) + i - n
        BY <1>2, <2>2, <3>2
      <4>3. y[Len(a) - n + Len(b) + i] = b[Len(b) + i - n]
        BY <2>4, <4>2 DEF y
      <4>4. QED
        BY <4>1, <4>3
    <3>3. QED
      BY <2>2, <3>1, <3>2
  <2>8. LastN(x, n) = LastN(y, n)
    BY <2>5, <2>6, <2>7, SeqEqual
  <2>9. QED
    BY <2>8 DEF t, x, y
<1>3. QED
  BY <1>1, <1>2

(* The window of a window is the window.                                   *)
LEMMA WindowTwice ==
  ASSUME NEW s \in Seq(Message)
  PROVE  /\ Window(s) \in Seq(Message)
         /\ Window(<<>> \o Window(s)) = Window(s)
         /\ \A b \in Seq(Message) : Window(Window(s) \o b) = Window(s \o b)
<1>1. MaxTurns \in Nat
  BY ChatAssumption
<1>2. Window(s) \in Seq(Message) /\ Len(Window(s)) <= MaxTurns
  BY <1>1, LastNType DEF Window
<1>3. <<>> \o Window(s) = Window(s)
  BY <1>2
<1>4. Window(Window(s)) = Window(s)
  BY <1>2 DEF Window, LastN
<1>5. QED
  BY <1>1, <1>2, <1>3, <1>4, LastNConcat DEF Window

(* A history of full length, or the whole log.                             *)
LEMMA HistoryIsWhole ==
  ASSUME NEW s \in Seq(Message), NEW n \in Nat
  PROVE  LastN(s, n) = s \/ Len(LastN(s, n)) = n
<1>1. CASE Len(s) <= n
  BY <1>1 DEF LastN
<1>2. CASE ~(Len(s) <= n)
  <2>1. Len(s) \in Nat
    OBVIOUS
  <2>2. n <= Len(s)
    BY <1>2, <2>1
  <2>3. QED
    BY <2>2, LastNElements
<1>3. QED
  BY <1>1, <1>2

-----------------------------------------------------------------------------
(* The inductive invariant. *)

(* A request at work has a caller. *)
Called == \A r \in Requests : Active(r) => req[r].user \in Users

(* Past db.get, or the choice of a new uuid, a request is in a session. *)
Located == \A r \in Requests : Active(r) /\ pc[r] # "get" => req[r].session \in Sessions

(* Past the look-up or the insert, the session is the caller's. *)
Entitled ==
  \A r \in Requests :
    Active(r) /\ pc[r] \notin {"get", "insert"} => owner[req[r].session] = req[r].user

(* A chat past the look-up or the insert has its buffer registered.        *)
Warm ==
  \A r \in Requests :
    (/\ Active(r)
     /\ pc[r] \notin {"get", "insert", "inserted"}
     /\ req[r].kind # "history") => req[r].session \in hot

(* A session being inserted has no owner yet and is nobody else's. *)
Inserting ==
  \A r \in Requests :
    pc[r] = "insert"
      => /\ owner[req[r].session] = Nobody
         /\ \A x \in Requests : req[x].session = req[r].session => x = r

(* A session without a row has no client, no messages and no turns. *)
Unborn ==
  \A s \in Sessions :
    owner[s] = Nobody => s \notin announced /\ log[s] = <<>> /\ buffer[s] = <<>>

(* A request has no outcome before it is done. *)
Undecided == \A r \in Requests : pc[r] # "done" => status[r] = "none"

(* An answered request has a session. *)
Answered == \A r \in Requests : status[r] = "ok" => req[r].session \in Sessions

(* Nothing was read for a request that has not arrived. *)
Unread ==
  \A r \in Requests :
    pc[r] = "idle" => Authors(rows[r]) = {} /\ Authors(ctx[r]) = {}

(* Its exchange is in the log only after the commit was tried, and then it *)
(* is there or was given up.                                               *)
Committed ==
  /\ \A r \in Requests, s \in Sessions :
       r \in Authors(log[s]) => pc[r] \in {"persisted", "done"}
  /\ \A r \in Requests \ unsaved :
       pc[r] = "persisted" => r \in Authors(log[req[r].session])

IInv ==
  /\ TypeOK
  /\ Called /\ Located /\ Entitled /\ Warm /\ Inserting
  /\ Unborn
  /\ Undecided
  /\ Answered
  /\ Unread
  /\ Committed
  /\ OnlyAnsweredRecorded
  /\ Isolation
  /\ AnsweredDurable

(* What the updates of buffers and logs produce. *)
LEMMA Updates ==
  ASSUME TypeOK, NEW r \in Requests, NEW s \in Sessions, NEW n \in Nat
  PROVE  /\ LastN(log[s], n) \in Seq(Message)
         /\ Authors(LastN(log[s], n)) \subseteq Authors(log[s])
         /\ Window(buffer[s] \o rows[r]) \in Seq(Message)
         /\ Len(Window(buffer[s] \o rows[r])) <= MaxTurns
         /\ Authors(Window(buffer[s] \o rows[r]))
              \subseteq Authors(buffer[s]) \cup Authors(rows[r])
         /\ Window(buffer[s] \o Exchange(r)) \in Seq(Message)
         /\ Len(Window(buffer[s] \o Exchange(r))) <= MaxTurns
         /\ Authors(Window(buffer[s] \o Exchange(r))) \subseteq Authors(buffer[s]) \cup {r}
         /\ log[s] \o Exchange(r) \in Seq(Message)
         /\ Authors(log[s] \o Exchange(r)) = Authors(log[s]) \cup {r}
<1>1. /\ log[s] \in Seq(Message)
      /\ buffer[s] \in Seq(Message)
      /\ rows[r] \in Seq(Message)
      /\ MaxTurns \in Nat
  BY ChatAssumption DEF TypeOK
<1>2. /\ buffer[s] \o rows[r] \in Seq(Message)
      /\ Authors(buffer[s] \o rows[r]) = Authors(buffer[s]) \cup Authors(rows[r])
  BY <1>1, ConcatAuthors
<1>3. /\ buffer[s] \o Exchange(r) \in Seq(Message)
      /\ Authors(buffer[s] \o Exchange(r)) = Authors(buffer[s]) \cup {r}
      /\ log[s] \o Exchange(r) \in Seq(Message)
      /\ Authors(log[s] \o Exchange(r)) = Authors(log[s]) \cup {r}
  BY <1>1, ConcatAuthors, ExchangeAuthors
<1>4. LastN(log[s], n) \in Seq(Message) /\ Authors(LastN(log[s], n)) \subseteq Authors(log[s])
  BY <1>1, LastNType, LastNAuthors
<1>5. ASSUME NEW q \in Seq(Message)
      PROVE  /\ Window(q) \in Seq(Message)
             /\ Len(Window(q)) <= MaxTurns
             /\ Authors(Window(q)) \subseteq Authors(q)
  BY <1>1, LastNType, LastNAuthors DEF Window
<1>. QED BY <1>2, <1>3, <1>4, <1>5

(* Past the look-up or the insert, a request is in a session of its caller. *)
LEMMA Place ==
  ASSUME IInv, NEW r \in Requests, Active(r), pc[r] \notin {"get", "insert"}
  PROVE  /\ req[r].session \in Sessions
         /\ owner[req[r].session] # Nobody
         /\ owner[req[r].session] = req[r].user
BY ChatAssumption DEF IInv, Called, Located, Entitled

(* Every step keeps the types and the window. *)
LEMMA TypeStep == IInv /\ [Next]_vars => TypeOK'
<1> SUFFICES ASSUME IInv, [Next]_vars PROVE TypeOK'
  OBVIOUS
<1> USE ChatAssumption DEF IInv, TypeOK, Goto, Reply, Awaits, Finished, Kinds, ChatKinds, SessionRef, dbVars,
           memoryVars, historyVars, Disturb, NoteAcked, EnterGuard
<1>1. ASSUME NEW r \in Requests, Refuse(r)
      PROVE  TypeOK'
  BY <1>1 DEF Refuse
<1>2. ASSUME NEW r \in Requests, InsertCommit(r)
      PROVE  TypeOK'
  BY <1>2 DEF InsertCommit
<1>3. ASSUME NEW r \in Requests, InsertResume(r)
      PROVE  TypeOK'
  <2>1. req[r].session \in Sessions
    BY <1>3 DEF InsertResume, Located, Active
  <2>2. buffer' = [buffer EXCEPT ![req[r].session] = <<>>] /\ hot' = hot \cup {req[r].session}
    BY <1>3 DEF InsertResume
  <2>3. /\ buffer' \in [Sessions -> Seq(Message)]
        /\ \A s \in Sessions : Len(buffer'[s]) <= IF s \in hot' THEN MaxTurns ELSE 0
    BY <2>1, <2>2, NoAuthors
  <2>4. /\ pc' \in [Requests -> Finished \cup Awaits]
        /\ status' = status \/ status' = [status EXCEPT ![r] = "ok"]
        /\ announced' \subseteq Sessions
        /\ UNCHANGED <<owner, log, req, rows, ctx, acked, unsaved, disturbed, crashes>>
    BY <1>3, <2>1 DEF InsertResume
  <2>5. hot' \subseteq Sessions
    BY <2>1, <2>2
  <2>6. status' \in [Requests -> {"none", "ok", "refused", "not_found", "rejected",
                                 "unavailable", "aborted"}]
    BY <2>4
  <2>. QED BY <2>3, <2>4, <2>5, <2>6
<1>4. ASSUME NEW r \in Requests, NotFound(r)
      PROVE  TypeOK'
  BY <1>4 DEF NotFound
<1>5. ASSUME NEW r \in Requests, GetHistory(r)
      PROVE  TypeOK'
  BY <1>5 DEF GetHistory
<1>6. ASSUME NEW r \in Requests, GetHot(r)
      PROVE  TypeOK'
  BY <1>6 DEF GetHot
<1>7. ASSUME NEW r \in Requests, GetCold(r)
      PROVE  TypeOK'
  <2>1. req[r].session \in Sessions
    BY <1>7 DEF GetCold, Owned
  <2>. QED BY <1>7, <2>1, NoAuthors DEF GetCold
<1>8. ASSUME NEW r \in Requests, Read(r)
      PROVE  TypeOK'
  <2>1. req[r].session \in Sessions
    BY <1>8 DEF Read, Located, Active
  <2>2. /\ LastN(log[req[r].session], MaxTurns) \in Seq(Message)
        /\ LastN(log[req[r].session], HistoryLimit) \in Seq(Message)
    BY <2>1, Updates
  <2>. QED BY <1>8, <2>2 DEF Read
<1>9. ASSUME NEW r \in Requests, ReadResume(r)
      PROVE  TypeOK'
  <2> DEFINE filled == Window(buffer[req[r].session] \o rows[r])
  <2>1. req[r].session \in Sessions
    BY <1>9 DEF ReadResume, Located, Active
  <2>2. filled \in Seq(Message) /\ Len(filled) <= MaxTurns
    BY <2>1, Updates
  <2>3. CASE req[r].kind = "history"
    BY <1>9, <2>3 DEF ReadResume
  <2>4. CASE req[r].kind # "history"
    <3>1. req[r].session \in hot
      BY <1>9, <2>4 DEF ReadResume, Warm, Active
    <3>2. /\ buffer' = [buffer EXCEPT ![req[r].session] = filled]
          /\ pc' = [pc EXCEPT ![r] = "guard"]
          /\ ctx' = ctx \/ ctx' = [ctx EXCEPT ![r] = filled]
          /\ UNCHANGED <<owner, log, hot, announced, req, rows, status,
                        acked, unsaved, disturbed, crashes>>
      BY <1>9, <2>4 DEF ReadResume
    <3>3. /\ buffer' \in [Sessions -> Seq(Message)]
          /\ \A s \in Sessions : Len(buffer'[s]) <= IF s \in hot' THEN MaxTurns ELSE 0
      BY <2>1, <2>2, <3>1, <3>2
    <3>4. ctx' \in [Requests -> Seq(Message)]
      BY <2>1, <2>2, <3>2
    <3>. QED BY <3>2, <3>3, <3>4
  <2>. QED BY <2>3, <2>4
<1>10. ASSUME NEW r \in Requests, DbDown(r)
      PROVE  TypeOK'
  <2>1. pc[r] = "read" => req[r].session \in Sessions
    BY <1>10 DEF DbDown, Located, Active
  <2>. QED BY <1>10, <2>1 DEF DbDown
<1>11. ASSUME NEW r \in Requests, GuardReject(r)
      PROVE  TypeOK'
  BY <1>11 DEF GuardReject
<1>12. ASSUME NEW r \in Requests, GuardPass(r)
      PROVE  TypeOK'
  <2>1. req[r].session \in Sessions
    BY <1>12 DEF GuardPass, Located, Active
  <2>. QED BY <1>12, <2>1 DEF GuardPass
<1>13. ASSUME NEW r \in Requests, GenerateFail(r)
      PROVE  TypeOK'
  BY <1>13 DEF GenerateFail
<1>14. ASSUME NEW r \in Requests, Record(r)
      PROVE  TypeOK'
  <2>1. req[r].session \in Sessions
    BY <1>14 DEF Record, Located, Active
  <2>2. /\ Window(buffer[req[r].session] \o Exchange(r)) \in Seq(Message)
        /\ Len(Window(buffer[req[r].session] \o Exchange(r))) <= MaxTurns
    BY <2>1, Updates
  <2>. QED BY <1>14, <2>1, <2>2 DEF Record
<1>15. ASSUME NEW r \in Requests, PersistCommit(r)
      PROVE  TypeOK'
  <2>1. req[r].session \in Sessions
    BY <1>15 DEF PersistCommit, Located, Active
  <2>2. log[req[r].session] \o Exchange(r) \in Seq(Message)
    BY <2>1, Updates
  <2>. QED BY <1>15, <2>1, <2>2 DEF PersistCommit
<1>16. ASSUME NEW r \in Requests, PersistFail(r)
      PROVE  TypeOK'
  <2>1. req[r].session \in Sessions
    BY <1>16 DEF PersistFail, Located, Active
  <2>. QED BY <1>16, <2>1 DEF PersistFail
<1>17. ASSUME NEW r \in Requests, Respond(r)
      PROVE  TypeOK'
  <2>1. req[r].session \in Sessions
    BY <1>17 DEF Respond, Located, Active
  <2>. QED BY <1>17, <2>1 DEF Respond
<1>18. ASSUME NEW r \in Requests, Disconnect(r)
      PROVE  TypeOK'
  <2>1. req[r].session \in Sessions
    BY <1>18 DEF Disconnect, Located, Active
  <2>. QED BY <1>18, <2>1 DEF Disconnect
<1>19. ASSUME NEW r \in Requests, NEW u \in Users, NEW k \in Kinds, NEW s \in Sessions,
             ArriveNew(r, u, k, s)
      PROVE  TypeOK'
  BY <1>19 DEF ArriveNew
<1>20. ASSUME NEW r \in Requests, NEW u \in Users, NEW k \in Kinds,
             NEW s \in announced \cup {UnknownId}, ArriveOn(r, u, k, s)
      PROVE  TypeOK'
  BY <1>20 DEF ArriveOn
<1>21. CASE Restart
  BY <1>21, NoAuthors DEF Restart
<1>22. CASE UNCHANGED vars
  BY <1>22 DEF vars
<1>. QED
  BY <1>1, <1>2, <1>3, <1>4, <1>5, <1>6, <1>7, <1>8, <1>9, <1>10, <1>11, <1>12, <1>13, <1>14, <1>15, <1>16, <1>17, <1>18, <1>19, <1>20, <1>21, <1>22
  DEF Next, Serve, Arrive

(* Only an arrival changes who asks. *)
LEMMA CalledStep == IInv /\ [Next]_vars => Called'
<1> SUFFICES ASSUME IInv, [Next]_vars PROVE Called'
  OBVIOUS
<1> USE ChatAssumption DEF IInv, TypeOK, Goto, Reply, Active, Awaits, Finished, ChatKinds, dbVars, memoryVars,
           historyVars, Disturb, NoteAcked, EnterGuard, Called
<1>1. ASSUME NEW r \in Requests, Refuse(r)
      PROVE  Called'
  BY <1>1 DEF Refuse
<1>2. ASSUME NEW r \in Requests, InsertCommit(r)
      PROVE  Called'
  BY <1>2 DEF InsertCommit
<1>3. ASSUME NEW r \in Requests, InsertResume(r)
      PROVE  Called'
  BY <1>3 DEF InsertResume
<1>4. ASSUME NEW r \in Requests, NotFound(r)
      PROVE  Called'
  BY <1>4 DEF NotFound
<1>5. ASSUME NEW r \in Requests, GetHistory(r)
      PROVE  Called'
  BY <1>5 DEF GetHistory
<1>6. ASSUME NEW r \in Requests, GetHot(r)
      PROVE  Called'
  BY <1>6 DEF GetHot
<1>7. ASSUME NEW r \in Requests, GetCold(r)
      PROVE  Called'
  BY <1>7 DEF GetCold
<1>8. ASSUME NEW r \in Requests, Read(r)
      PROVE  Called'
  BY <1>8 DEF Read
<1>9. ASSUME NEW r \in Requests, ReadResume(r)
      PROVE  Called'
  BY <1>9 DEF ReadResume
<1>10. ASSUME NEW r \in Requests, DbDown(r)
      PROVE  Called'
  BY <1>10 DEF DbDown
<1>11. ASSUME NEW r \in Requests, GuardReject(r)
      PROVE  Called'
  BY <1>11 DEF GuardReject
<1>12. ASSUME NEW r \in Requests, GuardPass(r)
      PROVE  Called'
  BY <1>12 DEF GuardPass
<1>13. ASSUME NEW r \in Requests, GenerateFail(r)
      PROVE  Called'
  BY <1>13 DEF GenerateFail
<1>14. ASSUME NEW r \in Requests, Record(r)
      PROVE  Called'
  BY <1>14 DEF Record
<1>15. ASSUME NEW r \in Requests, PersistCommit(r)
      PROVE  Called'
  BY <1>15 DEF PersistCommit
<1>16. ASSUME NEW r \in Requests, PersistFail(r)
      PROVE  Called'
  BY <1>16 DEF PersistFail
<1>17. ASSUME NEW r \in Requests, Respond(r)
      PROVE  Called'
  BY <1>17 DEF Respond
<1>18. ASSUME NEW r \in Requests, Disconnect(r)
      PROVE  Called'
  BY <1>18 DEF Disconnect
<1>19. ASSUME NEW r \in Requests, NEW u \in Users, NEW k \in Kinds, NEW s \in Sessions,
             ArriveNew(r, u, k, s)
      PROVE  Called'
  BY <1>19 DEF ArriveNew
<1>20. ASSUME NEW r \in Requests, NEW u \in Users, NEW k \in Kinds,
             NEW s \in announced \cup {UnknownId}, ArriveOn(r, u, k, s)
      PROVE  Called'
  BY <1>20 DEF ArriveOn
<1>21. CASE Restart
  BY <1>21 DEF Restart
<1>22. CASE UNCHANGED vars
  BY <1>22 DEF vars
<1>. QED
  BY <1>1, <1>2, <1>3, <1>4, <1>5, <1>6, <1>7, <1>8, <1>9, <1>10, <1>11, <1>12, <1>13, <1>14, <1>15, <1>16, <1>17, <1>18, <1>19, <1>20, <1>21, <1>22
  DEF Next, Serve, Arrive

(* Where a request is in a session, the session is one of the server's. *)
LEMMA LocatedStep == IInv /\ [Next]_vars => Located'
<1> SUFFICES ASSUME IInv, [Next]_vars PROVE Located'
  OBVIOUS
<1> USE ChatAssumption DEF IInv, TypeOK, Goto, Reply, Active, Awaits, Finished, ChatKinds, dbVars, memoryVars,
           historyVars, Disturb, NoteAcked, EnterGuard, Owned, Located
<1>1. ASSUME NEW r \in Requests, Refuse(r)
      PROVE  Located'
  BY <1>1 DEF Refuse
<1>2. ASSUME NEW r \in Requests, InsertCommit(r)
      PROVE  Located'
  BY <1>2 DEF InsertCommit
<1>3. ASSUME NEW r \in Requests, InsertResume(r)
      PROVE  Located'
  BY <1>3 DEF InsertResume
<1>4. ASSUME NEW r \in Requests, NotFound(r)
      PROVE  Located'
  BY <1>4 DEF NotFound
<1>5. ASSUME NEW r \in Requests, GetHistory(r)
      PROVE  Located'
  BY <1>5 DEF GetHistory
<1>6. ASSUME NEW r \in Requests, GetHot(r)
      PROVE  Located'
  BY <1>6 DEF GetHot
<1>7. ASSUME NEW r \in Requests, GetCold(r)
      PROVE  Located'
  BY <1>7 DEF GetCold
<1>8. ASSUME NEW r \in Requests, Read(r)
      PROVE  Located'
  BY <1>8 DEF Read
<1>9. ASSUME NEW r \in Requests, ReadResume(r)
      PROVE  Located'
  BY <1>9 DEF ReadResume
<1>10. ASSUME NEW r \in Requests, DbDown(r)
      PROVE  Located'
  BY <1>10 DEF DbDown
<1>11. ASSUME NEW r \in Requests, GuardReject(r)
      PROVE  Located'
  BY <1>11 DEF GuardReject
<1>12. ASSUME NEW r \in Requests, GuardPass(r)
      PROVE  Located'
  BY <1>12 DEF GuardPass
<1>13. ASSUME NEW r \in Requests, GenerateFail(r)
      PROVE  Located'
  BY <1>13 DEF GenerateFail
<1>14. ASSUME NEW r \in Requests, Record(r)
      PROVE  Located'
  BY <1>14 DEF Record
<1>15. ASSUME NEW r \in Requests, PersistCommit(r)
      PROVE  Located'
  BY <1>15 DEF PersistCommit
<1>16. ASSUME NEW r \in Requests, PersistFail(r)
      PROVE  Located'
  BY <1>16 DEF PersistFail
<1>17. ASSUME NEW r \in Requests, Respond(r)
      PROVE  Located'
  BY <1>17 DEF Respond
<1>18. ASSUME NEW r \in Requests, Disconnect(r)
      PROVE  Located'
  BY <1>18 DEF Disconnect
<1>19. ASSUME NEW r \in Requests, NEW u \in Users, NEW k \in Kinds, NEW s \in Sessions,
             ArriveNew(r, u, k, s)
      PROVE  Located'
  BY <1>19 DEF ArriveNew
<1>20. ASSUME NEW r \in Requests, NEW u \in Users, NEW k \in Kinds,
             NEW s \in announced \cup {UnknownId}, ArriveOn(r, u, k, s)
      PROVE  Located'
  BY <1>20 DEF ArriveOn
<1>21. CASE Restart
  BY <1>21 DEF Restart
<1>22. CASE UNCHANGED vars
  BY <1>22 DEF vars
<1>. QED
  BY <1>1, <1>2, <1>3, <1>4, <1>5, <1>6, <1>7, <1>8, <1>9, <1>10, <1>11, <1>12, <1>13, <1>14, <1>15, <1>16, <1>17, <1>18, <1>19, <1>20, <1>21, <1>22
  DEF Next, Serve, Arrive

(* A request that works in a session is its owner's. *)
LEMMA EntitledStep == IInv /\ [Next]_vars => Entitled'
<1> SUFFICES ASSUME IInv, [Next]_vars PROVE Entitled'
  OBVIOUS
<1> USE ChatAssumption DEF IInv, TypeOK, Goto, Reply, Active, Awaits, Finished, ChatKinds, dbVars, memoryVars,
           historyVars, Disturb, NoteAcked, EnterGuard, Owned, Called, Located, Entitled, Inserting
<1>1. ASSUME NEW r \in Requests, Refuse(r)
      PROVE  Entitled'
  BY <1>1 DEF Refuse
<1>2. ASSUME NEW r \in Requests, InsertCommit(r)
      PROVE  Entitled'
  BY <1>2 DEF InsertCommit
<1>3. ASSUME NEW r \in Requests, InsertResume(r)
      PROVE  Entitled'
  <2>1. UNCHANGED <<owner, log, req, unsaved>>
    BY <1>3 DEF InsertResume
  <2>2. pc[r] = "inserted" /\ \A x \in Requests \ {r} : pc'[x] = pc[x]
    BY <1>3 DEF InsertResume
  <2>3. pc'[r] \in {"done", "guard"}
    BY <1>3 DEF InsertResume
  <2>. QED BY <2>1, <2>2, <2>3
<1>4. ASSUME NEW r \in Requests, NotFound(r)
      PROVE  Entitled'
  BY <1>4 DEF NotFound
<1>5. ASSUME NEW r \in Requests, GetHistory(r)
      PROVE  Entitled'
  BY <1>5 DEF GetHistory
<1>6. ASSUME NEW r \in Requests, GetHot(r)
      PROVE  Entitled'
  BY <1>6 DEF GetHot
<1>7. ASSUME NEW r \in Requests, GetCold(r)
      PROVE  Entitled'
  BY <1>7 DEF GetCold
<1>8. ASSUME NEW r \in Requests, Read(r)
      PROVE  Entitled'
  BY <1>8 DEF Read
<1>9. ASSUME NEW r \in Requests, ReadResume(r)
      PROVE  Entitled'
  <2>1. UNCHANGED <<owner, log, req, unsaved>>
    BY <1>9 DEF ReadResume
  <2>2. pc[r] = "rows" /\ \A x \in Requests \ {r} : pc'[x] = pc[x]
    BY <1>9 DEF ReadResume
  <2>3. pc'[r] \in {"done", "guard"}
    BY <1>9 DEF ReadResume
  <2>. QED BY <2>1, <2>2, <2>3
<1>10. ASSUME NEW r \in Requests, DbDown(r)
      PROVE  Entitled'
  BY <1>10 DEF DbDown
<1>11. ASSUME NEW r \in Requests, GuardReject(r)
      PROVE  Entitled'
  BY <1>11 DEF GuardReject
<1>12. ASSUME NEW r \in Requests, GuardPass(r)
      PROVE  Entitled'
  BY <1>12 DEF GuardPass
<1>13. ASSUME NEW r \in Requests, GenerateFail(r)
      PROVE  Entitled'
  BY <1>13 DEF GenerateFail
<1>14. ASSUME NEW r \in Requests, Record(r)
      PROVE  Entitled'
  BY <1>14 DEF Record
<1>15. ASSUME NEW r \in Requests, PersistCommit(r)
      PROVE  Entitled'
  BY <1>15 DEF PersistCommit
<1>16. ASSUME NEW r \in Requests, PersistFail(r)
      PROVE  Entitled'
  BY <1>16 DEF PersistFail
<1>17. ASSUME NEW r \in Requests, Respond(r)
      PROVE  Entitled'
  BY <1>17 DEF Respond
<1>18. ASSUME NEW r \in Requests, Disconnect(r)
      PROVE  Entitled'
  BY <1>18 DEF Disconnect
<1>19. ASSUME NEW r \in Requests, NEW u \in Users, NEW k \in Kinds, NEW s \in Sessions,
             ArriveNew(r, u, k, s)
      PROVE  Entitled'
  BY <1>19 DEF ArriveNew
<1>20. ASSUME NEW r \in Requests, NEW u \in Users, NEW k \in Kinds,
             NEW s \in announced \cup {UnknownId}, ArriveOn(r, u, k, s)
      PROVE  Entitled'
  BY <1>20 DEF ArriveOn
<1>21. CASE Restart
  BY <1>21 DEF Restart
<1>22. CASE UNCHANGED vars
  BY <1>22 DEF vars
<1>. QED
  BY <1>1, <1>2, <1>3, <1>4, <1>5, <1>6, <1>7, <1>8, <1>9, <1>10, <1>11, <1>12, <1>13, <1>14, <1>15, <1>16, <1>17, <1>18, <1>19, <1>20, <1>21, <1>22
  DEF Next, Serve, Arrive

(* A buffer that was registered stays until the process restarts. *)
LEMMA WarmStep == IInv /\ [Next]_vars => Warm'
<1> SUFFICES ASSUME IInv, [Next]_vars PROVE Warm'
  OBVIOUS
<1> USE ChatAssumption DEF IInv, TypeOK, Goto, Reply, Active, Awaits, Finished, ChatKinds, dbVars, memoryVars,
           historyVars, Disturb, NoteAcked, EnterGuard, Owned, Located, Warm
<1>1. ASSUME NEW r \in Requests, Refuse(r)
      PROVE  Warm'
  BY <1>1 DEF Refuse
<1>2. ASSUME NEW r \in Requests, InsertCommit(r)
      PROVE  Warm'
  BY <1>2 DEF InsertCommit
<1>3. ASSUME NEW r \in Requests, InsertResume(r)
      PROVE  Warm'
  BY <1>3 DEF InsertResume
<1>4. ASSUME NEW r \in Requests, NotFound(r)
      PROVE  Warm'
  BY <1>4 DEF NotFound
<1>5. ASSUME NEW r \in Requests, GetHistory(r)
      PROVE  Warm'
  BY <1>5 DEF GetHistory
<1>6. ASSUME NEW r \in Requests, GetHot(r)
      PROVE  Warm'
  BY <1>6 DEF GetHot
<1>7. ASSUME NEW r \in Requests, GetCold(r)
      PROVE  Warm'
  BY <1>7 DEF GetCold
<1>8. ASSUME NEW r \in Requests, Read(r)
      PROVE  Warm'
  BY <1>8 DEF Read
<1>9. ASSUME NEW r \in Requests, ReadResume(r)
      PROVE  Warm'
  BY <1>9 DEF ReadResume
<1>10. ASSUME NEW r \in Requests, DbDown(r)
      PROVE  Warm'
  BY <1>10 DEF DbDown
<1>11. ASSUME NEW r \in Requests, GuardReject(r)
      PROVE  Warm'
  BY <1>11 DEF GuardReject
<1>12. ASSUME NEW r \in Requests, GuardPass(r)
      PROVE  Warm'
  BY <1>12 DEF GuardPass
<1>13. ASSUME NEW r \in Requests, GenerateFail(r)
      PROVE  Warm'
  BY <1>13 DEF GenerateFail
<1>14. ASSUME NEW r \in Requests, Record(r)
      PROVE  Warm'
  BY <1>14 DEF Record
<1>15. ASSUME NEW r \in Requests, PersistCommit(r)
      PROVE  Warm'
  BY <1>15 DEF PersistCommit
<1>16. ASSUME NEW r \in Requests, PersistFail(r)
      PROVE  Warm'
  BY <1>16 DEF PersistFail
<1>17. ASSUME NEW r \in Requests, Respond(r)
      PROVE  Warm'
  BY <1>17 DEF Respond
<1>18. ASSUME NEW r \in Requests, Disconnect(r)
      PROVE  Warm'
  BY <1>18 DEF Disconnect
<1>19. ASSUME NEW r \in Requests, NEW u \in Users, NEW k \in Kinds, NEW s \in Sessions,
             ArriveNew(r, u, k, s)
      PROVE  Warm'
  BY <1>19 DEF ArriveNew
<1>20. ASSUME NEW r \in Requests, NEW u \in Users, NEW k \in Kinds,
             NEW s \in announced \cup {UnknownId}, ArriveOn(r, u, k, s)
      PROVE  Warm'
  BY <1>20 DEF ArriveOn
<1>21. CASE Restart
  BY <1>21 DEF Restart
<1>22. CASE UNCHANGED vars
  BY <1>22 DEF vars
<1>. QED
  BY <1>1, <1>2, <1>3, <1>4, <1>5, <1>6, <1>7, <1>8, <1>9, <1>10, <1>11, <1>12, <1>13, <1>14, <1>15, <1>16, <1>17, <1>18, <1>19, <1>20, <1>21, <1>22
  DEF Next, Serve, Arrive

(* A session id being inserted is not shared. *)
LEMMA InsertingStep == IInv /\ [Next]_vars => Inserting'
<1> SUFFICES ASSUME IInv, [Next]_vars PROVE Inserting'
  OBVIOUS
<1> USE ChatAssumption DEF IInv, TypeOK, Goto, Reply, Active, Awaits, Finished, ChatKinds, dbVars, memoryVars,
           historyVars, Disturb, NoteAcked, EnterGuard, Owned, Fresh, Called, Located, Unborn, Inserting
<1>1. ASSUME NEW r \in Requests, Refuse(r)
      PROVE  Inserting'
  BY <1>1 DEF Refuse
<1>2. ASSUME NEW r \in Requests, InsertCommit(r)
      PROVE  Inserting'
  BY <1>2 DEF InsertCommit
<1>3. ASSUME NEW r \in Requests, InsertResume(r)
      PROVE  Inserting'
  BY <1>3 DEF InsertResume
<1>4. ASSUME NEW r \in Requests, NotFound(r)
      PROVE  Inserting'
  BY <1>4 DEF NotFound
<1>5. ASSUME NEW r \in Requests, GetHistory(r)
      PROVE  Inserting'
  BY <1>5 DEF GetHistory
<1>6. ASSUME NEW r \in Requests, GetHot(r)
      PROVE  Inserting'
  BY <1>6 DEF GetHot
<1>7. ASSUME NEW r \in Requests, GetCold(r)
      PROVE  Inserting'
  BY <1>7 DEF GetCold
<1>8. ASSUME NEW r \in Requests, Read(r)
      PROVE  Inserting'
  BY <1>8 DEF Read
<1>9. ASSUME NEW r \in Requests, ReadResume(r)
      PROVE  Inserting'
  BY <1>9 DEF ReadResume
<1>10. ASSUME NEW r \in Requests, DbDown(r)
      PROVE  Inserting'
  BY <1>10 DEF DbDown
<1>11. ASSUME NEW r \in Requests, GuardReject(r)
      PROVE  Inserting'
  BY <1>11 DEF GuardReject
<1>12. ASSUME NEW r \in Requests, GuardPass(r)
      PROVE  Inserting'
  BY <1>12 DEF GuardPass
<1>13. ASSUME NEW r \in Requests, GenerateFail(r)
      PROVE  Inserting'
  BY <1>13 DEF GenerateFail
<1>14. ASSUME NEW r \in Requests, Record(r)
      PROVE  Inserting'
  BY <1>14 DEF Record
<1>15. ASSUME NEW r \in Requests, PersistCommit(r)
      PROVE  Inserting'
  BY <1>15 DEF PersistCommit
<1>16. ASSUME NEW r \in Requests, PersistFail(r)
      PROVE  Inserting'
  BY <1>16 DEF PersistFail
<1>17. ASSUME NEW r \in Requests, Respond(r)
      PROVE  Inserting'
  BY <1>17 DEF Respond
<1>18. ASSUME NEW r \in Requests, Disconnect(r)
      PROVE  Inserting'
  BY <1>18 DEF Disconnect
<1>19. ASSUME NEW r \in Requests, NEW u \in Users, NEW k \in Kinds, NEW s \in Sessions,
             ArriveNew(r, u, k, s)
      PROVE  Inserting'
  BY <1>19 DEF ArriveNew
<1>20. ASSUME NEW r \in Requests, NEW u \in Users, NEW k \in Kinds,
             NEW s \in announced \cup {UnknownId}, ArriveOn(r, u, k, s)
      PROVE  Inserting'
  BY <1>20 DEF ArriveOn
<1>21. CASE Restart
  BY <1>21 DEF Restart
<1>22. CASE UNCHANGED vars
  BY <1>22 DEF vars
<1>. QED
  BY <1>1, <1>2, <1>3, <1>4, <1>5, <1>6, <1>7, <1>8, <1>9, <1>10, <1>11, <1>12, <1>13, <1>14, <1>15, <1>16, <1>17, <1>18, <1>19, <1>20, <1>21, <1>22
  DEF Next, Serve, Arrive

(* Messages, turns and clients come after the row. *)
LEMMA UnbornStep == IInv /\ [Next]_vars => Unborn'
<1> SUFFICES ASSUME IInv, [Next]_vars PROVE Unborn'
  OBVIOUS
<1> USE ChatAssumption DEF IInv, TypeOK, Goto, Reply, Active, Awaits, Finished, ChatKinds, dbVars, memoryVars,
           historyVars, Disturb, NoteAcked, EnterGuard, Owned, Fresh, Called, Located, Entitled, Unborn
<1>1. ASSUME NEW r \in Requests, Refuse(r)
      PROVE  Unborn'
  BY <1>1 DEF Refuse
<1>2. ASSUME NEW r \in Requests, InsertCommit(r)
      PROVE  Unborn'
  BY <1>2 DEF InsertCommit
<1>3. ASSUME NEW r \in Requests, InsertResume(r)
      PROVE  Unborn'
  <2>1. /\ req[r].session \in Sessions
        /\ owner[req[r].session] # Nobody
    BY <1>3, Place DEF InsertResume
  <2>. QED BY <1>3, <2>1 DEF InsertResume
<1>4. ASSUME NEW r \in Requests, NotFound(r)
      PROVE  Unborn'
  BY <1>4 DEF NotFound
<1>5. ASSUME NEW r \in Requests, GetHistory(r)
      PROVE  Unborn'
  BY <1>5 DEF GetHistory
<1>6. ASSUME NEW r \in Requests, GetHot(r)
      PROVE  Unborn'
  BY <1>6 DEF GetHot
<1>7. ASSUME NEW r \in Requests, GetCold(r)
      PROVE  Unborn'
  BY <1>7 DEF GetCold
<1>8. ASSUME NEW r \in Requests, Read(r)
      PROVE  Unborn'
  BY <1>8 DEF Read
<1>9. ASSUME NEW r \in Requests, ReadResume(r)
      PROVE  Unborn'
  <2>1. /\ req[r].session \in Sessions
        /\ owner[req[r].session] # Nobody
    BY <1>9, Place DEF ReadResume
  <2>. QED BY <1>9, <2>1 DEF ReadResume
<1>10. ASSUME NEW r \in Requests, DbDown(r)
      PROVE  Unborn'
  BY <1>10 DEF DbDown
<1>11. ASSUME NEW r \in Requests, GuardReject(r)
      PROVE  Unborn'
  BY <1>11 DEF GuardReject
<1>12. ASSUME NEW r \in Requests, GuardPass(r)
      PROVE  Unborn'
  BY <1>12 DEF GuardPass
<1>13. ASSUME NEW r \in Requests, GenerateFail(r)
      PROVE  Unborn'
  BY <1>13 DEF GenerateFail
<1>14. ASSUME NEW r \in Requests, Record(r)
      PROVE  Unborn'
  BY <1>14 DEF Record
<1>15. ASSUME NEW r \in Requests, PersistCommit(r)
      PROVE  Unborn'
  BY <1>15 DEF PersistCommit
<1>16. ASSUME NEW r \in Requests, PersistFail(r)
      PROVE  Unborn'
  BY <1>16 DEF PersistFail
<1>17. ASSUME NEW r \in Requests, Respond(r)
      PROVE  Unborn'
  <2>1. /\ req[r].session \in Sessions
        /\ owner[req[r].session] # Nobody
    BY <1>17, Place DEF Respond
  <2>. QED BY <1>17, <2>1 DEF Respond
<1>18. ASSUME NEW r \in Requests, Disconnect(r)
      PROVE  Unborn'
  BY <1>18 DEF Disconnect
<1>19. ASSUME NEW r \in Requests, NEW u \in Users, NEW k \in Kinds, NEW s \in Sessions,
             ArriveNew(r, u, k, s)
      PROVE  Unborn'
  BY <1>19 DEF ArriveNew
<1>20. ASSUME NEW r \in Requests, NEW u \in Users, NEW k \in Kinds,
             NEW s \in announced \cup {UnknownId}, ArriveOn(r, u, k, s)
      PROVE  Unborn'
  BY <1>20 DEF ArriveOn
<1>21. CASE Restart
  BY <1>21 DEF Restart
<1>22. CASE UNCHANGED vars
  BY <1>22 DEF vars
<1>. QED
  BY <1>1, <1>2, <1>3, <1>4, <1>5, <1>6, <1>7, <1>8, <1>9, <1>10, <1>11, <1>12, <1>13, <1>14, <1>15, <1>16, <1>17, <1>18, <1>19, <1>20, <1>21, <1>22
  DEF Next, Serve, Arrive

(* The outcome comes with the end. *)
LEMMA UndecidedStep == IInv /\ [Next]_vars => Undecided'
<1> SUFFICES ASSUME IInv, [Next]_vars PROVE Undecided'
  OBVIOUS
<1> USE ChatAssumption DEF IInv, TypeOK, Goto, Reply, Active, Awaits, Finished, ChatKinds, dbVars, memoryVars,
           historyVars, Disturb, NoteAcked, EnterGuard, Undecided
<1>1. ASSUME NEW r \in Requests, Refuse(r)
      PROVE  Undecided'
  BY <1>1 DEF Refuse
<1>2. ASSUME NEW r \in Requests, InsertCommit(r)
      PROVE  Undecided'
  BY <1>2 DEF InsertCommit
<1>3. ASSUME NEW r \in Requests, InsertResume(r)
      PROVE  Undecided'
  BY <1>3 DEF InsertResume
<1>4. ASSUME NEW r \in Requests, NotFound(r)
      PROVE  Undecided'
  BY <1>4 DEF NotFound
<1>5. ASSUME NEW r \in Requests, GetHistory(r)
      PROVE  Undecided'
  BY <1>5 DEF GetHistory
<1>6. ASSUME NEW r \in Requests, GetHot(r)
      PROVE  Undecided'
  BY <1>6 DEF GetHot
<1>7. ASSUME NEW r \in Requests, GetCold(r)
      PROVE  Undecided'
  BY <1>7 DEF GetCold
<1>8. ASSUME NEW r \in Requests, Read(r)
      PROVE  Undecided'
  BY <1>8 DEF Read
<1>9. ASSUME NEW r \in Requests, ReadResume(r)
      PROVE  Undecided'
  BY <1>9 DEF ReadResume
<1>10. ASSUME NEW r \in Requests, DbDown(r)
      PROVE  Undecided'
  BY <1>10 DEF DbDown
<1>11. ASSUME NEW r \in Requests, GuardReject(r)
      PROVE  Undecided'
  BY <1>11 DEF GuardReject
<1>12. ASSUME NEW r \in Requests, GuardPass(r)
      PROVE  Undecided'
  BY <1>12 DEF GuardPass
<1>13. ASSUME NEW r \in Requests, GenerateFail(r)
      PROVE  Undecided'
  BY <1>13 DEF GenerateFail
<1>14. ASSUME NEW r \in Requests, Record(r)
      PROVE  Undecided'
  BY <1>14 DEF Record
<1>15. ASSUME NEW r \in Requests, PersistCommit(r)
      PROVE  Undecided'
  BY <1>15 DEF PersistCommit
<1>16. ASSUME NEW r \in Requests, PersistFail(r)
      PROVE  Undecided'
  BY <1>16 DEF PersistFail
<1>17. ASSUME NEW r \in Requests, Respond(r)
      PROVE  Undecided'
  BY <1>17 DEF Respond
<1>18. ASSUME NEW r \in Requests, Disconnect(r)
      PROVE  Undecided'
  BY <1>18 DEF Disconnect
<1>19. ASSUME NEW r \in Requests, NEW u \in Users, NEW k \in Kinds, NEW s \in Sessions,
             ArriveNew(r, u, k, s)
      PROVE  Undecided'
  BY <1>19 DEF ArriveNew
<1>20. ASSUME NEW r \in Requests, NEW u \in Users, NEW k \in Kinds,
             NEW s \in announced \cup {UnknownId}, ArriveOn(r, u, k, s)
      PROVE  Undecided'
  BY <1>20 DEF ArriveOn
<1>21. CASE Restart
  BY <1>21 DEF Restart
<1>22. CASE UNCHANGED vars
  BY <1>22 DEF vars
<1>. QED
  BY <1>1, <1>2, <1>3, <1>4, <1>5, <1>6, <1>7, <1>8, <1>9, <1>10, <1>11, <1>12, <1>13, <1>14, <1>15, <1>16, <1>17, <1>18, <1>19, <1>20, <1>21, <1>22
  DEF Next, Serve, Arrive

(* The log and the requests that tried to commit agree. *)
LEMMA CommittedStep == IInv /\ [Next]_vars => Committed'
<1> SUFFICES ASSUME IInv, [Next]_vars PROVE Committed'
  OBVIOUS
<1> USE ChatAssumption DEF IInv, TypeOK, Goto, Reply, Active, Awaits, Finished, ChatKinds, dbVars, memoryVars,
           historyVars, Disturb, NoteAcked, EnterGuard, Located, Committed
<1>1. ASSUME NEW r \in Requests, Refuse(r)
      PROVE  Committed'
  BY <1>1 DEF Refuse
<1>2. ASSUME NEW r \in Requests, InsertCommit(r)
      PROVE  Committed'
  BY <1>2 DEF InsertCommit
<1>3. ASSUME NEW r \in Requests, InsertResume(r)
      PROVE  Committed'
  <2>1. UNCHANGED <<owner, log, req, unsaved>>
    BY <1>3 DEF InsertResume
  <2>2. pc[r] = "inserted" /\ \A x \in Requests \ {r} : pc'[x] = pc[x]
    BY <1>3 DEF InsertResume
  <2>3. pc'[r] \in {"done", "guard"}
    BY <1>3 DEF InsertResume
  <2>. QED BY <2>1, <2>2, <2>3
<1>4. ASSUME NEW r \in Requests, NotFound(r)
      PROVE  Committed'
  BY <1>4 DEF NotFound
<1>5. ASSUME NEW r \in Requests, GetHistory(r)
      PROVE  Committed'
  BY <1>5 DEF GetHistory
<1>6. ASSUME NEW r \in Requests, GetHot(r)
      PROVE  Committed'
  BY <1>6 DEF GetHot
<1>7. ASSUME NEW r \in Requests, GetCold(r)
      PROVE  Committed'
  BY <1>7 DEF GetCold
<1>8. ASSUME NEW r \in Requests, Read(r)
      PROVE  Committed'
  BY <1>8 DEF Read
<1>9. ASSUME NEW r \in Requests, ReadResume(r)
      PROVE  Committed'
  <2>1. UNCHANGED <<owner, log, req, unsaved>>
    BY <1>9 DEF ReadResume
  <2>2. pc[r] = "rows" /\ \A x \in Requests \ {r} : pc'[x] = pc[x]
    BY <1>9 DEF ReadResume
  <2>3. pc'[r] \in {"done", "guard"}
    BY <1>9 DEF ReadResume
  <2>. QED BY <2>1, <2>2, <2>3
<1>10. ASSUME NEW r \in Requests, DbDown(r)
      PROVE  Committed'
  BY <1>10 DEF DbDown
<1>11. ASSUME NEW r \in Requests, GuardReject(r)
      PROVE  Committed'
  BY <1>11 DEF GuardReject
<1>12. ASSUME NEW r \in Requests, GuardPass(r)
      PROVE  Committed'
  BY <1>12 DEF GuardPass
<1>13. ASSUME NEW r \in Requests, GenerateFail(r)
      PROVE  Committed'
  BY <1>13 DEF GenerateFail
<1>14. ASSUME NEW r \in Requests, Record(r)
      PROVE  Committed'
  BY <1>14 DEF Record
<1>15. ASSUME NEW r \in Requests, PersistCommit(r)
      PROVE  Committed'
  <2>1. req[r].session \in Sessions
    BY <1>15 DEF PersistCommit, Located
  <2>2. Authors(log[req[r].session] \o Exchange(r)) = Authors(log[req[r].session]) \cup {r}
    BY <2>1, Updates, ZenonT(60)
  <2>3. /\ \A s \in Sessions : /\ Authors(log[s]) \subseteq Authors(log'[s])
                                /\ Authors(log'[s]) \subseteq Authors(log[s]) \cup {r}
        /\ r \in Authors(log'[req[r].session])
    BY <1>15, <2>1, <2>2 DEF PersistCommit
  <2>4. \A x \in Requests : pc'[x] = IF x = r THEN "persisted" ELSE pc[x]
    BY <1>15 DEF PersistCommit
  <2>5. req' = req /\ unsaved' = unsaved
    BY <1>15 DEF PersistCommit
  <2>6. ASSUME NEW x \in Requests, NEW s \in Sessions, x \in Authors(log'[s])
        PROVE  pc'[x] \in {"persisted", "done"}
    <3>1. x = r \/ x \in Authors(log[s])
      BY <2>3, <2>6
    <3>. QED BY <2>4, <3>1
  <2>7. \A x \in Requests \ unsaved' : pc'[x] = "persisted" => x \in Authors(log'[req'[x].session])
    BY <2>1, <2>3, <2>4, <2>5, ZenonT(60)
  <2>. QED BY <2>6, <2>7
<1>16. ASSUME NEW r \in Requests, PersistFail(r)
      PROVE  Committed'
  BY <1>16 DEF PersistFail
<1>17. ASSUME NEW r \in Requests, Respond(r)
      PROVE  Committed'
  BY <1>17 DEF Respond
<1>18. ASSUME NEW r \in Requests, Disconnect(r)
      PROVE  Committed'
  BY <1>18 DEF Disconnect
<1>19. ASSUME NEW r \in Requests, NEW u \in Users, NEW k \in Kinds, NEW s \in Sessions,
             ArriveNew(r, u, k, s)
      PROVE  Committed'
  BY <1>19 DEF ArriveNew
<1>20. ASSUME NEW r \in Requests, NEW u \in Users, NEW k \in Kinds,
             NEW s \in announced \cup {UnknownId}, ArriveOn(r, u, k, s)
      PROVE  Committed'
  BY <1>20 DEF ArriveOn
<1>21. CASE Restart
  BY <1>21 DEF Restart
<1>22. CASE UNCHANGED vars
  BY <1>22 DEF vars
<1>. QED
  BY <1>1, <1>2, <1>3, <1>4, <1>5, <1>6, <1>7, <1>8, <1>9, <1>10, <1>11, <1>12, <1>13, <1>14, <1>15, <1>16, <1>17, <1>18, <1>19, <1>20, <1>21, <1>22
  DEF Next, Serve, Arrive

(* Turns appear only with an answer. *)
LEMMA OnlyAnsweredStep == IInv /\ [Next]_vars => OnlyAnsweredRecorded'
<1> SUFFICES ASSUME IInv, [Next]_vars PROVE OnlyAnsweredRecorded'
  OBVIOUS
<1> USE ChatAssumption DEF IInv, TypeOK, Goto, Reply, Active, Awaits, Finished, ChatKinds, dbVars, memoryVars,
           historyVars, Disturb, NoteAcked, EnterGuard, Undecided, OnlyAnsweredRecorded
<1>1. ASSUME NEW r \in Requests, Refuse(r)
      PROVE  OnlyAnsweredRecorded'
  <2>1. \A x \in Requests : Spoken(x)' => Spoken(x)
    BY <1>1, NoAuthors DEF Refuse, Spoken
  <2>. QED BY <1>1, <2>1 DEF Refuse
<1>2. ASSUME NEW r \in Requests, InsertCommit(r)
      PROVE  OnlyAnsweredRecorded'
  <2>1. \A x \in Requests : Spoken(x)' => Spoken(x)
    BY <1>2, NoAuthors DEF InsertCommit, Spoken
  <2>. QED BY <1>2, <2>1 DEF InsertCommit
<1>3. ASSUME NEW r \in Requests, InsertResume(r)
      PROVE  OnlyAnsweredRecorded'
  <2>1. req[r].session \in Sessions
    BY <1>3, Place DEF InsertResume
  <2>2. Authors(<<>>) = {}
    BY NoAuthors
  <2>3. ASSUME NEW x \in Requests, Spoken(x)'
        PROVE  Spoken(x)
    BY <1>3, <2>1, <2>2, <2>3, ZenonT(60) DEF InsertResume, Spoken
  <2>4. pc[r] = "inserted" /\ \A x \in Requests \ {r} : pc'[x] = pc[x] /\ status'[x] = status[x]
    BY <1>3 DEF InsertResume
  <2>5. ~Spoken(r)
    BY <2>4
  <2>. QED BY <2>3, <2>4, <2>5
<1>4. ASSUME NEW r \in Requests, NotFound(r)
      PROVE  OnlyAnsweredRecorded'
  <2>1. \A x \in Requests : Spoken(x)' => Spoken(x)
    BY <1>4, NoAuthors DEF NotFound, Spoken
  <2>. QED BY <1>4, <2>1 DEF NotFound
<1>5. ASSUME NEW r \in Requests, GetHistory(r)
      PROVE  OnlyAnsweredRecorded'
  <2>1. \A x \in Requests : Spoken(x)' => Spoken(x)
    BY <1>5, NoAuthors DEF GetHistory, Spoken
  <2>. QED BY <1>5, <2>1 DEF GetHistory
<1>6. ASSUME NEW r \in Requests, GetHot(r)
      PROVE  OnlyAnsweredRecorded'
  <2>1. \A x \in Requests : Spoken(x)' => Spoken(x)
    BY <1>6, NoAuthors DEF GetHot, Owned, Spoken
  <2>. QED BY <1>6, <2>1 DEF GetHot
<1>7. ASSUME NEW r \in Requests, GetCold(r)
      PROVE  OnlyAnsweredRecorded'
  <2>1. \A x \in Requests : Spoken(x)' => Spoken(x)
    BY <1>7, NoAuthors DEF GetCold, Spoken
  <2>. QED BY <1>7, <2>1 DEF GetCold
<1>8. ASSUME NEW r \in Requests, Read(r)
      PROVE  OnlyAnsweredRecorded'
  <2>1. req[r].session \in Sessions
    BY <1>8, Place DEF Read
  <2>2. /\ Authors(LastN(log[req[r].session], MaxTurns)) \subseteq Authors(log[req[r].session])
        /\ Authors(LastN(log[req[r].session], HistoryLimit)) \subseteq Authors(log[req[r].session])
    BY <2>1, Updates
  <2>3. ASSUME NEW x \in Requests, Spoken(x)'
        PROVE  Spoken(x)
    BY <1>8, <2>1, <2>2, <2>3, ZenonT(60) DEF Read, Spoken
  <2>. QED BY <1>8, <2>3 DEF Read
<1>9. ASSUME NEW r \in Requests, ReadResume(r)
      PROVE  OnlyAnsweredRecorded'
  <2>1. req[r].session \in Sessions
    BY <1>9, Place DEF ReadResume
  <2>2. Authors(Window(buffer[req[r].session] \o rows[r]))
          \subseteq Authors(buffer[req[r].session]) \cup Authors(rows[r])
    BY <2>1, Updates
  <2>3. ASSUME NEW x \in Requests, Spoken(x)'
        PROVE  Spoken(x)
    <3>1. CASE req[r].kind = "history"
      BY <1>9, <2>3, <3>1 DEF ReadResume, Spoken
    <3>2. CASE req[r].kind # "history"
      <4>1. /\ buffer' = [buffer EXCEPT ![req[r].session] = Window(buffer[req[r].session] \o rows[r])]
            /\ UNCHANGED <<log, rows>>
            /\ \A y \in Requests : \/ ctx'[y] = ctx[y]
                                  \/ ctx'[y] = Window(buffer[req[r].session] \o rows[r])
        BY <1>9, <3>2 DEF ReadResume
      <4>2. /\ \A s \in Sessions : \/ buffer'[s] = buffer[s]
                                  \/ buffer'[s] = Window(buffer[req[r].session] \o rows[r])
        BY <2>1, <4>1
      <4>. QED BY <2>1, <2>2, <2>3, <4>1, <4>2, ZenonT(60) DEF Spoken
    <3>. QED BY <3>1, <3>2
  <2>4. pc[r] = "rows" /\ \A x \in Requests \ {r} : pc'[x] = pc[x] /\ status'[x] = status[x]
    BY <1>9 DEF ReadResume
  <2>5. ~Spoken(r)
    BY <2>4
  <2>. QED BY <2>3, <2>4, <2>5
<1>10. ASSUME NEW r \in Requests, DbDown(r)
      PROVE  OnlyAnsweredRecorded'
  <2>1. \A x \in Requests : Spoken(x)' => Spoken(x)
    BY <1>10, NoAuthors DEF DbDown, Spoken
  <2>. QED BY <1>10, <2>1 DEF DbDown
<1>11. ASSUME NEW r \in Requests, GuardReject(r)
      PROVE  OnlyAnsweredRecorded'
  <2>1. \A x \in Requests : Spoken(x)' => Spoken(x)
    BY <1>11, NoAuthors DEF GuardReject, Spoken
  <2>. QED BY <1>11, <2>1 DEF GuardReject
<1>12. ASSUME NEW r \in Requests, GuardPass(r)
      PROVE  OnlyAnsweredRecorded'
  <2>1. req[r].session \in Sessions
    BY <1>12, Place DEF GuardPass
  <2>2. Authors(<<>>) = {}
    BY NoAuthors
  <2>3. ASSUME NEW x \in Requests, Spoken(x)'
        PROVE  Spoken(x)
    BY <1>12, <2>1, <2>2, <2>3 DEF GuardPass, Spoken
  <2>. QED BY <1>12, <2>3 DEF GuardPass
<1>13. ASSUME NEW r \in Requests, GenerateFail(r)
      PROVE  OnlyAnsweredRecorded'
  <2>1. \A x \in Requests : Spoken(x)' => Spoken(x)
    BY <1>13, NoAuthors DEF GenerateFail, Spoken
  <2>. QED BY <1>13, <2>1 DEF GenerateFail
<1>14. ASSUME NEW r \in Requests, Record(r)
      PROVE  OnlyAnsweredRecorded'
  <2>1. req[r].session \in Sessions
    BY <1>14, Place DEF Record
  <2>2. Authors(Window(buffer[req[r].session] \o Exchange(r)))
          \subseteq Authors(buffer[req[r].session]) \cup {r}
    BY <2>1, Updates
  <2>3. ASSUME NEW x \in Requests, Spoken(x)'
        PROVE  Spoken(x) \/ x = r
    BY <1>14, <2>1, <2>2, <2>3 DEF Record, Spoken
  <2>. QED BY <1>14, <2>3 DEF Record
<1>15. ASSUME NEW r \in Requests, PersistCommit(r)
      PROVE  OnlyAnsweredRecorded'
  <2>1. req[r].session \in Sessions
    BY <1>15, Place DEF PersistCommit
  <2>2. Authors(log[req[r].session] \o Exchange(r)) = Authors(log[req[r].session]) \cup {r}
    BY <2>1, Updates, ZenonT(60)
  <2>3. ASSUME NEW x \in Requests, Spoken(x)'
        PROVE  Spoken(x) \/ x = r
    BY <1>15, <2>1, <2>2, <2>3, ZenonT(60) DEF PersistCommit, Spoken
  <2>. QED BY <1>15, <2>3 DEF PersistCommit
<1>16. ASSUME NEW r \in Requests, PersistFail(r)
      PROVE  OnlyAnsweredRecorded'
  <2>1. \A x \in Requests : Spoken(x)' => Spoken(x)
    BY <1>16, NoAuthors DEF PersistFail, Spoken
  <2>. QED BY <1>16, <2>1 DEF PersistFail
<1>17. ASSUME NEW r \in Requests, Respond(r)
      PROVE  OnlyAnsweredRecorded'
  <2>1. \A x \in Requests : Spoken(x)' => Spoken(x)
    BY <1>17, NoAuthors DEF Respond, Spoken
  <2>. QED BY <1>17, <2>1 DEF Respond
<1>18. ASSUME NEW r \in Requests, Disconnect(r)
      PROVE  OnlyAnsweredRecorded'
  <2>1. \A x \in Requests : Spoken(x)' => Spoken(x)
    BY <1>18, NoAuthors DEF Disconnect, Spoken
  <2>. QED BY <1>18, <2>1 DEF Disconnect
<1>19. ASSUME NEW r \in Requests, NEW u \in Users, NEW k \in Kinds, NEW s \in Sessions,
             ArriveNew(r, u, k, s)
      PROVE  OnlyAnsweredRecorded'
  <2>1. \A x \in Requests : Spoken(x)' => Spoken(x)
    BY <1>19, NoAuthors DEF ArriveNew, Spoken
  <2>. QED BY <1>19, <2>1 DEF ArriveNew
<1>20. ASSUME NEW r \in Requests, NEW u \in Users, NEW k \in Kinds,
             NEW s \in announced \cup {UnknownId}, ArriveOn(r, u, k, s)
      PROVE  OnlyAnsweredRecorded'
  <2>1. \A x \in Requests : Spoken(x)' => Spoken(x)
    BY <1>20, NoAuthors DEF ArriveOn, Spoken
  <2>. QED BY <1>20, <2>1 DEF ArriveOn
<1>21. CASE Restart
  <2>1. \A x \in Requests : Spoken(x)' => Spoken(x)
    BY <1>21, NoAuthors DEF Restart, Spoken
  <2>. QED BY <1>21, <2>1 DEF Restart
<1>22. CASE UNCHANGED vars
  <2>1. \A x \in Requests : Spoken(x)' => Spoken(x)
    BY <1>22, NoAuthors DEF vars, Spoken
  <2>. QED BY <1>22, <2>1 DEF vars
<1>. QED
  BY <1>1, <1>2, <1>3, <1>4, <1>5, <1>6, <1>7, <1>8, <1>9, <1>10, <1>11, <1>12, <1>13, <1>14, <1>15, <1>16, <1>17, <1>18, <1>19, <1>20, <1>21, <1>22
  DEF Next, Serve, Arrive

(* What is answered is answered in a session. *)
LEMMA AnsweredStep == IInv /\ [Next]_vars => Answered'
<1> SUFFICES ASSUME IInv, [Next]_vars PROVE Answered'
  OBVIOUS
<1> USE ChatAssumption DEF IInv, TypeOK, Goto, Reply, Active, Awaits, Finished, ChatKinds, dbVars, memoryVars,
           historyVars, Disturb, NoteAcked, EnterGuard, Located, Undecided, Answered
<1>1. ASSUME NEW r \in Requests, Refuse(r)
      PROVE  Answered'
  BY <1>1 DEF Refuse
<1>2. ASSUME NEW r \in Requests, InsertCommit(r)
      PROVE  Answered'
  BY <1>2 DEF InsertCommit
<1>3. ASSUME NEW r \in Requests, InsertResume(r)
      PROVE  Answered'
  BY <1>3 DEF InsertResume
<1>4. ASSUME NEW r \in Requests, NotFound(r)
      PROVE  Answered'
  BY <1>4 DEF NotFound
<1>5. ASSUME NEW r \in Requests, GetHistory(r)
      PROVE  Answered'
  BY <1>5 DEF GetHistory
<1>6. ASSUME NEW r \in Requests, GetHot(r)
      PROVE  Answered'
  BY <1>6 DEF GetHot
<1>7. ASSUME NEW r \in Requests, GetCold(r)
      PROVE  Answered'
  BY <1>7 DEF GetCold
<1>8. ASSUME NEW r \in Requests, Read(r)
      PROVE  Answered'
  BY <1>8 DEF Read
<1>9. ASSUME NEW r \in Requests, ReadResume(r)
      PROVE  Answered'
  BY <1>9 DEF ReadResume
<1>10. ASSUME NEW r \in Requests, DbDown(r)
      PROVE  Answered'
  BY <1>10 DEF DbDown
<1>11. ASSUME NEW r \in Requests, GuardReject(r)
      PROVE  Answered'
  BY <1>11 DEF GuardReject
<1>12. ASSUME NEW r \in Requests, GuardPass(r)
      PROVE  Answered'
  BY <1>12 DEF GuardPass
<1>13. ASSUME NEW r \in Requests, GenerateFail(r)
      PROVE  Answered'
  BY <1>13 DEF GenerateFail
<1>14. ASSUME NEW r \in Requests, Record(r)
      PROVE  Answered'
  BY <1>14 DEF Record
<1>15. ASSUME NEW r \in Requests, PersistCommit(r)
      PROVE  Answered'
  BY <1>15 DEF PersistCommit
<1>16. ASSUME NEW r \in Requests, PersistFail(r)
      PROVE  Answered'
  BY <1>16 DEF PersistFail
<1>17. ASSUME NEW r \in Requests, Respond(r)
      PROVE  Answered'
  BY <1>17 DEF Respond
<1>18. ASSUME NEW r \in Requests, Disconnect(r)
      PROVE  Answered'
  BY <1>18 DEF Disconnect
<1>19. ASSUME NEW r \in Requests, NEW u \in Users, NEW k \in Kinds, NEW s \in Sessions,
             ArriveNew(r, u, k, s)
      PROVE  Answered'
  BY <1>19 DEF ArriveNew
<1>20. ASSUME NEW r \in Requests, NEW u \in Users, NEW k \in Kinds,
             NEW s \in announced \cup {UnknownId}, ArriveOn(r, u, k, s)
      PROVE  Answered'
  BY <1>20 DEF ArriveOn
<1>21. CASE Restart
  BY <1>21 DEF Restart
<1>22. CASE UNCHANGED vars
  BY <1>22 DEF vars
<1>. QED
  BY <1>1, <1>2, <1>3, <1>4, <1>5, <1>6, <1>7, <1>8, <1>9, <1>10, <1>11, <1>12, <1>13, <1>14, <1>15, <1>16, <1>17, <1>18, <1>19, <1>20, <1>21, <1>22
  DEF Next, Serve, Arrive

(* A request reads only after it has arrived. *)
LEMMA UnreadStep == IInv /\ [Next]_vars => Unread'
<1> SUFFICES ASSUME IInv, [Next]_vars PROVE Unread'
  OBVIOUS
<1> USE ChatAssumption DEF IInv, TypeOK, Goto, Reply, Active, Awaits, Finished, ChatKinds, dbVars, memoryVars,
           historyVars, Disturb, NoteAcked, EnterGuard, Unread
<1>1. ASSUME NEW r \in Requests, Refuse(r)
      PROVE  Unread'
  BY <1>1 DEF Refuse
<1>2. ASSUME NEW r \in Requests, InsertCommit(r)
      PROVE  Unread'
  BY <1>2 DEF InsertCommit
<1>3. ASSUME NEW r \in Requests, InsertResume(r)
      PROVE  Unread'
  BY <1>3 DEF InsertResume
<1>4. ASSUME NEW r \in Requests, NotFound(r)
      PROVE  Unread'
  BY <1>4 DEF NotFound
<1>5. ASSUME NEW r \in Requests, GetHistory(r)
      PROVE  Unread'
  BY <1>5 DEF GetHistory
<1>6. ASSUME NEW r \in Requests, GetHot(r)
      PROVE  Unread'
  BY <1>6 DEF GetHot
<1>7. ASSUME NEW r \in Requests, GetCold(r)
      PROVE  Unread'
  BY <1>7 DEF GetCold
<1>8. ASSUME NEW r \in Requests, Read(r)
      PROVE  Unread'
  BY <1>8 DEF Read
<1>9. ASSUME NEW r \in Requests, ReadResume(r)
      PROVE  Unread'
  BY <1>9 DEF ReadResume
<1>10. ASSUME NEW r \in Requests, DbDown(r)
      PROVE  Unread'
  BY <1>10 DEF DbDown
<1>11. ASSUME NEW r \in Requests, GuardReject(r)
      PROVE  Unread'
  BY <1>11 DEF GuardReject
<1>12. ASSUME NEW r \in Requests, GuardPass(r)
      PROVE  Unread'
  BY <1>12 DEF GuardPass
<1>13. ASSUME NEW r \in Requests, GenerateFail(r)
      PROVE  Unread'
  BY <1>13 DEF GenerateFail
<1>14. ASSUME NEW r \in Requests, Record(r)
      PROVE  Unread'
  BY <1>14 DEF Record
<1>15. ASSUME NEW r \in Requests, PersistCommit(r)
      PROVE  Unread'
  BY <1>15 DEF PersistCommit
<1>16. ASSUME NEW r \in Requests, PersistFail(r)
      PROVE  Unread'
  BY <1>16 DEF PersistFail
<1>17. ASSUME NEW r \in Requests, Respond(r)
      PROVE  Unread'
  BY <1>17 DEF Respond
<1>18. ASSUME NEW r \in Requests, Disconnect(r)
      PROVE  Unread'
  BY <1>18 DEF Disconnect
<1>19. ASSUME NEW r \in Requests, NEW u \in Users, NEW k \in Kinds, NEW s \in Sessions,
             ArriveNew(r, u, k, s)
      PROVE  Unread'
  BY <1>19 DEF ArriveNew
<1>20. ASSUME NEW r \in Requests, NEW u \in Users, NEW k \in Kinds,
             NEW s \in announced \cup {UnknownId}, ArriveOn(r, u, k, s)
      PROVE  Unread'
  BY <1>20 DEF ArriveOn
<1>21. CASE Restart
  BY <1>21 DEF Restart
<1>22. CASE UNCHANGED vars
  BY <1>22 DEF vars
<1>. QED
  BY <1>1, <1>2, <1>3, <1>4, <1>5, <1>6, <1>7, <1>8, <1>9, <1>10, <1>11, <1>12, <1>13, <1>14, <1>15, <1>16, <1>17, <1>18, <1>19, <1>20, <1>21, <1>22
  DEF Next, Serve, Arrive

(* No step carries a message from one account to another. *)
LEMMA IsolationStep == IInv /\ [Next]_vars => Isolation'
<1> SUFFICES ASSUME IInv, [Next]_vars PROVE Isolation'
  OBVIOUS
<1> USE ChatAssumption DEF IInv, TypeOK, Goto, Reply, Active, Awaits, Finished, ChatKinds, dbVars, memoryVars,
           historyVars, Disturb, NoteAcked, EnterGuard, Isolation
<1>1. ASSUME NEW r \in Requests, Refuse(r)
      PROVE  Isolation'
  BY <1>1 DEF Refuse
<1>2. ASSUME NEW r \in Requests, InsertCommit(r)
      PROVE  Isolation'
  <2>1. /\ log[req[r].session] = <<>> \/ req[r].session \notin Sessions
        /\ buffer[req[r].session] = <<>> \/ req[r].session \notin Sessions
    BY <1>2 DEF InsertCommit, Inserting, Unborn
  <2>. QED BY <1>2, <2>1, NoAuthors DEF InsertCommit
<1>3. ASSUME NEW r \in Requests, InsertResume(r)
      PROVE  Isolation'
  <2>1. /\ req[r].session \in Sessions
        /\ owner[req[r].session] = req[r].user
    BY <1>3, Place DEF InsertResume
  <2>2. Authors(<<>>) = {}
    BY NoAuthors
  <2>. QED BY <1>3, <2>1, <2>2 DEF InsertResume
<1>4. ASSUME NEW r \in Requests, NotFound(r)
      PROVE  Isolation'
  BY <1>4 DEF NotFound
<1>5. ASSUME NEW r \in Requests, GetHistory(r)
      PROVE  Isolation'
  BY <1>5 DEF GetHistory
<1>6. ASSUME NEW r \in Requests, GetHot(r)
      PROVE  Isolation'
  BY <1>6 DEF GetHot, Owned
<1>7. ASSUME NEW r \in Requests, GetCold(r)
      PROVE  Isolation'
  BY <1>7, NoAuthors DEF GetCold, Owned
<1>8. ASSUME NEW r \in Requests, Read(r)
      PROVE  Isolation'
  <2>1. /\ req[r].session \in Sessions
        /\ owner[req[r].session] = req[r].user
    BY <1>8, Place DEF Read
  <2>2. /\ Authors(LastN(log[req[r].session], MaxTurns)) \subseteq Authors(log[req[r].session])
        /\ Authors(LastN(log[req[r].session], HistoryLimit)) \subseteq Authors(log[req[r].session])
    BY <2>1, Updates
  <2>. QED BY <1>8, <2>1, <2>2 DEF Read
<1>9. ASSUME NEW r \in Requests, ReadResume(r)
      PROVE  Isolation'
  <2>1. /\ req[r].session \in Sessions
        /\ owner[req[r].session] = req[r].user
    BY <1>9, Place DEF ReadResume
  <2>2. Authors(Window(buffer[req[r].session] \o rows[r]))
          \subseteq Authors(buffer[req[r].session]) \cup Authors(rows[r])
    BY <2>1, Updates
  <2>. QED BY <1>9, <2>1, <2>2, ZenonT(60) DEF ReadResume
<1>10. ASSUME NEW r \in Requests, DbDown(r)
      PROVE  Isolation'
  BY <1>10 DEF DbDown
<1>11. ASSUME NEW r \in Requests, GuardReject(r)
      PROVE  Isolation'
  BY <1>11 DEF GuardReject
<1>12. ASSUME NEW r \in Requests, GuardPass(r)
      PROVE  Isolation'
  <2>1. /\ req[r].session \in Sessions
        /\ owner[req[r].session] = req[r].user
    BY <1>12, Place DEF GuardPass
  <2>2. Authors(<<>>) = {}
    BY NoAuthors
  <2>. QED BY <1>12, <2>1, <2>2 DEF GuardPass
<1>13. ASSUME NEW r \in Requests, GenerateFail(r)
      PROVE  Isolation'
  BY <1>13 DEF GenerateFail
<1>14. ASSUME NEW r \in Requests, Record(r)
      PROVE  Isolation'
  <2>1. /\ req[r].session \in Sessions
        /\ owner[req[r].session] = req[r].user
    BY <1>14, Place DEF Record
  <2>2. Authors(Window(buffer[req[r].session] \o Exchange(r)))
          \subseteq Authors(buffer[req[r].session]) \cup {r}
    BY <2>1, Updates
  <2>. QED BY <1>14, <2>1, <2>2 DEF Record
<1>15. ASSUME NEW r \in Requests, PersistCommit(r)
      PROVE  Isolation'
  <2>1. /\ req[r].session \in Sessions
        /\ owner[req[r].session] = req[r].user
    BY <1>15, Place DEF PersistCommit
  <2>2. Authors(log[req[r].session] \o Exchange(r)) = Authors(log[req[r].session]) \cup {r}
    BY <2>1, Updates, ZenonT(60)
  <2>. QED BY <1>15, <2>1, <2>2, ZenonT(60) DEF PersistCommit
<1>16. ASSUME NEW r \in Requests, PersistFail(r)
      PROVE  Isolation'
  BY <1>16 DEF PersistFail
<1>17. ASSUME NEW r \in Requests, Respond(r)
      PROVE  Isolation'
  BY <1>17 DEF Respond
<1>18. ASSUME NEW r \in Requests, Disconnect(r)
      PROVE  Isolation'
  BY <1>18 DEF Disconnect
<1>19. ASSUME NEW r \in Requests, NEW u \in Users, NEW k \in Kinds, NEW s \in Sessions,
             ArriveNew(r, u, k, s)
      PROVE  Isolation'
  <2>1. ~Spoken(r)
    BY <1>19 DEF ArriveNew, OnlyAnsweredRecorded
  <2>2. /\ \A s_ \in Sessions : r \notin Authors(log[s_]) \cup Authors(buffer[s_])
        /\ \A x \in Requests : r \notin Authors(rows[x]) \cup Authors(ctx[x])
    BY <2>1 DEF Spoken
  <2>3. Authors(rows[r]) = {} /\ Authors(ctx[r]) = {}
    BY <1>19 DEF ArriveNew, Unread
  <2>4. \A x \in Requests : x # r => req'[x] = req[x]
    BY <1>19 DEF ArriveNew
  <2>5. UNCHANGED <<owner, log, buffer, rows, ctx>>
    BY <1>19 DEF ArriveNew
  <2>6. /\ \A s_ \in Sessions : Authors(log[s_]) \cup Authors(buffer[s_]) \subseteq Requests
        /\ \A x \in Requests : Authors(rows[x]) \cup Authors(ctx[x]) \subseteq Requests
    BY AuthorsAreRequests
  <2>7. \A s_ \in Sessions : \A x \in Authors(log[s_]) \cup Authors(buffer[s_]) : req'[x] = req[x]
    BY <2>2, <2>4, <2>6
  <2>8. \A y \in Requests : \A x \in Authors(rows[y]) \cup Authors(ctx[y]) :
          req'[x] = req[x] /\ req'[y] = req[y]
    BY <2>2, <2>3, <2>4, <2>6
  <2>9. \A s_ \in Sessions : \A x \in Authors(log'[s_]) \cup Authors(buffer'[s_]) :
          req'[x].user = owner'[s_]
    <3>1. owner' = owner /\ log' = log /\ buffer' = buffer
      BY <2>5
    <3>2. \A s_ \in Sessions : \A x \in Authors(log[s_]) \cup Authors(buffer[s_]) :
            req[x].user = owner[s_]
      OBVIOUS
    <3>3. SUFFICES ASSUME NEW s_ \in Sessions, NEW x \in Authors(log[s_]) \cup Authors(buffer[s_])
          PROVE  req'[x].user = owner[s_]
      BY <3>1
    <3>4. req'[x] = req[x] /\ req[x].user = owner[s_]
      BY <2>7, <3>2, <3>3
    <3>. QED BY <3>4
  <2>10. \A y \in Requests : \A x \in Authors(rows'[y]) \cup Authors(ctx'[y]) :
           req'[x].user = req'[y].user
    <3>1. rows' = rows /\ ctx' = ctx
      BY <2>5
    <3>2. \A y \in Requests : \A x \in Authors(rows[y]) \cup Authors(ctx[y]) :
            req[x].user = req[y].user
      OBVIOUS
    <3>3. SUFFICES ASSUME NEW y \in Requests, NEW x \in Authors(rows[y]) \cup Authors(ctx[y])
          PROVE  req'[x].user = req'[y].user
      BY <3>1
    <3>4. req'[x] = req[x] /\ req'[y] = req[y] /\ req[x].user = req[y].user
      BY <2>8, <3>2, <3>3
    <3>. QED BY <3>4
  <2>. QED BY <2>9, <2>10
<1>20. ASSUME NEW r \in Requests, NEW u \in Users, NEW k \in Kinds,
             NEW s \in announced \cup {UnknownId}, ArriveOn(r, u, k, s)
      PROVE  Isolation'
  <2>1. ~Spoken(r)
    BY <1>20 DEF ArriveOn, OnlyAnsweredRecorded
  <2>2. /\ \A s_ \in Sessions : r \notin Authors(log[s_]) \cup Authors(buffer[s_])
        /\ \A x \in Requests : r \notin Authors(rows[x]) \cup Authors(ctx[x])
    BY <2>1 DEF Spoken
  <2>3. Authors(rows[r]) = {} /\ Authors(ctx[r]) = {}
    BY <1>20 DEF ArriveOn, Unread
  <2>4. \A x \in Requests : x # r => req'[x] = req[x]
    BY <1>20 DEF ArriveOn
  <2>5. UNCHANGED <<owner, log, buffer, rows, ctx>>
    BY <1>20 DEF ArriveOn
  <2>6. /\ \A s_ \in Sessions : Authors(log[s_]) \cup Authors(buffer[s_]) \subseteq Requests
        /\ \A x \in Requests : Authors(rows[x]) \cup Authors(ctx[x]) \subseteq Requests
    BY AuthorsAreRequests
  <2>7. \A s_ \in Sessions : \A x \in Authors(log[s_]) \cup Authors(buffer[s_]) : req'[x] = req[x]
    BY <2>2, <2>4, <2>6
  <2>8. \A y \in Requests : \A x \in Authors(rows[y]) \cup Authors(ctx[y]) :
          req'[x] = req[x] /\ req'[y] = req[y]
    BY <2>2, <2>3, <2>4, <2>6
  <2>9. \A s_ \in Sessions : \A x \in Authors(log'[s_]) \cup Authors(buffer'[s_]) :
          req'[x].user = owner'[s_]
    <3>1. owner' = owner /\ log' = log /\ buffer' = buffer
      BY <2>5
    <3>2. \A s_ \in Sessions : \A x \in Authors(log[s_]) \cup Authors(buffer[s_]) :
            req[x].user = owner[s_]
      OBVIOUS
    <3>3. SUFFICES ASSUME NEW s_ \in Sessions, NEW x \in Authors(log[s_]) \cup Authors(buffer[s_])
          PROVE  req'[x].user = owner[s_]
      BY <3>1
    <3>4. req'[x] = req[x] /\ req[x].user = owner[s_]
      BY <2>7, <3>2, <3>3
    <3>. QED BY <3>4
  <2>10. \A y \in Requests : \A x \in Authors(rows'[y]) \cup Authors(ctx'[y]) :
           req'[x].user = req'[y].user
    <3>1. rows' = rows /\ ctx' = ctx
      BY <2>5
    <3>2. \A y \in Requests : \A x \in Authors(rows[y]) \cup Authors(ctx[y]) :
            req[x].user = req[y].user
      OBVIOUS
    <3>3. SUFFICES ASSUME NEW y \in Requests, NEW x \in Authors(rows[y]) \cup Authors(ctx[y])
          PROVE  req'[x].user = req'[y].user
      BY <3>1
    <3>4. req'[x] = req[x] /\ req'[y] = req[y] /\ req[x].user = req[y].user
      BY <2>8, <3>2, <3>3
    <3>. QED BY <3>4
  <2>. QED BY <2>9, <2>10
<1>21. CASE Restart
  BY <1>21, NoAuthors DEF Restart
<1>22. CASE UNCHANGED vars
  BY <1>22 DEF vars
<1>. QED
  BY <1>1, <1>2, <1>3, <1>4, <1>5, <1>6, <1>7, <1>8, <1>9, <1>10, <1>11, <1>12, <1>13, <1>14, <1>15, <1>16, <1>17, <1>18, <1>19, <1>20, <1>21, <1>22
  DEF Next, Serve, Arrive

(* An answer is given only with its exchange stored. *)
LEMMA DurableStep == IInv /\ [Next]_vars => AnsweredDurable'
<1> SUFFICES ASSUME IInv, [Next]_vars PROVE AnsweredDurable'
  OBVIOUS
<1> USE ChatAssumption DEF IInv, TypeOK, Goto, Reply, Active, Awaits, Finished, ChatKinds, dbVars, memoryVars,
           historyVars, Disturb, NoteAcked, EnterGuard, Located, Undecided, Committed, AnsweredDurable
<1>1. ASSUME NEW r \in Requests, Refuse(r)
      PROVE  AnsweredDurable'
  BY <1>1 DEF Refuse
<1>2. ASSUME NEW r \in Requests, InsertCommit(r)
      PROVE  AnsweredDurable'
  BY <1>2 DEF InsertCommit
<1>3. ASSUME NEW r \in Requests, InsertResume(r)
      PROVE  AnsweredDurable'
  BY <1>3 DEF InsertResume
<1>4. ASSUME NEW r \in Requests, NotFound(r)
      PROVE  AnsweredDurable'
  BY <1>4 DEF NotFound
<1>5. ASSUME NEW r \in Requests, GetHistory(r)
      PROVE  AnsweredDurable'
  BY <1>5 DEF GetHistory
<1>6. ASSUME NEW r \in Requests, GetHot(r)
      PROVE  AnsweredDurable'
  BY <1>6 DEF GetHot
<1>7. ASSUME NEW r \in Requests, GetCold(r)
      PROVE  AnsweredDurable'
  BY <1>7 DEF GetCold
<1>8. ASSUME NEW r \in Requests, Read(r)
      PROVE  AnsweredDurable'
  BY <1>8 DEF Read
<1>9. ASSUME NEW r \in Requests, ReadResume(r)
      PROVE  AnsweredDurable'
  BY <1>9 DEF ReadResume
<1>10. ASSUME NEW r \in Requests, DbDown(r)
      PROVE  AnsweredDurable'
  BY <1>10 DEF DbDown
<1>11. ASSUME NEW r \in Requests, GuardReject(r)
      PROVE  AnsweredDurable'
  BY <1>11 DEF GuardReject
<1>12. ASSUME NEW r \in Requests, GuardPass(r)
      PROVE  AnsweredDurable'
  BY <1>12 DEF GuardPass
<1>13. ASSUME NEW r \in Requests, GenerateFail(r)
      PROVE  AnsweredDurable'
  BY <1>13 DEF GenerateFail
<1>14. ASSUME NEW r \in Requests, Record(r)
      PROVE  AnsweredDurable'
  BY <1>14 DEF Record
<1>15. ASSUME NEW r \in Requests, PersistCommit(r)
      PROVE  AnsweredDurable'
  <2>1. req[r].session \in Sessions
    BY <1>15, Place DEF PersistCommit
  <2>2. Authors(log[req[r].session] \o Exchange(r)) = Authors(log[req[r].session]) \cup {r}
    BY <2>1, Updates, ZenonT(60)
  <2>3. \A s \in Sessions : Authors(log[s]) \subseteq Authors(log'[s])
    BY <1>15, <2>1, <2>2, ZenonT(60) DEF PersistCommit
  <2>4. UNCHANGED <<status, req, unsaved>>
    BY <1>15 DEF PersistCommit
  <2>. QED BY <2>3, <2>4 DEF Answered
<1>16. ASSUME NEW r \in Requests, PersistFail(r)
      PROVE  AnsweredDurable'
  BY <1>16 DEF PersistFail
<1>17. ASSUME NEW r \in Requests, Respond(r)
      PROVE  AnsweredDurable'
  BY <1>17 DEF Respond
<1>18. ASSUME NEW r \in Requests, Disconnect(r)
      PROVE  AnsweredDurable'
  BY <1>18 DEF Disconnect
<1>19. ASSUME NEW r \in Requests, NEW u \in Users, NEW k \in Kinds, NEW s \in Sessions,
             ArriveNew(r, u, k, s)
      PROVE  AnsweredDurable'
  BY <1>19 DEF ArriveNew
<1>20. ASSUME NEW r \in Requests, NEW u \in Users, NEW k \in Kinds,
             NEW s \in announced \cup {UnknownId}, ArriveOn(r, u, k, s)
      PROVE  AnsweredDurable'
  BY <1>20 DEF ArriveOn
<1>21. CASE Restart
  BY <1>21 DEF Restart
<1>22. CASE UNCHANGED vars
  BY <1>22 DEF vars
<1>. QED
  BY <1>1, <1>2, <1>3, <1>4, <1>5, <1>6, <1>7, <1>8, <1>9, <1>10, <1>11, <1>12, <1>13, <1>14, <1>15, <1>16, <1>17, <1>18, <1>19, <1>20, <1>21, <1>22
  DEF Next, Serve, Arrive

-----------------------------------------------------------------------------
(* The initial state satisfies the invariant. *)
LEMMA InitIInv == Init => IInv
<1> SUFFICES ASSUME Init PROVE IInv
  OBVIOUS
<1>1. TypeOK
  BY NoAuthors, ChatAssumption
  DEF Init, TypeOK, Kinds, ChatKinds, SessionRef, Finished
<1>2. /\ Called /\ Located /\ Entitled /\ Warm /\ Inserting
      /\ Unborn /\ Undecided /\ Answered /\ AnsweredDurable
  BY DEF Init, Called, Located, Entitled, Warm, Inserting, Unborn, Undecided, Answered,
         AnsweredDurable, Active, Awaits
<1>3. /\ \A s \in Sessions : Authors(log[s]) = {} /\ Authors(buffer[s]) = {}
      /\ \A r \in Requests : Authors(rows[r]) = {} /\ Authors(ctx[r]) = {}
  BY NoAuthors DEF Init
<1>4. Unread /\ OnlyAnsweredRecorded /\ Isolation
  BY <1>3 DEF Unread, OnlyAnsweredRecorded, Spoken, Isolation
<1>5. Committed
  BY <1>3 DEF Init, Committed
<1>. QED BY <1>1, <1>2, <1>4, <1>5 DEF IInv

(* The invariant holds in every reachable state. *)
THEOREM Invariance == Spec => []IInv
<1>1. Init => IInv
  BY InitIInv
<1>2. IInv /\ [Next]_vars => IInv'
  BY TypeStep, CalledStep, LocatedStep, EntitledStep, WarmStep, InsertingStep, UnbornStep,
     UndecidedStep, CommittedStep, OnlyAnsweredStep, AnsweredStep, UnreadStep, IsolationStep,
     DurableStep
  DEF IInv
<1>. QED BY <1>1, <1>2, PTL DEF Spec

(* Types, and no buffer ever holds more than max_context_turns turns. *)
THEOREM TypeCorrect == Spec => []TypeOK
<1>1. IInv => TypeOK
  BY DEF IInv
<1>. QED BY <1>1, Invariance, PTL

(* No account ever stores, reads or prompts with another's messages. *)
THEOREM ConversationsIsolated == Spec => []Isolation
<1>1. IInv => Isolation
  BY DEF IInv
<1>. QED BY <1>1, Invariance, PTL

(* A request without an answer leaves no turn anywhere. *)
THEOREM FailuresLeaveNoTrace == Spec => []OnlyAnsweredRecorded
<1>1. IInv => OnlyAnsweredRecorded
  BY DEF IInv
<1>. QED BY <1>1, Invariance, PTL

(* What was answered is in the durable log, through any number of restarts, *)
(* unless the commit of that exchange failed.                               *)
THEOREM AnswersAreDurable == Spec => []AnsweredDurable
<1>1. IInv => AnsweredDurable
  BY DEF IInv
<1>. QED BY <1>1, Invariance, PTL

-----------------------------------------------------------------------------
(* Every step of the backend is a step of the conversation log, or leaves  *)
(* it alone: only the two commits touch the database.                      *)
LEMMA RefinementStep == IInv /\ [Next]_vars => [Conversations!Next]_(Conversations!vars)
<1> SUFFICES ASSUME IInv, [Next]_vars
             PROVE  Conversations!Next \/ UNCHANGED <<owner, log>>
  BY DEF Conversations!vars
<1> USE DEF dbVars
<1>1. ASSUME NEW r \in Requests, InsertCommit(r)
      PROVE  Conversations!Next
  <2>1. /\ req[r].user \in Users
        /\ req[r].session \in Sessions
        /\ owner[req[r].session] = Nobody
    BY <1>1 DEF InsertCommit, IInv, Called, Located, Inserting, Active, Awaits
  <2>2. Conversations!Open(req[r].user, req[r].session)
    BY <1>1, <2>1 DEF InsertCommit, Conversations!Open
  <2>. QED BY <2>1, <2>2 DEF Conversations!Next
<1>2. ASSUME NEW r \in Requests, PersistCommit(r)
      PROVE  Conversations!Next
  <2>1. /\ req[r].session \in Sessions
        /\ owner[req[r].session] # Nobody
    BY <1>2, Place DEF PersistCommit, Active, Awaits
  <2>2. \A t \in Sessions : r \notin Conversations!Authors(log[t])
    BY <1>2 DEF PersistCommit, IInv, Committed, Authors, Conversations!Authors
  <2>3. log' = [log EXCEPT ![req[r].session] = @ \o Conversations!Exchange(r)]
    BY <1>2 DEF PersistCommit, Exchange, Conversations!Exchange
  <2>4. Conversations!Append2(r, req[r].session)
    BY <1>2, <2>1, <2>2, <2>3 DEF PersistCommit, Conversations!Append2
  <2>. QED BY <2>1, <2>4 DEF Conversations!Next
<1>3. ASSUME NEW r \in Requests, Arrive(r)
      PROVE  UNCHANGED <<owner, log>>
  BY <1>3 DEF Arrive, Refuse, ArriveNew, ArriveOn
<1>4. ASSUME NEW r \in Requests, Serve(r), ~InsertCommit(r), ~PersistCommit(r)
      PROVE  UNCHANGED <<owner, log>>
  BY <1>4 DEF Serve, InsertResume, NotFound, GetHistory, GetHot, GetCold, Read, ReadResume,
       DbDown, GuardReject, GuardPass, GenerateFail, Record, PersistFail, Respond
<1>5. ASSUME NEW r \in Requests, Disconnect(r)
      PROVE  UNCHANGED <<owner, log>>
  BY <1>5 DEF Disconnect
<1>6. CASE Restart
  BY <1>6 DEF Restart
<1>7. CASE UNCHANGED vars
  BY <1>7 DEF vars
<1>. QED BY <1>1, <1>2, <1>3, <1>4, <1>5, <1>6, <1>7 DEF Next

(* The chat backend, with its buffers, suspended coroutines, failures and  *)
(* restarts, implements the abstract log of whole exchanges.               *)
THEOREM Refinement == Spec => ImplementsConversationLog
<1>1. Init => Conversations!Init
  BY DEF Init, Conversations!Init
<1>. QED BY <1>1, Invariance, RefinementStep, PTL
         DEF Spec, ImplementsConversationLog, Conversations!Spec
-----------------------------------------------------------------------------
(* Which requests come where.                                              *)

(* Only chats reach the guard, and only what names a session looks it up.  *)
KindsInPlace ==
  \A r \in Requests :
    /\ pc[r] \in {"insert", "inserted"} => req[r].kind # "history"
    /\ pc[r] \in {"get", "read", "rows"} => req[r].kind # "open"
    /\ pc[r] \in {"guard", "generate", "persist", "persisted"} => req[r].kind \in ChatKinds

(* Nobody but its request knows a session whose row was just committed.    *)
JustInserted ==
  \A r \in Requests :
    pc[r] = "inserted"
      => /\ req[r].session \notin announced
         /\ log[req[r].session] = <<>>
         /\ \A x \in Requests : req[x].session = req[r].session => x = r

(* A request that opens its session has no prompt yet.                     *)
NoContextYet == \A r \in Requests : pc[r] \in {"idle", "insert", "inserted"} => ctx[r] = <<>>

Places == KindsInPlace /\ JustInserted /\ NoContextYet

(* Every step leads a request on in its own endpoint.                      *)
LEMMA PlacesStep == IInv /\ Places /\ [Next]_vars => Places'
<1> SUFFICES ASSUME IInv, Places, [Next]_vars PROVE Places'
  OBVIOUS
<1> USE ChatAssumption DEF IInv, TypeOK, Goto, Reply, Active, Awaits, Finished, Kinds, ChatKinds, dbVars, memoryVars,
           historyVars, Disturb, NoteAcked, EnterGuard, Places, KindsInPlace, JustInserted, NoContextYet, Located
<1>1. ASSUME NEW r \in Requests, Refuse(r)
      PROVE  Places'
  BY <1>1 DEF Refuse
<1>2. ASSUME NEW r \in Requests, InsertCommit(r)
      PROVE  Places'
  BY <1>2 DEF InsertCommit, Inserting, Unborn
<1>3. ASSUME NEW r \in Requests, InsertResume(r)
      PROVE  Places'
  <2>1. /\ UNCHANGED <<req, log>>
        /\ \A y \in Requests \ {r} : pc'[y] = pc[y] /\ ctx'[y] = ctx[y]
        /\ pc[r] = "inserted" /\ pc'[r] \in {"done", "guard"}
        /\ pc'[r] # "done" => req[r].kind \in ChatKinds
        /\ announced' \subseteq announced \cup {req[r].session}
    BY <1>3 DEF InsertResume
  <2>2. QED
    BY <2>1
<1>4. ASSUME NEW r \in Requests, NotFound(r)
      PROVE  Places'
  BY <1>4 DEF NotFound
<1>5. ASSUME NEW r \in Requests, GetHistory(r)
      PROVE  Places'
  BY <1>5 DEF GetHistory
<1>6. ASSUME NEW r \in Requests, GetHot(r)
      PROVE  Places'
  BY <1>6 DEF GetHot
<1>7. ASSUME NEW r \in Requests, GetCold(r)
      PROVE  Places'
  BY <1>7 DEF GetCold
<1>8. ASSUME NEW r \in Requests, Read(r)
      PROVE  Places'
  BY <1>8 DEF Read
<1>9. ASSUME NEW r \in Requests, ReadResume(r)
      PROVE  Places'
  <2>1. /\ UNCHANGED <<req, log, announced>>
        /\ \A y \in Requests \ {r} : pc'[y] = pc[y] /\ ctx'[y] = ctx[y]
        /\ pc[r] = "rows" /\ pc'[r] \in {"done", "guard"}
        /\ pc'[r] # "done" => req[r].kind # "history"
    BY <1>9 DEF ReadResume
  <2>2. req[r].kind \in Kinds
    OBVIOUS
  <2>3. QED
    BY <2>1, <2>2
<1>10. ASSUME NEW r \in Requests, DbDown(r)
      PROVE  Places'
  BY <1>10 DEF DbDown
<1>11. ASSUME NEW r \in Requests, GuardReject(r)
      PROVE  Places'
  BY <1>11 DEF GuardReject
<1>12. ASSUME NEW r \in Requests, GuardPass(r)
      PROVE  Places'
  BY <1>12 DEF GuardPass
<1>13. ASSUME NEW r \in Requests, GenerateFail(r)
      PROVE  Places'
  BY <1>13 DEF GenerateFail
<1>14. ASSUME NEW r \in Requests, Record(r)
      PROVE  Places'
  BY <1>14 DEF Record
<1>15. ASSUME NEW r \in Requests, PersistCommit(r)
      PROVE  Places'
  <2>1. /\ UNCHANGED <<req, announced, ctx>>
        /\ \A y \in Requests : pc'[y] = IF y = r THEN "persisted" ELSE pc[y]
        /\ pc[r] = "persist"
        /\ \A s \in Sessions \ {req[r].session} : log'[s] = log[s]
    BY <1>15 DEF PersistCommit
  <2>2. QED
    BY <2>1
<1>16. ASSUME NEW r \in Requests, PersistFail(r)
      PROVE  Places'
  BY <1>16 DEF PersistFail
<1>17. ASSUME NEW r \in Requests, Respond(r)
      PROVE  Places'
  <2>1. /\ UNCHANGED <<req, log>>
        /\ \A y \in Requests \ {r} : pc'[y] = pc[y] /\ ctx'[y] = ctx[y]
        /\ pc[r] = "persisted" /\ pc'[r] \in {"done"}
        /\ pc'[r] # "done" => req[r].kind \in ChatKinds
        /\ announced' \subseteq announced \cup {req[r].session}
    BY <1>17 DEF Respond
  <2>2. QED
    BY <2>1
<1>18. ASSUME NEW r \in Requests, Disconnect(r)
      PROVE  Places'
  BY <1>18 DEF Disconnect
<1>19. ASSUME NEW r \in Requests, NEW u \in Users, NEW k \in Kinds, NEW s \in Sessions,
             ArriveNew(r, u, k, s)
      PROVE  Places'
  <2>1. /\ pc[r] = "idle" /\ UNCHANGED <<log, ctx, announced>> /\ k # "history"
        /\ pc' = [pc EXCEPT ![r] = "insert"]
        /\ req' = [req EXCEPT ![r] = [user |-> u, kind |-> k, session |-> s]]
    BY <1>19 DEF ArriveNew
  <2>2. ASSUME NEW x \in Requests, pc[x] = "inserted"
        PROVE  req[x].session # s
    BY <1>19 DEF ArriveNew, Fresh
  <2>3. \A y \in Requests \ {r} : pc'[y] = pc[y] /\ req'[y] = req[y]
    BY <2>1
  <2>4. req'[r].kind = k /\ req'[r].session = s /\ pc'[r] = "insert" /\ ctx'[r] = <<>>
    BY <2>1
  <2>5. QED
    BY <2>1, <2>2, <2>3, <2>4
<1>20. ASSUME NEW r \in Requests, NEW u \in Users, NEW k \in Kinds,
             NEW s \in announced \cup {UnknownId}, ArriveOn(r, u, k, s)
      PROVE  Places'
  <2>1. /\ pc[r] = "idle" /\ UNCHANGED <<log, ctx, announced>> /\ k # "open"
        /\ pc' = [pc EXCEPT ![r] = "get"]
        /\ req' = [req EXCEPT ![r] = [user |-> u, kind |-> k, session |-> s]]
    BY <1>20 DEF ArriveOn
  <2>2. ASSUME NEW x \in Requests, pc[x] = "inserted"
        PROVE  req[x].session # s
    BY <2>2, <1>20
  <2>3. \A y \in Requests \ {r} : pc'[y] = pc[y] /\ req'[y] = req[y]
    BY <2>1
  <2>4. req'[r].kind = k /\ req'[r].session = s /\ pc'[r] = "get" /\ ctx'[r] = <<>>
    BY <2>1
  <2>5. QED
    BY <2>1, <2>2, <2>3, <2>4
<1>21. CASE Restart
  BY <1>21 DEF Restart
<1>22. CASE UNCHANGED vars
  BY <1>22 DEF vars
<1>. QED
  BY <1>1, <1>2, <1>3, <1>4, <1>5, <1>6, <1>7, <1>8, <1>9, <1>10, <1>11,
     <1>12, <1>13, <1>14, <1>15, <1>16, <1>17, <1>18, <1>19, <1>20, <1>21, <1>22
  DEF Next, Serve, Arrive

-----------------------------------------------------------------------------
(* What a client reads back.                                               *)

(* What had been answered when a request came has been answered.           *)
AckedAnswered == \A r \in Requests : \A x \in acked[r] : status[x] = "ok"

(* HistoryReadsYourWrites from the moment the rows are read.               *)
HistoryShows ==
  \A r \in Requests :
    (req[r].kind = "history" /\ (pc[r] = "rows" \/ status[r] = "ok"))
      => \A x \in acked[r] \ unsaved :
           (req[x].kind \in ChatKinds /\ req[x].session = req[r].session)
             => x \in Authors(rows[r]) \/ Len(rows[r]) = HistoryLimit

HistoryInv == AckedAnswered /\ HistoryShows

(* What a step leaves that answers no further history: rows, and answers.  *)
HistoryStays ==
  /\ UNCHANGED <<req, acked>> /\ unsaved \subseteq unsaved'
  /\ \A r \in Requests :
       /\ status[r] = "ok" => status'[r] = "ok"
       /\ (req[r].kind = "history" /\ (pc'[r] = "rows" \/ status'[r] = "ok"))
            => (pc[r] = "rows" \/ status[r] = "ok") /\ rows'[r] = rows[r]

LEMMA HistoryKept ==
  ASSUME IInv, HistoryInv, HistoryStays
  PROVE  HistoryInv'
<1>1. \A r \in Requests : acked[r] \subseteq Requests
  BY DEF IInv, TypeOK
<1>2. AckedAnswered'
  BY <1>1 DEF HistoryInv, AckedAnswered, HistoryStays
<1>3. HistoryShows'
  <2>1. SUFFICES ASSUME NEW r \in Requests, req[r].kind = "history",
                        pc'[r] = "rows" \/ status'[r] = "ok",
                        NEW x \in acked[r], x \notin unsaved,
                        req[x].kind \in ChatKinds, req[x].session = req[r].session
                 PROVE  x \in Authors(rows[r]) \/ Len(rows[r]) = HistoryLimit
    BY DEF HistoryStays, HistoryShows
  <2>2. pc[r] = "rows" \/ status[r] = "ok"
    BY <2>1 DEF HistoryStays
  <2>3. QED
    BY <2>1, <2>2 DEF HistoryInv, HistoryShows
<1>4. QED
  BY <1>2, <1>3 DEF HistoryInv

(* Reading the log shows all that was answered before, as it is durable.   *)
LEMMA HistoryStep == IInv /\ Places /\ HistoryInv /\ [Next]_vars => HistoryInv'
<1> SUFFICES ASSUME IInv, Places, HistoryInv, [Next]_vars PROVE HistoryInv'
  OBVIOUS
<1> USE DEF IInv, TypeOK, Goto, Reply, Active, Awaits, Finished, dbVars, memoryVars,
           historyVars, Disturb, NoteAcked, EnterGuard, Undecided, HistoryStays
<1>1. ASSUME NEW r \in Requests, Refuse(r)
      PROVE  HistoryInv'
  <2>1. HistoryStays
    BY <1>1 DEF Refuse
  <2>2. QED
    BY <2>1, HistoryKept
<1>2. ASSUME NEW r \in Requests, InsertCommit(r)
      PROVE  HistoryInv'
  <2>1. HistoryStays
    BY <1>2 DEF InsertCommit
  <2>2. QED
    BY <2>1, HistoryKept
<1>3. ASSUME NEW r \in Requests, InsertResume(r)
      PROVE  HistoryInv'
  <2>1. HistoryStays
    BY <1>3 DEF InsertResume, Places, KindsInPlace
  <2>2. QED
    BY <2>1, HistoryKept
<1>4. ASSUME NEW r \in Requests, NotFound(r)
      PROVE  HistoryInv'
  <2>1. HistoryStays
    BY <1>4 DEF NotFound
  <2>2. QED
    BY <2>1, HistoryKept
<1>5. ASSUME NEW r \in Requests, GetHistory(r)
      PROVE  HistoryInv'
  <2>1. HistoryStays
    BY <1>5 DEF GetHistory
  <2>2. QED
    BY <2>1, HistoryKept
<1>6. ASSUME NEW r \in Requests, GetHot(r)
      PROVE  HistoryInv'
  <2>1. HistoryStays
    BY <1>6 DEF GetHot
  <2>2. QED
    BY <2>1, HistoryKept
<1>7. ASSUME NEW r \in Requests, GetCold(r)
      PROVE  HistoryInv'
  <2>1. HistoryStays
    BY <1>7 DEF GetCold
  <2>2. QED
    BY <2>1, HistoryKept
<1>8. ASSUME NEW r \in Requests, Read(r)
      PROVE  HistoryInv'
  <2> DEFINE s == req[r].session
             read == LastN(log[s], IF req[r].kind = "history" THEN HistoryLimit ELSE MaxTurns)
  <2>1. /\ pc[r] = "read" /\ status[r] # "ok" /\ s \in Sessions
        /\ pc' = [pc EXCEPT ![r] = "rows"] /\ rows' = [rows EXCEPT ![r] = read]
        /\ UNCHANGED <<req, log, acked, unsaved, status>>
    BY <1>8 DEF Read, Located
  <2>2. ASSUME NEW x \in acked[r] \ unsaved, req[r].kind = "history",
               req[x].kind \in ChatKinds, req[x].session = s
        PROVE  x \in Authors(read) \/ Len(read) = HistoryLimit
    <3>1. x \in Authors(log[s])
      BY <2>1, <2>2 DEF AnsweredDurable, HistoryInv, AckedAnswered
    <3>2. read = LastN(log[s], HistoryLimit) /\ log[s] \in Seq(Message) /\ HistoryLimit \in Nat
      BY <2>1, <2>2, ChatAssumption
    <3> HIDE DEF read
    <3>3. read = log[s] \/ Len(read) = HistoryLimit
      BY <3>2, HistoryIsWhole
    <3>4. QED
      BY <3>1, <3>3
  <2> HIDE DEF read
  <2>3. ASSUME NEW y \in Requests, y # r
        PROVE  pc'[y] = pc[y] /\ rows'[y] = rows[y]
    BY <2>1, <2>3
  <2>4. rows'[r] = read
    BY <2>1
  <2>5. HistoryShows'
    BY <2>1, <2>2, <2>3, <2>4 DEF HistoryInv, HistoryShows
  <2>6. AckedAnswered'
    BY <2>1 DEF HistoryInv, AckedAnswered
  <2>7. QED
    BY <2>5, <2>6 DEF HistoryInv
<1>9. ASSUME NEW r \in Requests, ReadResume(r)
      PROVE  HistoryInv'
  <2>1. HistoryStays
    BY <1>9 DEF ReadResume
  <2>2. QED
    BY <2>1, HistoryKept
<1>10. ASSUME NEW r \in Requests, DbDown(r)
      PROVE  HistoryInv'
  <2>1. HistoryStays
    BY <1>10 DEF DbDown
  <2>2. QED
    BY <2>1, HistoryKept
<1>11. ASSUME NEW r \in Requests, GuardReject(r)
      PROVE  HistoryInv'
  <2>1. HistoryStays
    BY <1>11 DEF GuardReject
  <2>2. QED
    BY <2>1, HistoryKept
<1>12. ASSUME NEW r \in Requests, GuardPass(r)
      PROVE  HistoryInv'
  <2>1. HistoryStays
    BY <1>12 DEF GuardPass
  <2>2. QED
    BY <2>1, HistoryKept
<1>13. ASSUME NEW r \in Requests, GenerateFail(r)
      PROVE  HistoryInv'
  <2>1. HistoryStays
    BY <1>13 DEF GenerateFail
  <2>2. QED
    BY <2>1, HistoryKept
<1>14. ASSUME NEW r \in Requests, Record(r)
      PROVE  HistoryInv'
  <2>1. HistoryStays
    BY <1>14 DEF Record
  <2>2. QED
    BY <2>1, HistoryKept
<1>15. ASSUME NEW r \in Requests, PersistCommit(r)
      PROVE  HistoryInv'
  <2>1. HistoryStays
    BY <1>15 DEF PersistCommit
  <2>2. QED
    BY <2>1, HistoryKept
<1>16. ASSUME NEW r \in Requests, PersistFail(r)
      PROVE  HistoryInv'
  <2>1. HistoryStays
    BY <1>16 DEF PersistFail
  <2>2. QED
    BY <2>1, HistoryKept
<1>17. ASSUME NEW r \in Requests, Respond(r)
      PROVE  HistoryInv'
  <2>1. HistoryStays
    BY <1>17 DEF Respond, Places, KindsInPlace, ChatKinds
  <2>2. QED
    BY <2>1, HistoryKept
<1>18. ASSUME NEW r \in Requests, Disconnect(r)
      PROVE  HistoryInv'
  <2>1. HistoryStays
    BY <1>18 DEF Disconnect
  <2>2. QED
    BY <2>1, HistoryKept
<1>19. ASSUME NEW r \in Requests, NEW u \in Users, NEW k \in Kinds, NEW s \in Sessions,
             ArriveNew(r, u, k, s)
      PROVE  HistoryInv'
  <2>1. /\ pc[r] = "idle" /\ status[r] = "none" /\ status' = status
        /\ pc' = [pc EXCEPT ![r] = "insert"]
        /\ acked' = [acked EXCEPT ![r] = {x \in Requests : status[x] = "ok"}]
        /\ \A y \in Requests \ {r} : req'[y] = req[y]
        /\ rows' = rows /\ unsaved' = unsaved
    BY <1>19 DEF ArriveNew
  <2>2. AckedAnswered'
    BY <2>1 DEF HistoryInv, AckedAnswered
  <2>3. ASSUME NEW y \in Requests, req'[y].kind = "history",
               pc'[y] = "rows" \/ status'[y] = "ok",
               NEW x \in acked'[y] \ unsaved',
               req'[x].kind \in ChatKinds, req'[x].session = req'[y].session
        PROVE  x \in Authors(rows'[y]) \/ Len(rows'[y]) = HistoryLimit
    <3>1. y # r /\ x \in acked[y] /\ x \in Requests
      BY <2>1, <2>3
    <3>2. x # r
      BY <2>1, <3>1 DEF HistoryInv, AckedAnswered
    <3>3. req'[x] = req[x] /\ req'[y] = req[y] /\ pc'[y] = pc[y]
      BY <2>1, <3>1, <3>2
    <3>4. QED
      BY <2>1, <2>3, <3>1, <3>3 DEF HistoryInv, HistoryShows
  <2>4. HistoryShows'
    BY <2>3 DEF HistoryShows
  <2>5. QED
    BY <2>2, <2>4 DEF HistoryInv
<1>20. ASSUME NEW r \in Requests, NEW u \in Users, NEW k \in Kinds,
             NEW s \in announced \cup {UnknownId}, ArriveOn(r, u, k, s)
      PROVE  HistoryInv'
  <2>1. /\ pc[r] = "idle" /\ status[r] = "none" /\ status' = status
        /\ pc' = [pc EXCEPT ![r] = "get"]
        /\ acked' = [acked EXCEPT ![r] = {x \in Requests : status[x] = "ok"}]
        /\ \A y \in Requests \ {r} : req'[y] = req[y]
        /\ rows' = rows /\ unsaved' = unsaved
    BY <1>20 DEF ArriveOn
  <2>2. AckedAnswered'
    BY <2>1 DEF HistoryInv, AckedAnswered
  <2>3. ASSUME NEW y \in Requests, req'[y].kind = "history",
               pc'[y] = "rows" \/ status'[y] = "ok",
               NEW x \in acked'[y] \ unsaved',
               req'[x].kind \in ChatKinds, req'[x].session = req'[y].session
        PROVE  x \in Authors(rows'[y]) \/ Len(rows'[y]) = HistoryLimit
    <3>1. y # r /\ x \in acked[y] /\ x \in Requests
      BY <2>1, <2>3
    <3>2. x # r
      BY <2>1, <3>1 DEF HistoryInv, AckedAnswered
    <3>3. req'[x] = req[x] /\ req'[y] = req[y] /\ pc'[y] = pc[y]
      BY <2>1, <3>1, <3>2
    <3>4. QED
      BY <2>1, <2>3, <3>1, <3>3 DEF HistoryInv, HistoryShows
  <2>4. HistoryShows'
    BY <2>3 DEF HistoryShows
  <2>5. QED
    BY <2>2, <2>4 DEF HistoryInv
<1>21. CASE Restart
  <2>1. HistoryStays
    BY <1>21 DEF Restart
  <2>2. QED
    BY <2>1, HistoryKept
<1>22. CASE UNCHANGED vars
  <2>1. HistoryStays
    BY <1>22 DEF vars
  <2>2. QED
    BY <2>1, HistoryKept
<1>. QED
  BY <1>1, <1>2, <1>3, <1>4, <1>5, <1>6, <1>7, <1>8, <1>9, <1>10, <1>11,
     <1>12, <1>13, <1>14, <1>15, <1>16, <1>17, <1>18, <1>19, <1>20, <1>21, <1>22
  DEF Next, Serve, Arrive

-----------------------------------------------------------------------------
(* What the model is shown.                                                *)

(* In a session that nothing disturbed one chat is at work at a time.      *)
Alone == \A s \in Sessions \ disturbed : \A a, b \in Touching(s) : a = b

(* Between chats its buffer is the end of the log.                         *)
Mirrored ==
  \A s \in hot \ disturbed :
    (\A r \in Touching(s) : pc[r] \notin {"read", "rows", "persist"})
      => buffer[s] = Window(log[s])

(* What a chat r at one of its awaits finds of its session.                *)
Matches(r, at, kind, turns, saved, read, prompt) ==
  /\ at \in {"read", "rows"} => turns = <<>>
  /\ at = "rows" => read = Window(saved)
  /\ at = "persist" => turns = Window(saved \o Exchange(r))
  /\ (at = "guard" /\ kind = "chat") \/ at = "generate" => prompt = Window(saved)

(* A chat that is at work finds it so: empty while it is refilled, with    *)
(* its own exchange ahead of the log while that is committed.              *)
InStep ==
  \A r \in Requests :
    req[r].kind \in ChatKinds /\ req[r].session \notin disturbed
      => Matches(r, pc[r], req[r].kind, buffer[req[r].session],
                 log[req[r].session], rows[r], ctx[r])

MirrorInv == Alone /\ Mirrored /\ InStep

(* A chat that found its session touches it.                               *)
LEMMA AtWork ==
  ASSUME IInv, NEW r \in Requests, req[r].kind \in ChatKinds,
         pc[r] \in {"read", "rows", "guard", "generate", "persist"}
  PROVE  req[r].session \in Sessions /\ r \in Touching(req[r].session)
<1>1. Active(r) /\ pc[r] \notin {"get", "insert"}
  BY DEF Active, Awaits
<1>2. QED
  BY <1>1, Place DEF Touching

(* Only the request that takes a step goes in or out.                      *)
LEMMA TouchingKept ==
  ASSUME TypeOK, NEW r \in Requests, NEW l, pc' = [pc EXCEPT ![r] = l],
         req' = req, owner' = owner, Active(r) \/ l \notin Awaits
  PROVE  \A s \in Sessions :
           /\ Touching(s)' \subseteq Touching(s)
           /\ \A x \in Touching(s) : x # r => x \in Touching(s)' /\ pc'[x] = pc[x]
BY DEF Touching, Active, TypeOK

(* A request that leaves the stores alone, and gives up or goes to a place *)
(* where nothing is asked of it.                                           *)
LEMMA QuietStep ==
  ASSUME IInv, MirrorInv, NEW r \in Requests, NEW l,
         pc' = [pc EXCEPT ![r] = l], Active(r) \/ l \notin Awaits,
         UNCHANGED <<owner, log, hot, buffer, req>>,
         \A x \in Requests \ {r} : rows'[x] = rows[x] /\ ctx'[x] = ctx[x],
         disturbed \subseteq disturbed',
         req[r].kind \in ChatKinds =>
           /\ l \notin {"read", "rows", "guard", "generate", "persist"}
           /\ pc[r] \in {"read", "rows", "persist"} => req[r].session \in disturbed'
  PROVE  MirrorInv'
<1>0. TypeOK
  BY DEF IInv
<1>1. \A s \in Sessions :
        /\ Touching(s)' \subseteq Touching(s)
        /\ \A x \in Touching(s) : x # r => x \in Touching(s)' /\ pc'[x] = pc[x]
  BY <1>0, TouchingKept
<1>2. Alone'
  BY <1>1 DEF MirrorInv, Alone
<1>3. ASSUME NEW s \in hot \ disturbed',
             \A x \in Touching(s)' : pc'[x] \notin {"read", "rows", "persist"}
      PROVE  buffer[s] = Window(log[s])
  <2>1. s \in Sessions /\ s \in hot \ disturbed
    BY <1>0 DEF TypeOK
  <2>2. ASSUME NEW x \in Touching(s)
        PROVE  pc[x] \notin {"read", "rows", "persist"}
    <3>1. CASE x # r
      BY <1>1, <1>3, <2>1, <3>1
    <3>2. CASE x = r
      <4>1. req[r].kind \in ChatKinds /\ req[r].session = s
        BY <2>2, <3>2 DEF Touching
      <4>2. QED
        BY <1>3, <3>2, <4>1
    <3>3. QED
      BY <3>1, <3>2
  <2>3. QED
    BY <2>1, <2>2 DEF MirrorInv, Mirrored
<1>4. Mirrored'
  BY <1>3 DEF Mirrored
<1>5. ASSUME NEW x \in Requests, req[x].kind \in ChatKinds, req[x].session \notin disturbed'
      PROVE  Matches(x, pc'[x], req[x].kind, buffer[req[x].session],
                     log[req[x].session], rows'[x], ctx'[x])
  <2>1. CASE x = r
    <3>1. pc'[x] = l
      BY <1>0, <2>1 DEF TypeOK
    <3>2. QED
      BY <1>5, <2>1, <3>1 DEF Matches
  <2>2. CASE x # r
    <3>1. pc'[x] = pc[x] /\ rows'[x] = rows[x] /\ ctx'[x] = ctx[x]
      BY <1>0, <2>2 DEF TypeOK
    <3>2. QED
      BY <1>5, <3>1 DEF MirrorInv, InStep
  <2>3. QED
    BY <2>1, <2>2
<1>6. InStep'
  BY <1>5 DEF InStep
<1>7. QED
  BY <1>2, <1>4, <1>6 DEF MirrorInv

(* A request that is alone in its session, and leaves its buffer and its   *)
(* log as the place it goes to asks for.                                   *)
LEMMA SoloStep ==
  ASSUME IInv, MirrorInv, NEW r \in Requests, NEW s \in Sessions, NEW l,
         req[r].session = s, Active(r),
         s \notin disturbed => \A x \in Touching(s) : x = r,
         pc' = [pc EXCEPT ![r] = l],
         UNCHANGED <<owner, req, disturbed>>,
         \A t \in Sessions \ {s} : /\ log'[t] = log[t] /\ buffer'[t] = buffer[t]
                                   /\ t \in hot' => t \in hot,
         \A x \in Requests \ {r} : rows'[x] = rows[x] /\ ctx'[x] = ctx[x],
         s \in hot' /\ s \notin disturbed =>
           \/ l \in {"read", "rows", "persist"} /\ r \in Touching(s)'
           \/ buffer'[s] = Window(log'[s]),
         req[r].kind \in ChatKinds /\ s \notin disturbed
           => Matches(r, l, req[r].kind, buffer'[s], log'[s], rows'[r], ctx'[r]),
         hot' \subseteq Sessions
  PROVE  MirrorInv'
<1>0. TypeOK
  BY DEF IInv
<1>1. \A t \in Sessions :
        /\ Touching(t)' \subseteq Touching(t)
        /\ \A x \in Touching(t) : x # r => x \in Touching(t)' /\ pc'[x] = pc[x]
  BY <1>0, TouchingKept
<1>2. Alone'
  BY <1>1 DEF MirrorInv, Alone
<1>9. pc'[r] = l
  BY <1>0 DEF TypeOK
<1>3. ASSUME NEW t \in hot' \ disturbed,
             \A x \in Touching(t)' : pc'[x] \notin {"read", "rows", "persist"}
      PROVE  buffer'[t] = Window(log'[t])
  <2>1. CASE t = s
    BY <1>3, <1>9, <2>1
  <2>2. CASE t # s
    <3>1. t \in Sessions /\ t \in hot \ disturbed
      BY <2>2
    <3>2. ASSUME NEW x \in Touching(t)
          PROVE  pc[x] \notin {"read", "rows", "persist"}
      <4>1. x # r
        BY <2>2, <3>2 DEF Touching
      <4>2. QED
        BY <1>1, <1>3, <3>1, <4>1
    <3>3. buffer[t] = Window(log[t])
      BY <3>1, <3>2 DEF MirrorInv, Mirrored
    <3>4. QED
      BY <2>2, <3>1, <3>3
  <2>3. QED
    BY <2>1, <2>2
<1>4. Mirrored'
  BY <1>3 DEF Mirrored
<1>5. ASSUME NEW x \in Requests, req[x].kind \in ChatKinds, req[x].session \notin disturbed
      PROVE  Matches(x, pc'[x], req[x].kind, buffer'[req[x].session],
                     log'[req[x].session], rows'[x], ctx'[x])
  <2>1. CASE x = r
    BY <1>5, <1>9, <2>1
  <2>2. CASE x # r
    <3>1. pc'[x] = pc[x] /\ rows'[x] = rows[x] /\ ctx'[x] = ctx[x]
      BY <1>0, <2>2 DEF TypeOK
    <3>2. Matches(x, pc[x], req[x].kind, buffer[req[x].session],
                  log[req[x].session], rows[x], ctx[x])
      BY <1>5 DEF MirrorInv, InStep
    <3>3. CASE pc[x] \in {"read", "rows", "guard", "generate", "persist"}
      <4>1. req[x].session \in Sessions /\ x \in Touching(req[x].session)
        BY <1>5, <3>3, AtWork
      <4>2. req[x].session # s
        BY <1>5, <2>2, <4>1
      <4>3. /\ buffer'[req[x].session] = buffer[req[x].session]
            /\ log'[req[x].session] = log[req[x].session]
        BY <4>1, <4>2
      <4>4. QED
        BY <3>1, <3>2, <4>3
    <3>4. CASE pc[x] \notin {"read", "rows", "guard", "generate", "persist"}
      BY <3>1, <3>4 DEF Matches
    <3>5. QED
      BY <3>3, <3>4
  <2>3. QED
    BY <2>1, <2>2
<1>6. InStep'
  BY <1>5 DEF InStep
<1>7. QED
  BY <1>2, <1>4, <1>6 DEF MirrorInv

(* What a chat at work in a session that is not disturbed knows of it.     *)
LEMMA AloneHere ==
  ASSUME IInv, Alone, NEW r \in Requests, NEW s \in Sessions, r \in Touching(s),
         s \notin disturbed
  PROVE  \A x \in Touching(s) : x = r
BY DEF Alone

LEMMA BufferMirrors ==
  ASSUME IInv, MirrorInv, NEW r \in Requests, NEW s \in Sessions, r \in Touching(s),
         s \in hot, s \notin disturbed, pc[r] \notin {"read", "rows", "persist"}
  PROVE  buffer[s] = Window(log[s])
<1>1. \A x \in Touching(s) : x = r
  BY AloneHere DEF MirrorInv
<1>2. QED
  BY <1>1 DEF MirrorInv, Mirrored

(* A step of a chat keeps buffer and log in step, or disturbs the session. *)
LEMMA MirrorStep == IInv /\ Places /\ MirrorInv /\ [Next]_vars => MirrorInv'
<1> SUFFICES ASSUME IInv, Places, MirrorInv, [Next]_vars PROVE MirrorInv'
  OBVIOUS
<1> USE DEF Goto, Reply, dbVars, memoryVars, historyVars, Disturb, EnterGuard, NoteAcked
<1>1. ASSUME NEW r \in Requests, Refuse(r)
      PROVE  MirrorInv'
  <2>1. /\ pc' = [pc EXCEPT ![r] = "done"]
        /\ UNCHANGED <<owner, log, hot, buffer, req, rows, ctx>>
        /\ disturbed \subseteq disturbed'
        /\ pc[r] \in {"idle"}
    BY <1>1 DEF Refuse
  <2>2. QED
    BY <2>1, QuietStep DEF Active, Awaits
<1>2. ASSUME NEW r \in Requests, InsertCommit(r)
      PROVE  MirrorInv'
  <2>0. PICK s : s = req[r].session
    OBVIOUS
  <2> USE <2>0
  <2>1. /\ pc[r] = "insert" /\ pc' = [pc EXCEPT ![r] = "inserted"]
        /\ owner' = [owner EXCEPT ![s] = req[r].user]
        /\ UNCHANGED <<log, hot, buffer, req, rows, ctx, disturbed>>
    BY <1>2 DEF InsertCommit
  <2>2. TypeOK /\ s \in Sessions /\ owner[s] = Nobody /\ Active(r)
    BY <2>1 DEF IInv, Located, Inserting, Active, Awaits
  <2>3. log[s] = <<>> /\ buffer[s] = <<>>
    BY <2>2 DEF IInv, Unborn
  <2>4. \A x \in Requests : req[x].session = s => x = r
    BY <2>1 DEF IInv, Inserting
  <2>5. \A t \in Sessions \ {s} : owner'[t] = owner[t]
    BY <2>1, <2>2 DEF TypeOK
  <2>6. \A x \in Requests \ {r} : pc'[x] = pc[x] /\ (Active(x)' <=> Active(x))
    BY <2>1, <2>2 DEF TypeOK, Active
  <2>7. ASSUME NEW t \in Sessions \ {s}
        PROVE  Touching(t)' = Touching(t)
    <3>1. r \notin Touching(t) /\ r \notin Touching(t)'
      BY <2>1, <2>7 DEF Touching
    <3>2. QED
      BY <2>1, <2>5, <2>6, <2>7, <3>1 DEF Touching
  <2>8. Touching(s)' \subseteq {r}
    BY <2>1, <2>4 DEF Touching
  <2>9. Alone'
    <3>1. ASSUME NEW t \in Sessions \ disturbed', NEW a \in Touching(t)', NEW b \in Touching(t)'
          PROVE  a = b
      <4>1. CASE t = s
        BY <2>8, <3>1, <4>1
      <4>2. CASE t # s
        BY <2>1, <2>7, <3>1, <4>2 DEF MirrorInv, Alone
      <4>3. QED
        BY <4>1, <4>2
    <3>2. QED
      BY <3>1 DEF Alone
  <2>10. ASSUME NEW t \in hot \ disturbed,
                \A x \in Touching(t)' : pc'[x] \notin {"read", "rows", "persist"}
         PROVE  buffer[t] = Window(log[t])
    <3>1. CASE t = s
      <4>1. MaxTurns \in Nat /\ Len(<<>>) = 0
        BY ChatAssumption
      <4>2. QED
        BY <2>3, <3>1, <4>1 DEF Window, LastN
    <3>2. CASE t # s
      <4>1. t \in Sessions /\ Touching(t)' = Touching(t)
        BY <2>2, <2>7, <3>2 DEF TypeOK
      <4>2. ASSUME NEW x \in Touching(t)
            PROVE  pc[x] \notin {"read", "rows", "persist"}
        <5>1. x # r /\ x \in Requests
          BY <3>2 DEF Touching
        <5>2. QED
          BY <2>6, <2>10, <4>1, <4>2, <5>1
      <4>3. QED
        BY <4>2 DEF MirrorInv, Mirrored
    <3>3. QED
      BY <3>1, <3>2
  <2>11. Mirrored'
    BY <2>1, <2>10 DEF Mirrored
  <2>12. ASSUME NEW x \in Requests, req[x].kind \in ChatKinds, req[x].session \notin disturbed
         PROVE  Matches(x, pc'[x], req[x].kind, buffer[req[x].session],
                        log[req[x].session], rows[x], ctx[x])
    <3>1. CASE x = r
      <4>1. pc'[x] = "inserted"
        BY <2>1, <2>2, <3>1 DEF TypeOK
      <4>2. QED
        BY <4>1 DEF Matches
    <3>2. CASE x # r
      BY <2>6, <2>12, <3>2 DEF MirrorInv, InStep
    <3>3. QED
      BY <3>1, <3>2
  <2>13. InStep'
    BY <2>1, <2>12 DEF InStep
  <2>14. QED
    BY <2>9, <2>11, <2>13 DEF MirrorInv
<1>3. ASSUME NEW r \in Requests, InsertResume(r)
      PROVE  MirrorInv'
  <2>0. PICK s : s = req[r].session
    OBVIOUS
  <2> USE <2>0
  <2>1. /\ pc[r] = "inserted"
        /\ UNCHANGED <<owner, req, disturbed, log, rows, ctx>>
        /\ hot' = hot \cup {s} /\ buffer' = [buffer EXCEPT ![s] = <<>>]
    BY <1>3 DEF InsertResume
  <2>2. PICK l \in {"done", "guard"} : pc' = [pc EXCEPT ![r] = l]
    BY <1>3 DEF InsertResume
  <2>3. TypeOK /\ Active(r) /\ s \in Sessions
    BY <2>1 DEF IInv, Located, Active, Awaits
  <2>4. /\ log[s] = <<>> /\ ctx[r] = <<>>
        /\ \A x \in Requests : req[x].session = s => x = r
    BY <2>1 DEF Places, JustInserted, NoContextYet
  <2>5. \A x \in Touching(s) : x = r
    BY <2>4 DEF Touching
  <2>6. Window(<<>>) = <<>>
    <3>1. MaxTurns \in Nat /\ Len(<<>>) = 0
      BY ChatAssumption
    <3>2. QED
      BY <3>1 DEF Window, LastN
  <2>7. /\ buffer'[s] = Window(log'[s]) /\ \A t \in Sessions \ {s} : buffer'[t] = buffer[t]
        /\ hot' \subseteq Sessions /\ \A t \in Sessions \ {s} : t \in hot' => t \in hot
    BY <2>1, <2>3, <2>4, <2>6 DEF TypeOK
  <2>8. Matches(r, l, req[r].kind, buffer'[s], log'[s], rows'[r], ctx'[r])
    BY <2>1, <2>2, <2>4, <2>6 DEF Matches
  <2>9. QED
    BY <2>1, <2>2, <2>3, <2>5, <2>7, <2>8, SoloStep
<1>4. ASSUME NEW r \in Requests, NotFound(r)
      PROVE  MirrorInv'
  <2>1. /\ pc' = [pc EXCEPT ![r] = "done"]
        /\ UNCHANGED <<owner, log, hot, buffer, req, rows, ctx>>
        /\ disturbed \subseteq disturbed'
        /\ pc[r] \in {"get"}
    BY <1>4 DEF NotFound
  <2>2. QED
    BY <2>1, QuietStep DEF Active, Awaits
<1>5. ASSUME NEW r \in Requests, GetHistory(r)
      PROVE  MirrorInv'
  <2>1. /\ pc' = [pc EXCEPT ![r] = "read"]
        /\ UNCHANGED <<owner, log, hot, buffer, req, rows, ctx>>
        /\ disturbed \subseteq disturbed'
        /\ pc[r] \in {"get"}
        /\ req[r].kind \notin ChatKinds
    BY <1>5 DEF GetHistory, ChatKinds
  <2>2. QED
    BY <2>1, QuietStep DEF Active, Awaits
<1>6. ASSUME NEW r \in Requests, GetHot(r)
      PROVE  MirrorInv'
  <2>0. PICK s : s = req[r].session
    OBVIOUS
  <2> USE <2>0
  <2>1. /\ pc[r] = "get" /\ pc' = [pc EXCEPT ![r] = "guard"]
        /\ UNCHANGED <<owner, req, disturbed>>
        /\ UNCHANGED <<log, hot, buffer, rows>>
        /\ ctx' = IF req[r].kind = "chat" THEN [ctx EXCEPT ![r] = buffer[s]] ELSE ctx
        /\ s \in hot
    BY <1>6 DEF GetHot
  <2>2. TypeOK /\ Active(r)
    BY <2>1 DEF IInv, Active, Awaits
  <2>3. req[r].kind \in ChatKinds /\ s \in Sessions /\ r \in Touching(s)
    BY <1>6, <2>2 DEF GetHot, Owned, Touching
  <2>4. s \notin disturbed => \A x \in Touching(s) : x = r
    BY <2>3, AloneHere DEF MirrorInv
  <2>5. s \notin disturbed => buffer[s] = Window(log[s])
    BY <2>1, <2>3, BufferMirrors
  <2>6. /\ \A x \in Requests \ {r} : ctx'[x] = ctx[x]
        /\ req[r].kind = "chat" => ctx'[r] = buffer[s]
    BY <2>1, <2>2 DEF TypeOK
  <2>7. s \notin disturbed
          => Matches(r, "guard", req[r].kind, buffer'[s], log'[s], rows'[r], ctx'[r])
    BY <2>1, <2>5, <2>6 DEF Matches
  <2>8. hot' \subseteq Sessions
    BY <2>1, <2>2 DEF TypeOK
  <2>9. QED
    BY <2>1, <2>2, <2>3, <2>4, <2>5, <2>6, <2>7, <2>8, SoloStep
<1>7. ASSUME NEW r \in Requests, GetCold(r)
      PROVE  MirrorInv'
  <2>0. PICK s : s = req[r].session
    OBVIOUS
  <2> USE <2>0
  <2>1. /\ pc[r] = "get" /\ pc' = [pc EXCEPT ![r] = "read"]
        /\ UNCHANGED <<owner, req, disturbed>>
        /\ UNCHANGED <<log, rows, ctx>>
        /\ hot' = hot \cup {s} /\ buffer' = [buffer EXCEPT ![s] = <<>>]
    BY <1>7 DEF GetCold
  <2>2. TypeOK /\ Active(r)
    BY <2>1 DEF IInv, Active, Awaits
  <2>3. req[r].kind \in ChatKinds /\ s \in Sessions /\ r \in Touching(s)
    BY <1>7, <2>2 DEF GetCold, Owned, Touching
  <2>4. s \notin disturbed => \A x \in Touching(s) : x = r
    BY <2>3, AloneHere DEF MirrorInv
  <2>5. /\ buffer'[s] = <<>> /\ \A t \in Sessions \ {s} : buffer'[t] = buffer[t]
        /\ hot' \subseteq Sessions /\ \A t \in Sessions \ {s} : t \in hot' => t \in hot
    BY <2>1, <2>2, <2>3 DEF TypeOK
  <2>6. r \in Touching(s)'
    BY <2>1, <2>2, <2>3 DEF Touching, Active, Awaits, TypeOK
  <2>7. Matches(r, "read", req[r].kind, buffer'[s], log'[s], rows'[r], ctx'[r])
    BY <2>5 DEF Matches
  <2>8. QED
    BY <2>1, <2>2, <2>3, <2>4, <2>5, <2>6, <2>7, SoloStep
<1>8. ASSUME NEW r \in Requests, Read(r)
      PROVE  MirrorInv'
  <2>1. CASE req[r].kind = "history"
    <3>1. /\ pc[r] = "read" /\ pc' = [pc EXCEPT ![r] = "rows"]
          /\ UNCHANGED <<owner, log, hot, buffer, req, ctx, disturbed>>
          /\ rows' = [rows EXCEPT ![r] = LastN(log[req[r].session], HistoryLimit)]
          /\ req[r].kind \notin ChatKinds
      BY <1>8, <2>1 DEF Read, ChatKinds
    <3>2. \A x \in Requests \ {r} : rows'[x] = rows[x]
      BY <3>1 DEF IInv, TypeOK
    <3>3. QED
      BY <3>1, <3>2, QuietStep DEF Active, Awaits
  <2>2. CASE req[r].kind # "history"
    <3>0. PICK s : s = req[r].session
      OBVIOUS
    <3> USE <3>0
    <3>1. /\ pc[r] = "read" /\ pc' = [pc EXCEPT ![r] = "rows"]
          /\ UNCHANGED <<owner, req, disturbed>>
          /\ UNCHANGED <<log, hot, buffer, ctx>>
          /\ rows' = [rows EXCEPT ![r] = LastN(log[s], MaxTurns)]
      BY <1>8, <2>2 DEF Read
    <3>2. TypeOK /\ Active(r)
      BY <3>1 DEF IInv, Active, Awaits
    <3>3. req[r].kind \in ChatKinds /\ s \in Sessions /\ r \in Touching(s)
      BY <3>1, <3>2, <2>2, AtWork DEF Places, KindsInPlace, IInv, TypeOK, Kinds, ChatKinds
    <3>4. s \notin disturbed => \A x \in Touching(s) : x = r
      BY <3>3, AloneHere DEF MirrorInv
    <3>5. s \notin disturbed => buffer[s] = <<>>
      BY <3>1, <3>3 DEF MirrorInv, InStep, Matches
    <3>6. rows'[r] = Window(log[s]) /\ \A x \in Requests \ {r} : rows'[x] = rows[x]
      BY <3>1, <3>2 DEF TypeOK, Window
    <3>7. r \in Touching(s)'
      BY <3>1, <3>2, <3>3 DEF Touching, Active, Awaits, TypeOK
    <3>8. s \notin disturbed
            => Matches(r, "rows", req[r].kind, buffer'[s], log'[s], rows'[r], ctx'[r])
      BY <3>1, <3>5, <3>6 DEF Matches
    <3>9. hot' \subseteq Sessions
      BY <3>1, <3>2 DEF TypeOK
    <3>10. QED
      BY <3>1, <3>2, <3>3, <3>4, <3>6, <3>7, <3>8, <3>9, SoloStep
  <2>3. QED
    BY <2>1, <2>2
<1>9. ASSUME NEW r \in Requests, ReadResume(r)
      PROVE  MirrorInv'
  <2>1. CASE req[r].kind = "history"
    <3>1. /\ pc[r] = "rows" /\ pc' = [pc EXCEPT ![r] = "done"]
          /\ UNCHANGED <<owner, log, hot, buffer, req, rows, ctx, disturbed>>
          /\ req[r].kind \notin ChatKinds
      BY <1>9, <2>1 DEF ReadResume, ChatKinds
    <3>2. QED
      BY <3>1, QuietStep DEF Active, Awaits
  <2>2. CASE req[r].kind # "history"
    <3>0. PICK s : s = req[r].session
      OBVIOUS
    <3> USE <3>0
    <3> DEFINE filled == Window(buffer[s] \o rows[r])
    <3>1. /\ pc[r] = "rows" /\ pc' = [pc EXCEPT ![r] = "guard"]
          /\ UNCHANGED <<owner, req, disturbed, log, hot, rows>>
          /\ buffer' = [buffer EXCEPT ![s] = filled]
          /\ ctx' = IF req[r].kind = "chat" THEN [ctx EXCEPT ![r] = filled] ELSE ctx
      BY <1>9, <2>2 DEF ReadResume
    <3>2. TypeOK /\ Active(r)
      BY <3>1 DEF IInv, Active, Awaits
    <3>3. req[r].kind \in ChatKinds /\ s \in Sessions /\ r \in Touching(s)
      BY <2>2, <3>1, <3>2, AtWork DEF Places, KindsInPlace, TypeOK, Kinds, ChatKinds
    <3>4. s \notin disturbed => \A x \in Touching(s) : x = r
      BY <3>3, AloneHere DEF MirrorInv
    <3>5. s \notin disturbed => filled = Window(log[s])
      <4>1. ASSUME s \notin disturbed
            PROVE  buffer[s] = <<>> /\ rows[r] = Window(log[s])
        BY <3>1, <3>3, <4>1 DEF MirrorInv, InStep, Matches
      <4>2. log[s] \in Seq(Message)
        BY <3>2, <3>3 DEF TypeOK
      <4>3. Window(<<>> \o Window(log[s])) = Window(log[s])
        BY <4>2, WindowTwice
      <4>4. QED
        BY <4>1, <4>3
    <3> HIDE DEF filled
    <3>6. /\ buffer'[s] = filled /\ \A t \in Sessions \ {s} : buffer'[t] = buffer[t]
          /\ req[r].kind = "chat" => ctx'[r] = filled
          /\ \A x \in Requests \ {r} : ctx'[x] = ctx[x]
          /\ hot' \subseteq Sessions
      BY <3>1, <3>2, <3>3 DEF TypeOK
    <3>7. s \notin disturbed
            => Matches(r, "guard", req[r].kind, buffer'[s], log'[s], rows'[r], ctx'[r])
      BY <3>1, <3>5, <3>6 DEF Matches
    <3>8. QED
      BY <3>1, <3>2, <3>3, <3>4, <3>5, <3>6, <3>7, SoloStep
  <2>3. QED
    BY <2>1, <2>2
<1>10. ASSUME NEW r \in Requests, DbDown(r)
      PROVE  MirrorInv'
  <2>1. /\ pc' = [pc EXCEPT ![r] = "done"]
        /\ UNCHANGED <<owner, log, hot, buffer, req, rows, ctx>>
        /\ disturbed \subseteq disturbed'
        /\ pc[r] \in {"insert", "get", "read"}
        /\ pc[r] = "read" /\ req[r].kind \in ChatKinds => req[r].session \in disturbed'
    BY <1>10 DEF DbDown
  <2>2. QED
    BY <2>1, QuietStep DEF Active, Awaits
<1>11. ASSUME NEW r \in Requests, GuardReject(r)
      PROVE  MirrorInv'
  <2>1. /\ pc' = [pc EXCEPT ![r] = "done"]
        /\ UNCHANGED <<owner, log, hot, buffer, req, rows, ctx>>
        /\ disturbed \subseteq disturbed'
        /\ pc[r] \in {"guard"}
    BY <1>11 DEF GuardReject
  <2>2. QED
    BY <2>1, QuietStep DEF Active, Awaits
<1>12. ASSUME NEW r \in Requests, GuardPass(r)
      PROVE  MirrorInv'
  <2>0. PICK s : s = req[r].session
    OBVIOUS
  <2> USE <2>0
  <2>1. /\ pc[r] = "guard" /\ pc' = [pc EXCEPT ![r] = "generate"]
        /\ UNCHANGED <<owner, req, disturbed>>
        /\ UNCHANGED <<log, hot, buffer, rows>>
        /\ ctx' = IF req[r].kind = "stream" THEN [ctx EXCEPT ![r] = buffer[s]] ELSE ctx
    BY <1>12 DEF GuardPass
  <2>2. TypeOK /\ Active(r)
    BY <2>1 DEF IInv, Active, Awaits
  <2>3. req[r].kind \in ChatKinds /\ s \in Sessions /\ r \in Touching(s)
    BY <2>1, AtWork DEF Places, KindsInPlace
  <2>4. s \notin disturbed => \A x \in Touching(s) : x = r
    BY <2>3, AloneHere DEF MirrorInv
  <2>5. s \in hot
    BY <2>1, <2>2, <2>3 DEF IInv, Warm, ChatKinds
  <2>6. s \notin disturbed => buffer[s] = Window(log[s])
    BY <2>1, <2>3, <2>5, BufferMirrors
  <2>7. /\ \A x \in Requests \ {r} : ctx'[x] = ctx[x]
        /\ ctx'[r] = IF req[r].kind = "stream" THEN buffer[s] ELSE ctx[r]
    BY <2>1, <2>2 DEF TypeOK
  <2>8. s \notin disturbed /\ req[r].kind = "chat" => ctx[r] = Window(log[s])
    BY <2>1, <2>3 DEF MirrorInv, InStep, Matches
  <2>9. s \notin disturbed
          => Matches(r, "generate", req[r].kind, buffer'[s], log'[s], rows'[r], ctx'[r])
    BY <2>1, <2>3, <2>6, <2>7, <2>8 DEF Matches, ChatKinds
  <2>10. hot' \subseteq Sessions
    BY <2>1, <2>2 DEF TypeOK
  <2>11. QED
    BY <2>1, <2>2, <2>3, <2>4, <2>6, <2>7, <2>9, <2>10, SoloStep
<1>13. ASSUME NEW r \in Requests, GenerateFail(r)
      PROVE  MirrorInv'
  <2>1. /\ pc' = [pc EXCEPT ![r] = "done"]
        /\ UNCHANGED <<owner, log, hot, buffer, req, rows, ctx>>
        /\ disturbed \subseteq disturbed'
        /\ pc[r] \in {"generate"}
    BY <1>13 DEF GenerateFail
  <2>2. QED
    BY <2>1, QuietStep DEF Active, Awaits
<1>14. ASSUME NEW r \in Requests, Record(r)
      PROVE  MirrorInv'
  <2>0. PICK s : s = req[r].session
    OBVIOUS
  <2> USE <2>0
  <2>1. /\ pc[r] = "generate" /\ pc' = [pc EXCEPT ![r] = "persist"]
        /\ UNCHANGED <<owner, req, disturbed>>
        /\ UNCHANGED <<log, rows, ctx>> /\ hot' = hot \cup {s}
        /\ buffer' = [buffer EXCEPT ![s] = Window(@ \o Exchange(r))]
    BY <1>14 DEF Record
  <2>2. TypeOK /\ Active(r)
    BY <2>1 DEF IInv, Active, Awaits
  <2>3. req[r].kind \in ChatKinds /\ s \in Sessions /\ r \in Touching(s)
    BY <2>1, AtWork DEF Places, KindsInPlace
  <2>4. s \notin disturbed => \A x \in Touching(s) : x = r
    BY <2>3, AloneHere DEF MirrorInv
  <2>5. s \in hot
    BY <2>1, <2>2, <2>3 DEF IInv, Warm, ChatKinds
  <2>6. ASSUME s \notin disturbed
        PROVE  Window(buffer[s] \o Exchange(r)) = Window(log[s] \o Exchange(r))
    <3>1. buffer[s] = Window(log[s])
      BY <2>1, <2>3, <2>5, <2>6, BufferMirrors
    <3>2. log[s] \in Seq(Message) /\ Exchange(r) \in Seq(Message)
      BY <2>2, <2>3, ExchangeAuthors DEF TypeOK
    <3>3. QED
      BY <3>1, <3>2, WindowTwice
  <2>7. /\ buffer'[s] = Window(buffer[s] \o Exchange(r))
        /\ \A t \in Sessions \ {s} : buffer'[t] = buffer[t]
        /\ hot' \subseteq Sessions /\ \A t \in Sessions \ {s} : t \in hot' => t \in hot
    BY <2>1, <2>2, <2>3 DEF TypeOK
  <2>8. s \notin disturbed
          => Matches(r, "persist", req[r].kind, buffer'[s], log'[s], rows'[r], ctx'[r])
    BY <2>1, <2>6, <2>7 DEF Matches
  <2>9. r \in Touching(s)'
    BY <2>1, <2>2, <2>3 DEF Touching, Active, Awaits, TypeOK
  <2>10. QED
    BY <2>1, <2>2, <2>3, <2>4, <2>7, <2>8, <2>9, SoloStep
<1>15. ASSUME NEW r \in Requests, PersistCommit(r)
      PROVE  MirrorInv'
  <2>0. PICK s : s = req[r].session
    OBVIOUS
  <2> USE <2>0
  <2>1. /\ pc[r] = "persist" /\ pc' = [pc EXCEPT ![r] = "persisted"]
        /\ UNCHANGED <<owner, req, disturbed>>
        /\ UNCHANGED <<hot, buffer, rows, ctx>>
        /\ log' = [log EXCEPT ![s] = @ \o Exchange(r)]
    BY <1>15 DEF PersistCommit
  <2>2. TypeOK /\ Active(r)
    BY <2>1 DEF IInv, Active, Awaits
  <2>3. req[r].kind \in ChatKinds /\ s \in Sessions /\ r \in Touching(s)
    BY <2>1, AtWork DEF Places, KindsInPlace
  <2>4. s \notin disturbed => \A x \in Touching(s) : x = r
    BY <2>3, AloneHere DEF MirrorInv
  <2>5. s \notin disturbed => buffer[s] = Window(log[s] \o Exchange(r))
    BY <2>1, <2>3 DEF MirrorInv, InStep, Matches
  <2>6. /\ log'[s] = log[s] \o Exchange(r) /\ \A t \in Sessions \ {s} : log'[t] = log[t]
        /\ hot' \subseteq Sessions
    BY <2>1, <2>2, <2>3 DEF TypeOK
  <2>7. Matches(r, "persisted", req[r].kind, buffer'[s], log'[s], rows'[r], ctx'[r])
    BY DEF Matches
  <2>8. s \notin disturbed => buffer'[s] = Window(log'[s])
    BY <2>1, <2>5, <2>6
  <2>9. QED
    BY <2>1, <2>2, <2>3, <2>4, <2>6, <2>7, <2>8, SoloStep
<1>16. ASSUME NEW r \in Requests, PersistFail(r)
      PROVE  MirrorInv'
  <2>1. /\ pc' = [pc EXCEPT ![r] = "persisted"]
        /\ UNCHANGED <<owner, log, hot, buffer, req, rows, ctx>>
        /\ disturbed \subseteq disturbed'
        /\ pc[r] \in {"persist"}
        /\ req[r].session \in disturbed'
    BY <1>16 DEF PersistFail
  <2>2. QED
    BY <2>1, QuietStep DEF Active, Awaits
<1>17. ASSUME NEW r \in Requests, Respond(r)
      PROVE  MirrorInv'
  <2>1. /\ pc' = [pc EXCEPT ![r] = "done"]
        /\ UNCHANGED <<owner, log, hot, buffer, req, rows, ctx>>
        /\ disturbed \subseteq disturbed'
        /\ pc[r] \in {"persisted"}
    BY <1>17 DEF Respond
  <2>2. QED
    BY <2>1, QuietStep DEF Active, Awaits
<1>18. ASSUME NEW r \in Requests, Disconnect(r)
      PROVE  MirrorInv'
  <2>1. /\ pc' = [pc EXCEPT ![r] = "done"]
        /\ UNCHANGED <<owner, log, hot, buffer, req, rows, ctx>>
        /\ disturbed \subseteq disturbed'
        /\ pc[r] \in {"generate", "persist", "persisted"}
        /\ pc[r] = "persist" => req[r].session \in disturbed'
    BY <1>18 DEF Disconnect
  <2>2. QED
    BY <2>1, QuietStep DEF Active, Awaits
<1>19. ASSUME NEW r \in Requests, NEW u \in Users, NEW k \in Kinds, NEW s \in Sessions,
             ArriveNew(r, u, k, s)
      PROVE  MirrorInv'
  <2>1. /\ pc[r] = "idle" /\ pc' = [pc EXCEPT ![r] = "insert"]
        /\ req' = [req EXCEPT ![r] = [user |-> u, kind |-> k, session |-> s]]
        /\ UNCHANGED <<owner, log, hot, buffer, rows, ctx>>
        /\ disturbed \subseteq disturbed'
    BY <1>19 DEF ArriveNew
  <2>2. /\ \A x \in Requests \ {r} : pc'[x] = pc[x] /\ req'[x] = req[x]
        /\ pc'[r] = "insert" /\ req'[r] = [user |-> u, kind |-> k, session |-> s]
    BY <2>1 DEF IInv, TypeOK
  <2>3. \A t \in Sessions : /\ Touching(t) \subseteq Touching(t)'
                            /\ Touching(t)' \subseteq Touching(t) \cup {r}
    BY <2>1, <2>2 DEF Touching, Active, Awaits
  <2>4. ASSUME NEW t \in Sessions \ disturbed', r \in Touching(t)'
        PROVE  Touching(t) = {}
    <3>1. t = s /\ owner[t] = u
      BY <2>1, <2>2, <2>4 DEF Touching
    <3>2. owner[s] = Nobody /\ u # Nobody
      BY <1>19, ChatAssumption DEF ArriveNew, Fresh
    <3>3. QED
      BY <3>1, <3>2
  <2>5. ASSUME NEW t \in Sessions \ disturbed', NEW a \in Touching(t)', NEW b \in Touching(t)'
        PROVE  a = b
    <3>1. CASE r \in Touching(t)'
      BY <2>3, <2>4, <2>5, <3>1
    <3>2. CASE r \notin Touching(t)'
      BY <2>1, <2>3, <2>5, <3>2 DEF MirrorInv, Alone
    <3>3. QED
      BY <3>1, <3>2
  <2>6. ASSUME NEW t \in hot \ disturbed',
               \A x \in Touching(t)' : pc'[x] \notin {"read", "rows", "persist"}
        PROVE  buffer[t] = Window(log[t])
    <3>1. t \in Sessions /\ t \in hot \ disturbed
      BY <2>1 DEF IInv, TypeOK
    <3>2. ASSUME NEW x \in Touching(t)
          PROVE  pc[x] \notin {"read", "rows", "persist"}
      <4>1. x # r /\ x \in Requests /\ x \in Touching(t)'
        BY <2>1, <2>3, <3>1 DEF Touching, Active, Awaits
      <4>2. QED
        BY <2>2, <2>6, <4>1
    <3>3. QED
      BY <3>1, <3>2 DEF MirrorInv, Mirrored
  <2>7. ASSUME NEW x \in Requests, req'[x].kind \in ChatKinds, req'[x].session \notin disturbed'
        PROVE  Matches(x, pc'[x], req'[x].kind, buffer[req'[x].session],
                       log[req'[x].session], rows[x], ctx[x])
    <3>1. CASE x = r
      BY <2>2, <3>1 DEF Matches
    <3>2. CASE x # r
      BY <2>1, <2>2, <2>7, <3>2 DEF MirrorInv, InStep
    <3>3. QED
      BY <3>1, <3>2
  <2>8. Alone'
    BY <2>5 DEF Alone
  <2>9. Mirrored'
    BY <2>1, <2>6 DEF Mirrored
  <2>10. InStep'
    BY <2>1, <2>7 DEF InStep
  <2>11. QED
    BY <2>8, <2>9, <2>10 DEF MirrorInv
<1>20. ASSUME NEW r \in Requests, NEW u \in Users, NEW k \in Kinds,
             NEW s \in announced \cup {UnknownId}, ArriveOn(r, u, k, s)
      PROVE  MirrorInv'
  <2>1. /\ pc[r] = "idle" /\ pc' = [pc EXCEPT ![r] = "get"]
        /\ req' = [req EXCEPT ![r] = [user |-> u, kind |-> k, session |-> s]]
        /\ UNCHANGED <<owner, log, hot, buffer, rows, ctx>>
        /\ disturbed \subseteq disturbed'
    BY <1>20 DEF ArriveOn
  <2>2. /\ \A x \in Requests \ {r} : pc'[x] = pc[x] /\ req'[x] = req[x]
        /\ pc'[r] = "get" /\ req'[r] = [user |-> u, kind |-> k, session |-> s]
    BY <2>1 DEF IInv, TypeOK
  <2>3. \A t \in Sessions : /\ Touching(t) \subseteq Touching(t)'
                            /\ Touching(t)' \subseteq Touching(t) \cup {r}
    BY <2>1, <2>2 DEF Touching, Active, Awaits
  <2>4. ASSUME NEW t \in Sessions \ disturbed', r \in Touching(t)'
        PROVE  Touching(t) = {}
    <3>1. t = s /\ owner[s] = u /\ k \in ChatKinds
      BY <2>1, <2>2, <2>4 DEF Touching
    <3>2. Touching(s) # {} => s \in disturbed'
      BY <1>20, <2>4, <3>1 DEF ArriveOn
    <3>3. QED
      BY <2>4, <3>1, <3>2
  <2>5. ASSUME NEW t \in Sessions \ disturbed', NEW a \in Touching(t)', NEW b \in Touching(t)'
        PROVE  a = b
    <3>1. CASE r \in Touching(t)'
      BY <2>3, <2>4, <2>5, <3>1
    <3>2. CASE r \notin Touching(t)'
      BY <2>1, <2>3, <2>5, <3>2 DEF MirrorInv, Alone
    <3>3. QED
      BY <3>1, <3>2
  <2>6. ASSUME NEW t \in hot \ disturbed',
               \A x \in Touching(t)' : pc'[x] \notin {"read", "rows", "persist"}
        PROVE  buffer[t] = Window(log[t])
    <3>1. t \in Sessions /\ t \in hot \ disturbed
      BY <2>1 DEF IInv, TypeOK
    <3>2. ASSUME NEW x \in Touching(t)
          PROVE  pc[x] \notin {"read", "rows", "persist"}
      <4>1. x # r /\ x \in Requests /\ x \in Touching(t)'
        BY <2>1, <2>3, <3>1 DEF Touching, Active, Awaits
      <4>2. QED
        BY <2>2, <2>6, <4>1
    <3>3. QED
      BY <3>1, <3>2 DEF MirrorInv, Mirrored
  <2>7. ASSUME NEW x \in Requests, req'[x].kind \in ChatKinds, req'[x].session \notin disturbed'
        PROVE  Matches(x, pc'[x], req'[x].kind, buffer[req'[x].session],
                       log[req'[x].session], rows[x], ctx[x])
    <3>1. CASE x = r
      BY <2>2, <3>1 DEF Matches
    <3>2. CASE x # r
      BY <2>1, <2>2, <2>7, <3>2 DEF MirrorInv, InStep
    <3>3. QED
      BY <3>1, <3>2
  <2>8. Alone'
    BY <2>5 DEF Alone
  <2>9. Mirrored'
    BY <2>1, <2>6 DEF Mirrored
  <2>10. InStep'
    BY <2>1, <2>7 DEF InStep
  <2>11. QED
    BY <2>8, <2>9, <2>10 DEF MirrorInv
<1>21. CASE Restart
  <2>1. /\ hot' = {} /\ req' = req
        /\ pc' = [r \in Requests |-> IF Active(r) THEN "done" ELSE pc[r]]
    BY <1>21 DEF Restart
  <2>2. \A r \in Requests : pc'[r] \in Finished
    BY <2>1 DEF IInv, TypeOK, Active, Finished
  <2>3. \A s \in Sessions : Touching(s)' = {}
    BY <2>2 DEF Touching, Active, Awaits, Finished
  <2>4. Alone'
    BY <2>3 DEF Alone
  <2>5. Mirrored'
    BY <2>1 DEF Mirrored
  <2>6. InStep'
    BY <2>2 DEF InStep, Matches, Finished
  <2>7. QED
    BY <2>4, <2>5, <2>6 DEF MirrorInv
<1>22. CASE UNCHANGED vars
  <2>1. UNCHANGED <<owner, log, hot, buffer, pc, req, rows, ctx, disturbed>>
    BY <1>22 DEF vars
  <2>2. \A s \in Sessions : Touching(s)' = Touching(s)
    BY <2>1 DEF Touching, Active
  <2>3. Alone'
    BY <2>1, <2>2 DEF MirrorInv, Alone
  <2>4. Mirrored'
    BY <2>1, <2>2 DEF MirrorInv, Mirrored, IInv, TypeOK
  <2>5. InStep'
    BY <2>1 DEF MirrorInv, InStep
  <2>6. QED
    BY <2>3, <2>4, <2>5 DEF MirrorInv
<1>. QED
  BY <1>1, <1>2, <1>3, <1>4, <1>5, <1>6, <1>7, <1>8, <1>9, <1>10, <1>11,
     <1>12, <1>13, <1>14, <1>15, <1>16, <1>17, <1>18, <1>19, <1>20, <1>21, <1>22
  DEF Next, Serve, Arrive

-----------------------------------------------------------------------------
(* The initial state satisfies the three.                                  *)
LEMMA InitSound == Init => Places /\ HistoryInv /\ MirrorInv
<1> SUFFICES ASSUME Init PROVE Places /\ HistoryInv /\ MirrorInv
  OBVIOUS
<1>1. Places
  BY DEF Init, Places, KindsInPlace, JustInserted, NoContextYet
<1>2. HistoryInv
  BY DEF Init, HistoryInv, AckedAnswered, HistoryShows
<1>3. \A s \in Sessions : Touching(s) = {}
  BY DEF Init, Touching, Active, Awaits
<1>4. MirrorInv
  BY <1>3 DEF Init, MirrorInv, Alone, Mirrored, InStep, Matches
<1>5. QED
  BY <1>1, <1>2, <1>4

(* A client finds in the history what it was answered before, through any  *)
(* number of restarts, or as much of it as the limit of the endpoint lets  *)
(* it see.                                                                 *)
THEOREM HistoryShowsYourWrites == Spec => []HistoryReadsYourWrites
<1>1. Spec => [](IInv /\ Places /\ HistoryInv)
  <2>1. Init => Places /\ HistoryInv
    BY InitSound
  <2>2. QED
    BY <2>1, Invariance, PlacesStep, HistoryStep, PTL DEF Spec
<1>2. HistoryInv => HistoryReadsYourWrites
  BY DEF HistoryInv, HistoryShows, HistoryReadsYourWrites
<1>3. QED
  BY <1>1, <1>2, PTL

(* The model is shown the end of the durable log, whether the buffer was   *)
(* hot or cold and through any number of restarts, in every session that   *)
(* was not disturbed since the last one.                                   *)
THEOREM PromptsMirrorTheLog == Spec => []ContextMirrorsLog
<1>1. Spec => [](IInv /\ Places /\ MirrorInv)
  <2>1. Init => Places /\ MirrorInv
    BY InitSound
  <2>2. QED
    BY <2>1, Invariance, PlacesStep, MirrorStep, PTL DEF Spec
<1>2. Places /\ MirrorInv => ContextMirrorsLog
  BY DEF Places, KindsInPlace, MirrorInv, InStep, Matches, ContextMirrorsLog
<1>3. QED
  BY <1>1, <1>2, PTL
=============================================================================
