------------------------ MODULE WebhookDeliveryProofs ------------------------
(* For any rows, subscribers, budget, limit and concurrency of the worker:  *)
(* a delivered row was received, and as long as every secret can be read    *)
(* the queue implements the durable job.  The second rests on the fact that *)
(* without an exception the worker has one gather and one task per row.     *)
EXTENDS WebhookDelivery, SequenceTheorems, TLAPS

Statuses == {"none", "pending", "delivered", "dead"}

(* The columns and the order of the pending rows.                           *)
QueueOK ==
    /\ status \in [Rows -> Statuses]
    /\ attempts \in [Rows -> Nat]
    /\ line \in Seq(Rows) /\ IsInjective(line)
    /\ ToSet(line) = {r \in Rows : status[r] = "pending"}
    /\ due \in 0..Len(line)

WorkerOK ==
    /\ received \subseteq Rows
    /\ tasks \subseteq Task
    /\ gen \in {0, 1}
    /\ raised \in BOOLEAN

(* Only rows in the table are worked on.                                    *)
NoneIsUntouched ==
    /\ \A t \in tasks : status[t.row] # "none"
    /\ \A r \in Rows : status[r] = "none" => attempts[r] = 0

(* A task whose POST arrived works on a row that was received.              *)
ArrivedIsReceived == \A t \in tasks : t.at = "arrived" => t.row \in received

(* While every secret can be read, no task raises: the worker awaits all    *)
(* its tasks, each works on a pending row of its own, and a pending row has *)
(* attempts left.                                                           *)
OneTaskPerRow ==
    unreadable = {} =>
      /\ ~raised
      /\ \A t \in tasks : t.gen = gen /\ status[t.row] = "pending"
      /\ \A t, u \in tasks : t.row = u.row => t = u
      /\ \A r \in Rows : status[r] = "pending" => attempts[r] < MaxAttempts

IInv == /\ QueueOK /\ WorkerOK /\ NoneIsUntouched
        /\ ArrivedIsReceived /\ DeliveredMeansReceived /\ OneTaskPerRow

-----------------------------------------------------------------------------
(* The sequence operators the queue is built from.                          *)

LEMMA RemoveAtElement ==
  ASSUME NEW S, NEW s \in Seq(S), NEW i \in 1..Len(s)
  PROVE  /\ RemoveAt(s, i) \in Seq(S)
         /\ Len(RemoveAt(s, i)) = Len(s) - 1
         /\ \A j \in 1..(Len(s) - 1) :
              RemoveAt(s, i)[j] = IF j < i THEN s[j] ELSE s[j + 1]
<1> DEFINE front == SubSeq(s, 1, i - 1)
           back == SubSeq(s, i + 1, Len(s))
<1>1. front \in Seq(S) /\ Len(front) = i - 1 /\ \A j \in 1..(i - 1) : front[j] = s[j]
  OBVIOUS
<1>2. back \in Seq(S) /\ Len(back) = Len(s) - i /\ \A j \in 1..(Len(s) - i) : back[j] = s[i + j]
  OBVIOUS
<1> HIDE DEF front, back
<1>3. RemoveAt(s, i) = front \o back
  BY DEF RemoveAt, front, back
<1>4. /\ front \o back \in Seq(S) /\ Len(front \o back) = Len(front) + Len(back)
      /\ \A j \in 1..(Len(front) + Len(back)) :
           (front \o back)[j] = IF j <= Len(front) THEN front[j] ELSE back[j - Len(front)]
  BY <1>1, <1>2, ConcatProperties
<1>5. ASSUME NEW j \in 1..(Len(s) - 1)
      PROVE  RemoveAt(s, i)[j] = IF j < i THEN s[j] ELSE s[j + 1]
  <2>1. CASE j < i
    BY <1>1, <1>2, <1>3, <1>4, <2>1
  <2>2. CASE j >= i
    <3>1. RemoveAt(s, i)[j] = back[j - (i - 1)]
      BY <1>1, <1>2, <1>3, <1>4, <2>2
    <3>2. j - (i - 1) \in 1..(Len(s) - i) /\ i + (j - (i - 1)) = j + 1
      BY <2>2
    <3> QED
      BY <1>2, <2>2, <3>1, <3>2
  <2> QED
    BY <2>1, <2>2
<1> QED
  BY <1>1, <1>2, <1>3, <1>4, <1>5

LEMMA RemoveAtSet ==
  ASSUME NEW S, NEW s \in Seq(S), NEW i \in 1..Len(s), IsInjective(s)
  PROVE  /\ RemoveAt(s, i) \in Seq(S) /\ Len(RemoveAt(s, i)) = Len(s) - 1
         /\ IsInjective(RemoveAt(s, i))
         /\ ToSet(RemoveAt(s, i)) = ToSet(s) \ {s[i]}
<1> DEFINE t == RemoveAt(s, i)
<1>1. /\ t \in Seq(S) /\ Len(t) = Len(s) - 1
      /\ \A j \in 1..(Len(s) - 1) : t[j] = IF j < i THEN s[j] ELSE s[j + 1]
  BY RemoveAtElement
<1> HIDE DEF t
<1>2. \A j, k \in 1..Len(s) : s[j] = s[k] => j = k
  BY DEF IsInjective
<1>3. IsInjective(t)
  BY <1>1, <1>2 DEF IsInjective
<1>4. ASSUME NEW x \in ToSet(t) PROVE x \in ToSet(s) \ {s[i]}
  <2>1. PICK j \in 1..(Len(s) - 1) : x = t[j]
    BY <1>1, <1>4 DEF ToSet
  <2>2. PICK k \in 1..Len(s) : x = s[k] /\ k # i
    BY <1>1, <2>1
  <2> QED
    BY <1>2, <2>2 DEF ToSet
<1>5. ASSUME NEW x \in ToSet(s) \ {s[i]} PROVE x \in ToSet(t)
  <2>1. PICK k \in 1..Len(s) : x = s[k] /\ k # i
    BY <1>5 DEF ToSet
  <2>2. PICK j \in 1..(Len(s) - 1) : x = t[j]
    <3>1. CASE k < i
      BY <1>1, <2>1, <3>1
    <3>2. CASE k > i
      <4>1. k - 1 \in 1..(Len(s) - 1) /\ t[k - 1] = s[k]
        BY <1>1, <2>1, <3>2
      <4> QED
        BY <2>1, <4>1
    <3> QED
      BY <2>1, <3>1, <3>2
  <2> QED
    BY <1>1, <2>2 DEF ToSet
<1> QED
  BY <1>1, <1>3, <1>4, <1>5 DEF t

LEMMA InsertAtSet ==
  ASSUME NEW S, NEW s \in Seq(S), IsInjective(s), NEW e \in S, e \notin ToSet(s),
         NEW i \in 1..(Len(s) + 1)
  PROVE  /\ InsertAt(s, i, e) \in Seq(S) /\ Len(InsertAt(s, i, e)) = Len(s) + 1
         /\ IsInjective(InsertAt(s, i, e))
         /\ ToSet(InsertAt(s, i, e)) = ToSet(s) \cup {e}
<1> DEFINE front == SubSeq(s, 1, i - 1)
           back == SubSeq(s, i, Len(s))
           t == InsertAt(s, i, e)
<1>1. front \in Seq(S) /\ Len(front) = i - 1 /\ \A j \in 1..(i - 1) : front[j] = s[j]
  OBVIOUS
<1>2. /\ back \in Seq(S) /\ Len(back) = Len(s) - i + 1
      /\ \A j \in 1..(Len(s) - i + 1) : back[j] = s[i + j - 1]
  OBVIOUS
<1> DEFINE head == front \o <<e>>
<1>3. t = head \o back
  BY DEF InsertAt
<1> HIDE DEF front, back, t
<1>10. head \in Seq(S) /\ Len(head) = i /\ head[i] = e /\ \A j \in 1..(i - 1) : head[j] = s[j]
  <2>1. <<e>> \in Seq(S) /\ Len(<<e>>) = 1 /\ <<e>>[1] = e
    OBVIOUS
  <2>2. /\ head \in Seq(S) /\ Len(head) = Len(front) + 1
        /\ \A j \in 1..(Len(front) + 1) :
             head[j] = IF j <= Len(front) THEN front[j] ELSE <<e>>[j - Len(front)]
    BY <1>1, <2>1, ConcatProperties
  <2>3. i \in 1..(Len(front) + 1) /\ i - Len(front) = 1 /\ ~(i <= Len(front))
    BY <1>1
  <2>4. head[i] = <<e>>[i - Len(front)]
    BY <2>2, <2>3
  <2>5. ASSUME NEW j \in 1..(i - 1) PROVE head[j] = s[j]
    BY <1>1, <2>2, <2>5
  <2> HIDE DEF head
  <2> QED
    BY <1>1, <2>1, <2>2, <2>3, <2>4, <2>5
<1> HIDE DEF head
<1>11. /\ head \o back \in Seq(S) /\ Len(head \o back) = Len(head) + Len(back)
       /\ \A j \in 1..(Len(head) + Len(back)) :
            (head \o back)[j] = IF j <= Len(head) THEN head[j] ELSE back[j - Len(head)]
  BY <1>2, <1>10, ConcatProperties
<1>12. ASSUME NEW j \in 1..(Len(s) + 1)
       PROVE  t[j] = IF j < i THEN s[j] ELSE IF j = i THEN e ELSE s[j - 1]
  <2>1. CASE j <= i
    BY <1>2, <1>3, <1>10, <1>11, <2>1
  <2>2. CASE j > i
    <3>0. j \in 1..(Len(head) + Len(back)) /\ Len(head) = i /\ ~(j <= i)
      BY <1>2, <1>10, <2>2
    <3>1. t[j] = back[j - i]
      BY <1>3, <1>11, <3>0
    <3>2. j - i \in 1..(Len(s) - i + 1) /\ i + (j - i) - 1 = j - 1
      BY <2>2
    <3> QED
      BY <1>2, <2>2, <3>1, <3>2
  <2> QED
    BY <2>1, <2>2
<1>4. /\ t \in Seq(S) /\ Len(t) = Len(s) + 1
      /\ \A j \in 1..(Len(s) + 1) : t[j] = IF j < i THEN s[j] ELSE IF j = i THEN e ELSE s[j - 1]
  BY <1>2, <1>3, <1>10, <1>11, <1>12
<1>5. \A j, k \in 1..Len(s) : s[j] = s[k] => j = k
  BY DEF IsInjective
<1>6. \A j \in 1..Len(s) : s[j] # e
  BY DEF ToSet
<1>7. IsInjective(t)
  <2> SUFFICES ASSUME NEW j \in 1..(Len(s) + 1), NEW k \in 1..(Len(s) + 1), t[j] = t[k]
               PROVE  j = k
    BY <1>4 DEF IsInjective
  <2>0. ASSUME NEW m \in 1..(Len(s) + 1), m # i PROVE t[m] # e
    <3>1. CASE m < i
      <4>1. m \in 1..Len(s) /\ t[m] = s[m]
        BY <1>4, <3>1
      <4> QED
        BY <1>6, <4>1
    <3>2. CASE m > i
      <4>1. m - 1 \in 1..Len(s) /\ t[m] = s[m - 1]
        BY <1>4, <3>2
      <4> QED
        BY <1>6, <4>1
    <3> QED
      BY <2>0, <3>1, <3>2
  <2>1. CASE j = i \/ k = i
    <3>1. t[i] = e
      BY <1>4
    <3>2. t[j] = e /\ t[k] = e
      BY <2>1, <3>1
    <3> QED
      BY <2>0, <3>2
  <2>2. CASE j < i /\ k < i
    <3>1. j \in 1..Len(s) /\ k \in 1..Len(s) /\ s[j] = s[k]
      BY <1>4, <2>2
    <3> QED
      BY <1>5, <3>1
  <2>3. CASE j > i /\ k > i
    <3>1. j - 1 \in 1..Len(s) /\ k - 1 \in 1..Len(s) /\ s[j - 1] = s[k - 1]
      BY <1>4, <2>3
    <3> QED
      BY <1>5, <3>1
  <2>4. CASE j < i /\ k > i
    <3>1. k - 1 \in 1..Len(s) /\ s[j] = s[k - 1]
      BY <1>4, <2>4
    <3> QED
      BY <1>5, <2>4, <3>1
  <2>5. CASE j > i /\ k < i
    <3>1. j - 1 \in 1..Len(s) /\ s[j - 1] = s[k]
      BY <1>4, <2>5
    <3> QED
      BY <1>5, <2>5, <3>1
  <2> QED
    BY <2>1, <2>2, <2>3, <2>4, <2>5
<1>8. ASSUME NEW x \in ToSet(t) PROVE x \in ToSet(s) \cup {e}
  <2>1. PICK j \in 1..(Len(s) + 1) : x = t[j]
    BY <1>4, <1>8 DEF ToSet
  <2> QED
    BY <1>4, <2>1 DEF ToSet
<1>9. ASSUME NEW x \in ToSet(s) \cup {e} PROVE x \in ToSet(t)
  <2>1. CASE x = e
    BY <1>4, <2>1 DEF ToSet
  <2>2. CASE x \in ToSet(s)
    <3>1. PICK k \in 1..Len(s) : x = s[k]
      BY <2>2 DEF ToSet
    <3>2. PICK j \in 1..(Len(s) + 1) : x = t[j]
      <4>1. CASE k < i
        BY <1>4, <3>1, <4>1
      <4>2. CASE k >= i
        <5>1. k + 1 \in 1..(Len(s) + 1) /\ t[k + 1] = s[k]
          BY <1>4, <3>1, <4>2
        <5> QED
          BY <3>1, <5>1
      <4> QED
        BY <3>1, <4>1, <4>2
    <3> QED
      BY <1>4, <3>2 DEF ToSet
  <2> QED
    BY <1>9, <2>1, <2>2
<1> QED
  BY <1>4, <1>7, <1>8, <1>9 DEF t

(* Taking a row out of the line: the others keep their order, and a due     *)
(* row leaves one less.                                                     *)
LEMMA WithoutFacts ==
  ASSUME line \in Seq(Rows), IsInjective(line), due \in 0..Len(line), NEW r \in Rows
  PROVE  /\ Without(r) \in Seq(Rows) /\ IsInjective(Without(r))
         /\ ToSet(Without(r)) = ToSet(line) \ {r}
         /\ DueWithout(r) \in 0..Len(Without(r))
<1>1. CASE r \notin ToSet(line)
  <2>1. r \notin ToSet(SubSeq(line, 1, due))
    BY <1>1 DEF ToSet
  <2> QED
    BY <1>1, <2>1 DEF Without, DueWithout
<1>2. CASE r \in ToSet(line)
  <2> DEFINE i == CHOOSE j \in DOMAIN line : line[j] = r
  <2>1. i \in 1..Len(line) /\ line[i] = r
    BY <1>2 DEF ToSet
  <2>2. Without(r) = RemoveAt(line, i)
    BY <1>2 DEF Without
  <2> HIDE DEF i
  <2>3. /\ Without(r) \in Seq(Rows) /\ IsInjective(Without(r))
        /\ ToSet(Without(r)) = ToSet(line) \ {r} /\ Len(Without(r)) = Len(line) - 1
    BY <2>1, <2>2, RemoveAtSet
  <2>4. \A j \in 1..Len(line) : line[j] = r => j = i
    BY <2>1 DEF IsInjective
  <2>5. r \in ToSet(SubSeq(line, 1, due)) <=> i <= due
    <3>1. SubSeq(line, 1, due) \in Seq(Rows) /\ Len(SubSeq(line, 1, due)) = due
          /\ \A j \in 1..due : SubSeq(line, 1, due)[j] = line[j]
      OBVIOUS
    <3>2. DOMAIN SubSeq(line, 1, due) = 1..due
      BY <3>1
    <3>3. ASSUME i <= due PROVE r \in ToSet(SubSeq(line, 1, due))
      <4>1. i \in 1..due /\ SubSeq(line, 1, due)[i] = r
        BY <2>1, <3>1, <3>3
      <4> QED
        BY <3>2, <4>1 DEF ToSet
    <3>4. ASSUME r \in ToSet(SubSeq(line, 1, due)) PROVE i <= due
      <4>1. PICK j \in 1..due : r = SubSeq(line, 1, due)[j]
        BY <3>2, <3>4 DEF ToSet
      <4> QED
        BY <2>1, <2>4, <3>1, <4>1
    <3> QED
      BY <3>3, <3>4
  <2> QED
    BY <2>1, <2>3, <2>5 DEF DueWithout
<1> QED
  BY <1>1, <1>2

-----------------------------------------------------------------------------
(* The operations on the table keep the line in step with the status.       *)

LEMMA EnqueueQueue ==
  ASSUME QueueOK, NEW r \in Rows, Enqueue(r)
  PROVE  QueueOK'
<1>1. /\ status' = [status EXCEPT ![r] = "pending"] /\ status[r] = "none"
      /\ line' = InsertAt(line, due + 1, r) /\ due' = due + 1 /\ attempts' = attempts
  BY DEF Enqueue
<1>2. r \notin ToSet(line) /\ due + 1 \in 1..(Len(line) + 1)
  BY <1>1 DEF QueueOK
<1>3. /\ line' \in Seq(Rows) /\ Len(line') = Len(line) + 1
      /\ IsInjective(line') /\ ToSet(line') = ToSet(line) \cup {r}
  <2>1. line \in Seq(Rows) /\ IsInjective(line)
    BY DEF QueueOK
  <2>2. /\ InsertAt(line, due + 1, r) \in Seq(Rows)
        /\ Len(InsertAt(line, due + 1, r)) = Len(line) + 1
        /\ IsInjective(InsertAt(line, due + 1, r))
        /\ ToSet(InsertAt(line, due + 1, r)) = ToSet(line) \cup {r}
    BY <1>2, <2>1, InsertAtSet
  <2> QED
    BY <1>1, <2>2
<1>4. ToSet(line') = {q \in Rows : status'[q] = "pending"}
  BY <1>1, <1>3 DEF QueueOK, Statuses
<1>5. status' \in [Rows -> Statuses] /\ attempts' \in [Rows -> Nat] /\ due' \in 0..Len(line')
  BY <1>1, <1>3 DEF QueueOK, Statuses
<1> QED
  BY <1>3, <1>4, <1>5 DEF QueueOK

LEMMA MarkDeliveredQueue ==
  ASSUME QueueOK, NEW r \in Rows, MarkDelivered(r)
  PROVE  QueueOK'
<1>1. /\ status' = [status EXCEPT ![r] = "delivered"]
      /\ line' = Without(r) /\ due' = DueWithout(r) /\ attempts' = attempts
  BY DEF MarkDelivered
<1>2. /\ line' \in Seq(Rows) /\ IsInjective(line')
      /\ ToSet(line') = ToSet(line) \ {r} /\ due' \in 0..Len(line')
  BY <1>1, WithoutFacts DEF QueueOK
<1>3. ToSet(line') = {q \in Rows : status'[q] = "pending"}
  BY <1>1, <1>2 DEF QueueOK, Statuses
<1>4. status' \in [Rows -> Statuses] /\ attempts' \in [Rows -> Nat]
  BY <1>1 DEF QueueOK, Statuses
<1> QED
  BY <1>2, <1>3, <1>4 DEF QueueOK

LEMMA MarkFailedQueue ==
  ASSUME QueueOK, NEW r \in Rows, MarkFailed(r)
  PROVE  QueueOK'
<1>1. /\ Without(r) \in Seq(Rows) /\ IsInjective(Without(r))
      /\ ToSet(Without(r)) = ToSet(line) \ {r}
      /\ DueWithout(r) \in 0..Len(Without(r))
  BY WithoutFacts DEF QueueOK
<1>2. attempts' \in [Rows -> Nat]
  BY DEF MarkFailed, QueueOK
<1>3. CASE status' = [status EXCEPT ![r] = "dead"] /\ line' = Without(r) /\ due' = DueWithout(r)
  <2>1. ToSet(line') = {q \in Rows : status'[q] = "pending"}
    BY <1>1, <1>3 DEF QueueOK, Statuses
  <2>2. status' \in [Rows -> Statuses]
    BY <1>3 DEF QueueOK, Statuses
  <2> QED
    BY <1>1, <1>2, <1>3, <2>1, <2>2 DEF QueueOK
<1>4. ASSUME status' = [status EXCEPT ![r] = "pending"], due' = DueWithout(r),
             NEW i \in (DueWithout(r) + 1)..(Len(Without(r)) + 1),
             line' = InsertAt(Without(r), i, r)
      PROVE  QueueOK'
  <2>1. i \in 1..(Len(Without(r)) + 1)
    BY <1>1
  <2>2. /\ line' \in Seq(Rows) /\ Len(line') = Len(Without(r)) + 1
        /\ IsInjective(line') /\ ToSet(line') = ToSet(Without(r)) \cup {r}
    BY <1>1, <1>4, <2>1, InsertAtSet
  <2>3. ToSet(line') = {q \in Rows : status'[q] = "pending"}
    BY <1>1, <1>4, <2>2 DEF QueueOK, Statuses
  <2>4. status' \in [Rows -> Statuses] /\ due' \in 0..Len(line')
    BY <1>1, <1>4, <2>2 DEF QueueOK, Statuses
  <2> QED
    BY <1>2, <2>2, <2>3, <2>4 DEF QueueOK
<1> QED
  BY <1>3, <1>4 DEF MarkFailed

(* What a poll takes are pending rows.                                      *)
Batch == ToSet(SubSeq(line, 1, IF due < Limit THEN due ELSE Limit))

LEMMA BatchIsPending ==
  ASSUME QueueOK
  PROVE  Batch \subseteq {r \in Rows : status[r] = "pending"}
<1> DEFINE k == IF due < Limit THEN due ELSE Limit
<1>1. k \in 0..Len(line)
  BY WebhookAssumption DEF QueueOK
<1>2. line \in Seq(Rows)
  BY DEF QueueOK
<1> HIDE DEF k
<1>3. DOMAIN SubSeq(line, 1, k) = 1..k /\ \A j \in 1..k : SubSeq(line, 1, k)[j] = line[j]
  BY <1>1, <1>2
<1>4. \A j \in 1..k : line[j] \in ToSet(line)
  BY <1>1, <1>2 DEF ToSet
<1>5. ToSet(SubSeq(line, 1, k)) \subseteq ToSet(line)
  BY <1>3, <1>4 DEF ToSet
<1> QED
  BY <1>5 DEF Batch, QueueOK, k
LEMMA PollQueue ==
  ASSUME QueueOK, WorkerOK, Poll
  PROVE  /\ gen' \in {0, 1} /\ ~raised' /\ UNCHANGED <<queue, received, registry>>
         /\ \A t \in tasks' : \/ t \in tasks
                               \/ /\ t \in Task /\ t.gen = gen' /\ t.at = "polled"
                                  /\ t.row \in Rows /\ status[t.row] = "pending"
         /\ \A t, u \in tasks' \ tasks : t.row = u.row => t = u
         /\ \A t \in tasks : t.gen # gen'
         /\ Awaited = {} => gen' = gen
<1> DEFINE g == IF Awaited = {} THEN gen ELSE 1 - gen
<1>1. /\ gen' = g /\ raised' = FALSE /\ UNCHANGED <<queue, received, registry>>
      /\ \A t \in tasks : t.gen # g
      /\ tasks' = tasks \cup [gen: {g}, row: Batch, at: {"polled"}]
  BY DEF Poll, Batch
<1>2. g \in {0, 1}
  BY DEF WorkerOK
<1>3. (Awaited = {}) => g = gen
  OBVIOUS
<1> HIDE DEF g
<1>4. \A t \in [gen: {g}, row: Batch, at: {"polled"}] :
        t \in Task /\ t.gen = g /\ t.at = "polled" /\ t.row \in Rows /\ status[t.row] = "pending"
  BY <1>2, BatchIsPending DEF Task
<1>5. \A t, u \in [gen: {g}, row: Batch, at: {"polled"}] : t.row = u.row => t = u
  OBVIOUS
<1> QED
  BY <1>1, <1>2, <1>3, <1>4, <1>5

-----------------------------------------------------------------------------
(* Every step keeps the invariant.                                          *)

LEMMA InitIInv == Init => IInv
<1> SUFFICES ASSUME Init PROVE IInv
  OBVIOUS
<1>1. line \in Seq(Rows) /\ IsInjective(line) /\ ToSet(line) = {} /\ Len(line) = 0
  BY DEF Init, IsInjective, ToSet
<1>2. QueueOK
  BY <1>1 DEF Init, QueueOK, Statuses
<1> QED
  BY <1>2 DEF Init, IInv, WorkerOK, NoneIsUntouched, ArrivedIsReceived,
              DeliveredMeansReceived, OneTaskPerRow

LEMMA EnqueueIInv ==
  ASSUME IInv, NEW r \in Rows, Enqueue(r)
  PROVE  IInv'
<1>1. QueueOK'
  BY EnqueueQueue DEF IInv
<1>2. /\ status' = [status EXCEPT ![r] = "pending"] /\ status[r] = "none" /\ status \in [Rows -> Statuses]
      /\ UNCHANGED <<attempts, received, tasks, gen, raised, unreadable>>
      /\ MaxAttempts > 0
  BY WebhookAssumption DEF Enqueue, worker, registry, IInv, QueueOK
<1>3. tasks \subseteq Task
  BY DEF IInv, WorkerOK
<1>4. \A t \in tasks : t.row \in Rows /\ t.row # r
  BY <1>2, <1>3 DEF IInv, NoneIsUntouched, Task
<1>5. WorkerOK' /\ NoneIsUntouched' /\ ArrivedIsReceived' /\ DeliveredMeansReceived'
  BY <1>2, <1>4 DEF IInv, WorkerOK, NoneIsUntouched, ArrivedIsReceived, DeliveredMeansReceived
<1>6. OneTaskPerRow'
  BY <1>2, <1>4 DEF IInv, OneTaskPerRow, NoneIsUntouched
<1> QED
  BY <1>1, <1>5, <1>6 DEF IInv

LEMMA PollIInv == ASSUME IInv, Poll PROVE IInv'
<1>1. /\ gen' \in {0, 1} /\ ~raised' /\ raised' \in BOOLEAN /\ UNCHANGED <<queue, received, registry>>
      /\ \A t \in tasks' : \/ t \in tasks
                            \/ /\ t \in Task /\ t.gen = gen' /\ t.at = "polled"
                               /\ t.row \in Rows /\ status[t.row] = "pending"
      /\ \A t, u \in tasks' \ tasks : t.row = u.row => t = u
      /\ Awaited = {} => gen' = gen
  BY PollQueue DEF IInv, Poll
<1>2. QueueOK'
  BY <1>1 DEF IInv, QueueOK, queue
<1>3. WorkerOK' /\ NoneIsUntouched' /\ ArrivedIsReceived' /\ DeliveredMeansReceived'
  BY <1>1 DEF IInv, WorkerOK, NoneIsUntouched, ArrivedIsReceived, DeliveredMeansReceived, queue
<1>4. OneTaskPerRow'
  <2> SUFFICES ASSUME unreadable = {}
               PROVE  /\ \A t \in tasks' : t.gen = gen' /\ status[t.row] = "pending"
                      /\ \A t, u \in tasks' : t.row = u.row => t = u
                      /\ \A r \in Rows : status[r] = "pending" => attempts[r] < MaxAttempts
    BY <1>1 DEF OneTaskPerRow, queue, registry
  <2>1. /\ ~raised /\ \A t \in tasks : t.gen = gen
        /\ \A r \in Rows : status[r] = "pending" => attempts[r] < MaxAttempts
    BY DEF IInv, OneTaskPerRow
  <2>2. tasks = {}
    BY <2>1 DEF Poll, GatherOver, Awaited
  <2> QED
    BY <1>1, <2>1, <2>2
<1> QED
  BY <1>2, <1>3, <1>4 DEF IInv

(* A task that goes on or ends without touching the table.                  *)
LEMMA LookUpIInv ==
  ASSUME IInv, NEW t \in tasks, LookUp(t)
  PROVE  IInv'
<1>1. /\ UNCHANGED <<queue, received, gen, registry>>
      /\ tasks' = tasks \ {t} \/ tasks' = (tasks \ {t}) \cup {[t EXCEPT !.at = "posting"]}
      /\ raised' = raised \/ (Owner[t.row] \in unreadable /\ raised' \in BOOLEAN)
  BY DEF LookUp, Advance, IInv, WorkerOK
<1>2. t \in Task
  BY DEF IInv, WorkerOK
<1>3. [t EXCEPT !.at = "posting"] = [gen |-> t.gen, row |-> t.row, at |-> "posting"]
  BY <1>2 DEF Task
<1> DEFINE u == [gen |-> t.gen, row |-> t.row, at |-> "posting"]
<1>4. u \in Task /\ u.gen = t.gen /\ u.row = t.row /\ u.at = "posting"
  BY <1>2 DEF Task
<1>5. tasks' \subseteq (tasks \ {t}) \cup {u}
  BY <1>1, <1>3
<1> HIDE DEF u
<1>6. QueueOK'
  BY <1>1 DEF IInv, QueueOK, queue
<1>7. WorkerOK'
  BY <1>1, <1>4, <1>5 DEF IInv, WorkerOK
<1>8. NoneIsUntouched' /\ ArrivedIsReceived' /\ DeliveredMeansReceived'
  BY <1>1, <1>4, <1>5 DEF IInv, NoneIsUntouched, ArrivedIsReceived, DeliveredMeansReceived, queue
<1>9. OneTaskPerRow'
  <2> SUFFICES ASSUME unreadable = {}
               PROVE  OneTaskPerRow'
    BY <1>1 DEF OneTaskPerRow, registry
  <2>1. ~raised' /\ gen' = gen /\ status' = status /\ attempts' = attempts
    BY <1>1 DEF IInv, OneTaskPerRow, queue
  <2>2. /\ \A v \in tasks : v.gen = gen /\ status[v.row] = "pending"
        /\ \A v, w \in tasks : v.row = w.row => v = w
        /\ \A r \in Rows : status[r] = "pending" => attempts[r] < MaxAttempts
    BY DEF IInv, OneTaskPerRow
  <2>3. \A v \in tasks' : v.gen = gen' /\ status'[v.row] = "pending"
    BY <1>4, <1>5, <2>1, <2>2
  <2>4. \A v, w \in tasks' : v.row = w.row => v = w
    BY <1>4, <1>5, <2>2
  <2> QED
    BY <2>1, <2>2, <2>3, <2>4 DEF OneTaskPerRow
<1> QED
  BY <1>6, <1>7, <1>8, <1>9 DEF IInv

LEMMA ArriveIInv ==
  ASSUME IInv, NEW t \in tasks, Arrive(t)
  PROVE  IInv'
<1>1. /\ UNCHANGED <<queue, gen, raised, registry>>
      /\ received' = received \cup {t.row}
      /\ tasks' = (tasks \ {t}) \cup {[t EXCEPT !.at = "arrived"]}
  BY DEF Arrive, Advance
<1>2. t \in Task
  BY DEF IInv, WorkerOK
<1>3. [t EXCEPT !.at = "arrived"] = [gen |-> t.gen, row |-> t.row, at |-> "arrived"]
  BY <1>2 DEF Task
<1> DEFINE u == [gen |-> t.gen, row |-> t.row, at |-> "arrived"]
<1>4. u \in Task /\ u.gen = t.gen /\ u.row = t.row /\ t.row \in Rows
  BY <1>2 DEF Task
<1>5. tasks' = (tasks \ {t}) \cup {u}
  BY <1>1, <1>3
<1> HIDE DEF u
<1>6. QueueOK' /\ WorkerOK'
  BY <1>1, <1>4, <1>5 DEF IInv, QueueOK, WorkerOK, queue
<1>7. NoneIsUntouched' /\ ArrivedIsReceived' /\ DeliveredMeansReceived'
  BY <1>1, <1>4, <1>5 DEF IInv, NoneIsUntouched, ArrivedIsReceived, DeliveredMeansReceived, queue
<1>8. OneTaskPerRow'
  BY <1>1, <1>4, <1>5 DEF IInv, OneTaskPerRow, queue, registry
<1> QED
  BY <1>6, <1>7, <1>8 DEF IInv

LEMMA AcknowledgeIInv ==
  ASSUME IInv, NEW t \in tasks, Acknowledge(t)
  PROVE  IInv'
<1>1. t \in Task /\ t.row \in Rows
  BY DEF IInv, WorkerOK, Task
<1>2. /\ status' = [status EXCEPT ![t.row] = "delivered"] /\ attempts' = attempts
      /\ tasks' = tasks \ {t} /\ UNCHANGED <<received, gen, raised, registry>>
      /\ t.at = "arrived" /\ status \in [Rows -> Statuses]
  BY DEF Acknowledge, MarkDelivered, IInv, QueueOK
<1>3. QueueOK'
  BY <1>1, MarkDeliveredQueue DEF Acknowledge, IInv
<1>4. WorkerOK' /\ NoneIsUntouched' /\ ArrivedIsReceived'
  BY <1>1, <1>2 DEF IInv, WorkerOK, NoneIsUntouched, ArrivedIsReceived, Task
<1>5. DeliveredMeansReceived'
  BY <1>1, <1>2 DEF IInv, ArrivedIsReceived, DeliveredMeansReceived
<1>6. OneTaskPerRow'
  <2> SUFFICES ASSUME unreadable = {}
               PROVE  OneTaskPerRow'
    BY <1>2 DEF OneTaskPerRow, registry
  <2>1. \A v \in tasks' : v \in tasks /\ v.row \in Rows /\ v.row # t.row
    BY <1>2 DEF IInv, WorkerOK, OneTaskPerRow, Task
  <2> QED
    BY <1>1, <1>2, <2>1 DEF IInv, OneTaskPerRow
<1> QED
  BY <1>3, <1>4, <1>5, <1>6 DEF IInv

LEMMA FailIInv ==
  ASSUME IInv, NEW t \in tasks, Fail(t)
  PROVE  IInv'
<1>1. t \in Task /\ t.row \in Rows
  BY DEF IInv, WorkerOK, Task
<1>2. /\ \/ Exhausted(t.row) /\ status' = [status EXCEPT ![t.row] = "dead"]
         \/ ~Exhausted(t.row) /\ status' = [status EXCEPT ![t.row] = "pending"]
      /\ attempts' = [attempts EXCEPT ![t.row] = IF attempts[t.row] < MaxAttempts
                                                 THEN attempts[t.row] + 1 ELSE attempts[t.row]]
      /\ tasks' = tasks \ {t} /\ UNCHANGED <<received, gen, raised, registry>>
      /\ status \in [Rows -> Statuses] /\ attempts \in [Rows -> Nat]
  BY DEF Fail, MarkFailed, IInv, QueueOK
<1>3. QueueOK'
  BY <1>1, MarkFailedQueue DEF Fail, IInv
<1>4. status'[t.row] \in {"pending", "dead"} /\ \A r \in Rows \ {t.row} :
        status'[r] = status[r] /\ attempts'[r] = attempts[r]
  BY <1>1, <1>2
<1>5. WorkerOK' /\ NoneIsUntouched' /\ ArrivedIsReceived' /\ DeliveredMeansReceived'
  <2>1. \A v \in tasks' : v \in tasks /\ v.row \in Rows
    BY <1>2 DEF IInv, WorkerOK, Task
  <2> QED
    BY <1>1, <1>2, <1>4, <2>1
       DEF IInv, WorkerOK, NoneIsUntouched, ArrivedIsReceived, DeliveredMeansReceived
<1>6. OneTaskPerRow'
  <2> SUFFICES ASSUME unreadable = {}
               PROVE  OneTaskPerRow'
    BY <1>2 DEF OneTaskPerRow, registry
  <2>1. \A v \in tasks' : v \in tasks /\ v.row \in Rows /\ v.row # t.row
    BY <1>2 DEF IInv, WorkerOK, OneTaskPerRow, Task
  <2>2. \A r \in Rows : status'[r] = "pending" => attempts'[r] < MaxAttempts
    <3>1. status'[t.row] = "pending" => attempts'[t.row] < MaxAttempts
      BY <1>1, <1>2, WebhookAssumption DEF Exhausted
    <3> QED
      BY <1>4, <3>1 DEF IInv, OneTaskPerRow
  <2> QED
    BY <1>2, <1>4, <2>1, <2>2 DEF IInv, OneTaskPerRow
<1> QED
  BY <1>3, <1>5, <1>6 DEF IInv

LEMMA NextIInv == ASSUME IInv, [Next]_vars PROVE IInv'
<1>1. ASSUME NEW r \in Rows, Enqueue(r) PROVE IInv'
  BY <1>1, EnqueueIInv
<1>2. CASE TimePasses
  <2>1. QueueOK'
    BY <1>2 DEF TimePasses, IInv, QueueOK
  <2> QED
    BY <1>2, <2>1 DEF TimePasses, worker, registry, IInv, WorkerOK, NoneIsUntouched,
                      ArrivedIsReceived, DeliveredMeansReceived, OneTaskPerRow
<1>3. CASE Poll
  BY <1>3, PollIInv
<1>4. ASSUME NEW t \in tasks, TaskStep(t) PROVE IInv'
  BY <1>4, LookUpIInv, ArriveIInv, AcknowledgeIInv, FailIInv DEF TaskStep
<1>5. CASE Restart
  BY <1>5 DEF Restart, queue, registry, IInv, QueueOK, WorkerOK, NoneIsUntouched,
              ArrivedIsReceived, DeliveredMeansReceived, OneTaskPerRow
<1>6. ASSUME NEW s \in Subscribers, Deactivate(s) PROVE IInv'
  BY <1>6 DEF Deactivate, queue, worker, IInv, QueueOK, WorkerOK, NoneIsUntouched,
              ArrivedIsReceived, DeliveredMeansReceived, OneTaskPerRow
<1>7. ASSUME NEW s \in Subscribers, LoseKey(s) PROVE IInv'
  <2>1. unreadable' # {}
    BY <1>7 DEF LoseKey
  <2> QED
    BY <1>7, <2>1 DEF LoseKey, queue, worker, IInv, QueueOK, WorkerOK, NoneIsUntouched,
              ArrivedIsReceived, DeliveredMeansReceived, OneTaskPerRow
<1>8. CASE UNCHANGED vars
  BY <1>8 DEF vars, IInv, QueueOK, WorkerOK, NoneIsUntouched, ArrivedIsReceived,
              DeliveredMeansReceived, OneTaskPerRow
<1> QED
  BY <1>1, <1>2, <1>3, <1>4, <1>5, <1>6, <1>7, <1>8 DEF Next

(* mark_delivered is behind raise_for_status: a row is marked delivered     *)
(* only if its payload reached the subscriber.                              *)
THEOREM DeliveredWasReceived == Spec => []DeliveredMeansReceived
<1>1. IInv /\ [Next]_vars => IInv'
  BY NextIInv
<1>2. IInv => DeliveredMeansReceived
  BY DEF IInv
<1> QED
  BY <1>1, <1>2, InitIInv, PTL DEF Spec
-----------------------------------------------------------------------------
(* The refinement.                                                          *)

(* A step that changes the mapping of at most one row.                      *)
LEMMA OneRowChanges ==
  ASSUME unreadable = {}, unreadable' = {}, NEW r \in Rows,
         status \in [Rows -> Statuses], attempts \in [Rows -> Nat],
         NEW s \in Statuses, NEW a \in Nat,
         status' = [status EXCEPT ![r] = s], attempts' = [attempts EXCEPT ![r] = a]
  PROVE  /\ \A q \in Rows : q # r => Job(q)' = Job(q) /\ Tries(q)' = Tries(q)
         /\ Job(r)' = IF s = "none" THEN "absent" ELSE IF s = "pending" THEN "open"
                      ELSE IF s = "delivered" THEN "done" ELSE "dead"
         /\ Tries(r)' = a /\ Tries(r) = attempts[r]
  BY DEF Job, Tries

LEMMA EnqueueRefines ==
  ASSUME IInv, unreadable = {}, NEW r \in Rows, Enqueue(r)
  PROVE  Durable!Submit(r)
<1>1. /\ unreadable' = {} /\ status[r] = "none" /\ status' = [status EXCEPT ![r] = "pending"]
      /\ attempts' = [attempts EXCEPT ![r] = attempts[r]] /\ attempts[r] \in Nat
      /\ status \in [Rows -> Statuses] /\ attempts \in [Rows -> Nat] /\ "pending" \in Statuses
  BY DEF Enqueue, registry, IInv, QueueOK, Statuses
<1>2. /\ \A q \in Rows : q # r => Job(q)' = Job(q) /\ Tries(q)' = Tries(q)
      /\ Job(r)' = "open" /\ Tries(r)' = Tries(r)
  BY <1>1, OneRowChanges
<1>3. Job(r) = "absent"
  BY <1>1 DEF Job
<1> QED
  BY <1>2, <1>3 DEF Durable!Submit

LEMMA AcknowledgeRefines ==
  ASSUME IInv, unreadable = {}, NEW t \in tasks, NEW r \in Rows, r = t.row, Acknowledge(t)
  PROVE  Durable!Finish(r)
<1>1. /\ unreadable' = {} /\ status' = [status EXCEPT ![r] = "delivered"]
      /\ attempts' = [attempts EXCEPT ![r] = attempts[r]] /\ attempts[r] \in Nat
      /\ status \in [Rows -> Statuses] /\ attempts \in [Rows -> Nat] /\ "delivered" \in Statuses
  BY DEF Acknowledge, MarkDelivered, registry, IInv, QueueOK, Statuses
<1>2. /\ \A q \in Rows : q # r => Job(q)' = Job(q) /\ Tries(q)' = Tries(q)
      /\ Job(r)' = "done" /\ Tries(r)' = Tries(r)
  BY <1>1, OneRowChanges
<1>3. Job(r) = "open"
  BY <1>1 DEF Job, IInv, OneTaskPerRow
<1> QED
  BY <1>2, <1>3 DEF Durable!Finish

LEMMA FailRefines ==
  ASSUME IInv, unreadable = {}, NEW t \in tasks, NEW r \in Rows, r = t.row, Fail(t)
  PROVE  Durable!Fail(r)
<1>1. /\ status \in [Rows -> Statuses] /\ attempts \in [Rows -> Nat] /\ attempts[r] \in Nat
      /\ status[r] = "pending" /\ attempts[r] < MaxAttempts
  BY DEF IInv, QueueOK, OneTaskPerRow
<1>2. /\ unreadable' = {} /\ attempts' = [attempts EXCEPT ![r] = attempts[r] + 1]
      /\ \/ Exhausted(r) /\ status' = [status EXCEPT ![r] = "dead"]
         \/ ~Exhausted(r) /\ status' = [status EXCEPT ![r] = "pending"]
  BY <1>1 DEF Fail, MarkFailed, registry
<1>3. Job(r) = "open" /\ Tries(r) = attempts[r]
  BY <1>1 DEF Job, Tries
<1>4. "dead" \in Statuses /\ "pending" \in Statuses /\ attempts[r] + 1 \in Nat
  BY <1>1 DEF Statuses
<1>5. CASE Exhausted(r)
  <2>0. status' = [status EXCEPT ![r] = "dead"]
    BY <1>2, <1>5
  <2>1. /\ \A q \in Rows : q # r => Job(q)' = Job(q) /\ Tries(q)' = Tries(q)
        /\ Job(r)' = "dead" /\ Tries(r)' = attempts[r] + 1
    BY <1>1, <1>2, <2>0 DEF Job, Tries
  <2>2. attempts[r] + 1 = MaxAttempts
    BY <1>1, <1>5, WebhookAssumption DEF Exhausted
  <2> QED
    BY <1>1, <1>3, <2>1, <2>2 DEF Durable!Fail
<1>6. CASE ~Exhausted(r)
  <2>1. /\ \A q \in Rows : q # r => Job(q)' = Job(q) /\ Tries(q)' = Tries(q)
        /\ Job(r)' = "open" /\ Tries(r)' = attempts[r] + 1
    BY <1>1, <1>2, <1>4, <1>6, OneRowChanges
  <2>2. attempts[r] + 1 # MaxAttempts
    BY <1>1, <1>6, WebhookAssumption DEF Exhausted
  <2>3. [q \in Rows |-> Job(q)'] = [q \in Rows |-> Job(q)]
    BY <1>3, <2>1
  <2>4. [q \in Rows |-> Tries(q)'] = [[q \in Rows |-> Tries(q)] EXCEPT ![r] = attempts[r] + 1]
    BY <2>1
  <2> QED
    BY <1>1, <1>3, <2>2, <2>3, <2>4 DEF Durable!Fail
<1> QED
  BY <1>5, <1>6

LEMMA StepRefines ==
  ASSUME IInv, [Next]_vars
  PROVE  [Durable!Next]_Durable!vars
<1>1. ASSUME status' = status, attempts' = attempts, unreadable' = unreadable
      PROVE  UNCHANGED Durable!vars
  BY <1>1 DEF Durable!vars, Job, Tries
<1>2. ASSUME unreadable # {}, unreadable' # {} PROVE UNCHANGED Durable!vars
  BY <1>2 DEF Durable!vars, Job, Tries
<1>3. ASSUME NEW s \in Subscribers, LoseKey(s)
      PROVE  Durable!Void(Rows)
  <2>1. unreadable' # {}
    BY <1>3 DEF LoseKey
  <2> QED
    BY <2>1 DEF Durable!Void, Job, Tries
<1>4. ASSUME NEW t \in tasks, TaskStep(t), unreadable = {}
      PROVE  [Durable!Next]_Durable!vars
  <2>1. PICK r \in Rows : r = t.row
    BY DEF IInv, WorkerOK, Task
  <2>2. CASE LookUp(t) \/ Arrive(t)
    BY <1>1, <2>2 DEF LookUp, Arrive, queue, registry
  <2>3. CASE Acknowledge(t)
    BY <1>4, <2>1, <2>3, AcknowledgeRefines DEF Durable!Next
  <2>4. CASE Fail(t)
    BY <1>4, <2>1, <2>4, FailRefines DEF Durable!Next
  <2> QED
    BY <1>4, <2>2, <2>3, <2>4 DEF TaskStep
<1>5. ASSUME NEW r \in Rows, Enqueue(r), unreadable = {}
      PROVE  Durable!Next
  BY <1>5, EnqueueRefines DEF Durable!Next
<1>6. ASSUME \/ TimePasses \/ Poll \/ Restart \/ UNCHANGED vars
             \/ \E s \in Subscribers : Deactivate(s)
      PROVE  UNCHANGED Durable!vars
  BY <1>1, <1>6 DEF TimePasses, Poll, Restart, Deactivate, vars, queue, registry
<1>7. ASSUME NEW r \in Rows, Enqueue(r), unreadable # {}
      PROVE  UNCHANGED Durable!vars
  BY <1>2, <1>7 DEF Enqueue, registry
<1>8. ASSUME NEW t \in tasks, TaskStep(t), unreadable # {}
      PROVE  UNCHANGED Durable!vars
  BY <1>2, <1>8 DEF TaskStep, LookUp, Arrive, Acknowledge, Fail, registry
<1>9. ASSUME NEW s \in Subscribers, LoseKey(s)
      PROVE  Durable!Next
  <2>1. Rows \in SUBSET Rows
    OBVIOUS
  <2> QED
    BY <1>3, <1>9, <2>1 DEF Durable!Next
<1>10. CASE \E r \in Rows : Enqueue(r)
  BY <1>5, <1>7, <1>10
<1>11. CASE \E t \in tasks : TaskStep(t)
  <2>1. CASE unreadable = {}
    BY <1>4, <1>11, <2>1
  <2>2. CASE unreadable # {}
    BY <1>11, <1>8, <2>2
  <2> QED
    BY <2>1, <2>2
<1>12. CASE \E s \in Subscribers : LoseKey(s)
  BY <1>9, <1>12
<1> QED
  BY <1>6, <1>10, <1>11, <1>12 DEF Next

(* "Items stay pending until acknowledged" (webhook_queue.py): as long as   *)
(* every secret can be read, each row is delivered once, or dead at attempt *)
(* MAX_ATTEMPTS, whatever polls, failures, deactivations and restarts do.   *)
THEOREM WebhookImplementsDurableJob == Spec => ImplementsDurableJob
<1>1. Init => Durable!Init
  BY DEF Init, Durable!Init, Job, Tries
<1>2. IInv /\ [Next]_vars => IInv'
  BY NextIInv
<1>3. IInv /\ [Next]_vars => [Durable!Next]_Durable!vars
  BY StepRefines
<1> QED
  BY <1>1, <1>2, <1>3, InitIInv, PTL DEF Spec, ImplementsDurableJob, Durable!Spec
=============================================================================
