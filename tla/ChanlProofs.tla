---------------------------- MODULE ChanlProofs ----------------------------
(***************************************************************************)
(* Proofs about Chanl for every set of threads and of messages and every   *)
(* capacity, 0 included: the safety properties of the channel, and that it *)
(* implements the queue of ChanlSpec.  IndInv has the geometry of the ring *)
(* (where the slots in use are), the two queues of parked threads against  *)
(* the threads that are parked, and the messages in flight against the     *)
(* heap.                                                                   *)
(***************************************************************************)
EXTENDS Chanl, TLAPS, FiniteSetTheorems

-----------------------------------------------------------------------------
(* The inductive invariant. *)

\* The slot of the message that i others are before, for i up to QSize.
SlotOf(i) == IF recvx + i < QSize THEN recvx + i ELSE recvx + i - QSize

\* The slots in use begin at recvx and end before sendx, around the ring.
RingOK ==
    /\ QSize \in QSizes
    /\ QSize > 0 => recvx < QSize /\ sendx < QSize /\ sendx = SlotOf(count)

\* The queues have the parked threads, each once.
Waiters ==
    /\ \A i \in 1 .. Len(sendq) : pc[sendq[i].thread] = "parked"
    /\ \A i \in 1 .. Len(recvq) : pc[recvq[i]] = "parked"
    /\ \A i, j \in 1 .. Len(sendq) : sendq[i].thread = sendq[j].thread => i = j
    /\ \A i, j \in 1 .. Len(recvq) : recvq[i] = recvq[j] => i = j
    /\ \A t \in Threads : pc[t] = "parked" =>
          \/ \E i \in 1 .. Len(sendq) : sendq[i].thread = t
          \/ \E i \in 1 .. Len(recvq) : recvq[i] = t

\* What is in the slots in use, with a parked sender or on a stack is allocated.
InFlight ==
    /\ \A i \in 0 .. count - 1 : buf[SlotOf(i)] \in heap
    /\ \A i \in 1 .. Len(sendq) : sendq[i].msg \in heap
    /\ \A t \in Threads : base[t] # NIL => base[t] \in heap

IndInv == TypeOK /\ RingOK /\ NoMissedHandoff /\ Waiters /\ InFlight

-----------------------------------------------------------------------------
(* Sequences. *)

\* What is left of a queue when its head is taken off.
LEMMA TailFacts ==
  ASSUME NEW S, NEW q \in Seq(S), q # <<>>
  PROVE  /\ Tail(q) \in Seq(S) /\ Head(q) = q[1] /\ Head(q) \in S
         /\ Len(q) \in Nat /\ Len(q) >= 1 /\ DOMAIN q = 1 .. Len(q)
         /\ Len(Tail(q)) = Len(q) - 1
         /\ \A i \in 1 .. Len(q) - 1 : Tail(q)[i] = q[i + 1]
OBVIOUS

\* What a queue is when an element is put on it.
LEMMA AppendFacts ==
  ASSUME NEW S, NEW q \in Seq(S), NEW x \in S
  PROVE  /\ Append(q, x) \in Seq(S)
         /\ Len(q) \in Nat /\ Len(Append(q, x)) = Len(q) + 1
         /\ Append(q, x) # <<>>
         /\ Append(q, x)[Len(q) + 1] = x
         /\ \A i \in 1 .. Len(q) : Append(q, x)[i] = q[i]
OBVIOUS

\* Two sequences in a row.
LEMMA ConcatFacts ==
  ASSUME NEW S, NEW p \in Seq(S), NEW q \in Seq(S)
  PROVE  /\ p \o q \in Seq(S)
         /\ Len(p) \in Nat /\ Len(q) \in Nat /\ Len(p \o q) = Len(p) + Len(q)
         /\ \A i \in 1 .. Len(p) : (p \o q)[i] = p[i]
         /\ \A i \in Len(p) + 1 .. Len(p) + Len(q) : (p \o q)[i] = q[i - Len(p)]
OBVIOUS

\* The same, with the lengths named.
LEMMA ConcatIs ==
  ASSUME NEW S, NEW p \in Seq(S), NEW q \in Seq(S), NEW n \in Nat, NEW k \in Nat,
         n = Len(p), k = Len(q)
  PROVE  /\ p \o q \in Seq(S) /\ Len(p \o q) = n + k
         /\ \A i \in 1 .. n : (p \o q)[i] = p[i]
         /\ \A i \in n + 1 .. n + k : (p \o q)[i] = q[i - n]
BY ConcatFacts

\* A function on an initial segment of the numbers is a sequence.
LEMMA FunctionIsSeq ==
  ASSUME NEW S, NEW n \in Nat, NEW f \in [1 .. n -> S]
  PROVE  f \in Seq(S) /\ Len(f) = n
OBVIOUS

\* Sequences are equal when their elements are.
LEMMA SameElements ==
  ASSUME NEW S, NEW p \in Seq(S), NEW q \in Seq(S), Len(p) = Len(q),
         \A i \in 1 .. Len(p) : p[i] = q[i]
  PROVE  p = q
OBVIOUS

-----------------------------------------------------------------------------
(* The ring. *)

\* The remainder, as far as the indices of the ring need it.
LEMMA ModFacts ==
  ASSUME NEW n \in Nat, n > 0, NEW a \in 0 .. 2 * n - 1
  PROVE  a % n = IF a < n THEN a ELSE a - n
OBVIOUS

\* The capacity a channel is made with.
LEMMA QSizeInit ==
  ASSUME NEW n \in QSizes, buf = [i \in 0 .. n - 1 |-> NULL]
  PROVE  QSize = n /\ n \in Nat
<1>1. n \in Nat
  BY QSizesAssumption
<1>2. DOMAIN buf = 0 .. n - 1
  OBVIOUS
<1>3. Cardinality(0 .. n - 1) = n
  BY <1>1, FS_Interval
<1> QED
  BY <1>1, <1>2, <1>3 DEF QSize

\* No step changes the capacity.
LEMMA QSizeStep ==
  ASSUME buf' = buf \/ (\E i, m : buf' = [buf EXCEPT ![i] = m])
  PROVE  QSize' = QSize
<1>1. DOMAIN buf' = DOMAIN buf
  OBVIOUS
<1> QED
  BY <1>1 DEF QSize

\* The slots are slots of the buffer, and different messages have different
\* slots; an index that moves on moves to the next slot.
LEMMA SlotFacts ==
  ASSUME TypeOK, RingOK, QSize > 0
  PROVE  /\ QSize \in Nat
         /\ \A i \in 0 .. QSize : SlotOf(i) \in 0 .. QSize - 1
         /\ \A i, j \in 0 .. QSize - 1 : SlotOf(i) = SlotOf(j) => i = j
         /\ SlotOf(0) = recvx /\ SlotOf(QSize) = recvx
         /\ Next_x(recvx) = SlotOf(1)
         /\ \A i \in 0 .. QSize - 1 :
               SlotOf(i + 1) = IF SlotOf(i) + 1 = QSize THEN 0 ELSE SlotOf(i) + 1
         /\ \A x \in 0 .. QSize - 1 :
               Next_x(x) = IF x + 1 = QSize THEN 0 ELSE x + 1
<1>1. QSize \in Nat /\ recvx \in 0 .. QSize - 1
  BY QSizesAssumption DEF TypeOK, RingOK
<1>2. \A x \in 0 .. QSize - 1 : Next_x(x) = IF x + 1 = QSize THEN 0 ELSE x + 1
  <2> TAKE x \in 0 .. QSize - 1
  <2>1. x + 1 \in 0 .. 2 * QSize - 1
    BY <1>1
  <2> QED
    BY <1>1, <2>1, ModFacts DEF Next_x
<1> QED
  BY <1>1, <1>2 DEF SlotOf

\* The contents, without the remainder.
LEMMA ContentsFacts ==
  ASSUME TypeOK, RingOK
  PROVE  /\ Contents = [i \in 1 .. count |-> buf[SlotOf(i - 1)]]
         /\ count \in Nat /\ DOMAIN Contents = 1 .. count
         /\ \A i \in 1 .. count : Contents[i] = buf[SlotOf(i - 1)]
<1>1. count \in 0 .. QSize /\ QSize \in Nat
  BY QSizesAssumption DEF TypeOK, RingOK
<1>2. ASSUME NEW i \in 1 .. count
      PROVE  (recvx + (i - 1)) % QSize = SlotOf(i - 1)
  <2>1. QSize > 0 /\ recvx \in 0 .. QSize - 1
    BY <1>1 DEF TypeOK, RingOK
  <2>2. recvx + (i - 1) \in 0 .. 2 * QSize - 1
    BY <1>1, <2>1
  <2> QED
    BY <1>1, <2>1, <2>2, ModFacts DEF SlotOf
<1> QED
  BY <1>1, <1>2 DEF Contents

\* The parts of the invariant that a step of the ring has to keep.
RingTypes ==
    /\ buf \in [0 .. QSize - 1 -> Msgs \cup {NULL}]
    /\ recvx \in 0 .. QSize
    /\ sendx \in 0 .. QSize
    /\ count \in 0 .. QSize

\* A message is pushed: it comes after the others.
LEMMA PushFacts ==
  ASSUME TypeOK, RingOK, count < QSize, NEW m \in Msgs, chanl_push_msg(m)
  PROVE  /\ QSize' = QSize /\ RingTypes' /\ RingOK'
         /\ \A i \in 0 .. count - 1 : buf'[SlotOf(i)'] = buf[SlotOf(i)]
         /\ \A i \in Nat : i = count => buf'[SlotOf(i)'] = m
<1>1. QSize \in Nat /\ count \in Nat /\ QSize > 0
  BY QSizesAssumption DEF TypeOK, RingOK
<1>2. /\ buf' = [buf EXCEPT ![sendx] = m] /\ sendx' = Next_x(sendx)
      /\ count' = count + 1 /\ recvx' = recvx
  BY DEF chanl_push_msg
<1>3. QSize' = QSize
  BY <1>2, QSizeStep
<1>4. \A i \in 0 .. QSize : SlotOf(i)' = SlotOf(i)
  BY <1>2, <1>3 DEF SlotOf
<1>5. sendx = SlotOf(count) /\ sendx \in 0 .. QSize - 1
  BY <1>1 DEF TypeOK, RingOK
<1>6. sendx' = SlotOf(count + 1) /\ sendx' \in 0 .. QSize - 1
  BY <1>1, <1>2, <1>5, SlotFacts
<1>7. RingTypes'
  BY <1>1, <1>2, <1>3, <1>5, <1>6 DEF RingTypes, TypeOK
<1>8. RingOK'
  BY <1>1, <1>2, <1>3, <1>4, <1>6 DEF RingOK, TypeOK
<1>9. \A i \in 0 .. count - 1 : buf'[SlotOf(i)'] = buf[SlotOf(i)]
  <2> TAKE i \in 0 .. count - 1
  <2>1. SlotOf(i) # sendx /\ SlotOf(i) \in 0 .. QSize - 1
    BY <1>1, <1>5, SlotFacts
  <2> QED
    BY <1>1, <1>2, <1>4, <2>1 DEF TypeOK
<1>10. \A i \in Nat : i = count => buf'[SlotOf(i)'] = m
  BY <1>1, <1>2, <1>4, <1>5 DEF TypeOK
<1> QED
  BY <1>3, <1>7, <1>8, <1>9, <1>10

\* A message is popped: the others move up.
LEMMA PopFacts ==
  ASSUME TypeOK, RingOK, count # 0, chanl_pop_msg
  PROVE  /\ QSize' = QSize /\ RingTypes' /\ RingOK'
         /\ \A i \in 0 .. count - 2 : buf'[SlotOf(i)'] = buf[SlotOf(i + 1)]
<1>1. QSize \in Nat /\ count \in Nat /\ QSize > 0 /\ count >= 1 /\ count <= QSize
  BY QSizesAssumption DEF TypeOK, RingOK
<1>2. recvx' = Next_x(recvx) /\ count' = count - 1 /\ buf' = buf /\ sendx' = sendx
  BY DEF chanl_pop_msg
<1>3. QSize' = QSize
  BY <1>2, QSizeStep
<1>4. recvx' = SlotOf(1) /\ recvx' \in 0 .. QSize - 1
  BY <1>1, <1>2, SlotFacts
<1>5. \A i \in 0 .. QSize - 1 : SlotOf(i)' = SlotOf(i + 1)
  BY <1>1, <1>3, <1>4 DEF SlotOf, TypeOK, RingOK
<1>6. RingTypes'
  BY <1>1, <1>2, <1>3, <1>4 DEF RingTypes, TypeOK
<1>7. RingOK'
  BY <1>1, <1>2, <1>3, <1>4, <1>5 DEF RingOK, TypeOK
<1> QED
  BY <1>1, <1>2, <1>3, <1>5, <1>6, <1>7

\* A full ring is popped and pushed to: the slot that becomes free is the one
\* that is filled.
LEMMA PopPushFacts ==
  ASSUME TypeOK, RingOK, count # 0, count = QSize, NEW m \in Msgs,
         chanl_pop_push_msg(m)
  PROVE  /\ QSize' = QSize /\ count' = count /\ RingTypes' /\ RingOK'
         /\ \A i \in 0 .. count - 2 : buf'[SlotOf(i)'] = buf[SlotOf(i + 1)]
         /\ \A i \in Nat : i + 1 = count => buf'[SlotOf(i)'] = m
<1>1. QSize \in Nat /\ count \in Nat /\ QSize > 0 /\ recvx \in 0 .. QSize - 1
  BY QSizesAssumption DEF TypeOK, RingOK
<1>2. /\ recvx' = Next_x(recvx) /\ buf' = [buf EXCEPT ![sendx] = m]
      /\ sendx' = Next_x(sendx) /\ count' = count
  BY <1>1 DEF chanl_pop_push_msg
<1>3. QSize' = QSize
  BY <1>2, QSizeStep
<1>4. sendx = recvx /\ sendx' = recvx'
  BY <1>1, <1>2, SlotFacts DEF RingOK
<1>5. recvx' = SlotOf(1) /\ recvx' \in 0 .. QSize - 1
  BY <1>1, <1>2, SlotFacts
<1>6. \A i \in 0 .. QSize - 1 : SlotOf(i)' = SlotOf(i + 1)
  BY <1>1, <1>3, <1>5 DEF SlotOf
<1>7. SlotOf(QSize)' = recvx'
  BY <1>1, <1>3, <1>5 DEF SlotOf
<1>8. RingTypes'
  BY <1>1, <1>2, <1>3, <1>4, <1>5 DEF RingTypes, TypeOK
<1>9. RingOK'
  BY <1>1, <1>2, <1>3, <1>4, <1>5, <1>7 DEF RingOK
<1>10. \A i \in 0 .. count - 2 : buf'[SlotOf(i)'] = buf[SlotOf(i + 1)]
  <2> TAKE i \in 0 .. count - 2
  <2>1. SlotOf(i + 1) # recvx /\ SlotOf(i + 1) \in 0 .. QSize - 1
    <3>1. i + 1 \in 0 .. QSize - 1 /\ 0 \in 0 .. QSize - 1 /\ i + 1 # 0
      BY <1>1
    <3> QED
      BY <1>1, <3>1, SlotFacts
  <2>2. SlotOf(i)' = SlotOf(i + 1)
    BY <1>1, <1>6
  <2> QED
    BY <1>2, <1>4, <2>1, <2>2 DEF TypeOK
<1>11. ASSUME NEW i \in Nat, i + 1 = count PROVE buf'[SlotOf(i)'] = m
  <2>1. SlotOf(i)' = SlotOf(count)
    BY <1>1, <1>6, <1>11
  <2>2. SlotOf(count) = sendx /\ sendx \in 0 .. QSize - 1
    BY <1>1, <1>4, SlotFacts
  <2> QED
    BY <1>2, <2>1, <2>2 DEF TypeOK
<1> QED
  BY <1>2, <1>3, <1>8, <1>9, <1>10, <1>11

\* A step that leaves the ring alone.
LEMMA RingSame ==
  ASSUME UNCHANGED ringVars
  PROVE  /\ QSize' = QSize /\ (RingTypes => RingTypes') /\ (RingOK => RingOK')
         /\ buf' = buf /\ count' = count
         /\ \A i \in Nat : SlotOf(i)' = SlotOf(i)
<1>1. buf' = buf /\ recvx' = recvx /\ sendx' = sendx /\ count' = count
  BY DEF ringVars
<1>2. QSize' = QSize
  BY <1>1, QSizeStep
<1> QED
  BY <1>1, <1>2 DEF RingTypes, RingOK, SlotOf

-----------------------------------------------------------------------------
(* The queues of parked threads. *)

\* A receiver is taken off its queue and signalled.
LEMMA ReceiverReleased ==
  ASSUME TypeOK, Waiters, recvq # <<>>, sendq = <<>>, sendq' = sendq,
         recvq' = Tail(recvq), pc' = [pc EXCEPT ![Head(recvq)] = "signalled"]
  PROVE  Waiters'
<1>1. PICK n \in Nat : n = Len(recvq) /\ n >= 1 /\ Len(recvq') = n - 1
  BY TailFacts DEF TypeOK
<1>2. /\ Head(recvq) = recvq[1] /\ recvq[1] \in Threads
      /\ \A i \in 1 .. n - 1 : recvq'[i] = recvq[i + 1] /\ recvq[i + 1] \in Threads
  BY <1>1, TailFacts DEF TypeOK
<1>3. Len(sendq) = 0
  OBVIOUS
<1>4. \A i \in 1 .. n - 1 : recvq[i + 1] # recvq[1] /\ pc[recvq[i + 1]] = "parked"
  BY <1>1 DEF Waiters
<1>5. \A i \in 1 .. Len(recvq') : pc'[recvq'[i]] = "parked"
  BY <1>1, <1>2, <1>4 DEF TypeOK
<1>6. \A i, j \in 1 .. Len(recvq') : recvq'[i] = recvq'[j] => i = j
  BY <1>1, <1>2 DEF Waiters
<1>7. ASSUME NEW t \in Threads, pc'[t] = "parked"
      PROVE  \E i \in 1 .. Len(recvq') : recvq'[i] = t
  <2>1. pc[t] = "parked" /\ t # recvq[1]
    BY <1>2, <1>7 DEF TypeOK
  <2>2. PICK i \in 1 .. n : recvq[i] = t
    BY <1>1, <1>3, <2>1 DEF Waiters
  <2>3. i - 1 \in 1 .. n - 1 /\ (i - 1) + 1 = i
    BY <1>1, <2>1, <2>2
  <2>4. recvq'[i - 1] = t
    BY <1>2, <2>2, <2>3
  <2> QED
    BY <1>1, <2>3, <2>4
<1> QED
  BY <1>3, <1>5, <1>6, <1>7 DEF Waiters

\* A sender is taken off its queue and signalled.
LEMMA SenderReleased ==
  ASSUME TypeOK, Waiters, sendq # <<>>, recvq = <<>>, recvq' = recvq,
         sendq' = Tail(sendq),
         pc' = [pc EXCEPT ![Head(sendq).thread] = "signalled"]
  PROVE  Waiters'
<1>1. PICK n \in Nat : n = Len(sendq) /\ n >= 1 /\ Len(sendq') = n - 1
  BY TailFacts DEF TypeOK
<1>2. /\ Head(sendq) = sendq[1] /\ sendq[1].thread \in Threads
      /\ \A i \in 1 .. n - 1 : sendq'[i] = sendq[i + 1] /\ sendq[i + 1].thread \in Threads
  <2>1. \A i \in 1 .. n : sendq[i] \in Sender
    BY <1>1 DEF TypeOK
  <2> QED
    BY <1>1, <2>1, TailFacts DEF TypeOK, Sender
<1>3. Len(recvq) = 0
  OBVIOUS
<1>4. \A i \in 1 .. n - 1 : /\ sendq[i + 1].thread # sendq[1].thread
                            /\ pc[sendq[i + 1].thread] = "parked"
  BY <1>1 DEF Waiters
<1>5. \A i \in 1 .. Len(sendq') : pc'[sendq'[i].thread] = "parked"
  BY <1>1, <1>2, <1>4 DEF TypeOK
<1>6. \A i, j \in 1 .. Len(sendq') : sendq'[i].thread = sendq'[j].thread => i = j
  BY <1>1, <1>2 DEF Waiters
<1>7. ASSUME NEW t \in Threads, pc'[t] = "parked"
      PROVE  \E i \in 1 .. Len(sendq') : sendq'[i].thread = t
  <2>1. pc[t] = "parked" /\ t # sendq[1].thread
    BY <1>2, <1>7 DEF TypeOK
  <2>2. PICK i \in 1 .. n : sendq[i].thread = t
    BY <1>1, <1>3, <2>1 DEF Waiters
  <2>3. i - 1 \in 1 .. n - 1 /\ (i - 1) + 1 = i
    BY <1>1, <2>1, <2>2
  <2>4. sendq'[i - 1].thread = t
    BY <1>2, <2>2, <2>3
  <2> QED
    BY <1>1, <2>3, <2>4
<1> QED
  BY <1>3, <1>5, <1>6, <1>7 DEF Waiters

\* A receiver parks.
LEMMA ReceiverParks ==
  ASSUME TypeOK, Waiters, NEW t \in Threads, pc[t] = "run", sendq' = sendq,
         recvq' = Append(recvq, t), pc' = [pc EXCEPT ![t] = "parked"]
  PROVE  Waiters'
<1>1. PICK n \in Nat : n = Len(recvq) /\ Len(recvq') = n + 1
  BY AppendFacts DEF TypeOK
<1>2. recvq'[n + 1] = t /\ \A i \in 1 .. n : recvq'[i] = recvq[i] /\ recvq[i] \in Threads
  BY <1>1, AppendFacts DEF TypeOK
<1>3. \A i \in 1 .. n : recvq[i] # t /\ pc[recvq[i]] = "parked"
  BY <1>1 DEF Waiters
<1>4. \A i \in 1 .. Len(sendq) : sendq[i].thread \in Threads /\ sendq[i].thread # t
  <2>1. \A i \in 1 .. Len(sendq) : sendq[i] \in Sender
    BY DEF TypeOK
  <2> QED
    BY <2>1 DEF Waiters, Sender
<1>5. \A i \in 1 .. n + 1 : i = n + 1 \/ i \in 1 .. n
  BY <1>1
<1>6. \A u \in Threads : u # t => pc'[u] = pc[u]
  BY DEF TypeOK
<1>7. pc'[t] = "parked"
  BY DEF TypeOK
<1>8. \A i \in 1 .. n + 1 : pc'[recvq'[i]] = "parked"
  BY <1>2, <1>3, <1>5, <1>6, <1>7
<1>9. \A i \in 1 .. Len(sendq) : pc'[sendq[i].thread] = "parked"
  BY <1>4, <1>6 DEF Waiters
<1>10. \A i, j \in 1 .. n + 1 : recvq'[i] = recvq'[j] => i = j
  BY <1>1, <1>2, <1>3, <1>5 DEF Waiters
<1>11. ASSUME NEW u \in Threads, pc'[u] = "parked"
       PROVE  \/ \E i \in 1 .. Len(sendq) : sendq[i].thread = u
              \/ \E i \in 1 .. n + 1 : recvq'[i] = u
  <2>1. CASE u = t
    BY <1>2, <2>1
  <2>2. CASE u # t
    <3>1. pc[u] = "parked"
      BY <1>6, <1>11, <2>2
    <3>2. \A i \in 1 .. n : i \in 1 .. n + 1
      OBVIOUS
    <3> QED
      BY <1>1, <1>2, <3>1, <3>2 DEF Waiters
  <2> QED
    BY <2>1, <2>2
<1> QED
  BY <1>1, <1>8, <1>9, <1>10, <1>11 DEF Waiters

\* A sender parks.
LEMMA SenderParks ==
  ASSUME TypeOK, Waiters, NEW t \in Threads, NEW m \in Msgs, pc[t] = "run",
         recvq' = recvq, sendq' = Append(sendq, [thread |-> t, msg |-> m]),
         pc' = [pc EXCEPT ![t] = "parked"]
  PROVE  Waiters'
<1>0. [thread |-> t, msg |-> m] \in Sender
  BY DEF Sender
<1>1. PICK n \in Nat : n = Len(sendq) /\ Len(sendq') = n + 1
  BY <1>0, AppendFacts DEF TypeOK
<1>2. /\ sendq'[n + 1].thread = t
      /\ \A i \in 1 .. n : sendq'[i] = sendq[i] /\ sendq[i].thread \in Threads
  <2>1. \A i \in 1 .. n : sendq[i] \in Sender
    BY <1>1 DEF TypeOK
  <2> QED
    BY <1>0, <1>1, <2>1, AppendFacts DEF TypeOK, Sender
<1>3. \A i \in 1 .. n : sendq[i].thread # t /\ pc[sendq[i].thread] = "parked"
  BY <1>1 DEF Waiters
<1>4. \A i \in 1 .. Len(recvq) : recvq[i] \in Threads /\ recvq[i] # t
  BY DEF Waiters, TypeOK
<1>5. \A i \in 1 .. n + 1 : i = n + 1 \/ i \in 1 .. n
  BY <1>1
<1>6. \A u \in Threads : u # t => pc'[u] = pc[u]
  BY DEF TypeOK
<1>7. pc'[t] = "parked"
  BY DEF TypeOK
<1>8. \A i \in 1 .. n + 1 : pc'[sendq'[i].thread] = "parked"
  BY <1>2, <1>3, <1>5, <1>6, <1>7
<1>9. \A i \in 1 .. Len(recvq) : pc'[recvq[i]] = "parked"
  BY <1>4, <1>6 DEF Waiters
<1>10. \A i, j \in 1 .. n + 1 : sendq'[i].thread = sendq'[j].thread => i = j
  BY <1>1, <1>2, <1>3, <1>5 DEF Waiters
<1>11. ASSUME NEW u \in Threads, pc'[u] = "parked"
       PROVE  \/ \E i \in 1 .. n + 1 : sendq'[i].thread = u
              \/ \E i \in 1 .. Len(recvq) : recvq[i] = u
  <2>1. CASE u = t
    BY <1>2, <2>1
  <2>2. CASE u # t
    <3>1. pc[u] = "parked"
      BY <1>6, <1>11, <2>2
    <3>2. \A i \in 1 .. n : i \in 1 .. n + 1
      OBVIOUS
    <3> QED
      BY <1>1, <1>2, <3>1, <3>2 DEF Waiters
  <2> QED
    BY <2>1, <2>2
<1> QED
  BY <1>1, <1>8, <1>9, <1>10, <1>11 DEF Waiters

-----------------------------------------------------------------------------
(* Every step keeps the invariant. *)

\* The types of what is not the ring.
OtherTypes ==
    /\ sendq \in Seq(Sender)
    /\ recvq \in Seq(Threads)
    /\ pc \in [Threads -> {"run", "parked", "signalled"}]
    /\ base \in [Threads -> Msgs \cup {NIL}]
    /\ heap \subseteq Msgs

\* The type invariant in its two parts.
LEMMA TypeParts == TypeOK <=> RingTypes /\ OtherTypes
BY DEF TypeOK, RingTypes, OtherTypes

\* What the queues and the ring are when a step begins.
LEMMA Handoffs ==
  ASSUME IndInv
  PROVE  /\ count \in Nat /\ QSize \in Nat /\ count <= QSize
         /\ recvq # <<>> => count = 0 /\ sendq = <<>>
         /\ sendq # <<>> => count = QSize /\ recvq = <<>>
BY QSizesAssumption DEF IndInv, TypeOK, RingOK, NoMissedHandoff

\* A send to a parked receiver.
LEMMA SendToReceiverStep ==
  ASSUME IndInv, NEW t \in Threads, NEW m \in Msgs, NEW kept \in {m, NIL},
         pc[t] = "run", heap' = heap \cup {m}, SendToReceiver(t, m, kept)
  PROVE  IndInv'
<1>1. TypeOK /\ RingOK /\ NoMissedHandoff /\ Waiters /\ InFlight
  BY DEF IndInv
<1>2. /\ UNCHANGED ringVars /\ sendq' = sendq /\ recvq' = Tail(recvq)
      /\ base' = [base EXCEPT ![Head(recvq)] = m, ![t] = kept]
      /\ pc' = [pc EXCEPT ![Head(recvq)] = "signalled"] /\ recvq # <<>>
  BY DEF SendToReceiver
<1>3. count = 0 /\ sendq = <<>>
  BY <1>2, Handoffs
<1>4. Head(recvq) \in Threads /\ recvq' \in Seq(Threads)
  BY <1>1, <1>2, TailFacts DEF TypeOK
<1>5. TypeOK'
  <2>1. RingTypes'
    BY <1>1, <1>2, RingSame, TypeParts
  <2>2. OtherTypes'
    BY <1>1, <1>2, <1>4 DEF TypeOK, OtherTypes
  <2> QED
    BY <2>1, <2>2, TypeParts DEF TypeOK, RingTypes, OtherTypes
<1>6. RingOK' /\ QSize' = QSize /\ count' = 0
  BY <1>1, <1>2, <1>3, RingSame
<1>7. NoMissedHandoff'
  BY <1>2, <1>3, <1>6 DEF NoMissedHandoff
<1>8. Waiters'
  BY <1>1, <1>2, <1>3, ReceiverReleased
<1>9. InFlight'
  BY <1>1, <1>2, <1>3, <1>4, <1>6 DEF InFlight, TypeOK
<1> QED
  BY <1>5, <1>6, <1>7, <1>8, <1>9 DEF IndInv

\* A send that finds a free slot.
LEMMA SendToBufferStep ==
  ASSUME IndInv, NEW t \in Threads, NEW m \in Msgs, NEW kept \in {m, NIL},
         pc[t] = "run", heap' = heap \cup {m}, SendToBuffer(t, m, kept)
  PROVE  IndInv'
<1>1. TypeOK /\ RingOK /\ NoMissedHandoff /\ Waiters /\ InFlight
  BY DEF IndInv
<1>2. /\ chanl_push_msg(m) /\ sendq' = sendq /\ recvq' = recvq /\ pc' = pc
      /\ base' = [base EXCEPT ![t] = kept] /\ recvq = <<>> /\ count < QSize
  BY DEF SendToBuffer
<1>3. sendq = <<>> /\ count \in Nat /\ QSize \in Nat
  BY <1>2, Handoffs
<1>4. /\ QSize' = QSize /\ RingTypes' /\ RingOK' /\ count' = count + 1
      /\ \A i \in 0 .. count - 1 : buf'[SlotOf(i)'] = buf[SlotOf(i)]
      /\ \A i \in Nat : i = count => buf'[SlotOf(i)'] = m
  BY <1>1, <1>2, PushFacts DEF chanl_push_msg
<1>5. TypeOK'
  <2>1. OtherTypes'
    BY <1>1, <1>2 DEF TypeOK, OtherTypes
  <2> QED
    BY <1>4, <2>1 DEF TypeOK, RingTypes, OtherTypes
<1>6. NoMissedHandoff'
  BY <1>2, <1>3 DEF NoMissedHandoff
<1>7. Waiters'
  BY <1>1, <1>2 DEF Waiters
<1>8. InFlight'
  <2>1. \A i \in 0 .. count' - 1 : buf'[SlotOf(i)'] \in heap'
    <3> TAKE i \in 0 .. count' - 1
    <3>1. i \in 0 .. count - 1 \/ (i \in Nat /\ i = count)
      BY <1>3, <1>4
    <3> QED
      BY <1>1, <1>4, <3>1 DEF InFlight
  <2>2. \A u \in Threads : base'[u] # NIL => base'[u] \in heap'
    BY <1>1, <1>2 DEF InFlight, TypeOK
  <2>3. \A i \in 1 .. Len(sendq') : sendq'[i].msg \in heap'
    BY <1>1, <1>2 DEF InFlight
  <2> QED
    BY <2>1, <2>2, <2>3 DEF InFlight
<1> QED
  BY <1>4, <1>5, <1>6, <1>7, <1>8 DEF IndInv

\* A send that parks.
LEMMA SendAndParkStep ==
  ASSUME IndInv, NEW t \in Threads, NEW m \in Msgs, NEW kept \in {m, NIL},
         pc[t] = "run", heap' = heap \cup {m}, SendAndPark(t, m, kept)
  PROVE  IndInv'
<1>1. TypeOK /\ RingOK /\ NoMissedHandoff /\ Waiters /\ InFlight
  BY DEF IndInv
<1>2. /\ UNCHANGED ringVars /\ sendq' = Append(sendq, [thread |-> t, msg |-> m])
      /\ recvq' = recvq /\ pc' = [pc EXCEPT ![t] = "parked"]
      /\ base' = [base EXCEPT ![t] = kept] /\ recvq = <<>> /\ count >= QSize
  BY DEF SendAndPark
<1>3. count = QSize /\ count \in Nat
  BY <1>2, Handoffs
<1>4. [thread |-> t, msg |-> m] \in Sender
  BY DEF Sender
<1>5. /\ sendq' \in Seq(Sender) /\ Len(sendq) \in Nat /\ Len(sendq') = Len(sendq) + 1
      /\ sendq'[Len(sendq) + 1].msg = m
      /\ \A i \in 1 .. Len(sendq) : sendq'[i] = sendq[i]
  BY <1>1, <1>2, <1>4, AppendFacts DEF TypeOK
<1>6. /\ QSize' = QSize /\ RingTypes' /\ RingOK' /\ buf' = buf /\ count' = count
      /\ \A i \in Nat : SlotOf(i)' = SlotOf(i)
  BY <1>1, <1>2, RingSame, TypeParts
<1>7. TypeOK'
  <2>1. OtherTypes'
    BY <1>1, <1>2, <1>5 DEF TypeOK, OtherTypes
  <2> QED
    BY <1>6, <2>1 DEF TypeOK, RingTypes, OtherTypes
<1>8. NoMissedHandoff'
  BY <1>2, <1>3, <1>6 DEF NoMissedHandoff
<1>9. Waiters'
  BY <1>1, <1>2, SenderParks
<1>10. InFlight'
  <2>1. \A i \in 0 .. count' - 1 : buf'[SlotOf(i)'] \in heap'
    BY <1>1, <1>6 DEF InFlight
  <2>2. \A u \in Threads : base'[u] # NIL => base'[u] \in heap'
    BY <1>1, <1>2 DEF InFlight, TypeOK
  <2>3. \A i \in 1 .. Len(sendq') : sendq'[i].msg \in heap'
    <3> TAKE i \in 1 .. Len(sendq')
    <3>1. i \in 1 .. Len(sendq) \/ i = Len(sendq) + 1
      BY <1>5
    <3> QED
      BY <1>1, <1>5, <3>1 DEF InFlight
  <2> QED
    BY <2>1, <2>2, <2>3 DEF InFlight
<1> QED
  BY <1>6, <1>7, <1>8, <1>9, <1>10 DEF IndInv

\* A receive that releases a sender.
LEMMA RecvFromSenderStep ==
  ASSUME IndInv, NEW t \in Threads, pc[t] = "run", heap' = heap, RecvFromSender(t)
  PROVE  IndInv'
<1>1. TypeOK /\ RingOK /\ NoMissedHandoff /\ Waiters /\ InFlight
  BY DEF IndInv
<1>2. /\ sendq # <<>> /\ sendq' = Tail(sendq) /\ recvq' = recvq
      /\ pc' = [pc EXCEPT ![Head(sendq).thread] = "signalled"]
  BY DEF RecvFromSender
<1>3. count = QSize /\ recvq = <<>> /\ count \in Nat
  BY <1>2, Handoffs
<1>4. /\ sendq' \in Seq(Sender) /\ Head(sendq) = sendq[1] /\ Len(sendq) \in Nat
      /\ Len(sendq) >= 1 /\ Len(sendq') = Len(sendq) - 1
      /\ \A i \in 1 .. Len(sendq) - 1 : sendq'[i] = sendq[i + 1]
  BY <1>1, <1>2, TailFacts DEF TypeOK
<1>5. sendq[1].thread \in Threads /\ sendq[1].msg \in Msgs /\ sendq[1].msg \in heap
  <2>1. sendq[1] \in Sender
    BY <1>1, <1>4 DEF TypeOK
  <2> QED
    BY <1>1, <1>4, <2>1 DEF Sender, InFlight
<1>6. \A i \in 1 .. Len(sendq') : sendq'[i].msg \in heap'
  BY <1>1, <1>4 DEF InFlight
<1>7. Waiters'
  BY <1>1, <1>2, <1>3, SenderReleased
<1>8. CASE count # 0
  <2>1. chanl_pop_push_msg(sendq[1].msg) /\ base' = [base EXCEPT ![t] = buf[recvx]]
    BY <1>4, <1>8 DEF RecvFromSender
  <2>2. /\ QSize' = QSize /\ count' = count /\ RingTypes' /\ RingOK'
        /\ \A i \in 0 .. count - 2 : buf'[SlotOf(i)'] = buf[SlotOf(i + 1)]
        /\ \A i \in Nat : i + 1 = count => buf'[SlotOf(i)'] = sendq[1].msg
    BY <1>1, <1>3, <1>5, <1>8, <2>1, PopPushFacts
  <2>3. buf[recvx] \in heap /\ buf[recvx] \in Msgs
    <3>1. 0 \in 0 .. count - 1 /\ SlotOf(0) = recvx
      BY <1>1, <1>3, <1>8, SlotFacts
    <3> QED
      BY <1>1, <3>1 DEF InFlight, TypeOK
  <2>4. TypeOK'
    <3>1. OtherTypes'
      BY <1>1, <1>2, <1>4, <1>5, <2>1, <2>3 DEF TypeOK, OtherTypes
    <3> QED
      BY <2>2, <3>1 DEF TypeOK, RingTypes, OtherTypes
  <2>5. NoMissedHandoff'
    BY <1>2, <1>3, <2>2 DEF NoMissedHandoff
  <2>6. InFlight'
    <3>1. \A i \in 0 .. count' - 1 : buf'[SlotOf(i)'] \in heap'
      <4> TAKE i \in 0 .. count' - 1
      <4>1. (i \in 0 .. count - 2 /\ i + 1 \in 0 .. count - 1) \/ (i \in Nat /\ i + 1 = count)
        BY <1>3, <2>2
      <4> QED
        BY <1>1, <1>5, <2>2, <4>1 DEF InFlight
    <3>2. \A u \in Threads : base'[u] # NIL => base'[u] \in heap'
      BY <1>1, <2>1, <2>3 DEF InFlight, TypeOK
    <3> QED
      BY <1>6, <3>1, <3>2 DEF InFlight
  <2> QED
    BY <1>7, <2>2, <2>4, <2>5, <2>6 DEF IndInv
<1>9. CASE count = 0
  <2>1. UNCHANGED ringVars /\ base' = [base EXCEPT ![t] = sendq[1].msg]
    BY <1>4, <1>9 DEF RecvFromSender
  <2>2. QSize' = QSize /\ RingTypes' /\ RingOK' /\ count' = 0
    BY <1>1, <1>9, <2>1, RingSame, TypeParts
  <2>3. TypeOK'
    <3>1. OtherTypes'
      BY <1>1, <1>2, <1>4, <1>5, <2>1 DEF TypeOK, OtherTypes
    <3> QED
      BY <2>2, <3>1 DEF TypeOK, RingTypes, OtherTypes
  <2>4. NoMissedHandoff'
    BY <1>2, <1>3, <1>9, <2>2 DEF NoMissedHandoff
  <2>5. InFlight'
    BY <1>1, <1>5, <1>6, <2>1, <2>2 DEF InFlight, TypeOK
  <2> QED
    BY <1>7, <2>2, <2>3, <2>4, <2>5 DEF IndInv
<1> QED
  BY <1>8, <1>9

\* A receive from the buffer.
LEMMA RecvFromBufferStep ==
  ASSUME IndInv, NEW t \in Threads, pc[t] = "run", heap' = heap, RecvFromBuffer(t)
  PROVE  IndInv'
<1>1. TypeOK /\ RingOK /\ NoMissedHandoff /\ Waiters /\ InFlight
  BY DEF IndInv
<1>2. /\ sendq = <<>> /\ count # 0 /\ chanl_pop_msg /\ sendq' = sendq /\ recvq' = recvq
      /\ pc' = pc /\ base' = [base EXCEPT ![t] = buf[recvx]]
  BY DEF RecvFromBuffer
<1>3. recvq = <<>> /\ count \in Nat /\ QSize > 0
  BY <1>2, Handoffs
<1>4. /\ QSize' = QSize /\ RingTypes' /\ RingOK' /\ count' = count - 1
      /\ \A i \in 0 .. count - 2 : buf'[SlotOf(i)'] = buf[SlotOf(i + 1)]
  BY <1>1, <1>2, PopFacts DEF chanl_pop_msg
<1>5. buf[recvx] \in heap /\ buf[recvx] \in Msgs
  <2>1. 0 \in 0 .. count - 1 /\ SlotOf(0) = recvx
    BY <1>1, <1>2, <1>3, SlotFacts
  <2> QED
    BY <1>1, <2>1 DEF InFlight, TypeOK
<1>6. TypeOK'
  <2>1. OtherTypes'
    BY <1>1, <1>2, <1>5 DEF TypeOK, OtherTypes
  <2> QED
    BY <1>4, <2>1 DEF TypeOK, RingTypes, OtherTypes
<1>7. NoMissedHandoff' /\ Waiters'
  BY <1>1, <1>2, <1>3 DEF NoMissedHandoff, Waiters
<1>8. InFlight'
  <2>1. \A i \in 0 .. count' - 1 : buf'[SlotOf(i)'] \in heap'
    <3> TAKE i \in 0 .. count' - 1
    <3>1. i \in 0 .. count - 2 /\ i + 1 \in 0 .. count - 1
      BY <1>3, <1>4
    <3> QED
      BY <1>1, <1>2, <1>4, <3>1 DEF InFlight
  <2>2. \A u \in Threads : base'[u] # NIL => base'[u] \in heap'
    BY <1>1, <1>2, <1>5 DEF InFlight, TypeOK
  <2> QED
    BY <1>1, <1>2, <2>1, <2>2 DEF InFlight
<1> QED
  BY <1>4, <1>6, <1>7, <1>8 DEF IndInv

\* A receive that parks.
LEMMA RecvAndParkStep ==
  ASSUME IndInv, NEW t \in Threads, pc[t] = "run", heap' = heap, RecvAndPark(t)
  PROVE  IndInv'
<1>1. TypeOK /\ RingOK /\ NoMissedHandoff /\ Waiters /\ InFlight
  BY DEF IndInv
<1>2. /\ UNCHANGED ringVars /\ sendq = <<>> /\ count = 0 /\ sendq' = sendq
      /\ recvq' = Append(recvq, t) /\ pc' = [pc EXCEPT ![t] = "parked"]
      /\ base' = [base EXCEPT ![t] = NIL]
  BY DEF RecvAndPark
<1>3. QSize' = QSize /\ RingTypes' /\ RingOK' /\ count' = 0
  BY <1>1, <1>2, RingSame, TypeParts
<1>4. TypeOK'
  <2>1. OtherTypes'
    BY <1>1, <1>2, AppendFacts DEF TypeOK, OtherTypes
  <2> QED
    BY <1>3, <2>1 DEF TypeOK, RingTypes, OtherTypes
<1>5. NoMissedHandoff'
  BY <1>2, <1>3 DEF NoMissedHandoff
<1>6. Waiters'
  BY <1>1, <1>2, ReceiverParks
<1>7. InFlight'
  BY <1>1, <1>2, <1>3 DEF InFlight, TypeOK
<1> QED
  BY <1>3, <1>4, <1>5, <1>6, <1>7 DEF IndInv

\* A thread that wakes up, one that drops what it holds, and a receive that
\* finds nothing change no queue and nothing in the ring.
LEMMA QuietStep ==
  ASSUME IndInv, NEW t \in Threads, UNCHANGED <<ringVars, sendq, recvq>>, heap' = heap,
         \/ base' = base /\ pc[t] = "signalled" /\ pc' = [pc EXCEPT ![t] = "run"]
         \/ base' = [base EXCEPT ![t] = NIL] /\ pc' = pc
  PROVE  IndInv'
<1>1. TypeOK /\ RingOK /\ NoMissedHandoff /\ Waiters /\ InFlight
  BY DEF IndInv
<1>2. /\ QSize' = QSize /\ RingTypes' /\ RingOK' /\ buf' = buf /\ count' = count
      /\ \A i \in Nat : SlotOf(i)' = SlotOf(i)
  BY <1>1, RingSame, TypeParts
<1>3. TypeOK'
  <2>1. OtherTypes'
    BY <1>1 DEF TypeOK, OtherTypes
  <2> QED
    BY <1>2, <2>1 DEF TypeOK, RingTypes, OtherTypes
<1>4. NoMissedHandoff'
  BY <1>1, <1>2 DEF NoMissedHandoff
<1>5. Waiters'
  <2>1. \A u \in Threads : pc'[u] = "parked" <=> pc[u] = "parked"
    BY <1>1 DEF TypeOK
  <2>2. \A i \in 1 .. Len(sendq) : sendq[i].thread \in Threads
    <3>1. \A i \in 1 .. Len(sendq) : sendq[i] \in Sender
      BY <1>1 DEF TypeOK
    <3> QED
      BY <3>1 DEF Sender
  <2>3. \A i \in 1 .. Len(recvq) : recvq[i] \in Threads
    BY <1>1 DEF TypeOK
  <2> QED
    BY <1>1, <2>1, <2>2, <2>3 DEF Waiters
<1>6. InFlight'
  <2>1. \A i \in 0 .. count' - 1 : buf'[SlotOf(i)'] \in heap'
    <3>1. count \in Nat /\ \A i \in 0 .. count - 1 : i \in Nat
      BY Handoffs
    <3> QED
      BY <1>1, <1>2, <3>1 DEF InFlight
  <2> QED
    BY <1>1, <2>1 DEF InFlight, TypeOK
<1> QED
  BY <1>2, <1>3, <1>4, <1>5, <1>6 DEF IndInv

-----------------------------------------------------------------------------
(* What the collector and chanl-msg->list walk over. *)

\* On a channel that is not empty the walk from recvx to sendx visits the slots
\* in use, in order and each once, whether or not the range wraps.
LEMMA WalkFacts ==
  ASSUME TypeOK, RingOK, count # 0
  PROVE  /\ WalkedSlots \in Seq(0 .. QSize - 1) /\ Len(WalkedSlots) = count
         /\ DOMAIN WalkedSlots = 1 .. count
         /\ \A i \in 1 .. count : WalkedSlots[i] = SlotOf(i - 1)
<1>1. QSize \in Nat /\ QSize > 0 /\ count \in 1 .. QSize
  BY QSizesAssumption DEF TypeOK, RingOK
<1>2. recvx \in 0 .. QSize - 1 /\ sendx \in 0 .. QSize - 1 /\ sendx = SlotOf(count)
  BY <1>1 DEF TypeOK, RingOK
<1>3. CASE recvx < sendx
  <2>1. count = sendx - recvx /\ recvx + count < QSize
    BY <1>1, <1>2, <1>3 DEF SlotOf
  <2>2. WalkedSlots = [i \in 1 .. count |-> recvx + i - 1]
    BY <1>3, <2>1 DEF WalkedSlots
  <2>3. \A i \in 1 .. count : recvx + i - 1 = SlotOf(i - 1) /\ recvx + i - 1 \in 0 .. QSize - 1
    BY <1>1, <1>2, <2>1 DEF SlotOf
  <2>4. WalkedSlots \in [1 .. count -> 0 .. QSize - 1]
    BY <2>2, <2>3
  <2> QED
    BY <1>1, <2>2, <2>3, <2>4, FunctionIsSeq
<1>4. CASE ~(recvx < sendx)
  <2> DEFINE p == [i \in 1 .. QSize - recvx |-> recvx + i - 1]
             q == [i \in 1 .. sendx |-> i - 1]
  <2>1. count = QSize - recvx + sendx
    BY <1>1, <1>2, <1>4 DEF SlotOf
  <2>2. WalkedSlots = p \o q
    BY <1>4 DEF WalkedSlots
  <2>3. p \in [1 .. QSize - recvx -> 0 .. QSize - 1] /\ QSize - recvx \in Nat
    BY <1>1, <1>2
  <2>4. q \in [1 .. sendx -> 0 .. QSize - 1] /\ sendx \in Nat
    BY <1>1, <1>2
  <2>5. p \in Seq(0 .. QSize - 1) /\ Len(p) = QSize - recvx
    BY <2>3, FunctionIsSeq
  <2>6. q \in Seq(0 .. QSize - 1) /\ Len(q) = sendx
    BY <2>4, FunctionIsSeq
  <2>7. \A i \in 1 .. QSize - recvx : p[i] = recvx + i - 1
    OBVIOUS
  <2>8. \A i \in 1 .. sendx : q[i] = i - 1
    OBVIOUS
  <2> HIDE DEF p, q
  <2>9. /\ p \o q \in Seq(0 .. QSize - 1) /\ Len(p \o q) = count
        /\ \A i \in 1 .. QSize - recvx : (p \o q)[i] = p[i]
        /\ \A i \in QSize - recvx + 1 .. count : (p \o q)[i] = q[i - (QSize - recvx)]
    BY <1>1, <2>1, <2>5, <2>6, ConcatFacts
  <2>10. ASSUME NEW i \in 1 .. count PROVE (p \o q)[i] = SlotOf(i - 1)
    <3>1. CASE i \in 1 .. QSize - recvx
      BY <1>1, <1>2, <2>7, <2>9, <3>1 DEF SlotOf
    <3>2. CASE i \in QSize - recvx + 1 .. count
      <4>1. i - (QSize - recvx) \in 1 .. sendx
        BY <1>1, <1>2, <2>1, <3>2
      <4>2. (p \o q)[i] = i - (QSize - recvx) - 1
        BY <2>8, <2>9, <3>2, <4>1
      <4> QED
        BY <1>1, <1>2, <3>2, <4>2 DEF SlotOf
    <3>3. i \in 1 .. QSize - recvx \/ i \in QSize - recvx + 1 .. count
      BY <1>1, <1>2
    <3> QED
      BY <3>1, <3>2, <3>3
  <2> QED
    BY <1>1, <2>2, <2>9, <2>10
<1> QED
  BY <1>3, <1>4

\* A collection frees nothing that is in flight.
LEMMA GCStep ==
  ASSUME IndInv, GC
  PROVE  IndInv'
<1>1. TypeOK /\ RingOK /\ NoMissedHandoff /\ Waiters /\ InFlight
  BY DEF IndInv
<1>2. /\ heap' = heap \cap (StackRoots \cup chanl_userdata_atomic)
      /\ UNCHANGED ringVars /\ sendq' = sendq /\ recvq' = recvq /\ pc' = pc
      /\ base' = base
  BY DEF GC
<1>3. /\ QSize' = QSize /\ RingTypes' /\ RingOK' /\ buf' = buf /\ count' = count
      /\ \A i \in Nat : SlotOf(i)' = SlotOf(i)
  BY <1>1, <1>2, RingSame, TypeParts
<1>4. TypeOK'
  <2>1. OtherTypes'
    BY <1>1, <1>2 DEF TypeOK, OtherTypes
  <2> QED
    BY <1>3, <2>1 DEF TypeOK, RingTypes, OtherTypes
<1>5. NoMissedHandoff' /\ Waiters'
  BY <1>1, <1>2, <1>3 DEF NoMissedHandoff, Waiters
<1>6. ASSUME NEW i \in 0 .. count - 1 PROVE buf[SlotOf(i)] \in heap'
  <2>1. count \in Nat /\ count # 0 /\ i + 1 \in 1 .. count /\ (i + 1) - 1 = i
    BY <1>6, Handoffs
  <2>2. i + 1 \in DOMAIN WalkedSlots /\ WalkedSlots[i + 1] = SlotOf(i)
    BY <1>1, <2>1, WalkFacts
  <2>3. buf[SlotOf(i)] \in heap /\ buf[SlotOf(i)] # NULL
    BY <1>1, <1>6, ValuesAssumption DEF InFlight, TypeOK
  <2>4. buf[SlotOf(i)] \in {buf[WalkedSlots[j]] : j \in DOMAIN WalkedSlots}
    BY <2>2
  <2>5. buf[SlotOf(i)] \in chanl_userdata_atomic
    BY <2>3, <2>4 DEF chanl_userdata_atomic
  <2> QED
    BY <1>2, <2>3, <2>5
<1>7. ASSUME NEW i \in 1 .. Len(sendq) PROVE sendq[i].msg \in heap'
  <2>1. sendq[i].msg \in heap /\ i \in DOMAIN sendq
    BY <1>1, <1>7 DEF InFlight, TypeOK
  <2>2. sendq[i].msg \in chanl_userdata_atomic
    BY <2>1 DEF chanl_userdata_atomic
  <2> QED
    BY <1>2, <2>1, <2>2
<1>8. ASSUME NEW t \in Threads, base[t] # NIL PROVE base[t] \in heap'
  BY <1>1, <1>2, <1>8 DEF InFlight, StackRoots
<1>9. InFlight'
  <2>1. count \in Nat /\ \A i \in 0 .. count - 1 : i \in Nat
    BY Handoffs
  <2> QED
    BY <1>2, <1>3, <1>6, <1>7, <1>8, <2>1 DEF InFlight
<1> QED
  BY <1>3, <1>4, <1>5, <1>9 DEF IndInv

-----------------------------------------------------------------------------
(* The invariant. *)

\* A channel as it is made.
LEMMA IndInit == Init => IndInv
<1> SUFFICES ASSUME Init PROVE IndInv
  OBVIOUS
<1>1. PICK n \in QSizes : buf = [i \in 0 .. n - 1 |-> NULL]
  BY DEF Init
<1>2. QSize = n /\ n \in Nat
  BY <1>1, QSizeInit
<1>3. TypeOK
  <2>1. sendq \in Seq(Sender) /\ recvq \in Seq(Threads)
    BY DEF Init
  <2> QED
    BY <1>1, <1>2, <2>1 DEF TypeOK, Init
<1>4. RingOK
  BY <1>1, <1>2 DEF RingOK, Init, SlotOf
<1>5. NoMissedHandoff /\ Waiters /\ InFlight
  BY DEF NoMissedHandoff, Waiters, InFlight, Init
<1> QED
  BY <1>3, <1>4, <1>5 DEF IndInv

\* Every step of the specification keeps the invariant.
LEMMA IndStep == IndInv /\ [Next]_vars => IndInv'
<1> SUFFICES ASSUME IndInv, [Next]_vars PROVE IndInv'
  OBVIOUS
<1>1. ASSUME NEW t \in Threads, NEW m \in Msgs, NEW kept \in {m, NIL},
             heap' = heap \cup {m}, fklChanlSend(t, m, kept)
      PROVE  IndInv'
  BY <1>1, SendToReceiverStep, SendToBufferStep, SendAndParkStep DEF fklChanlSend
<1>2. ASSUME NEW t \in Threads, builtin_send(t) PROVE IndInv'
  BY <1>1, <1>2 DEF builtin_send
<1>3. ASSUME NEW t \in Threads, ThreadResult(t) PROVE IndInv'
  BY <1>1, <1>3 DEF ThreadResult
<1>4. ASSUME NEW t \in Threads, fklChanlRecv(t) PROVE IndInv'
  BY <1>4, RecvFromSenderStep, RecvFromBufferStep, RecvAndParkStep DEF fklChanlRecv
<1>5. ASSUME NEW t \in Threads, fklChanlRecvOk(t) PROVE IndInv'
  <2>1. CASE RecvNothing(t)
    BY <1>5, <2>1, QuietStep DEF fklChanlRecvOk, RecvNothing
  <2> QED
    BY <1>5, <2>1, RecvFromSenderStep, RecvFromBufferStep DEF fklChanlRecvOk
<1>6. ASSUME NEW t \in Threads, Wake(t) PROVE IndInv'
  BY <1>6, QuietStep DEF Wake
<1>7. ASSUME NEW t \in Threads, Drop(t) PROVE IndInv'
  BY <1>7, QuietStep DEF Drop
<1>8. CASE GC
  BY <1>8, GCStep
<1>9. CASE UNCHANGED vars
  <2>1. UNCHANGED ringVars /\ UNCHANGED <<sendq, recvq, pc, base, heap>>
    BY <1>9 DEF vars, ringVars
  <2>2. /\ QSize' = QSize /\ (RingTypes => RingTypes') /\ (RingOK => RingOK')
        /\ \A i \in Nat : SlotOf(i)' = SlotOf(i)
    BY <2>1, RingSame
  <2>3. count \in Nat /\ \A i \in 0 .. count - 1 : i \in Nat
    BY Handoffs
  <2> QED
    BY <2>1, <2>2, <2>3 DEF IndInv, TypeOK, RingTypes, NoMissedHandoff, Waiters, InFlight,
                            ringVars
<1> QED
  BY <1>2, <1>3, <1>4, <1>5, <1>6, <1>7, <1>8, <1>9 DEF Next

-----------------------------------------------------------------------------
(* The theorems. *)

\* The invariant the other theorems rest on: IndInv is inductive.
THEOREM Invariance == Spec => []IndInv
BY IndInit, IndStep, PTL DEF Spec

\* Types, and the indices of the ring stay within the buffer.
THEOREM TypeCorrect == Spec => []TypeOK
<1>1. IndInv => TypeOK
  BY DEF IndInv
<1> QED
  BY Invariance, <1>1, PTL

\* No send or receive leaves a waiter behind that could go on (fklChanlSend,
\* fklChanlRecv, fklChanlRecvOk), for every capacity.
THEOREM NoHandoffMissed == Spec => []NoMissedHandoff
<1>1. IndInv => NoMissedHandoff
  BY DEF IndInv
<1> QED
  BY Invariance, <1>1, PTL

\* The threads parked in uv_cond_wait are those of ch->sendq and ch->recvq,
\* each once: no wake-up is lost and none is given twice.
THEOREM WaitersQueued == Spec => []WaitersAreQueued
<1>1. ASSUME IndInv PROVE WaitersAreQueued
  <2>1. TypeOK /\ Waiters
    BY <1>1 DEF IndInv
  <2>2. PICK n \in Nat, k \in Nat : n = Len(sendq) /\ k = Len(recvq)
    BY <2>1 DEF TypeOK
  <2>3. \A i \in 1 .. n : sendq[i] \in Sender /\ sendq[i].thread \in Threads
    <3>1. \A i \in 1 .. n : sendq[i] \in Sender
      BY <2>1, <2>2 DEF TypeOK
    <3> QED
      BY <3>1 DEF Sender
  <2>4. DOMAIN sendq = 1 .. n
    BY <2>1, <2>2 DEF TypeOK
  <2>5. SendqThreads \in [1 .. n -> Threads] /\ \A i \in 1 .. n : SendqThreads[i] = sendq[i].thread
    BY <2>3, <2>4 DEF SendqThreads
  <2>6. SendqThreads \in Seq(Threads) /\ Len(SendqThreads) = n
    BY <2>5, FunctionIsSeq
  <2> DEFINE all == SendqThreads \o recvq
  <2>7. /\ all \in Seq(Threads) /\ Len(all) = n + k
        /\ \A i \in 1 .. n : all[i] = sendq[i].thread
        /\ \A i \in n + 1 .. n + k : all[i] = recvq[i - n]
    <3>1. recvq \in Seq(Threads)
      BY <2>1 DEF TypeOK
    <3>2. /\ all \in Seq(Threads) /\ Len(all) = n + k
          /\ \A i \in 1 .. n : all[i] = SendqThreads[i]
          /\ \A i \in n + 1 .. n + k : all[i] = recvq[i - n]
      <4>1. PICK p \in Seq(Threads) : p = SendqThreads
        BY <2>6
      <4>2. PICK q \in Seq(Threads) : q = recvq
        BY <3>1
      <4>3. n = Len(p) /\ k = Len(q)
        BY <2>2, <2>6, <4>1, <4>2
      <4>4. /\ p \o q \in Seq(Threads) /\ Len(p \o q) = n + k
            /\ \A i \in 1 .. n : (p \o q)[i] = p[i]
            /\ \A i \in n + 1 .. n + k : (p \o q)[i] = q[i - n]
        BY <4>3, ConcatIs
      <4> QED
        BY <4>1, <4>2, <4>4, Zenon
    <3> QED
      BY <2>5, <3>2
  <2>8. DOMAIN all = 1 .. n + k
    BY <2>7
  <2> HIDE DEF all
  <2>9. \A i \in 1 .. n + k : i \in 1 .. n \/ (i \in n + 1 .. n + k /\ i - n \in 1 .. k)
    BY <2>2
  <2>10. n = 0 \/ k = 0
    BY <1>1, <2>2, Handoffs
  <2>11. \A i, j \in DOMAIN all : all[i] = all[j] => i = j
    <3>1. CASE k = 0
      BY <2>1, <2>2, <2>7, <2>8, <3>1 DEF Waiters
    <3>2. CASE n = 0
      BY <2>1, <2>2, <2>7, <2>8, <3>2 DEF Waiters
    <3> QED
      BY <2>10, <3>1, <3>2
  <2>12. \A i \in DOMAIN all : all[i] \in Threads /\ pc[all[i]] = "parked"
    BY <2>1, <2>2, <2>7, <2>8, <2>9 DEF Waiters
  <2>13. ASSUME NEW t \in Threads, pc[t] = "parked"
         PROVE  \E i \in DOMAIN all : all[i] = t
    <3>1. CASE \E i \in 1 .. n : sendq[i].thread = t
      BY <2>7, <2>8, <3>1
    <3>2. ASSUME NEW i \in 1 .. k, recvq[i] = t PROVE \E j \in DOMAIN all : all[j] = t
      <4>1. n + i \in n + 1 .. n + k /\ (n + i) - n = i /\ n + i \in DOMAIN all
        BY <2>8
      <4> QED
        BY <2>7, <3>2, <4>1
    <3> QED
      BY <2>1, <2>2, <2>13, <3>1, <3>2 DEF Waiters
  <2>14. {all[i] : i \in DOMAIN all} = {t \in Threads : pc[t] = "parked"}
    BY <2>12, <2>13
  <2> QED
    BY <2>11, <2>14 DEF WaitersAreQueued, all
<1>2. IndInv => WaitersAreQueued
  BY <1>1
<1> QED
  BY Invariance, <1>2, PTL

\* A collection never frees a message that is still to be received, that a
\* parked sender brings or that a thread holds (chanl_userdata_atomic).
THEOREM InFlightIsLive == Spec => []InFlightLive
<1>1. ASSUME IndInv PROVE InFlightLive
  <2>1. TypeOK /\ RingOK /\ InFlight
    BY <1>1 DEF IndInv
  <2>2. ASSUME NEW i \in DOMAIN Contents PROVE Contents[i] \in heap
    <3>1. count \in Nat /\ i \in 1 .. count /\ Contents[i] = buf[SlotOf(i - 1)]
      BY <2>1, <2>2, ContentsFacts
    <3>2. i - 1 \in 0 .. count - 1
      BY <3>1
    <3> QED
      BY <2>1, <3>1, <3>2 DEF InFlight
  <2>3. {SendqMsgs[i] : i \in DOMAIN SendqMsgs} \subseteq heap
    <3>1. DOMAIN sendq = 1 .. Len(sendq)
      BY <2>1 DEF TypeOK
    <3>2. \A i \in DOMAIN SendqMsgs : SendqMsgs[i] = sendq[i].msg /\ i \in 1 .. Len(sendq)
      BY <3>1 DEF SendqMsgs
    <3> QED
      BY <2>1, <3>2 DEF InFlight
  <2>4. StackRoots \subseteq heap
    BY <2>1 DEF StackRoots, InFlight
  <2> QED
    BY <2>2, <2>3, <2>4 DEF InFlightLive
<1>2. IndInv => InFlightLive
  BY <1>1
<1> QED
  BY Invariance, <1>2, PTL

\* chanl-msg->list of a channel that is not empty is its contents in order,
\* wherever in the ring they lie (builtin_chanl_msg_to_list).
THEOREM MsgListIsExact == Spec => []MsgListExact
<1>1. ASSUME IndInv PROVE MsgListExact
  <2> SUFFICES ASSUME count > 0 PROVE builtin_chanl_msg_to_list = Contents
    BY DEF MsgListExact
  <2>1. TypeOK /\ RingOK
    BY <1>1 DEF IndInv
  <2>2. DOMAIN WalkedSlots = 1 .. count /\ \A i \in 1 .. count : WalkedSlots[i] = SlotOf(i - 1)
    BY <2>1, WalkFacts
  <2>3. builtin_chanl_msg_to_list = [i \in 1 .. count |-> buf[SlotOf(i - 1)]]
    BY <2>2 DEF builtin_chanl_msg_to_list
  <2> QED
    BY <2>1, <2>3, ContentsFacts
<1>2. IndInv => MsgListExact
  BY <1>1
<1> QED
  BY Invariance, <1>2, PTL

-----------------------------------------------------------------------------
(* The channel implements the queue of ChanlSpec. *)

\* The abstract queue: the buffer, then the messages of the parked senders.
AbsQueue == Contents \o SendqMsgs
AbsReleased == {t \in Threads : pc[t] = "signalled"}

\* What the abstract state is, element by element.
AbsState ==
    /\ AbsQueue \in Seq(Msgs)
    /\ count \in Nat /\ Len(sendq) \in Nat
    /\ Len(AbsQueue) = count + Len(sendq)
    /\ \A i \in 1 .. count : AbsQueue[i] = buf[SlotOf(i - 1)]
    /\ \A i \in 1 .. Len(sendq) : AbsQueue[count + i] = sendq[i].msg
    /\ SendqThreads \in Seq(Threads) /\ Len(SendqThreads) = Len(sendq)
    /\ \A i \in 1 .. Len(sendq) : SendqThreads[i] = sendq[i].thread

\* The abstract state of a channel that satisfies the invariant.
LEMMA AbsStateIs == IndInv => AbsState
<1> SUFFICES ASSUME IndInv PROVE AbsState
  OBVIOUS
<1>1. TypeOK /\ RingOK /\ InFlight
  BY DEF IndInv
<1>2. PICK n \in Nat : n = Len(sendq)
  BY <1>1 DEF TypeOK
<1>3. \A i \in 1 .. n : sendq[i].thread \in Threads /\ sendq[i].msg \in Msgs
  <2>1. \A i \in 1 .. n : sendq[i] \in Sender
    BY <1>1, <1>2 DEF TypeOK
  <2> QED
    BY <2>1 DEF Sender
<1>4. DOMAIN sendq = 1 .. n
  BY <1>1, <1>2 DEF TypeOK
<1>5. /\ SendqThreads \in [1 .. n -> Threads] /\ SendqMsgs \in [1 .. n -> Msgs]
      /\ \A i \in 1 .. n : SendqThreads[i] = sendq[i].thread /\ SendqMsgs[i] = sendq[i].msg
  BY <1>3, <1>4 DEF SendqThreads, SendqMsgs
<1>6. /\ SendqThreads \in Seq(Threads) /\ Len(SendqThreads) = n
      /\ SendqMsgs \in Seq(Msgs) /\ Len(SendqMsgs) = n
  BY <1>5, FunctionIsSeq
<1>7. count \in Nat /\ Contents = [i \in 1 .. count |-> buf[SlotOf(i - 1)]]
  BY <1>1, ContentsFacts
<1>8. \A i \in 1 .. count : buf[SlotOf(i - 1)] \in Msgs
  <2> TAKE i \in 1 .. count
  <2>1. i - 1 \in 0 .. count - 1
    BY <1>7
  <2> QED
    BY <1>1, <2>1 DEF InFlight, TypeOK
<1>9. /\ Contents \in Seq(Msgs) /\ Len(Contents) = count
      /\ \A i \in 1 .. count : Contents[i] = buf[SlotOf(i - 1)]
  <2>1. Contents \in [1 .. count -> Msgs]
    BY <1>7, <1>8
  <2> QED
    BY <1>7, <2>1, FunctionIsSeq
<1>10. /\ AbsQueue \in Seq(Msgs) /\ Len(AbsQueue) = count + n
       /\ \A i \in 1 .. count : AbsQueue[i] = Contents[i]
       /\ \A i \in count + 1 .. count + n : AbsQueue[i] = SendqMsgs[i - count]
  <2>1. PICK p \in Seq(Msgs) : p = Contents
    BY <1>9
  <2>2. PICK q \in Seq(Msgs) : q = SendqMsgs
    BY <1>6
  <2>3. count = Len(p) /\ n = Len(q)
    BY <1>6, <1>9, <2>1, <2>2
  <2>4. /\ p \o q \in Seq(Msgs) /\ Len(p \o q) = count + n
        /\ \A i \in 1 .. count : (p \o q)[i] = p[i]
        /\ \A i \in count + 1 .. count + n : (p \o q)[i] = q[i - count]
    BY <1>7, <2>3, ConcatIs
  <2> QED
    BY <2>1, <2>2, <2>4, Zenon DEF AbsQueue
<1>11. \A i \in 1 .. n : AbsQueue[count + i] = sendq[i].msg
  <2> TAKE i \in 1 .. n
  <2>1. count + i \in count + 1 .. count + n /\ (count + i) - count = i
    BY <1>7
  <2> QED
    BY <1>5, <1>10, <2>1
<1> QED
  BY <1>2, <1>5, <1>6, <1>7, <1>9, <1>10, <1>11 DEF AbsState

\* A thread that runs is idle for the abstract channel.
LEMMA RunIsIdle ==
  ASSUME IndInv, NEW t \in Threads, pc[t] = "run"
  PROVE  Queue!Idle(t)
<1>1. AbsState /\ TypeOK /\ Waiters
  BY AbsStateIs DEF IndInv
<1>2. \A i \in DOMAIN SendqThreads : SendqThreads[i] # t
  BY <1>1 DEF AbsState, Waiters
<1>3. \A i \in DOMAIN recvq : recvq[i] # t
  BY <1>1 DEF TypeOK, Waiters
<1> QED
  BY <1>2, <1>3 DEF Queue!Idle

\* The initial states are initial states of the queue.
LEMMA RefInit == Init => Queue!Init
<1> SUFFICES ASSUME Init PROVE Queue!Init
  OBVIOUS
<1>1. IndInv /\ AbsState
  BY IndInit, AbsStateIs
<1>2. QSize \in QSizes
  BY <1>1 DEF IndInv, RingOK
<1>3. AbsQueue = <<>> /\ SendqThreads = <<>>
  <2>1. Len(sendq) = 0 /\ count = 0
    BY DEF Init
  <2> QED
    BY <1>1, <2>1 DEF AbsState
<1>4. AbsReleased = {}
  BY DEF Init, AbsReleased
<1> QED
  BY <1>2, <1>3, <1>4 DEF Queue!Init, Init, AbsQueue, AbsReleased

\* A step that leaves the ring and the senders alone leaves the queue alone.
LEMMA AbsSame ==
  ASSUME UNCHANGED ringVars, sendq' = sendq
  PROVE  AbsQueue' = AbsQueue /\ SendqThreads' = SendqThreads /\ QSize' = QSize
<1>1. QSize' = QSize
  BY RingSame
<1> QED
  BY <1>1 DEF AbsQueue, Contents, SendqMsgs, SendqThreads, ringVars

\* The abstract state after a step that keeps the invariant.
LEMMA AbsStateNext == IndInv' => AbsState'
BY AbsStateIs, PTL

\* A message at the end of the queue.
LEMMA QueueGrows ==
  ASSUME AbsState, AbsState', NEW m \in Msgs, NEW l \in Nat, l = Len(AbsQueue),
         Len(AbsQueue') = l + 1, AbsQueue'[l + 1] = m,
         \A i \in 1 .. l : AbsQueue'[i] = AbsQueue[i]
  PROVE  AbsQueue' = Append(AbsQueue, m)
<1>1. PICK q \in Seq(Msgs) : q = AbsQueue
  BY DEF AbsState
<1>2. PICK r \in Seq(Msgs) : r = AbsQueue'
  BY DEF AbsState
<1>3. r = Append(q, m)
  <2>1. l = Len(q) /\ Len(r) = l + 1 /\ r[l + 1] = m /\ \A i \in 1 .. l : r[i] = q[i]
    BY <1>1, <1>2
  <2> HIDE <1>1, <1>2
  <2>2. \A i \in 1 .. l + 1 : i = l + 1 \/ i \in 1 .. l
    OBVIOUS
  <2>3. /\ Append(q, m) \in Seq(Msgs) /\ Len(Append(q, m)) = l + 1
        /\ Append(q, m)[l + 1] = m /\ \A i \in 1 .. l : Append(q, m)[i] = q[i]
    BY <2>1, AppendFacts
  <2>4. Len(r) = Len(Append(q, m)) /\ \A i \in 1 .. Len(r) : r[i] = Append(q, m)[i]
    BY <2>1, <2>2, <2>3
  <2> QED
    BY <2>3, <2>4, SameElements
<1> QED
  BY <1>1, <1>2, <1>3

\* The message at the head of the queue is taken off.
LEMMA QueueShrinks ==
  ASSUME AbsState, AbsState', NEW l \in Nat, l >= 1, l = Len(AbsQueue),
         Len(AbsQueue') = l - 1,
         \A i \in 1 .. l - 1 : AbsQueue'[i] = AbsQueue[i + 1]
  PROVE  /\ AbsQueue # <<>> /\ Head(AbsQueue) = AbsQueue[1]
         /\ AbsQueue' = Tail(AbsQueue)
<1>1. PICK q \in Seq(Msgs) : q = AbsQueue
  BY DEF AbsState
<1>2. PICK r \in Seq(Msgs) : r = AbsQueue'
  BY DEF AbsState
<1>3. q # <<>> /\ Head(q) = q[1] /\ r = Tail(q)
  <2>1. l = Len(q) /\ Len(r) = l - 1 /\ \A i \in 1 .. l - 1 : r[i] = q[i + 1]
    BY <1>1, <1>2
  <2> HIDE <1>1, <1>2
  <2>2. q # <<>>
    BY <2>1
  <2>3. /\ Tail(q) \in Seq(Msgs) /\ Len(Tail(q)) = l - 1 /\ Head(q) = q[1]
        /\ \A i \in 1 .. l - 1 : Tail(q)[i] = q[i + 1]
    BY <2>1, <2>2, TailFacts
  <2>4. Len(r) = Len(Tail(q)) /\ \A i \in 1 .. Len(r) : r[i] = Tail(q)[i]
    BY <2>1, <2>3
  <2> QED
    BY <2>2, <2>3, <2>4, SameElements
<1> QED
  BY <1>1, <1>2, <1>3

\* A parked sender is a blocked sender of the queue.
LEMMA SenderBlocks ==
  ASSUME TypeOK, AbsState, AbsState', NEW t \in Threads, NEW m \in Msgs,
         sendq' = Append(sendq, [thread |-> t, msg |-> m])
  PROVE  /\ Len(sendq') = Len(sendq) + 1 /\ sendq'[Len(sendq) + 1].msg = m
         /\ \A i \in 1 .. Len(sendq) : sendq'[i] = sendq[i]
         /\ SendqThreads' = Append(SendqThreads, t)
<1>1. PICK n \in Nat : n = Len(sendq)
  BY DEF AbsState
<1>2. /\ Len(sendq') = n + 1 /\ sendq'[n + 1] = [thread |-> t, msg |-> m]
      /\ \A i \in 1 .. n : sendq'[i] = sendq[i]
  <2>1. sendq \in Seq(Sender) /\ [thread |-> t, msg |-> m] \in Sender
    BY DEF TypeOK, Sender
  <2> QED
    BY <1>1, <2>1, AppendFacts
<1>3. PICK q \in Seq(Threads) : q = SendqThreads
  BY DEF AbsState
<1>4. PICK r \in Seq(Threads) : r = SendqThreads'
  BY DEF AbsState
<1>5. r = Append(q, t)
  <2>1. n = Len(q) /\ Len(r) = n + 1
    BY <1>1, <1>2, <1>3, <1>4 DEF AbsState
  <2>2. r[n + 1] = t
    BY <1>1, <1>2, <1>4 DEF AbsState
  <2>3. \A i \in 1 .. n : r[i] = q[i]
    <3> TAKE i \in 1 .. n
    <3>1. r[i] = sendq'[i].thread
      BY <1>2, <1>4 DEF AbsState
    <3>2. q[i] = sendq[i].thread
      BY <1>1, <1>3 DEF AbsState
    <3> QED
      BY <1>2, <3>1, <3>2
  <2> HIDE <1>1, <1>2, <1>3, <1>4
  <2>4. /\ Append(q, t) \in Seq(Threads) /\ Len(Append(q, t)) = n + 1
        /\ Append(q, t)[n + 1] = t /\ \A i \in 1 .. n : Append(q, t)[i] = q[i]
    BY <2>1, AppendFacts
  <2>5. \A i \in 1 .. n + 1 : i = n + 1 \/ i \in 1 .. n
    OBVIOUS
  <2>6. Len(r) = Len(Append(q, t)) /\ \A i \in 1 .. Len(r) : r[i] = Append(q, t)[i]
    BY <2>1, <2>2, <2>3, <2>4, <2>5
  <2> QED
    BY <2>4, <2>6, SameElements
<1>6. SendqThreads' = Append(SendqThreads, t)
  BY <1>3, <1>4, <1>5
<1> QED
  BY <1>1, <1>2, <1>6

\* A released sender is no longer blocked.
LEMMA SenderUnblocks ==
  ASSUME TypeOK, AbsState, AbsState', sendq # <<>>, sendq' = Tail(sendq)
  PROVE  /\ Len(sendq) >= 1 /\ Len(sendq') = Len(sendq) - 1
         /\ Head(sendq) = sendq[1] /\ sendq[1].msg \in Msgs
         /\ \A i \in 1 .. Len(sendq) - 1 : sendq'[i] = sendq[i + 1]
         /\ SendqThreads # <<>> /\ Head(SendqThreads) = sendq[1].thread
         /\ SendqThreads' = Tail(SendqThreads)
<1>1. PICK n \in Nat : n = Len(sendq)
  BY DEF AbsState
<1>2. /\ n >= 1 /\ Len(sendq') = n - 1 /\ Head(sendq) = sendq[1]
      /\ \A i \in 1 .. n - 1 : sendq'[i] = sendq[i + 1]
  BY <1>1, TailFacts DEF TypeOK
<1>3. sendq[1].msg \in Msgs
  <2>1. sendq[1] \in Sender
    BY <1>1, <1>2 DEF TypeOK
  <2> QED
    BY <2>1 DEF Sender
<1>4. PICK q \in Seq(Threads) : q = SendqThreads
  BY DEF AbsState
<1>5. PICK r \in Seq(Threads) : r = SendqThreads'
  BY DEF AbsState
<1>6. q # <<>> /\ Head(q) = q[1] /\ r = Tail(q)
  <2>1. n = Len(q) /\ Len(r) = n - 1
    BY <1>1, <1>2, <1>4, <1>5 DEF AbsState
  <2>2. \A i \in 1 .. n - 1 : r[i] = q[i + 1]
    <3> TAKE i \in 1 .. n - 1
    <3>1. r[i] = sendq'[i].thread
      BY <1>2, <1>5 DEF AbsState
    <3>2. q[i + 1] = sendq[i + 1].thread
      <4>1. i + 1 \in 1 .. Len(sendq)
        BY <1>1
      <4> QED
        BY <1>4, <4>1 DEF AbsState
    <3> QED
      BY <1>2, <3>1, <3>2
  <2>3. n >= 1
    BY <1>2
  <2> HIDE <1>1, <1>2, <1>3, <1>4, <1>5
  <2>4. q # <<>>
    BY <2>1, <2>3
  <2>5. /\ Tail(q) \in Seq(Threads) /\ Len(Tail(q)) = n - 1 /\ Head(q) = q[1]
        /\ \A i \in 1 .. n - 1 : Tail(q)[i] = q[i + 1]
    BY <2>1, <2>4, TailFacts
  <2>6. Len(r) = Len(Tail(q)) /\ \A i \in 1 .. Len(r) : r[i] = Tail(q)[i]
    BY <2>1, <2>2, <2>5
  <2> QED
    BY <2>4, <2>5, <2>6, SameElements
<1>7. /\ SendqThreads # <<>> /\ Head(SendqThreads) = SendqThreads[1]
      /\ SendqThreads' = Tail(SendqThreads)
  BY <1>4, <1>5, <1>6
<1>8. SendqThreads[1] = sendq[1].thread
  BY <1>1, <1>2 DEF AbsState
<1> QED
  BY <1>1, <1>2, <1>3, <1>7, <1>8

\* What the queue sees of a thread that parks, is signalled or runs again.
LEMMA ReleasedFacts ==
  ASSUME TypeOK, NEW u \in Threads, NEW s \in {"run", "parked", "signalled"},
         pc' = [pc EXCEPT ![u] = s]
  PROVE  /\ s = "signalled" => AbsReleased' = AbsReleased \cup {u}
         /\ s = "run" => AbsReleased' = AbsReleased \ {u}
         /\ s = "parked" /\ pc[u] = "run" => AbsReleased' = AbsReleased
<1>1. \A v \in Threads : pc'[v] = IF v = u THEN s ELSE pc[v]
  BY DEF TypeOK
<1> QED
  BY <1>1 DEF AbsReleased

\* A send is a send of the queue.
LEMMA RefSend ==
  ASSUME IndInv, IndInv', NEW t \in Threads, NEW m \in Msgs,
         NEW kept \in Msgs \cup {NIL}, fklChanlSend(t, m, kept)
  PROVE  QSize' = QSize /\ Queue!Send(t, m, kept)
<1>1. TypeOK /\ RingOK /\ NoMissedHandoff /\ AbsState /\ AbsState' /\ pc[t] = "run"
  BY AbsStateIs, AbsStateNext DEF IndInv, fklChanlSend
<1>2. Queue!Idle(t)
  BY <1>1, RunIsIdle
<1>3. count \in Nat /\ Len(sendq) \in Nat /\ QSize \in Nat /\ count <= QSize
  BY <1>1, QSizesAssumption DEF AbsState, TypeOK, RingOK
<1>4. CASE SendToReceiver(t, m, kept)
  <2>1. /\ recvq # <<>> /\ base' = [base EXCEPT ![Head(recvq)] = m, ![t] = kept]
        /\ pc' = [pc EXCEPT ![Head(recvq)] = "signalled"]
        /\ recvq' = Tail(recvq) /\ UNCHANGED ringVars /\ sendq' = sendq
    BY <1>4 DEF SendToReceiver
  <2>2. AbsQueue' = AbsQueue /\ SendqThreads' = SendqThreads /\ QSize' = QSize
    BY <2>1, AbsSame
  <2>3. Head(recvq) \in Threads
    BY <1>1, <2>1, TailFacts DEF TypeOK
  <2>4. AbsReleased' = AbsReleased \cup {Head(recvq)}
    BY <1>1, <2>1, <2>3, ReleasedFacts
  <2> QED
    BY <1>2, <2>1, <2>2, <2>4 DEF Queue!Send, AbsQueue, AbsReleased
<1>5. CASE SendToBuffer(t, m, kept)
  <2>1. /\ recvq = <<>> /\ count < QSize /\ chanl_push_msg(m) /\ sendq' = sendq
        /\ base' = [base EXCEPT ![t] = kept] /\ recvq' = recvq /\ pc' = pc
    BY <1>5 DEF SendToBuffer
  <2>2. sendq = <<>> /\ Len(sendq) = 0 /\ count' = count + 1
    BY <1>1, <1>3, <2>1 DEF NoMissedHandoff, chanl_push_msg
  <2>3. /\ QSize' = QSize
        /\ \A i \in 0 .. count - 1 : buf'[SlotOf(i)'] = buf[SlotOf(i)]
        /\ \A i \in Nat : i = count => buf'[SlotOf(i)'] = m
    BY <1>1, <2>1, PushFacts
  <2>4. Len(AbsQueue) = count /\ Len(AbsQueue') = count + 1
    BY <1>1, <1>3, <2>1, <2>2 DEF AbsState
  <2>5. \A i \in 1 .. count + 1 : AbsQueue'[i] = buf'[SlotOf(i - 1)']
    BY <1>1, <2>2 DEF AbsState
  <2>6. AbsQueue'[count + 1] = m
    <3>1. PICK j \in Nat : j = count + 1 /\ j - 1 = count /\ j - 1 \in Nat /\ j \in 1 .. count + 1
      BY <1>3
    <3>2. buf'[SlotOf(j - 1)'] = m
      BY <2>3, <3>1
    <3> QED
      BY <2>5, <3>1, <3>2
  <2>7. ASSUME NEW i \in 1 .. count PROVE AbsQueue'[i] = AbsQueue[i]
    <3>1. i - 1 \in 0 .. count - 1 /\ i \in 1 .. count + 1
      BY <1>3
    <3>2. buf'[SlotOf(i - 1)'] = buf[SlotOf(i - 1)]
      BY <2>3, <3>1
    <3>3. AbsQueue[i] = buf[SlotOf(i - 1)]
      BY <1>1 DEF AbsState
    <3> QED
      BY <2>5, <3>1, <3>2, <3>3
  <2>8. AbsQueue' = Append(AbsQueue, m)
    BY <1>1, <1>3, <2>4, <2>6, <2>7, QueueGrows
  <2>9. SendqThreads' = SendqThreads /\ AbsReleased' = AbsReleased
    BY <2>1 DEF SendqThreads, AbsReleased
  <2>10. ~ (Len(AbsQueue) >= QSize)
    BY <1>3, <2>1, <2>4
  <2> QED
    BY <1>2, <2>1, <2>3, <2>8, <2>9, <2>10 DEF Queue!Send, AbsQueue, AbsReleased
<1>6. CASE SendAndPark(t, m, kept)
  <2>1. /\ recvq = <<>> /\ count >= QSize
        /\ sendq' = Append(sendq, [thread |-> t, msg |-> m])
        /\ base' = [base EXCEPT ![t] = kept] /\ recvq' = recvq
        /\ pc' = [pc EXCEPT ![t] = "parked"] /\ UNCHANGED ringVars
    BY <1>6 DEF SendAndPark
  <2>2. /\ QSize' = QSize /\ buf' = buf /\ count' = count
        /\ \A i \in Nat : SlotOf(i)' = SlotOf(i)
    BY <2>1, RingSame
  <2>3. /\ Len(sendq') = Len(sendq) + 1 /\ sendq'[Len(sendq) + 1].msg = m
        /\ \A i \in 1 .. Len(sendq) : sendq'[i] = sendq[i]
        /\ SendqThreads' = Append(SendqThreads, t)
    BY <1>1, <2>1, SenderBlocks
  <2>4. PICK l \in Nat : l = count + Len(sendq)
    BY <1>3
  <2>5. Len(AbsQueue) = l /\ Len(AbsQueue') = l + 1
    BY <1>1, <1>3, <2>2, <2>3, <2>4 DEF AbsState
  <2>6. AbsQueue'[l + 1] = m
    <3>1. Len(sendq) + 1 \in 1 .. Len(sendq') /\ l + 1 = count + (Len(sendq) + 1)
      BY <1>3, <2>3, <2>4
    <3> QED
      BY <1>1, <2>2, <2>3, <3>1 DEF AbsState
  <2>7. ASSUME NEW i \in 1 .. l PROVE AbsQueue'[i] = AbsQueue[i]
    <3>1. CASE i \in 1 .. count
      <4>1. SlotOf(i - 1)' = SlotOf(i - 1)
        BY <1>3, <2>2, <3>1
      <4> QED
        BY <1>1, <2>2, <3>1, <4>1 DEF AbsState
    <3>2. CASE i \in count + 1 .. l
      <4>1. PICK j \in 1 .. Len(sendq) : i = count + j /\ j \in 1 .. Len(sendq')
        <5>1. i - count \in 1 .. Len(sendq) /\ i = count + (i - count) /\ i - count \in 1 .. Len(sendq')
          BY <1>3, <2>3, <2>4, <3>2
        <5> QED
          BY <5>1
      <4> QED
        BY <1>1, <2>2, <2>3, <4>1 DEF AbsState
    <3> QED
      BY <1>3, <3>1, <3>2
  <2>8. AbsQueue' = Append(AbsQueue, m)
    BY <1>1, <2>5, <2>6, <2>7, QueueGrows
  <2>9. AbsReleased' = AbsReleased
    BY <1>1, <2>1, ReleasedFacts
  <2>10. Len(AbsQueue) >= QSize
    BY <1>3, <2>1, <2>4, <2>5
  <2> QED
    BY <1>2, <2>1, <2>2, <2>3, <2>8, <2>9, <2>10 DEF Queue!Send, AbsQueue, AbsReleased
<1> QED
  BY <1>4, <1>5, <1>6 DEF fklChanlSend

\* A receive that gets a message is a receive of the queue.
LEMMA RefReceive ==
  ASSUME IndInv, IndInv', NEW t \in Threads, pc[t] = "run",
         RecvFromSender(t) \/ RecvFromBuffer(t)
  PROVE  QSize' = QSize /\ Queue!Receive(t)
<1>1. TypeOK /\ RingOK /\ NoMissedHandoff /\ AbsState /\ AbsState'
  BY AbsStateIs, AbsStateNext DEF IndInv
<1>2. Queue!Idle(t)
  BY RunIsIdle
<1>3. PICK n \in Nat : n = Len(sendq)
  BY <1>1 DEF AbsState
<1>4. /\ count \in Nat /\ QSize \in Nat /\ count <= QSize
      /\ QSize > 0 => SlotOf(0) = recvx
  BY <1>1, QSizesAssumption, SlotFacts DEF TypeOK, RingOK
<1>5. CASE RecvFromSender(t)
  <2>1. /\ sendq # <<>> /\ pc' = [pc EXCEPT ![Head(sendq).thread] = "signalled"]
        /\ sendq' = Tail(sendq) /\ recvq' = recvq
    BY <1>5 DEF RecvFromSender
  <2>2. /\ n >= 1 /\ Len(sendq') = n - 1 /\ Head(sendq) = sendq[1]
        /\ sendq[1].msg \in Msgs /\ sendq[1].thread \in Threads
        /\ \A i \in 1 .. n - 1 : sendq'[i] = sendq[i + 1]
        /\ SendqThreads # <<>> /\ Head(SendqThreads) = sendq[1].thread
        /\ SendqThreads' = Tail(SendqThreads)
    <3>1. SendqThreads \in Seq(Threads) /\ SendqThreads # <<>>
             => Head(SendqThreads) \in Threads
      BY TailFacts
    <3> QED
      BY <1>1, <1>3, <2>1, <3>1, SenderUnblocks DEF AbsState
  <2>3. AbsReleased' = AbsReleased \cup {Head(SendqThreads)}
    BY <1>1, <2>1, <2>2, ReleasedFacts
  <2>4. count = QSize
    BY <1>1, <2>1 DEF NoMissedHandoff
  <2>5. PICK l \in Nat : l = count + n /\ l >= 1 /\ l - 1 = count + (n - 1)
    BY <1>3, <1>4, <2>2
  <2>6. /\ Len(AbsQueue) = l
        /\ \A i \in 1 .. count : AbsQueue[i] = buf[SlotOf(i - 1)]
        /\ \A i \in 1 .. n : AbsQueue[count + i] = sendq[i].msg
    BY <1>1, <1>3, <2>5 DEF AbsState
  <2>7. /\ QSize' = QSize /\ count' = count
        /\ base' = [base EXCEPT ![t] = AbsQueue[1]]
        /\ \A i \in 1 .. count : AbsQueue'[i] = AbsQueue[i + 1]
    <3>1. CASE count # 0
      <4>1. /\ base' = [base EXCEPT ![t] = buf[recvx]]
            /\ chanl_pop_push_msg(sendq[1].msg)
        BY <1>5, <2>2, <3>1 DEF RecvFromSender
      <4>2. /\ QSize' = QSize /\ count' = count
            /\ \A i \in 0 .. count - 2 : buf'[SlotOf(i)'] = buf[SlotOf(i + 1)]
            /\ \A i \in Nat : i + 1 = count => buf'[SlotOf(i)'] = sendq[1].msg
        BY <1>1, <2>2, <2>4, <3>1, <4>1, PopPushFacts
      <4>3. AbsQueue[1] = buf[recvx]
        <5>1. 1 \in 1 .. count /\ 1 - 1 = 0 /\ QSize > 0
          BY <1>4, <2>4, <3>1
        <5>2. AbsQueue[1] = buf[SlotOf(0)]
          BY <2>6, <5>1
        <5> QED
          BY <1>4, <5>1, <5>2
      <4>4. ASSUME NEW i \in 1 .. count PROVE AbsQueue'[i] = AbsQueue[i + 1]
        <5>1. AbsQueue'[i] = buf'[SlotOf(i - 1)']
          BY <1>1, <4>2 DEF AbsState
        <5>2. CASE i < count
          <6>1. i - 1 \in 0 .. count - 2 /\ (i - 1) + 1 = i /\ i + 1 \in 1 .. count /\ (i + 1) - 1 = i
            BY <1>4, <5>2
          <6>2. buf'[SlotOf(i - 1)'] = buf[SlotOf(i)]
            BY <4>2, <6>1
          <6>3. AbsQueue[i + 1] = buf[SlotOf(i)]
            BY <2>6, <6>1
          <6> QED
            BY <5>1, <6>2, <6>3
        <5>3. CASE i = count
          <6>1. i - 1 \in Nat /\ (i - 1) + 1 = count /\ 1 \in 1 .. n
            BY <1>4, <2>2, <5>3
          <6>2. buf'[SlotOf(i - 1)'] = sendq[1].msg
            BY <4>2, <6>1
          <6>3. AbsQueue[i + 1] = sendq[1].msg
            BY <2>6, <5>3, <6>1
          <6> QED
            BY <5>1, <6>2, <6>3
        <5> QED
          BY <1>4, <5>2, <5>3
      <4> QED
        BY <4>1, <4>2, <4>3, <4>4
    <3>2. CASE count = 0
      <4>1. base' = [base EXCEPT ![t] = sendq[1].msg] /\ UNCHANGED ringVars
        BY <1>5, <2>2, <3>2 DEF RecvFromSender
      <4>2. QSize' = QSize /\ count' = count
        BY <4>1, RingSame
      <4>3. AbsQueue[1] = sendq[1].msg
        <5>1. 1 \in 1 .. n /\ count + 1 = 1
          BY <2>2, <3>2
        <5> QED
          BY <2>6, <5>1
      <4> QED
        BY <3>2, <4>1, <4>2, <4>3
    <3> QED
      BY <3>1, <3>2
  <2>8. Len(AbsQueue') = l - 1
    BY <1>1, <2>2, <2>5, <2>7 DEF AbsState
  <2>9. ASSUME NEW i \in 1 .. l - 1 PROVE AbsQueue'[i] = AbsQueue[i + 1]
    <3>1. CASE i \in 1 .. count
      BY <2>7, <3>1
    <3>2. CASE i \in count + 1 .. l - 1
      <4>1. PICK j \in 1 .. n - 1 : i = count + j
        <5>1. i - count \in 1 .. n - 1 /\ i = count + (i - count)
          BY <1>4, <2>2, <2>5, <3>2
        <5> QED
          BY <5>1
      <4>2. j + 1 \in 1 .. n /\ i + 1 = count + (j + 1)
        <5>1. count \in Nat /\ j \in Nat /\ j >= 1 /\ j <= n - 1
          BY <1>4
        <5> QED
          BY <4>1, <5>1
      <4>3. AbsQueue'[i] = sendq'[j].msg
        BY <1>1, <2>2, <2>7, <4>1 DEF AbsState
      <4>4. AbsQueue[i + 1] = sendq[j + 1].msg
        BY <2>6, <4>2
      <4> QED
        BY <2>2, <4>3, <4>4
    <3> QED
      BY <1>4, <3>1, <3>2
  <2>10. AbsQueue # <<>> /\ Head(AbsQueue) = AbsQueue[1] /\ AbsQueue' = Tail(AbsQueue)
    BY <1>1, <2>5, <2>6, <2>8, <2>9, QueueShrinks
  <2> QED
    BY <1>2, <2>1, <2>2, <2>3, <2>7, <2>10 DEF Queue!Receive, AbsQueue, AbsReleased
<1>6. CASE RecvFromBuffer(t)
  <2>1. /\ sendq = <<>> /\ count # 0 /\ base' = [base EXCEPT ![t] = buf[recvx]]
        /\ chanl_pop_msg /\ sendq' = sendq /\ recvq' = recvq /\ pc' = pc
    BY <1>6 DEF RecvFromBuffer
  <2>2. Len(sendq) = 0 /\ count' = count - 1 /\ count >= 1
    BY <1>4, <2>1 DEF chanl_pop_msg
  <2>3. /\ QSize' = QSize
        /\ \A i \in 0 .. count - 2 : buf'[SlotOf(i)'] = buf[SlotOf(i + 1)]
    BY <1>1, <2>1, PopFacts
  <2>4. Len(AbsQueue) = count /\ Len(AbsQueue') = count - 1
    BY <1>1, <1>4, <2>1, <2>2 DEF AbsState
  <2>5. \A i \in 1 .. count : AbsQueue[i] = buf[SlotOf(i - 1)]
    BY <1>1 DEF AbsState
  <2>6. AbsQueue[1] = buf[recvx]
    <3>1. 1 \in 1 .. count /\ 1 - 1 = 0 /\ QSize > 0
      BY <1>4, <2>2
    <3>2. AbsQueue[1] = buf[SlotOf(0)]
      BY <2>5, <3>1
    <3> QED
      BY <1>4, <3>1, <3>2
  <2>7. ASSUME NEW i \in 1 .. count - 1 PROVE AbsQueue'[i] = AbsQueue[i + 1]
    <3>1. i - 1 \in 0 .. count - 2 /\ (i - 1) + 1 = i /\ i + 1 \in 1 .. count /\ (i + 1) - 1 = i
      BY <1>4
    <3>2. AbsQueue'[i] = buf'[SlotOf(i - 1)']
      BY <1>1, <2>2 DEF AbsState
    <3>3. buf'[SlotOf(i - 1)'] = buf[SlotOf(i)]
      BY <2>3, <3>1
    <3>4. AbsQueue[i + 1] = buf[SlotOf(i)]
      BY <2>5, <3>1
    <3> QED
      BY <3>2, <3>3, <3>4
  <2>8. AbsQueue # <<>> /\ Head(AbsQueue) = AbsQueue[1] /\ AbsQueue' = Tail(AbsQueue)
    BY <1>1, <1>4, <2>2, <2>4, <2>7, QueueShrinks
  <2>9. SendqThreads' = SendqThreads /\ SendqThreads = <<>> /\ AbsReleased' = AbsReleased
    BY <1>1, <2>1, <2>2 DEF SendqThreads, AbsReleased, AbsState
  <2> QED
    BY <1>2, <2>1, <2>3, <2>6, <2>8, <2>9 DEF Queue!Receive, AbsQueue, AbsReleased
<1> QED
  BY <1>5, <1>6

\* The steps that leave the queue of messages alone.
LEMMA RefQuiet ==
  ASSUME IndInv, IndInv', NEW t \in Threads
  PROVE  /\ RecvAndPark(t) /\ pc[t] = "run" => QSize' = QSize /\ Queue!Wait(t)
         /\ RecvNothing(t) /\ pc[t] = "run" => QSize' = QSize /\ Queue!Discard(t)
         /\ Drop(t) => QSize' = QSize /\ Queue!Discard(t)
         /\ Wake(t) => QSize' = QSize /\ Queue!Return(t)
<1>1. TypeOK /\ AbsState
  BY AbsStateIs DEF IndInv
<1>2. ASSUME RecvAndPark(t), pc[t] = "run" PROVE QSize' = QSize /\ Queue!Wait(t)
  <2>1. /\ sendq = <<>> /\ count = 0 /\ recvq' = Append(recvq, t)
        /\ pc' = [pc EXCEPT ![t] = "parked"] /\ base' = [base EXCEPT ![t] = NIL]
        /\ UNCHANGED ringVars /\ sendq' = sendq
    BY <1>2 DEF RecvAndPark
  <2>2. AbsQueue' = AbsQueue /\ SendqThreads' = SendqThreads /\ QSize' = QSize
    BY <2>1, AbsSame
  <2>3. AbsQueue = <<>>
    <3>1. Len(sendq) = 0
      BY <2>1
    <3> QED
      BY <1>1, <2>1, <3>1 DEF AbsState
  <2>4. AbsReleased' = AbsReleased
    BY <1>1, <1>2, <2>1, ReleasedFacts
  <2>5. Queue!Idle(t)
    BY <1>2, RunIsIdle
  <2> QED
    BY <2>1, <2>2, <2>3, <2>4, <2>5 DEF Queue!Wait, AbsQueue, AbsReleased
<1>3. ASSUME pc[t] = "run", UNCHANGED ringVars, base' = [base EXCEPT ![t] = NIL],
             UNCHANGED <<sendq, recvq, pc>>
      PROVE  QSize' = QSize /\ Queue!Discard(t)
  <2>1. AbsQueue' = AbsQueue /\ SendqThreads' = SendqThreads /\ QSize' = QSize
    BY <1>3, AbsSame
  <2>2. AbsReleased' = AbsReleased
    BY <1>3 DEF AbsReleased
  <2>3. Queue!Idle(t)
    BY <1>3, RunIsIdle
  <2> QED
    BY <1>3, <2>1, <2>2, <2>3 DEF Queue!Discard, AbsQueue, AbsReleased
<1>4. ASSUME Wake(t) PROVE QSize' = QSize /\ Queue!Return(t)
  <2>1. /\ pc[t] = "signalled" /\ pc' = [pc EXCEPT ![t] = "run"] /\ UNCHANGED ringVars
        /\ sendq' = sendq /\ recvq' = recvq /\ base' = base
    BY <1>4 DEF Wake
  <2>2. AbsQueue' = AbsQueue /\ SendqThreads' = SendqThreads /\ QSize' = QSize
    BY <2>1, AbsSame
  <2>3. t \in AbsReleased /\ AbsReleased' = AbsReleased \ {t}
    <3>1. AbsReleased' = AbsReleased \ {t}
      BY <1>1, <2>1, ReleasedFacts
    <3> QED
      BY <2>1, <3>1 DEF AbsReleased
  <2> QED
    BY <2>1, <2>2, <2>3 DEF Queue!Return, AbsQueue, AbsReleased
<1> QED
  BY <1>2, <1>3, <1>4 DEF RecvNothing, Drop

\* Every step is a step of the queue or leaves its state alone.
LEMMA RefStep == IndInv /\ IndInv' /\ [Next]_vars => [Queue!Next]_(Queue!vars)
<1> SUFFICES ASSUME IndInv, IndInv', [Next]_vars PROVE [Queue!Next]_(Queue!vars)
  OBVIOUS
<1>1. ASSUME NEW t \in Threads, builtin_send(t) PROVE Queue!Next
  <2>1. PICK m \in Msgs : fklChanlSend(t, m, m)
    BY <1>1 DEF builtin_send
  <2>2. QSize' = QSize /\ Queue!Send(t, m, m)
    BY <2>1, RefSend
  <2> QED
    BY <2>2 DEF Queue!Next
<1>2. ASSUME NEW t \in Threads, ThreadResult(t) PROVE Queue!Next
  <2>1. PICK m \in Msgs : fklChanlSend(t, m, NIL)
    BY <1>2 DEF ThreadResult
  <2>2. QSize' = QSize /\ Queue!Send(t, m, NIL)
    BY <2>1, RefSend
  <2> QED
    BY <2>2 DEF Queue!Next
<1>3. ASSUME NEW t \in Threads, fklChanlRecv(t) \/ fklChanlRecvOk(t) PROVE Queue!Next
  <2>1. pc[t] = "run"
    BY <1>3 DEF fklChanlRecv, fklChanlRecvOk
  <2>2. CASE RecvFromSender(t) \/ RecvFromBuffer(t)
    BY <2>1, <2>2, RefReceive DEF Queue!Next
  <2>3. CASE RecvAndPark(t)
    BY <2>1, <2>3, RefQuiet DEF Queue!Next
  <2>4. CASE RecvNothing(t)
    BY <2>1, <2>4, RefQuiet DEF Queue!Next
  <2> QED
    BY <1>3, <2>2, <2>3, <2>4 DEF fklChanlRecv, fklChanlRecvOk
<1>4. ASSUME NEW t \in Threads, Wake(t) \/ Drop(t) PROVE Queue!Next
  BY <1>4, RefQuiet DEF Queue!Next
<1>5. CASE GC \/ UNCHANGED vars
  <2>1. UNCHANGED ringVars /\ sendq' = sendq /\ recvq' = recvq /\ pc' = pc /\ base' = base
    BY <1>5 DEF GC, vars, ringVars
  <2>2. AbsQueue' = AbsQueue /\ SendqThreads' = SendqThreads /\ QSize' = QSize
    BY <2>1, AbsSame
  <2>3. AbsReleased' = AbsReleased
    BY <2>1 DEF AbsReleased
  <2> QED
    BY <2>1, <2>2, <2>3 DEF Queue!vars, AbsQueue, AbsReleased
<1> QED
  BY <1>1, <1>2, <1>3, <1>4, <1>5 DEF Next

\* The channel of fklChanlSend, fklChanlRecv and fklChanlRecvOk, with its ring,
\* its two queues and its signalled threads, implements the queue of ChanlSpec:
\* messages are received in the order they were sent, whichever of the ring and
\* ch->sendq they went through.
THEOREM Refinement == Spec => ImplementsQueue
<1>1. Init => Queue!Init
  BY RefInit
<1>2. IndInv /\ IndInv' /\ [Next]_vars => [Queue!Next]_(Queue!vars)
  BY RefStep
<1> QED
  BY <1>1, <1>2, Invariance, PTL DEF Spec, ImplementsQueue, Queue!Spec

=============================================================================
