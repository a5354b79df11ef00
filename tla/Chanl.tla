------------------------------- MODULE Chanl -------------------------------
(***************************************************************************)
(* The channel value of fakeLisp (FklVMvalueChanl): a ring buffer of       *)
(* qsize messages, a FIFO of parked senders and a FIFO of parked           *)
(* receivers, all guarded by one mutex.                                    *)
(*                                                                         *)
(* fklChanlSend, fklChanlRecv and fklChanlRecvOk hold ch->lock and the VM  *)
(* lock of the caller from their first line to their return or to the      *)
(* uv_cond_wait that parks the caller, so each of them is one action.  A   *)
(* signalled thread returns from uv_cond_wait, and takes its VM lock back, *)
(* in a step of its own (Wake).  The collector only runs when it holds the *)
(* VM lock of every thread, that is between two actions (GC).              *)
(***************************************************************************)
EXTENDS Integers, Sequences, FiniteSets

CONSTANTS
    Threads,    \* the VM threads that share the channel
    Msgs,       \* the heap objects that can be sent
    QSizes,     \* the capacities a channel is made with
    NIL,        \* FKL_VM_NIL, the immediate value pushed before a recv
    NULL        \* what a never-written slot of the zeroed buffer holds

ASSUME QSizesAssumption == QSizes \subseteq Nat
ASSUME ValuesAssumption == NIL \notin Msgs /\ NULL \notin Msgs /\ NIL # NULL

VARIABLES
    buf,        \* ch->buf
    recvx,      \* ch->recvx, index of the oldest message
    sendx,      \* ch->sendx, index of the next free slot
    count,      \* ch->count
    sendq,      \* ch->sendq: the parked senders with their messages
    recvq,      \* ch->recvq: the parked receivers
    pc,         \* where each thread is with respect to the channel
    base,       \* exe->base[slot]: the value on top of each thread's stack
    heap        \* the messages that are allocated

vars == <<buf, recvx, sendx, count, sendq, recvq, pc, base, heap>>
ringVars == <<buf, recvx, sendx, count>>

QSize == Cardinality(DOMAIN buf)        \* ch->qsize
Sender == [thread : Threads, msg : Msgs]

Init ==
    /\ \E n \in QSizes : buf = [i \in 0 .. n - 1 |-> NULL]
    /\ recvx = 0
    /\ sendx = 0
    /\ count = 0
    /\ sendq = <<>>
    /\ recvq = <<>>
    /\ pc = [t \in Threads |-> "run"]
    /\ base = [t \in Threads |-> NIL]
    /\ heap = {}

-----------------------------------------------------------------------------
(* The ring buffer and the two queues. *)

Next_x(x) == (x + 1) % QSize

\* The two halves of chanl_push_msg and chanl_pop_msg are kept apart because
\* a receive that releases a parked sender does both in one step.
chanl_push_msg(m) ==
    /\ buf' = [buf EXCEPT ![sendx] = m]
    /\ sendx' = Next_x(sendx)
    /\ count' = count + 1
    /\ UNCHANGED recvx

chanl_pop_msg ==
    /\ recvx' = Next_x(recvx)
    /\ count' = count - 1
    /\ UNCHANGED <<buf, sendx>>

\* chanl_pop_msg followed by chanl_push_msg, as a receiver does it for the
\* sender it releases.
chanl_pop_push_msg(m) ==
    /\ recvx' = Next_x(recvx)
    /\ buf' = [buf EXCEPT ![sendx] = m]
    /\ sendx' = Next_x(sendx)
    /\ count' = (count - 1) + 1

-----------------------------------------------------------------------------
(* Sending.  An argument of the builtin `send' stays on the sender's stack *)
(* and is the value the call returns; the result box that vm_thread_cb     *)
(* sends when a thread ends is referenced by nothing but the channel.      *)

\* Mutant: the receiver is signalled and stays in ch->recvq.
Bug_SendLeavesReceiver(t, m, kept) ==
    /\ recvq # <<>>
    /\ LET r == Head(recvq) IN
       /\ base' = [base EXCEPT ![r] = m, ![t] = kept]
       /\ pc' = [pc EXCEPT ![r] = "signalled"]
    /\ UNCHANGED <<ringVars, sendq, recvq>>

SendToReceiver(t, m, kept) ==
    /\ recvq # <<>>
    /\ LET r == Head(recvq) IN
       /\ base' = [base EXCEPT ![r] = m, ![t] = kept]
       /\ pc' = [pc EXCEPT ![r] = "signalled"]
    /\ recvq' = Tail(recvq)
    /\ UNCHANGED <<ringVars, sendq>>

SendToBuffer(t, m, kept) ==
    /\ recvq = <<>>
    /\ count < QSize
    /\ chanl_push_msg(m)
    /\ base' = [base EXCEPT ![t] = kept]
    /\ UNCHANGED <<sendq, recvq, pc>>

\* Mutant: the sender is pushed at the head of ch->sendq.
Bug_SendqIsStack(t, m, kept) ==
    /\ recvq = <<>>
    /\ count >= QSize
    /\ sendq' = <<[thread |-> t, msg |-> m]>> \o sendq
    /\ pc' = [pc EXCEPT ![t] = "parked"]
    /\ base' = [base EXCEPT ![t] = kept]
    /\ UNCHANGED <<ringVars, recvq>>

SendAndPark(t, m, kept) ==
    /\ recvq = <<>>
    /\ count >= QSize
    /\ sendq' = Append(sendq, [thread |-> t, msg |-> m])
    /\ pc' = [pc EXCEPT ![t] = "parked"]
    /\ base' = [base EXCEPT ![t] = kept]
    /\ UNCHANGED <<ringVars, recvq>>

fklChanlSend(t, m, kept) ==
    /\ pc[t] = "run"
    /\ \/ SendToReceiver(t, m, kept)
       \/ SendToBuffer(t, m, kept)
       \/ SendAndPark(t, m, kept)

\* (send ch x): x is a new object or the one the thread already holds.
builtin_send(t) ==
    \E m \in Msgs :
        /\ m = base[t] \/ m \notin heap
        /\ heap' = heap \cup {m}
        /\ fklChanlSend(t, m, m)

\* The end of a thread: the result is boxed, the box is sent.
ThreadResult(t) ==
    \E m \in Msgs \ heap :
        /\ heap' = heap \cup {m}
        /\ fklChanlSend(t, m, NIL)

-----------------------------------------------------------------------------
(* Receiving. *)

\* A parked sender exists.  With messages in the buffer the receiver takes
\* the oldest one and the sender's message takes a slot; without a buffer
\* it takes the sender's message.
RecvFromSender(t) ==
    /\ sendq # <<>>
    /\ LET s == Head(sendq) IN
       /\ IF count # 0
          THEN /\ base' = [base EXCEPT ![t] = buf[recvx]]
               /\ chanl_pop_push_msg(s.msg)
          ELSE /\ base' = [base EXCEPT ![t] = s.msg]
               /\ UNCHANGED ringVars
       /\ pc' = [pc EXCEPT ![s.thread] = "signalled"]
    /\ sendq' = Tail(sendq)
    /\ UNCHANGED recvq

\* Mutant: the buffer is looked at before ch->sendq.
Bug_RecvForgetsSenders(t) ==
    /\ count # 0
    /\ base' = [base EXCEPT ![t] = buf[recvx]]
    /\ chanl_pop_msg
    /\ UNCHANGED <<sendq, recvq, pc>>

RecvFromBuffer(t) ==
    /\ sendq = <<>>
    /\ count # 0
    /\ base' = [base EXCEPT ![t] = buf[recvx]]
    /\ chanl_pop_msg
    /\ UNCHANGED <<sendq, recvq, pc>>

\* The receiver pushed NIL on its stack, and parks on that slot.
RecvAndPark(t) ==
    /\ sendq = <<>>
    /\ count = 0
    /\ recvq' = Append(recvq, t)
    /\ pc' = [pc EXCEPT ![t] = "parked"]
    /\ base' = [base EXCEPT ![t] = NIL]
    /\ UNCHANGED <<ringVars, sendq>>

fklChanlRecv(t) ==
    /\ pc[t] = "run"
    /\ RecvFromSender(t) \/ RecvFromBuffer(t) \/ RecvAndPark(t)
    /\ UNCHANGED heap

\* (recv ch okBox) and (recv& ch): never park, answer NIL when empty.
RecvNothing(t) ==
    /\ sendq = <<>>
    /\ count = 0
    /\ base' = [base EXCEPT ![t] = NIL]
    /\ UNCHANGED <<ringVars, sendq, recvq, pc>>

fklChanlRecvOk(t) ==
    /\ pc[t] = "run"
    /\ RecvFromSender(t) \/ RecvFromBuffer(t) \/ RecvNothing(t)
    /\ UNCHANGED heap

\* Mutant: the usual loop around uv_cond_wait, which tests for a message or a
\* free slot again although the hand-over is done.
Bug_WakeRechecks(t) ==
    /\ pc[t] = "signalled"
    /\ 0 < count /\ count < QSize
    /\ pc' = [pc EXCEPT ![t] = "run"]
    /\ UNCHANGED <<ringVars, sendq, recvq, base, heap>>

\* uv_cond_wait returns and the thread gets its VM lock back.
Wake(t) ==
    /\ pc[t] = "signalled"
    /\ pc' = [pc EXCEPT ![t] = "run"]
    /\ UNCHANGED <<ringVars, sendq, recvq, base, heap>>

\* The program pops the value off the stack.
Drop(t) ==
    /\ pc[t] = "run"
    /\ base[t] # NIL
    /\ base' = [base EXCEPT ![t] = NIL]
    /\ UNCHANGED <<ringVars, sendq, recvq, pc, heap>>

-----------------------------------------------------------------------------
(* What the collector and chanl-msg->list read.  Both walk the buffer from *)
(* recvx to sendx and take recvx >= sendx to mean that the range wraps.    *)

\* Mutant: a wrapped range is walked up to the end of the buffer only.
Bug_NoWrap ==
    IF recvx < sendx
    THEN [i \in 1 .. sendx - recvx |-> recvx + i - 1]
    ELSE [i \in 1 .. QSize - recvx |-> recvx + i - 1]

WalkedSlots ==
    IF recvx < sendx
    THEN [i \in 1 .. sendx - recvx |-> recvx + i - 1]
    ELSE [i \in 1 .. QSize - recvx |-> recvx + i - 1]
         \o [i \in 1 .. sendx |-> i - 1]

builtin_chanl_msg_to_list == [i \in DOMAIN WalkedSlots |-> buf[WalkedSlots[i]]]

\* Mutant: the messages of parked senders are not marked.
Bug_MarkBufferOnly == {buf[WalkedSlots[i]] : i \in DOMAIN WalkedSlots} \ {NULL}

\* fklVMgcToGray skips NULL.
chanl_userdata_atomic ==
    ({buf[WalkedSlots[i]] : i \in DOMAIN WalkedSlots} \ {NULL})
    \cup {sendq[i].msg : i \in DOMAIN sendq}

StackRoots == {base[t] : t \in Threads} \ {NIL}

\* A collection: the channel is reachable, whatever is not marked is freed.
GC ==
    /\ heap' = heap \cap (StackRoots \cup chanl_userdata_atomic)
    /\ heap' # heap
    /\ UNCHANGED <<ringVars, sendq, recvq, pc, base>>

-----------------------------------------------------------------------------
Next ==
    \/ GC
    \/ \E t \in Threads :
        \/ builtin_send(t)
        \/ ThreadResult(t)
        \/ fklChanlRecv(t)
        \/ fklChanlRecvOk(t)
        \/ Wake(t)
        \/ Drop(t)

Spec == Init /\ [][Next]_vars

(***************************************************************************)
(* Fairness: a signalled thread is eventually scheduled by the operating   *)
(* system; the program keeps polling the channel, keeps sending to it, and *)
(* the collector keeps running.                                            *)
(***************************************************************************)
FairSpec ==
    /\ Spec
    /\ \A t \in Threads : WF_vars(Wake(t))
    /\ WF_vars(\E t \in Threads : fklChanlRecvOk(t))
    /\ WF_vars(\E t \in Threads : ThreadResult(t))
    /\ WF_vars(GC)

-----------------------------------------------------------------------------
(* Properties. *)

\* The messages in the buffer, oldest first, by the meaning of the indices.
Contents == [i \in 1 .. count |-> buf[(recvx + (i - 1)) % QSize]]
SendqMsgs == [i \in DOMAIN sendq |-> sendq[i].msg]
SendqThreads == [i \in DOMAIN sendq |-> sendq[i].thread]

\* The type invariant.
TypeOK ==
    /\ buf \in [0 .. QSize - 1 -> Msgs \cup {NULL}]
    /\ recvx \in 0 .. QSize
    /\ sendx \in 0 .. QSize
    /\ count \in 0 .. QSize
    /\ sendq \in Seq(Sender)
    /\ recvq \in Seq(Threads)
    /\ pc \in [Threads -> {"run", "parked", "signalled"}]
    /\ base \in [Threads -> Msgs \cup {NIL}]
    /\ heap \subseteq Msgs

\* Nobody is parked who could go on: a receiver is parked only while the
\* channel is empty and no sender is parked, a sender only while the buffer
\* is full.  A send or receive that left a waiter behind would break it.
NoMissedHandoff ==
    /\ recvq # <<>> => count = 0 /\ sendq = <<>>
    /\ sendq # <<>> => count = QSize

\* No wake-up is lost and none is given twice: the threads parked in
\* uv_cond_wait are exactly the ones the two queues name, each once.
WaitersAreQueued ==
    LET all == SendqThreads \o recvq IN
    /\ \A i, j \in DOMAIN all : all[i] = all[j] => i = j
    /\ {all[i] : i \in DOMAIN all} = {t \in Threads : pc[t] = "parked"}

\* What is still to be received, and what a thread holds, is never freed:
\* the collector's walk over the buffer and over ch->sendq misses nothing.
InFlightLive ==
    /\ {Contents[i] : i \in DOMAIN Contents} \subseteq heap
    /\ {SendqMsgs[i] : i \in DOMAIN SendqMsgs} \subseteq heap
    /\ StackRoots \subseteq heap

\* chanl-msg->list of a channel that is not empty is its contents in order,
\* wherever in the ring they lie.
MsgListExact == count > 0 => builtin_chanl_msg_to_list = Contents

\* The channel implements the queue of ChanlSpec.
Queue == INSTANCE ChanlSpec WITH
            Caps <- QSizes,
            cap <- QSize,
            queue <- Contents \o SendqMsgs,
            blocked <- SendqThreads,
            waiting <- recvq,
            released <- {t \in Threads : pc[t] = "signalled"},
            value <- base
ImplementsQueue == Queue!Spec

\* FIFO service: as long as some thread polls and some thread sends, a parked
\* thread gets on, however many others keep arriving; unless all are parked.
WaitersServed ==
    \A t \in Threads :
        (pc[t] = "parked") ~> (pc[t] = "run" \/ \A u \in Threads : pc[u] = "parked")

=============================================================================
