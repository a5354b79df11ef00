----------------------------- MODULE ChanlSpec -----------------------------
(***************************************************************************)
(* What a fakeLisp channel promises to the threads that share it: one      *)
(* queue of the messages that were sent and not yet received.  A receive   *)
(* takes the oldest message; a send returns at once while at most cap      *)
(* messages are queued and otherwise when its message has moved up to      *)
(* position cap; blocked senders and waiting receivers are served in the   *)
(* order they came.  There is no buffer, index or count here.              *)
(***************************************************************************)
EXTENDS Integers, Sequences

CONSTANTS Threads, Msgs, Caps, NIL

VARIABLES
    cap,        \* the capacity, which never changes
    queue,      \* the messages sent and not received, oldest first
    blocked,    \* the senders that have not returned, oldest first
    waiting,    \* the receivers that have not returned, oldest first
    released,   \* threads whose blocked call may return
    value       \* what each thread holds: the last message it saw, or NIL

vars == <<cap, queue, blocked, waiting, released, value>>

Idle(t) ==
    /\ t \notin released
    /\ \A i \in DOMAIN blocked : blocked[i] # t
    /\ \A i \in DOMAIN waiting : waiting[i] # t

Init ==
    /\ cap \in Caps
    /\ queue = <<>>
    /\ blocked = <<>>
    /\ waiting = <<>>
    /\ released = {}
    /\ value = [t \in Threads |-> NIL]

\* The message goes to the receiver that has waited longest, if any, and to
\* the end of the queue otherwise; the sender blocks when the queue is full.
Send(t, m, kept) ==
    /\ Idle(t)
    /\ IF waiting # <<>>
       THEN /\ value' = [value EXCEPT ![Head(waiting)] = m, ![t] = kept]
            /\ waiting' = Tail(waiting)
            /\ released' = released \cup {Head(waiting)}
            /\ UNCHANGED <<queue, blocked>>
       ELSE /\ queue' = Append(queue, m)
            /\ value' = [value EXCEPT ![t] = kept]
            /\ blocked' = IF Len(queue) >= cap THEN Append(blocked, t)
                                               ELSE blocked
            /\ UNCHANGED <<waiting, released>>

Receive(t) ==
    /\ Idle(t)
    /\ queue # <<>>
    /\ value' = [value EXCEPT ![t] = Head(queue)]
    /\ queue' = Tail(queue)
    /\ IF blocked # <<>>
       THEN /\ blocked' = Tail(blocked)
            /\ released' = released \cup {Head(blocked)}
       ELSE UNCHANGED <<blocked, released>>
    /\ UNCHANGED waiting

Wait(t) ==
    /\ Idle(t)
    /\ queue = <<>>
    /\ value' = [value EXCEPT ![t] = NIL]
    /\ waiting' = Append(waiting, t)
    /\ UNCHANGED <<queue, blocked, released>>

\* A non-blocking receive of an empty channel, and the program discarding
\* what it holds.
Discard(t) ==
    /\ Idle(t)
    /\ value' = [value EXCEPT ![t] = NIL]
    /\ UNCHANGED <<queue, blocked, waiting, released>>

Return(t) ==
    /\ t \in released
    /\ released' = released \ {t}
    /\ UNCHANGED <<queue, blocked, waiting, value>>

Next ==
  /\ UNCHANGED cap
  /\ \E t \in Threads :
        \/ \E m \in Msgs, kept \in Msgs \cup {NIL} : Send(t, m, kept)
        \/ Receive(t)
        \/ Wait(t)
        \/ Discard(t)
        \/ Return(t)

Spec == Init /\ [][Next]_vars
=============================================================================
