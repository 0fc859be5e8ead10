--------------------------- MODULE ClosableQueue ---------------------------
(***************************************************************************)
(* What a Kolang channel promises to the goroutines that share it: a       *)
(* bounded FIFO queue that can be shut once.  A send is admitted while the *)
(* queue is open; an admitted send may still put its value after the queue *)
(* is shut, or be refused; nothing is admitted afterwards.  A receive      *)
(* takes the oldest value, and reports "drained" only when the queue is    *)
(* shut and empty.  Channel.tla is shown to implement this specification.  *)
(***************************************************************************)
EXTENDS Naturals, Sequences

CONSTANTS Senders, Items

VARIABLES
  room,      \* how many values fit (0: values only pass hand to hand)
  queue,     \* the values put and not yet taken
  shut,      \* the queue has been shut
  admitted,  \* the senders let in before the queue was shut
  reported   \* some receiver has been told "shut and drained"

qvars == <<room, queue, shut, admitted, reported>>

QInit ==
  /\ room \in Nat
  /\ queue = <<>>
  /\ shut = FALSE
  /\ admitted = {}
  /\ reported = FALSE

Admit(s) ==
  /\ ~shut
  /\ s \notin admitted
  /\ admitted' = admitted \cup {s}
  /\ UNCHANGED <<room, queue, shut, reported>>

Put(s, item) ==
  /\ s \in admitted
  /\ Len(queue) < room
  /\ queue' = Append(queue, item)
  /\ admitted' = admitted \ {s}
  /\ UNCHANGED <<room, shut, reported>>

HandOver(s) ==
  /\ s \in admitted
  /\ room = 0
  /\ admitted' = admitted \ {s}
  /\ UNCHANGED <<room, queue, shut, reported>>

Refuse(s) ==
  /\ shut
  /\ s \in admitted
  /\ admitted' = admitted \ {s}
  /\ UNCHANGED <<room, queue, shut, reported>>

Take ==
  /\ queue /= <<>>
  /\ queue' = Tail(queue)
  /\ UNCHANGED <<room, shut, admitted, reported>>

Shut ==
  /\ ~shut
  /\ shut' = TRUE
  /\ UNCHANGED <<room, queue, admitted, reported>>

Report ==
  /\ shut
  /\ queue = <<>>
  /\ reported' = TRUE
  /\ UNCHANGED <<room, queue, shut, admitted>>

QNext ==
  \/ \E s \in Senders :
       \/ Admit(s) \/ HandOver(s) \/ Refuse(s)
       \/ \E item \in Items : Put(s, item)
  \/ Take
  \/ Shut
  \/ Report

QSpec == QInit /\ [][QNext]_qvars
=============================================================================
