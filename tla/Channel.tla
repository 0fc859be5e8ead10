------------------------------ MODULE Channel ------------------------------
(***************************************************************************)
(* A Kolang channel and the goroutines that send on it, receive from it,   *)
(* range over it and close it (internal/eval/eval_concurrency.go).         *)
(*                                                                         *)
(* The Go channel Channel.ch is never closed; closing is the flag closed   *)
(* (an atomic) followed by close(done).  Every operation is more than one  *)
(* atomic step, and pc[g] says which step goroutine g is about to take:    *)
(*                                                                         *)
(*   send      load closed           -> select { ch <- v | <-done }        *)
(*   receive   select { <-ch | <-done } -> select { <-ch | default }       *)
(*   close     CAS closed            -> close(done)                        *)
(*                                                                         *)
(* The operands (the channel and the value) are evaluated, and an operand  *)
(* of another type refused, before these steps.                            *)
(***************************************************************************)
EXTENDS Integers, Sequences, FiniteSets

CONSTANTS
  Goroutines,  \* everything that runs on an evaluator of its own
  Values,      \* what is sent
  Sizes,       \* the numbers a program may give as the size of a channel
  MaxSends,    \* bound: how many sends are accepted in a behaviour
  None         \* the argument of a goroutine that is not sending

ASSUME SizesAssumption == Sizes \subseteq Int
ASSUME NoneAssumption == None \notin Values

VARIABLES
  cap,         \* cap(Channel.ch)
  buffer,      \* the values buffered in Channel.ch, oldest first
  closed,      \* Channel.closed
  done,        \* Channel.done has been closed
  pc,          \* the step each goroutine is about to take
  arg,         \* the value each goroutine is sending
  ranging,     \* the goroutines whose receive belongs to a for loop
  late,        \* history: the goroutines whose last send began after a close returned
  accepted,    \* history: the values sent without a raise, in order
  delivered,   \* history: the values received, in order
  atClose,     \* history: Len(accepted) when the channel was closed
  told         \* history: some receiver has been told "closed and drained"

shared  == <<cap, buffer, closed, done>>
local   == <<pc, arg, ranging>>
history == <<late, accepted, delivered, atClose, told>>
vars    == <<shared, local, history>>

PCs == {"idle", "sendSelect", "recvSelect", "recvDrain", "body", "closeDone"}

-----------------------------------------------------------------------------
(* Helpers.                                                                *)

\* Goroutine g moves from one step of its operation to another.
Goto(g, from, to) ==
  /\ pc[g] = from
  /\ pc' = [pc EXCEPT ![g] = to]

\* A receive of g ends with value v: a loop goes on to its body with it.
Receives(g, from, v) ==
  /\ Goto(g, from, IF g \in ranging THEN "body" ELSE "idle")
  /\ delivered' = Append(delivered, v)

\* The sends that have passed the closed check and are not over.
InSelect == {g \in Goroutines : pc[g] = "sendSelect"}

\* The buffer takes another value.  Mutant: one too many.
HasRoomOffByOne == Len(buffer) <= cap
HasRoom == Len(buffer) < cap

\* A close statement has succeeded and returned.
CloseReturned == closed /\ \A g \in Goroutines : pc[g] /= "closeDone"

-----------------------------------------------------------------------------
(* Creation.  A negative size is taken as 0.                               *)

evalChannelLit(size) == cap = IF size < 0 THEN 0 ELSE size

Init ==
  /\ \E size \in Sizes : evalChannelLit(size)
  /\ buffer = <<>>
  /\ closed = FALSE
  /\ done = FALSE
  /\ pc = [g \in Goroutines |-> "idle"]
  /\ arg = [g \in Goroutines |-> None]
  /\ ranging = {}
  /\ late = {}
  /\ accepted = <<>>
  /\ delivered = <<>>
  /\ atClose = 0
  /\ told = FALSE

-----------------------------------------------------------------------------
(* Send.                                                                   *)

\* The closed check.  Mutant: left to the select.
SendUnchecked == FALSE
SendRefused == closed

\* Raise at once, or go on to the select.
SendBegin(g, v) ==
  /\ pc[g] = "idle"
  /\ Len(accepted) + Cardinality(InSelect) < MaxSends
  /\ late' = IF CloseReturned THEN late \cup {g} ELSE late \ {g}
  /\ IF SendRefused
       THEN UNCHANGED <<pc, arg>>          \* raises
       ELSE /\ Goto(g, "idle", "sendSelect")
            /\ arg' = [arg EXCEPT ![g] = v]
  /\ UNCHANGED <<shared, ranging, accepted, delivered, atClose, told>>

\* case ch <- v of a buffered channel: there is room.
SendBuffered(g) ==
  /\ Goto(g, "sendSelect", "idle")
  /\ HasRoom
  /\ buffer' = Append(buffer, arg[g])
  /\ accepted' = Append(accepted, arg[g])
  /\ arg' = [arg EXCEPT ![g] = None]
  /\ UNCHANGED <<cap, closed, done, ranging, late, delivered, atClose, told>>

\* case ch <- v and case <-ch of an unbuffered channel: one of the two was
\* parked in its select and the other meets it.  Closing done wakes whoever
\* is parked, and nobody parks after it, so the two meet only before.
Rendezvous(s, r) ==
  /\ cap = 0
  /\ ~done
  /\ pc[s] = "sendSelect"
  /\ pc[r] = "recvSelect"
  /\ pc' = [pc EXCEPT ![s] = "idle",
                      ![r] = IF r \in ranging THEN "body" ELSE "idle"]
  /\ accepted' = Append(accepted, arg[s])
  /\ delivered' = Append(delivered, arg[s])
  /\ arg' = [arg EXCEPT ![s] = None]
  /\ UNCHANGED <<shared, ranging, late, atClose, told>>

\* case <-done of a send: the channel was closed under a blocked sender.
\* Mutant: the select has no such case.
SendNotReleased(g) == FALSE
SendReleased(g) ==
  /\ Goto(g, "sendSelect", "idle")
  /\ done
  /\ arg' = [arg EXCEPT ![g] = None]
  /\ UNCHANGED <<shared, ranging, late, accepted, delivered, atClose, told>>

-----------------------------------------------------------------------------
(* Receive: as an expression, or as the head of a for loop.                *)

RecvBegin(g) ==
  /\ Goto(g, "idle", "recvSelect")
  /\ UNCHANGED <<shared, arg, ranging, history>>

RangeBegin(g) ==
  /\ Goto(g, "idle", "recvSelect")
  /\ ranging' = ranging \cup {g}
  /\ UNCHANGED <<shared, arg, history>>

\* case v := <-ch of a buffered channel.
RecvValue(g) ==
  /\ buffer /= <<>>
  /\ Receives(g, "recvSelect", Head(buffer))
  /\ buffer' = Tail(buffer)
  /\ UNCHANGED <<cap, closed, done, arg, ranging, late, accepted, atClose, told>>

\* Mutant: done alone is taken for "closed and drained".
RecvDoneUndrained(g) ==
  /\ Goto(g, "recvSelect", "idle")
  /\ done
  /\ ranging' = ranging \ {g}
  /\ told' = TRUE
  /\ UNCHANGED <<shared, arg, late, accepted, delivered, atClose>>

\* case <-done: the channel is closed; look once more at the buffer.
RecvDone(g) ==
  /\ Goto(g, "recvSelect", "recvDrain")
  /\ done
  /\ UNCHANGED <<shared, arg, ranging, history>>

\* Mutant: the drain empties the buffer for one value.
DrainAll(g) ==
  /\ buffer /= <<>>
  /\ Receives(g, "recvDrain", Head(buffer))
  /\ buffer' = <<>>
  /\ UNCHANGED <<cap, closed, done, arg, ranging, late, accepted, atClose, told>>

\* The second select finds a buffered value ...
DrainValue(g) ==
  /\ buffer /= <<>>
  /\ Receives(g, "recvDrain", Head(buffer))
  /\ buffer' = Tail(buffer)
  /\ UNCHANGED <<cap, closed, done, arg, ranging, late, accepted, atClose, told>>

\* Mutant: a loop does not look at the second result of recvChannel.
DrainEmptyUnnoticed(g) ==
  /\ Goto(g, "recvDrain", IF g \in ranging THEN "body" ELSE "idle")
  /\ buffer = <<>>
  /\ told' = TRUE
  /\ UNCHANGED <<shared, arg, ranging, late, accepted, delivered, atClose>>

\* ... or takes its default: the receive returns "closed", a loop ends.
DrainEmpty(g) ==
  /\ Goto(g, "recvDrain", "idle")
  /\ buffer = <<>>
  /\ ranging' = ranging \ {g}
  /\ told' = TRUE
  /\ UNCHANGED <<shared, arg, late, accepted, delivered, atClose>>

\* The body of a loop finishes, or continues: receive again.
BodyNext(g) ==
  /\ Goto(g, "body", "recvSelect")
  /\ UNCHANGED <<shared, arg, ranging, history>>

\* The body breaks, returns or raises: the loop is left, the channel is not.
BodyLeave(g) ==
  /\ Goto(g, "body", "idle")
  /\ ranging' = ranging \ {g}
  /\ UNCHANGED <<shared, arg, history>>

-----------------------------------------------------------------------------
(* Close.                                                                  *)

\* Closed by somebody already.  Mutant: looks at the signal, not at the flag.
AlreadySignalled == done
AlreadyClosed == closed

\* The compare-and-swap: the first close wins, any other raises.
CloseBegin(g) ==
  /\ pc[g] = "idle"
  /\ IF AlreadyClosed
       THEN UNCHANGED <<closed, pc, atClose>>   \* raises
       ELSE /\ closed' = TRUE
            /\ Goto(g, "idle", "closeDone")
            /\ atClose' = Len(accepted)
  /\ UNCHANGED <<cap, buffer, done, arg, ranging, late, accepted, delivered, told>>

\* close(done); Go panics here if done is closed already.
CloseDone(g) ==
  /\ Goto(g, "closeDone", "idle")
  /\ done' = TRUE
  /\ UNCHANGED <<cap, buffer, closed, arg, ranging, late, accepted, delivered, atClose, told>>

-----------------------------------------------------------------------------
(* What a program may begin, and what the runtime then carries on.         *)

Begin(g) ==
  \/ \E v \in Values : SendBegin(g, v)
  \/ RecvBegin(g)
  \/ RangeBegin(g)
  \/ CloseBegin(g)

Continue(g) ==
  \/ SendBuffered(g)
  \/ \E r \in Goroutines : Rendezvous(g, r)
  \/ SendReleased(g)
  \/ RecvValue(g)
  \/ RecvDone(g)
  \/ DrainValue(g)
  \/ DrainEmpty(g)
  \/ BodyNext(g)
  \/ BodyLeave(g)
  \/ CloseDone(g)

Next == \E g \in Goroutines : Begin(g) \/ Continue(g)

Spec == Init /\ [][Next]_vars

\* A goroutine that can take the next step of an operation it has begun
\* takes it in the end (Go schedules every runnable goroutine); which
\* operations a program begins, if any, is its own affair.
Scheduled(g) == WF_vars(Continue(g))
FairSpec == Spec /\ \A g \in Goroutines : Scheduled(g)

-----------------------------------------------------------------------------
(* Properties.                                                             *)

\* The shape of the state; a buffer never holds more than its capacity.
TypeOK ==
  /\ cap \in Nat
  /\ buffer \in Seq(Values) /\ Len(buffer) <= cap
  /\ closed \in BOOLEAN
  /\ done \in BOOLEAN
  /\ pc \in [Goroutines -> PCs]
  /\ arg \in [Goroutines -> Values \cup {None}]
  /\ \A g \in Goroutines : pc[g] = "sendSelect" => arg[g] \in Values
  /\ ranging \subseteq Goroutines
  /\ late \subseteq Goroutines
  /\ accepted \in Seq(Values)
  /\ delivered \in Seq(Values)
  /\ atClose \in Nat
  /\ told \in BOOLEAN

\* Every value whose send did not raise is received or still buffered, once
\* and in the order sent, whatever sends, receives and closes interleave
\* (sendChannel and recvChannel move a value in one select case each).
Conservation == accepted = delivered \o buffer

\* close(done) is never reached twice, by one goroutine or by two that close
\* together: the compare-and-swap of closeChannel lets one through.
NoDoubleClose ==
  \A g \in Goroutines : pc[g] = "closeDone" =>
    ~done /\ \A h \in Goroutines \ {g} : pc[h] /= "closeDone"

\* When a receiver is told that the channel is closed and drained, every
\* value whose send ended before the close has been received by somebody
\* (the second select of recvChannel, evaluated after done is seen closed).
DrainedBeforeTold == told => Len(delivered) >= atClose

\* A send that begins after a close statement has returned raises: it never
\* gets to the select in which it could hand its value over.
LateSendRaises == \A g \in late : pc[g] /= "sendSelect"

\* A close frees everybody: whoever is, or gets, blocked in a send or a
\* receive of a closed channel comes out of it.
CloseReleases ==
  \A g \in Goroutines :
    done /\ pc[g] \in {"sendSelect", "recvSelect", "recvDrain"}
      ~> pc[g] \in {"idle", "body"}

\* A loop over a channel that gets closed comes to an end, although senders
\* caught by the close may still feed it (its body is assumed to end).
RangeEnds == \A g \in Goroutines : done /\ g \in ranging ~> g \notin ranging

\* The channel is a closable queue.  A send is admitted by its closed check,
\* and the queue is shut by the compare-and-swap, not by close(done).
Queue == INSTANCE ClosableQueue WITH
  Senders <- Goroutines, Items <- Values,
  room <- cap, queue <- buffer, shut <- closed, admitted <- InSelect,
  reported <- told

\* Every behaviour of the channel is one of the closable queue.
ImplementsQueue == Queue!QSpec
=============================================================================
