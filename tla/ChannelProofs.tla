--------------------------- MODULE ChannelProofs ---------------------------
(***************************************************************************)
(* Proofs about Channel, for every set of goroutines, values and sizes.    *)
(***************************************************************************)
EXTENDS Channel, FiniteSetTheorems, TLAPS

\* The order in which a channel is closed: the flag, then done, then what
\* receivers conclude from done; and at most one goroutine between the two.
CloseOrder ==
  /\ done => closed
  /\ \A g \in Goroutines : pc[g] = "closeDone" => closed
  /\ \A g \in Goroutines : pc[g] = "recvDrain" => done
  /\ told => done
  /\ late /= {} => closed
  /\ atClose <= Len(accepted)

\* What the steps preserve together: the checked invariants and CloseOrder.
IInv ==
  /\ TypeOK
  /\ Conservation
  /\ NoDoubleClose
  /\ DrainedBeforeTold
  /\ LateSendRaises
  /\ CloseOrder

-----------------------------------------------------------------------------
(* Sequences.                                                              *)

\* Moving the oldest buffered value to the end of the received ones changes
\* nothing in their concatenation.
LEMMA MoveHead ==
  ASSUME NEW S, NEW d \in Seq(S), NEW b \in Seq(S), b /= <<>>
  PROVE  /\ Append(d, Head(b)) \o Tail(b) = d \o b
         /\ Append(d, Head(b)) \in Seq(S)
         /\ Tail(b) \in Seq(S)
         /\ Len(Tail(b)) = Len(b) - 1
         /\ Len(Append(d, Head(b))) = Len(d) + 1
  OBVIOUS

\* Appending to the buffer appends to the concatenation.
LEMMA AppendToBuffer ==
  ASSUME NEW S, NEW d \in Seq(S), NEW b \in Seq(S), NEW v \in S
  PROVE  /\ Append(d \o b, v) = d \o Append(b, v)
         /\ Append(b, v) \in Seq(S)
         /\ Len(Append(b, v)) = Len(b) + 1
         /\ Append(d \o b, v) \in Seq(S)
         /\ Len(Append(d \o b, v)) = Len(d \o b) + 1
  OBVIOUS

-----------------------------------------------------------------------------
(* Type correctness.                                                       *)

LEMMA InitType == Init => TypeOK
<1> SUFFICES ASSUME Init PROVE TypeOK
  OBVIOUS
<1> USE DEF Init
<1>1. cap \in Nat
  BY SizesAssumption DEF evalChannelLit
<1>2. buffer \in Seq(Values) /\ Len(buffer) <= cap
  BY <1>1
<1>3. accepted \in Seq(Values) /\ delivered \in Seq(Values)
  OBVIOUS
<1>. QED
  BY <1>1, <1>2, <1>3 DEF TypeOK, PCs

LEMMA NextType == TypeOK /\ [Next]_vars => TypeOK'
<1> SUFFICES ASSUME TypeOK, [Next]_vars PROVE TypeOK'
  OBVIOUS
<1> USE DEF TypeOK, PCs, shared, local, history, Goto,
            HasRoom, SendRefused, AlreadyClosed
<1>1. ASSUME NEW g \in Goroutines, NEW v \in Values, SendBegin(g, v)
      PROVE  TypeOK'
  BY <1>1 DEF SendBegin
<1>2. ASSUME NEW g \in Goroutines, RecvBegin(g) PROVE TypeOK'
  BY <1>2 DEF RecvBegin
<1>3. ASSUME NEW g \in Goroutines, RangeBegin(g) PROVE TypeOK'
  BY <1>3 DEF RangeBegin
<1>4. ASSUME NEW g \in Goroutines, CloseBegin(g) PROVE TypeOK'
  <2>1. Len(accepted) \in Nat
    OBVIOUS
  <2>2. atClose' \in Nat
    BY <1>4, <2>1 DEF CloseBegin
  <2>3. pc' \in [Goroutines -> PCs] /\ closed' \in BOOLEAN
    BY <1>4 DEF CloseBegin
  <2>4. \A h \in Goroutines : pc'[h] = "sendSelect" => pc[h] = "sendSelect"
    BY <1>4 DEF CloseBegin
  <2>. QED
    BY <1>4, <2>2, <2>3, <2>4 DEF CloseBegin
<1>5. ASSUME NEW g \in Goroutines, SendBuffered(g) PROVE TypeOK'
  BY <1>5, AppendToBuffer DEF SendBuffered
<1>6. ASSUME NEW s \in Goroutines, NEW r \in Goroutines, Rendezvous(s, r)
      PROVE  TypeOK'
  BY <1>6 DEF Rendezvous
<1>7. ASSUME NEW g \in Goroutines, SendReleased(g) PROVE TypeOK'
  BY <1>7 DEF SendReleased
<1>8. ASSUME NEW g \in Goroutines, RecvValue(g) PROVE TypeOK'
  BY <1>8, MoveHead DEF RecvValue, Receives
<1>9. ASSUME NEW g \in Goroutines, RecvDone(g) PROVE TypeOK'
  BY <1>9 DEF RecvDone
<1>10. ASSUME NEW g \in Goroutines, DrainValue(g) PROVE TypeOK'
  BY <1>10, MoveHead DEF DrainValue, Receives
<1>11. ASSUME NEW g \in Goroutines, DrainEmpty(g) PROVE TypeOK'
  BY <1>11 DEF DrainEmpty
<1>12. ASSUME NEW g \in Goroutines, BodyNext(g) PROVE TypeOK'
  BY <1>12 DEF BodyNext
<1>13. ASSUME NEW g \in Goroutines, BodyLeave(g) PROVE TypeOK'
  BY <1>13 DEF BodyLeave
<1>14. ASSUME NEW g \in Goroutines, CloseDone(g) PROVE TypeOK'
  BY <1>14 DEF CloseDone
<1>15. CASE UNCHANGED vars
  BY <1>15 DEF vars
<1>. QED
  BY <1>1, <1>2, <1>3, <1>4, <1>5, <1>6, <1>7, <1>8, <1>9, <1>10, <1>11,
     <1>12, <1>13, <1>14, <1>15 DEF Next, Begin, Continue

\* Every reachable state has the shape TypeOK gives it: in particular no
\* buffer is ever longer than the capacity the channel was made with.
THEOREM TypeCorrect == Spec => []TypeOK
  BY InitType, NextType, PTL DEF Spec
-----------------------------------------------------------------------------
(* Safety.                                                                 *)

LEMMA InitInv == Init => IInv
<1> SUFFICES ASSUME Init PROVE IInv
  OBVIOUS
<1>1. TypeOK
  BY InitType
<1>2. Conservation /\ DrainedBeforeTold /\ LateSendRaises /\ NoDoubleClose
  BY DEF Init, Conservation, DrainedBeforeTold, LateSendRaises, NoDoubleClose
<1>3. CloseOrder
  BY DEF Init, CloseOrder
<1>. QED
  BY <1>1, <1>2, <1>3 DEF IInv

\* A send step: the closed check keeps late senders out of the select.
LEMMA SendBeginInv ==
  ASSUME IInv, NEW g \in Goroutines, NEW v \in Values, SendBegin(g, v)
  PROVE  /\ Conservation' /\ NoDoubleClose' /\ DrainedBeforeTold'
         /\ LateSendRaises' /\ CloseOrder'
<1> USE DEF IInv, SendBegin, SendRefused, shared, local, history
<1>1. /\ \A h \in Goroutines \ {g} : pc'[h] = pc[h]
      /\ pc'[g] = IF closed THEN "idle" ELSE "sendSelect"
  BY DEF Goto, TypeOK
<1>2. Conservation' /\ DrainedBeforeTold'
  BY DEF Conservation, DrainedBeforeTold
<1>3. NoDoubleClose'
  BY <1>1 DEF NoDoubleClose
<1>4. CASE CloseReturned
  <2>1. closed /\ late' = late \cup {g}
    BY <1>4 DEF CloseReturned
  <2>2. LateSendRaises'
    BY <1>1, <2>1 DEF LateSendRaises, TypeOK
  <2>. QED
    BY <1>1, <1>2, <1>3, <2>1, <2>2 DEF CloseOrder
<1>5. CASE ~CloseReturned
  <2>1. late' = late \ {g}
    BY <1>5
  <2>2. LateSendRaises'
    BY <1>1, <2>1 DEF LateSendRaises, TypeOK
  <2>3. CloseOrder'
    BY <1>1, <2>1 DEF CloseOrder
  <2>. QED
    BY <1>2, <1>3, <2>2, <2>3
<1>. QED
  BY <1>4, <1>5

\* A value taken from the buffer, by either select of a receive.
LEMMA TakeInv ==
  ASSUME IInv, NEW g \in Goroutines, NEW from \in {"recvSelect", "recvDrain"},
         buffer /= <<>>, Receives(g, from, Head(buffer)), buffer' = Tail(buffer),
         UNCHANGED <<cap, closed, done, arg, ranging, late, accepted, atClose, told>>
  PROVE  /\ Conservation' /\ NoDoubleClose' /\ DrainedBeforeTold'
         /\ LateSendRaises' /\ CloseOrder'
<1>1. /\ delivered' \o buffer' = delivered \o buffer
      /\ Len(delivered') = Len(delivered) + 1
  BY MoveHead DEF IInv, TypeOK, Receives
<1>2. Conservation'
  BY <1>1 DEF IInv, Conservation
<1>3. DrainedBeforeTold'
  <2>1. Len(delivered) \in Nat /\ atClose \in Nat
    BY DEF IInv, TypeOK
  <2>. QED
    BY <1>1, <2>1 DEF IInv, DrainedBeforeTold
<1>4. \A h \in Goroutines : pc'[h] = pc[h] \/ pc'[h] \in {"idle", "body"}
  BY DEF Receives, Goto, IInv, TypeOK
<1>5. NoDoubleClose' /\ LateSendRaises' /\ CloseOrder'
  BY <1>4 DEF IInv, NoDoubleClose, LateSendRaises, CloseOrder, TypeOK
<1>. QED
  BY <1>2, <1>3, <1>5

LEMMA NextInv == IInv /\ [Next]_vars => IInv'
<1> SUFFICES ASSUME IInv, [Next]_vars PROVE IInv'
  OBVIOUS
<1> DEFINE Rest == /\ Conservation' /\ NoDoubleClose' /\ DrainedBeforeTold'
                   /\ LateSendRaises' /\ CloseOrder'
<1> USE DEF shared, local, history, HasRoom, SendRefused, AlreadyClosed
<1>0. TypeOK'
  BY NextType DEF IInv
<1>1. ASSUME NEW g \in Goroutines, NEW v \in Values, SendBegin(g, v)
      PROVE  Rest
  BY <1>1, SendBeginInv
<1>2. ASSUME NEW g \in Goroutines,
             \/ RecvBegin(g) \/ RangeBegin(g) \/ RecvDone(g) \/ BodyNext(g)
             \/ BodyLeave(g) \/ SendReleased(g)
      PROVE  Rest
  <2>1. UNCHANGED <<buffer, closed, done, late, accepted, delivered, atClose, told>>
    BY <1>2 DEF RecvBegin, RangeBegin, RecvDone, BodyNext, BodyLeave, SendReleased
  <2>2. \A h \in Goroutines :
          \/ pc'[h] = pc[h]
          \/ pc'[h] \in {"idle", "recvSelect"}
          \/ pc'[h] = "recvDrain" /\ done
    BY <1>2 DEF RecvBegin, RangeBegin, RecvDone, BodyNext, BodyLeave,
                SendReleased, Goto, IInv, TypeOK
  <2>3. Conservation' /\ DrainedBeforeTold'
    BY <2>1 DEF IInv, Conservation, DrainedBeforeTold
  <2>4. NoDoubleClose' /\ LateSendRaises' /\ CloseOrder'
    BY <2>1, <2>2 DEF IInv, NoDoubleClose, LateSendRaises, CloseOrder, TypeOK
  <2>. QED
    BY <2>3, <2>4
<1>3. ASSUME NEW g \in Goroutines, RecvValue(g) \/ DrainValue(g)
      PROVE  Rest
  BY <1>3, TakeInv DEF RecvValue, DrainValue
<1>4. ASSUME NEW g \in Goroutines, SendBuffered(g)
      PROVE  Rest
  <2>1. arg[g] \in Values
    BY <1>4 DEF SendBuffered, Goto, IInv, TypeOK
  <2>2. /\ accepted' = delivered' \o buffer'
        /\ Len(accepted') = Len(accepted) + 1
    <3>1. /\ accepted' = Append(accepted, arg[g])
          /\ buffer' = Append(buffer, arg[g])
          /\ delivered' = delivered
          /\ accepted = delivered \o buffer
          /\ buffer \in Seq(Values) /\ delivered \in Seq(Values)
      BY <1>4 DEF SendBuffered, IInv, TypeOK, Conservation
    <3>2. accepted' = delivered' \o buffer'
      <4>1. Append(delivered \o buffer, arg[g]) = delivered \o Append(buffer, arg[g])
        <5>1. delivered \in Seq(Values) /\ buffer \in Seq(Values)
          BY <3>1
        <5>. QED
          BY <2>1, <5>1
      <4>. QED
        BY <3>1, <4>1, Zenon
    <3>3. Len(accepted') = Len(accepted) + 1
      BY <2>1, <3>1 DEF IInv, TypeOK
    <3>. QED
      BY <3>2, <3>3
  <2>3. \A h \in Goroutines : pc'[h] = pc[h] \/ pc'[h] = "idle"
    BY <1>4 DEF SendBuffered, Goto, IInv, TypeOK
  <2>4. Len(accepted) \in Nat /\ atClose \in Nat
    BY DEF IInv, TypeOK
  <2>5. NoDoubleClose' /\ LateSendRaises' /\ DrainedBeforeTold'
    BY <1>4, <2>3 DEF SendBuffered, IInv, NoDoubleClose, LateSendRaises,
                      DrainedBeforeTold, TypeOK
  <2>6. CloseOrder'
    <3>1. atClose' <= Len(accepted')
      BY <1>4, <2>2, <2>4 DEF SendBuffered, IInv, CloseOrder
    <3>2. UNCHANGED <<closed, done, late, told>>
      BY <1>4 DEF SendBuffered
    <3>. QED
      BY <2>3, <3>1, <3>2 DEF IInv, CloseOrder
  <2>. QED
    BY <2>2, <2>5, <2>6 DEF Conservation
<1>5. ASSUME NEW s \in Goroutines, NEW r \in Goroutines, Rendezvous(s, r)
      PROVE  Rest
  <2>1. arg[s] \in Values
    BY <1>5 DEF Rendezvous, IInv, TypeOK
  <2>2. buffer = <<>> /\ delivered = accepted
    BY <1>5 DEF Rendezvous, IInv, TypeOK, Conservation
  <2>3. /\ accepted' = delivered' \o buffer'
        /\ Len(accepted') = Len(accepted) + 1
        /\ Len(delivered') = Len(delivered) + 1
    BY <1>5, <2>1, <2>2 DEF Rendezvous, IInv, TypeOK
  <2>4. \A h \in Goroutines : pc'[h] = pc[h] \/ pc'[h] \in {"idle", "body"}
    BY <1>5 DEF Rendezvous, IInv, TypeOK
  <2>5. Len(accepted) \in Nat /\ Len(delivered) \in Nat /\ atClose \in Nat
    BY DEF IInv, TypeOK
  <2>6. NoDoubleClose' /\ LateSendRaises'
    BY <1>5, <2>4 DEF Rendezvous, IInv, NoDoubleClose, LateSendRaises, TypeOK
  <2>7. DrainedBeforeTold' /\ CloseOrder'
    <3>1. UNCHANGED <<closed, done, late, atClose, told>>
      BY <1>5 DEF Rendezvous
    <3>2. DrainedBeforeTold'
      BY <2>3, <2>5, <3>1 DEF IInv, DrainedBeforeTold
    <3>3. atClose' <= Len(accepted')
      BY <2>3, <2>5, <3>1 DEF IInv, CloseOrder
    <3>. QED
      BY <2>4, <3>1, <3>2, <3>3 DEF IInv, CloseOrder
  <2>. QED
    BY <2>3, <2>6, <2>7 DEF Conservation
<1>6. ASSUME NEW g \in Goroutines, DrainEmpty(g)
      PROVE  Rest
  <2>1. delivered = accepted
    BY <1>6 DEF DrainEmpty, IInv, TypeOK, Conservation
  <2>2. \A h \in Goroutines : pc'[h] = pc[h] \/ pc'[h] = "idle"
    BY <1>6 DEF DrainEmpty, Goto, IInv, TypeOK
  <2>3. done
    BY <1>6 DEF DrainEmpty, Goto, IInv, CloseOrder
  <2>4. DrainedBeforeTold' /\ Conservation'
    BY <1>6, <2>1 DEF DrainEmpty, IInv, DrainedBeforeTold, Conservation, CloseOrder
  <2>5. NoDoubleClose' /\ LateSendRaises' /\ CloseOrder'
    BY <1>6, <2>2, <2>3 DEF DrainEmpty, IInv, NoDoubleClose, LateSendRaises,
                            CloseOrder, TypeOK
  <2>. QED
    BY <2>4, <2>5
<1>7. ASSUME NEW g \in Goroutines, CloseBegin(g)
      PROVE  Rest
  <2>1. UNCHANGED <<buffer, done, late, accepted, delivered, told>>
    BY <1>7 DEF CloseBegin
  <2>2. CASE closed
    <3>1. UNCHANGED <<closed, pc, atClose>>
      BY <1>7, <2>2 DEF CloseBegin
    <3>. QED
      BY <2>1, <3>1 DEF IInv, Conservation, NoDoubleClose, DrainedBeforeTold,
                        LateSendRaises, CloseOrder
  <2>3. CASE ~closed
    <3>1. closed' /\ atClose' = Len(accepted)
      BY <1>7, <2>3 DEF CloseBegin
    <3>2. /\ \A h \in Goroutines \ {g} : pc'[h] = pc[h]
          /\ pc'[g] = "closeDone"
      BY <1>7, <2>3 DEF CloseBegin, Goto, IInv, TypeOK
    <3>3. ~done /\ ~told /\ \A h \in Goroutines : pc[h] /= "closeDone"
      BY <2>3 DEF IInv, CloseOrder
    <3>4. Len(accepted) \in Nat
      BY DEF IInv, TypeOK
    <3>5. NoDoubleClose' /\ LateSendRaises'
      BY <2>1, <3>2, <3>3 DEF IInv, NoDoubleClose, LateSendRaises, TypeOK
    <3>6. Conservation' /\ DrainedBeforeTold' /\ CloseOrder'
      BY <2>1, <3>1, <3>2, <3>3, <3>4
         DEF IInv, Conservation, DrainedBeforeTold, CloseOrder
    <3>. QED
      BY <3>5, <3>6
  <2>. QED
    BY <2>2, <2>3
<1>8. ASSUME NEW g \in Goroutines, CloseDone(g)
      PROVE  Rest
  <2>1. UNCHANGED <<buffer, closed, late, accepted, delivered, atClose, told>> /\ done'
    BY <1>8 DEF CloseDone
  <2>2. /\ \A h \in Goroutines \ {g} : pc'[h] = pc[h]
        /\ pc[g] = "closeDone" /\ pc'[g] = "idle"
    BY <1>8 DEF CloseDone, Goto, IInv, TypeOK
  <2>3. Conservation' /\ DrainedBeforeTold'
    BY <2>1 DEF IInv, Conservation, DrainedBeforeTold
  <2>4. NoDoubleClose' /\ LateSendRaises' /\ CloseOrder'
    BY <2>1, <2>2 DEF IInv, NoDoubleClose, LateSendRaises, CloseOrder, TypeOK
  <2>. QED
    BY <2>3, <2>4
<1>9. ASSUME UNCHANGED vars
      PROVE  Rest
  <2>1. UNCHANGED <<buffer, closed, done, pc, late, accepted, delivered, atClose, told>>
    BY <1>9 DEF vars
  <2>2. Conservation' /\ DrainedBeforeTold'
    BY <2>1 DEF IInv, Conservation, DrainedBeforeTold
  <2>3. NoDoubleClose' /\ LateSendRaises'
    BY <2>1 DEF IInv, NoDoubleClose, LateSendRaises
  <2>4. CloseOrder'
    BY <2>1 DEF IInv, CloseOrder
  <2>. QED
    BY <2>2, <2>3, <2>4
<1> HIDE DEF Rest
<1>10. Rest
  BY <1>1, <1>2, <1>3, <1>4, <1>5, <1>6, <1>7, <1>8, <1>9
     DEF Next, Begin, Continue
<1>. QED
  BY <1>0, <1>10 DEF IInv, Rest

LEMMA Invariance == Spec => []IInv
  BY InitInv, NextInv, PTL DEF Spec

\* Nothing accepted is lost, duplicated or reordered.
THEOREM ConservationHolds == Spec => []Conservation
<1>1. IInv => Conservation
  BY DEF IInv
<1>. QED
  BY Invariance, <1>1, PTL

\* close(done) cannot panic: done is closed at most once.
THEOREM NoDoubleCloseHolds == Spec => []NoDoubleClose
<1>1. IInv => NoDoubleClose
  BY DEF IInv
<1>. QED
  BY Invariance, <1>1, PTL

\* A receiver told "closed and drained" leaves behind nothing that was sent
\* before the close.
THEOREM DrainedBeforeToldHolds == Spec => []DrainedBeforeTold
<1>1. IInv => DrainedBeforeTold
  BY DEF IInv
<1>. QED
  BY Invariance, <1>1, PTL

\* A send begun after a close returned raises.
THEOREM LateSendRaisesHolds == Spec => []LateSendRaises
<1>1. IInv => LateSendRaises
  BY DEF IInv
<1>. QED
  BY Invariance, <1>1, PTL

-----------------------------------------------------------------------------
(* Refinement.                                                             *)

LEMMA InitRefines == Init => Queue!QInit
<1> SUFFICES ASSUME Init PROVE Queue!QInit
  OBVIOUS
<1>1. cap \in Nat
  BY InitType DEF TypeOK
<1>2. InSelect = {}
  BY DEF Init, InSelect
<1>. QED
  BY <1>1, <1>2 DEF Init, Queue!QInit

LEMMA NextRefines == IInv /\ [Next]_vars => [Queue!QNext]_Queue!qvars
<1> SUFFICES ASSUME IInv, [Next]_vars PROVE [Queue!QNext]_Queue!qvars
  OBVIOUS
<1> DEFINE Step == [Queue!QNext]_Queue!qvars
<1> USE DEF shared, local, history, HasRoom, SendRefused, AlreadyClosed
<1>0. TypeOK
  BY DEF IInv
<1>1. ASSUME NEW g \in Goroutines, NEW v \in Values, SendBegin(g, v)
      PROVE  Step
  <2>1. CASE closed
    <3>1. UNCHANGED <<cap, buffer, closed, told, pc>>
      BY <1>1, <2>1 DEF SendBegin
    <3>2. InSelect' = InSelect
      BY <3>1 DEF InSelect
    <3>. QED
      BY <3>1, <3>2 DEF Queue!qvars
  <2>2. CASE ~closed
    <3>1. UNCHANGED <<cap, buffer, closed, told>>
      BY <1>1 DEF SendBegin
    <3>2. g \notin InSelect /\ InSelect' = InSelect \cup {g}
      BY <1>0, <1>1, <2>2 DEF SendBegin, Goto, InSelect, TypeOK
    <3>3. Queue!Admit(g)
      BY <2>2, <3>1, <3>2 DEF Queue!Admit
    <3>. QED
      BY <3>3 DEF Queue!QNext
  <2>. QED
    BY <2>1, <2>2
<1>2. ASSUME NEW g \in Goroutines,
             RecvBegin(g) \/ RangeBegin(g) \/ RecvDone(g) \/ BodyNext(g)
               \/ BodyLeave(g) \/ CloseDone(g)
      PROVE  Step
  <2>1. UNCHANGED <<cap, buffer, closed, told>>
    BY <1>2 DEF RecvBegin, RangeBegin, RecvDone, BodyNext, BodyLeave, CloseDone
  <2>2. InSelect' = InSelect
    BY <1>0, <1>2 DEF RecvBegin, RangeBegin, RecvDone, BodyNext, BodyLeave,
                      CloseDone, Goto, InSelect, TypeOK
  <2>. QED
    BY <2>1, <2>2 DEF Queue!qvars
<1>3. ASSUME NEW g \in Goroutines, RecvValue(g) \/ DrainValue(g)
      PROVE  Step
  <2>1. /\ buffer /= <<>> /\ buffer' = Tail(buffer)
        /\ UNCHANGED <<cap, closed, told>>
    BY <1>3 DEF RecvValue, DrainValue
  <2>2. InSelect' = InSelect
    BY <1>0, <1>3 DEF RecvValue, DrainValue, Receives, Goto, InSelect, TypeOK
  <2>3. Queue!Take
    BY <2>1, <2>2 DEF Queue!Take
  <2>. QED
    BY <2>3 DEF Queue!QNext
<1>4. ASSUME NEW g \in Goroutines, SendBuffered(g)
      PROVE  Step
  <2>1. g \in InSelect /\ InSelect' = InSelect \ {g} /\ arg[g] \in Values
    BY <1>0, <1>4 DEF SendBuffered, Goto, InSelect, TypeOK
  <2>2. Queue!Put(g, arg[g])
    BY <1>4, <2>1 DEF SendBuffered, Queue!Put
  <2>. QED
    BY <2>1, <2>2 DEF Queue!QNext
<1>5. ASSUME NEW s \in Goroutines, NEW r \in Goroutines, Rendezvous(s, r)
      PROVE  Step
  <2>1. s \in InSelect /\ InSelect' = InSelect \ {s}
    BY <1>0, <1>5 DEF Rendezvous, InSelect, TypeOK
  <2>2. Queue!HandOver(s)
    BY <1>5, <2>1 DEF Rendezvous, Queue!HandOver
  <2>. QED
    BY <2>2 DEF Queue!QNext
<1>6. ASSUME NEW g \in Goroutines, SendReleased(g)
      PROVE  Step
  <2>1. g \in InSelect /\ InSelect' = InSelect \ {g}
    BY <1>0, <1>6 DEF SendReleased, Goto, InSelect, TypeOK
  <2>2. closed
    BY <1>6 DEF SendReleased, IInv, CloseOrder
  <2>3. Queue!Refuse(g)
    BY <1>6, <2>1, <2>2 DEF SendReleased, Queue!Refuse
  <2>. QED
    BY <2>3 DEF Queue!QNext
<1>7. ASSUME NEW g \in Goroutines, DrainEmpty(g)
      PROVE  Step
  <2>1. InSelect' = InSelect
    BY <1>0, <1>7 DEF DrainEmpty, Goto, InSelect, TypeOK
  <2>2. closed
    BY <1>7 DEF DrainEmpty, Goto, IInv, CloseOrder
  <2>3. Queue!Report
    BY <1>7, <2>1, <2>2 DEF DrainEmpty, Queue!Report
  <2>. QED
    BY <2>3 DEF Queue!QNext
<1>8. ASSUME NEW g \in Goroutines, CloseBegin(g)
      PROVE  Step
  <2>1. InSelect' = InSelect
    BY <1>0, <1>8 DEF CloseBegin, Goto, InSelect, TypeOK
  <2>2. CASE closed
    BY <1>8, <2>1, <2>2 DEF CloseBegin, Queue!qvars
  <2>3. CASE ~closed
    <3>1. Queue!Shut
      BY <1>8, <2>1, <2>3 DEF CloseBegin, Queue!Shut
    <3>. QED
      BY <3>1 DEF Queue!QNext
  <2>. QED
    BY <2>2, <2>3
<1>9. ASSUME UNCHANGED vars
      PROVE  Step
  BY <1>9 DEF vars, InSelect, Queue!qvars
<1> HIDE DEF Step
<1>10. Step
  BY <1>1, <1>2, <1>3, <1>4, <1>5, <1>6, <1>7, <1>8, <1>9
     DEF Next, Begin, Continue
<1>. QED
  BY <1>10 DEF Step

\* The channel implements the closable queue: admitted senders may outlive
\* the close, nobody else does, and "drained" is reported of an empty queue.
THEOREM Refinement == Spec => ImplementsQueue
  BY InitRefines, NextRefines, Invariance, PTL
     DEF Spec, ImplementsQueue, Queue!QSpec

-----------------------------------------------------------------------------
(* What a close does for those that wait.                                  *)

\* g is in a select that a close interrupts, and the channel is closed.
Waits(g) == done /\ pc[g] \in {"sendSelect", "recvSelect", "recvDrain"}

\* Whoever waits at a closed channel can go on.
CloseWakes == \A g \in Goroutines : Waits(g) => ENABLED <<Continue(g)>>_vars

\* What g may then do: a sender takes the case of done, a receiver goes to its
\* second select, and comes out of that with a value or with the end.
Woken(g) ==
  LET takes == pc[g] = "recvDrain" /\ buffer /= <<>>
      ends  == pc[g] = "recvDrain" /\ buffer = <<>>
  IN
  /\ pc' = [pc EXCEPT ![g] =
              IF @ = "recvSelect" THEN "recvDrain"
              ELSE IF takes /\ g \in ranging THEN "body" ELSE "idle"]
  /\ arg' = IF pc[g] = "sendSelect" THEN [arg EXCEPT ![g] = None] ELSE arg
  /\ buffer' = IF takes THEN Tail(buffer) ELSE buffer
  /\ delivered' = IF takes THEN Append(delivered, Head(buffer)) ELSE delivered
  /\ ranging' = IF ends THEN ranging \ {g} ELSE ranging
  /\ told' = (told \/ ends)
  /\ UNCHANGED <<cap, closed, done, late, accepted, atClose>>

\* It is a step of g's operation.  Woken gives each variable the value of an
\* expression of the present state, so every state has such a successor: this
\* is what CloseWakes says, in the words of the provers, to which ENABLED is
\* opaque.
LEMMA WokenContinues ==
  ASSUME TypeOK, NEW g \in Goroutines, Waits(g), Woken(g)
  PROVE  <<Continue(g)>>_vars
<1> USE DEF Waits, Woken, Goto, Receives, shared, local, history
<1>1. pc'[g] /= pc[g]
  BY DEF TypeOK
<1>0. told \in BOOLEAN /\ pc \in [Goroutines -> PCs]
  BY DEF TypeOK
<1>2. CASE pc[g] = "sendSelect"
  <2>1. SendReleased(g)
    BY <1>0, <1>2 DEF SendReleased
  <2> QED
    BY <1>1, <2>1 DEF Continue, vars
<1>3. CASE pc[g] = "recvSelect"
  <2>1. RecvDone(g)
    BY <1>0, <1>3 DEF RecvDone
  <2> QED
    BY <1>1, <2>1 DEF Continue, vars
<1>4. CASE pc[g] = "recvDrain" /\ buffer /= <<>>
  <2>1. DrainValue(g)
    BY <1>0, <1>4 DEF DrainValue
  <2> QED
    BY <1>1, <2>1 DEF Continue, vars
<1>5. CASE pc[g] = "recvDrain" /\ buffer = <<>>
  <2>1. DrainEmpty(g)
    BY <1>5 DEF DrainEmpty
  <2> QED
    BY <1>1, <2>1 DEF Continue, vars
<1> QED
  BY <1>2, <1>3, <1>4, <1>5

\* Whoever waits at a closed channel goes on waiting, comes out, or looks at
\* the buffer once more; a step of its own is one of the last two.
LEMMA WaitStep ==
  ASSUME TypeOK, [Next]_vars, NEW g \in Goroutines, Waits(g)
  PROVE  /\ done'
         /\ pc'[g] \in {pc[g], "idle", "body"} \/ (pc[g] = "recvSelect" /\ pc'[g] = "recvDrain")
         /\ Continue(g) => pc'[g] /= pc[g]
<1> USE DEF Waits, TypeOK, PCs, shared, local, history, Goto, Receives
<1>1. ASSUME NEW h \in Goroutines, Begin(h) PROVE done' /\ pc'[g] = pc[g]
  BY <1>1 DEF Begin, SendBegin, RecvBegin, RangeBegin, CloseBegin
<1>2. ASSUME NEW h \in Goroutines, h /= g, Continue(h)
      PROVE  done' /\ pc'[g] = pc[g]
  BY <1>2 DEF Continue, SendBuffered, Rendezvous, SendReleased, RecvValue, RecvDone, DrainValue,
              DrainEmpty, BodyNext, BodyLeave, CloseDone
<1>3. ASSUME Continue(g)
      PROVE  /\ done'
             /\ pc'[g] \in {"idle", "body"} \/ (pc[g] = "recvSelect" /\ pc'[g] = "recvDrain")
  BY <1>3 DEF Continue, SendBuffered, Rendezvous, SendReleased, RecvValue, RecvDone, DrainValue,
              DrainEmpty, BodyNext, BodyLeave, CloseDone
<1>4. CASE UNCHANGED vars
  BY <1>4, <1>3 DEF vars
<1>5. CASE Next
  BY <1>1, <1>2, <1>3, <1>5 DEF Next
<1> QED
  BY <1>3, <1>4, <1>5

\* A close frees everybody (closeChannel, sendChannel, recvChannel): under the
\* scheduling of FairSpec whoever is, or gets, blocked in a send or a receive
\* of a closed channel comes out of it, however many goroutines there are and
\* whatever they do to each other meanwhile.  CloseWakes is a hypothesis only
\* because the provers do not evaluate ENABLED: see WokenContinues.
THEOREM CloseReleasesHolds == FairSpec /\ []CloseWakes => CloseReleases
<1> SUFFICES ASSUME NEW g \in Goroutines
             PROVE  FairSpec /\ []CloseWakes =>
                      (done /\ pc[g] \in {"sendSelect", "recvSelect", "recvDrain"}
                         ~> pc[g] \in {"idle", "body"})
  BY DEF CloseReleases
<1> DEFINE Send == done /\ pc[g] = "sendSelect"
           Recv == done /\ pc[g] = "recvSelect"
           Drain == done /\ pc[g] = "recvDrain"
           Out == pc[g] \in {"idle", "body"}
<1>1. TypeOK /\ Send /\ [Next]_vars => Send' \/ Out'
  BY WaitStep DEF Waits
<1>2. TypeOK /\ Recv /\ [Next]_vars => Recv' \/ Drain' \/ Out'
  BY WaitStep DEF Waits
<1>3. TypeOK /\ Drain /\ [Next]_vars => Drain' \/ Out'
  BY WaitStep DEF Waits
<1>4. TypeOK /\ Send /\ [Next]_vars /\ <<Continue(g)>>_vars => ~Send'
  BY WaitStep DEF Waits
<1>5. TypeOK /\ Recv /\ [Next]_vars /\ <<Continue(g)>>_vars => ~Recv'
  BY WaitStep DEF Waits
<1>6. TypeOK /\ Drain /\ [Next]_vars /\ <<Continue(g)>>_vars => ~Drain'
  BY WaitStep DEF Waits
<1>7. CloseWakes /\ (Send \/ Recv \/ Drain) => ENABLED <<Continue(g)>>_vars
  BY DEF CloseWakes, Waits
<1>8. done /\ pc[g] \in {"sendSelect", "recvSelect", "recvDrain"} <=> Send \/ Recv \/ Drain
  OBVIOUS
<1>9. FairSpec => WF_vars(Continue(g))
  <2>1. FairSpec => Scheduled(g)
    BY DEF FairSpec
  <2> QED
    BY <2>1, PTL DEF Scheduled
<1>10. FairSpec => []TypeOK /\ [][Next]_vars
  BY TypeCorrect, PTL DEF FairSpec, Spec
<1> QED
  BY <1>1, <1>2, <1>3, <1>4, <1>5, <1>6, <1>7, <1>8, <1>9, <1>10, PTL

-----------------------------------------------------------------------------
(* What is still sent after a close.                                       *)

\* What a loop over a closed channel may still get to see: the values sent so
\* far, received ones included, and those of the sends already in their select.
Feed == Len(accepted) + Cardinality(InSelect)

\* Each step of a closed channel leaves the senders in select or takes one
\* of them out, and only then is a value accepted.
LEMMA ClosedStep ==
  ASSUME TypeOK, closed, [Next]_vars
  PROVE  \/ accepted' = accepted /\ InSelect' \subseteq InSelect
         \/ \E s \in InSelect : /\ InSelect' = InSelect \ {s}
                                /\ accepted' = Append(accepted, arg[s])
<1> USE DEF InSelect, TypeOK, PCs, shared, local, history, Goto, Receives
<1>1. ASSUME NEW g \in Goroutines, Begin(g)
      PROVE  accepted' = accepted /\ InSelect' \subseteq InSelect
  BY <1>1 DEF Begin, SendBegin, SendRefused, RecvBegin, RangeBegin, CloseBegin, AlreadyClosed
<1>2. ASSUME NEW g \in Goroutines, SendBuffered(g)
      PROVE  /\ g \in InSelect /\ InSelect' = InSelect \ {g}
             /\ accepted' = Append(accepted, arg[g])
  BY <1>2 DEF SendBuffered
<1>3. ASSUME NEW g \in Goroutines, NEW r \in Goroutines, Rendezvous(g, r)
      PROVE  /\ g \in InSelect /\ InSelect' = InSelect \ {g}
             /\ accepted' = Append(accepted, arg[g])
  BY <1>3 DEF Rendezvous
<1>4. ASSUME NEW g \in Goroutines,
             \/ SendReleased(g) \/ RecvValue(g) \/ RecvDone(g) \/ DrainValue(g)
             \/ DrainEmpty(g) \/ BodyNext(g) \/ BodyLeave(g) \/ CloseDone(g)
      PROVE  accepted' = accepted /\ InSelect' \subseteq InSelect
  BY <1>4 DEF SendReleased, RecvValue, RecvDone, DrainValue, DrainEmpty, BodyNext, BodyLeave,
              CloseDone
<1>5. CASE UNCHANGED vars
  BY <1>5 DEF vars
<1> HIDE DEF InSelect
<1> QED
  BY <1>1, <1>2, <1>3, <1>4, <1>5 DEF Next, Continue

\* After a close nothing new is fed to the loops over the channel: only values
\* that were buffered and those of the senders the close caught in their
\* select can still be received (the closed check of sendChannel).  This is
\* the bound that lets a loop over a closed channel end; finitely many
\* goroutines have finitely many of them.
THEOREM ClosedFeedsNoMore ==
  ASSUME IsFiniteSet(Goroutines)
  PROVE  Spec => [][closed => Feed' <= Feed]_vars
<1>1. ASSUME TypeOK, closed, [Next]_vars
      PROVE  Feed' <= Feed
  <2>1. /\ IsFiniteSet(InSelect) /\ Cardinality(InSelect) \in Nat
        /\ accepted \in Seq(Values) /\ Len(accepted) \in Nat
    BY <1>1, FS_Subset, FS_CardinalityType DEF InSelect, TypeOK
  <2>2. CASE accepted' = accepted /\ InSelect' \subseteq InSelect
    <3>1. Cardinality(InSelect') \in Nat /\ Cardinality(InSelect') <= Cardinality(InSelect)
      BY <2>1, <2>2, FS_Subset, FS_CardinalityType
    <3> QED
      BY <2>1, <2>2, <3>1 DEF Feed
  <2>3. ASSUME NEW s \in InSelect, InSelect' = InSelect \ {s},
               accepted' = Append(accepted, arg[s])
        PROVE  Feed' <= Feed
    <3>1. Cardinality(InSelect') = Cardinality(InSelect) - 1
      BY <2>1, <2>3, FS_RemoveElement
    <3>2. Len(accepted') = Len(accepted) + 1
      <4>1. arg[s] \in Values
        BY <1>1 DEF InSelect, TypeOK
      <4> QED
        BY <2>1, <2>3, <4>1
    <3> QED
      BY <2>1, <3>1, <3>2 DEF Feed
  <2> QED
    BY <1>1, <2>2, <2>3, ClosedStep
<1> QED
  BY <1>1, TypeCorrect, PTL DEF Spec
=============================================================================
