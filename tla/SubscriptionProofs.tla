---- MODULE SubscriptionProofs ----
(* Proofs about Subscription, for any number of cancelers and events, any  *)
(* capacity and either source.                                             *)
EXTENDS Subscription, TLAPS

\* Every step keeps the variables in their ranges.
LEMMA TypeStep == IndInv /\ [Next]_vars => TypeOK'
<1> SUFFICES ASSUME IndInv, [Next]_vars PROVE TypeOK'
  OBVIOUS
<1> USE SubscriptionAssumption DEF IndInv, TypeOK, PumpInv, Items, Checks, Shapes, sourceVars, cancelVars, readerVars
<1>1. CASE Reject
  BY <1>1 DEF Reject
<1>2. CASE Accept
  BY <1>2 DEF Accept
<1>3. CASE Emit
  BY <1>3 DEF Emit, Room
<1>4. CASE Finish
  BY <1>4 DEF Finish, SenderBlocked
<1>5. CASE Next_
  BY <1>5 DEF Next_, Stopped, AfterLoop
<1>6. CASE CallUserNext
  BY <1>6 DEF CallUserNext
<1>7. CASE Take
  BY <1>7 DEF Take, HeadEvent, AfterTake
<1>8. CASE SelectDone
  BY <1>8 DEF SelectDone, SelectSeesDone, AfterLoop
<1>9. CASE SourceEOF
  BY <1>9 DEF SourceEOF, AfterLoop
<1>10. CASE SourceFails
  BY <1>10 DEF SourceFails, FailureItem
<1>11. CASE NextReleased
  BY <1>11 DEF NextReleased, AfterLoop, FailureItem
<1>12. CASE Complete
  BY <1>12 DEF Complete, DataOf, Outcomes, Shapes
<1>13. CASE DeliverSends
  BY <1>13 DEF DeliverSends, AfterDeliver, AfterLoop, CancelReturned
<1>14. CASE DeliverDrops
  BY <1>14 DEF DeliverDrops, DeliverAborts, AfterLoop
<1>15. CASE PumpClosesIterator
  BY <1>15 DEF PumpClosesIterator
<1>16. CASE PumpClosesResults
  BY <1>16 DEF PumpClosesResults
<1>17. CASE Read
  BY <1>17 DEF Read
<1>18. CASE SeeClose
  BY <1>18 DEF SeeClose
<1>19. CASE Leave
  BY <1>19 DEF Leave
<1>20. ASSUME NEW c \in Cancelers, CancelNil(c) PROVE TypeOK'
  BY <1>20 DEF CancelNil
<1>21. ASSUME NEW c \in Cancelers, CallCancel(c) PROVE TypeOK'
  BY <1>21 DEF CallCancel
<1>22. ASSUME NEW c \in Cancelers, EnterOnce(c) PROVE TypeOK'
  BY <1>22 DEF EnterOnce, OnceFree
<1>23. ASSUME NEW c \in Cancelers, CloseDone(c) PROVE TypeOK'
  BY <1>23 DEF CloseDone
<1>24. ASSUME NEW c \in Cancelers, CancelerClosesIterator(c) PROVE TypeOK'
  BY <1>24 DEF CancelerClosesIterator, OnceFinished
<1>25. ASSUME NEW c \in Cancelers, SkipOnce(c) PROVE TypeOK'
  BY <1>25 DEF SkipOnce
<1>26. CASE UNCHANGED vars
  BY <1>26 DEF vars
<1> QED
  BY <1>1, <1>2, <1>3, <1>4, <1>5, <1>6, <1>7, <1>8, <1>9, <1>10, <1>11,
     <1>12, <1>13, <1>14, <1>15, <1>16, <1>17, <1>18, <1>19, <1>20, <1>21,
     <1>22, <1>23, <1>24, <1>25, <1>26
     DEF Next, Pump, InCancel

\* Every step keeps the pump's account of events sent, held and received.
LEMMA PumpStep == IndInv /\ [Next]_vars => PumpInv'
<1> SUFFICES ASSUME IndInv, [Next]_vars PROVE PumpInv'
  OBVIOUS
<1> USE SubscriptionAssumption DEF IndInv, TypeOK, PumpInv, CancelInv, Items, Results, Shapes, Checks, Looping, Unwinding, Exhausted, InOrder, sourceVars, cancelVars, readerVars
<1>1. CASE Reject
  BY <1>1 DEF Reject
<1>2. CASE Accept
  BY <1>2 DEF Accept
<1>3. CASE Emit
  BY <1>3 DEF Emit, Room
<1>4. CASE Finish
  BY <1>4 DEF Finish, SenderBlocked
<1>5. CASE Next_
  BY <1>5 DEF Next_, Stopped, AfterLoop
<1>6. CASE CallUserNext
  BY <1>6 DEF CallUserNext
<1>7. CASE Take
  <2>1. /\ pc = "wait" /\ pc' = "complete" /\ queued > 0 /\ queued' = queued - 1
        /\ item'.ev = sent - queued + 1
        /\ UNCHANGED <<phase, adapter, sent, srcEnd, closed, done, received,
                       resultsClosed>>
    BY <1>7 DEF Take, HeadEvent, AfterTake
  <2>2. Len(received) = sent - queued /\ InOrder(Len(received)) /\ Len(received) \in Nat
    BY <2>1
  <2>3. item'.ev = Len(received') + 1 /\ item'.ev = sent' - queued' /\ InOrder(Len(received))'
    BY <2>1, <2>2
  <2>4. (Looping /\ closed => done)' /\ phase' = "active" /\ ~resultsClosed'
    BY <2>1
  <2> QED
    BY <2>1, <2>2, <2>3, <2>4
<1>8. CASE SelectDone
  BY <1>8 DEF SelectDone, SelectSeesDone, AfterLoop
<1>9. CASE SourceEOF
  BY <1>9 DEF SourceEOF, AfterLoop
<1>10. CASE SourceFails
  BY <1>10 DEF SourceFails, FailureItem
<1>11. CASE NextReleased
  BY <1>11 DEF NextReleased, AfterLoop, FailureItem
<1>12. CASE Complete
  BY <1>12 DEF Complete, DataOf, Outcomes, Shapes
<1>13. CASE DeliverSends
  <2>1. /\ pc = "deliver" /\ pc' = IF item.ev = 0 THEN "closeIter" ELSE "next"
        /\ received' = Append(received, item)
        /\ UNCHANGED <<phase, adapter, sent, queued, srcEnd, closed, done, item,
                       resultsClosed>>
    BY <1>13 DEF DeliverSends, AfterDeliver, AfterLoop
  <2>2. /\ Len(received') = Len(received) + 1
        /\ \A i \in 1..Len(received) : received'[i] = received[i]
        /\ received'[Len(received) + 1] = item
    BY <2>1
  <2>3. CASE item.ev = 0
    BY <2>1, <2>2, <2>3
  <2>4. CASE item.ev # 0
    <3>1. /\ item.ev = Len(received) + 1 /\ item.ev = sent - queued
          /\ pc' = "next" /\ Len(received') = sent - queued
      BY <2>1, <2>2, <2>4
    <3>2. InOrder(Len(received))'
      BY <2>1, <2>2, <3>1
    <3> QED
      BY <2>1, <3>1, <3>2
  <2> QED
    BY <2>3, <2>4
<1>14. CASE DeliverDrops
  BY <1>14 DEF DeliverDrops, DeliverAborts, AfterLoop
<1>15. CASE PumpClosesIterator
  BY <1>15 DEF PumpClosesIterator
<1>16. CASE PumpClosesResults
  BY <1>16 DEF PumpClosesResults
<1>17. CASE Read
  BY <1>17 DEF Read
<1>18. CASE SeeClose
  BY <1>18 DEF SeeClose
<1>19. CASE Leave
  BY <1>19 DEF Leave
<1>20. ASSUME NEW c \in Cancelers, CancelNil(c) PROVE PumpInv'
  BY <1>20 DEF CancelNil
<1>21. ASSUME NEW c \in Cancelers, CallCancel(c) PROVE PumpInv'
  BY <1>21 DEF CallCancel
<1>22. ASSUME NEW c \in Cancelers, EnterOnce(c) PROVE PumpInv'
  BY <1>22 DEF EnterOnce, OnceFree
<1>23. ASSUME NEW c \in Cancelers, CloseDone(c) PROVE PumpInv'
  BY <1>23 DEF CloseDone
<1>24. ASSUME NEW c \in Cancelers, CancelerClosesIterator(c) PROVE PumpInv'
  BY <1>24 DEF CancelerClosesIterator, OnceFinished
<1>25. ASSUME NEW c \in Cancelers, SkipOnce(c) PROVE PumpInv'
  BY <1>25 DEF SkipOnce
<1>26. CASE UNCHANGED vars
  BY <1>26 DEF vars
<1> QED
  BY <1>1, <1>2, <1>3, <1>4, <1>5, <1>6, <1>7, <1>8, <1>9, <1>10, <1>11,
     <1>12, <1>13, <1>14, <1>15, <1>16, <1>17, <1>18, <1>19, <1>20, <1>21,
     <1>22, <1>23, <1>24, <1>25, <1>26
     DEF Next, Pump, InCancel

\* Every step keeps at most one goroutine inside sync.Once.
LEMMA CancelStep == IndInv /\ [Next]_vars => CancelInv'
<1> SUFFICES ASSUME IndInv, [Next]_vars PROVE CancelInv'
  OBVIOUS
<1> USE SubscriptionAssumption DEF IndInv, TypeOK, PumpInv, CancelInv, Checks, NoPanic, Looping, Unwinding, sourceVars, cancelVars, readerVars
<1>1. CASE Reject
  BY <1>1 DEF Reject
<1>2. CASE Accept
  BY <1>2 DEF Accept
<1>3. CASE Emit
  BY <1>3 DEF Emit, Room
<1>4. CASE Finish
  BY <1>4 DEF Finish, SenderBlocked
<1>5. CASE Next_
  BY <1>5 DEF Next_, Stopped, AfterLoop
<1>6. CASE CallUserNext
  BY <1>6 DEF CallUserNext
<1>7. CASE Take
  BY <1>7 DEF Take, HeadEvent, AfterTake
<1>8. CASE SelectDone
  BY <1>8 DEF SelectDone, SelectSeesDone, AfterLoop
<1>9. CASE SourceEOF
  BY <1>9 DEF SourceEOF, AfterLoop
<1>10. CASE SourceFails
  BY <1>10 DEF SourceFails, FailureItem
<1>11. CASE NextReleased
  BY <1>11 DEF NextReleased, AfterLoop, FailureItem
<1>12. CASE Complete
  BY <1>12 DEF Complete, DataOf, Outcomes, Shapes
<1>13. CASE DeliverSends
  BY <1>13 DEF DeliverSends, AfterDeliver, AfterLoop, CancelReturned
<1>14. CASE DeliverDrops
  BY <1>14 DEF DeliverDrops, DeliverAborts, AfterLoop
<1>15. CASE PumpClosesIterator
  BY <1>15 DEF PumpClosesIterator
<1>16. CASE PumpClosesResults
  BY <1>16 DEF PumpClosesResults
<1>17. CASE Read
  BY <1>17 DEF Read
<1>18. CASE SeeClose
  BY <1>18 DEF SeeClose
<1>19. CASE Leave
  BY <1>19 DEF Leave
<1>20. ASSUME NEW c \in Cancelers, CancelNil(c) PROVE CancelInv'
  BY <1>20 DEF CancelNil
<1>21. ASSUME NEW c \in Cancelers, CallCancel(c) PROVE CancelInv'
  BY <1>21 DEF CallCancel
<1>22. ASSUME NEW c \in Cancelers, EnterOnce(c) PROVE CancelInv'
  BY <1>22 DEF EnterOnce, OnceFree
<1>23. ASSUME NEW c \in Cancelers, CloseDone(c) PROVE CancelInv'
  BY <1>23 DEF CloseDone
<1>24. ASSUME NEW c \in Cancelers, CancelerClosesIterator(c) PROVE CancelInv'
  BY <1>24 DEF CancelerClosesIterator, OnceFinished
<1>25. ASSUME NEW c \in Cancelers, SkipOnce(c) PROVE CancelInv'
  BY <1>25 DEF SkipOnce
<1>26. CASE UNCHANGED vars
  BY <1>26 DEF vars
<1> QED
  BY <1>1, <1>2, <1>3, <1>4, <1>5, <1>6, <1>7, <1>8, <1>9, <1>10, <1>11,
     <1>12, <1>13, <1>14, <1>15, <1>16, <1>17, <1>18, <1>19, <1>20, <1>21,
     <1>22, <1>23, <1>24, <1>25, <1>26
     DEF Next, Pump, InCancel

\* Every step keeps the account of results delivered after a Cancel returned.
LEMMA LateStep == IndInv /\ [Next]_vars => LateInv'
<1> SUFFICES ASSUME IndInv, [Next]_vars PROVE LateInv'
  OBVIOUS
<1> USE SubscriptionAssumption DEF IndInv, TypeOK, PumpInv, CancelInv, LateInv, Looping, Unwinding, Checks, sourceVars, cancelVars, readerVars
<1>1. CASE Reject
  BY <1>1 DEF Reject
<1>2. CASE Accept
  BY <1>2 DEF Accept
<1>3. CASE Emit
  BY <1>3 DEF Emit, Room
<1>4. CASE Finish
  BY <1>4 DEF Finish, SenderBlocked
<1>5. CASE Next_
  BY <1>5 DEF Next_, Stopped, AfterLoop
<1>6. CASE CallUserNext
  BY <1>6 DEF CallUserNext
<1>7. CASE Take
  BY <1>7 DEF Take, HeadEvent, AfterTake
<1>8. CASE SelectDone
  BY <1>8 DEF SelectDone, SelectSeesDone, AfterLoop
<1>9. CASE SourceEOF
  BY <1>9 DEF SourceEOF, AfterLoop
<1>10. CASE SourceFails
  BY <1>10 DEF SourceFails, FailureItem
<1>11. CASE NextReleased
  BY <1>11 DEF NextReleased, AfterLoop, FailureItem
<1>12. CASE Complete
  BY <1>12 DEF Complete, DataOf, Outcomes, Shapes
<1>13. CASE DeliverSends
  BY <1>13 DEF DeliverSends, AfterDeliver, AfterLoop, CancelReturned
<1>14. CASE DeliverDrops
  BY <1>14 DEF DeliverDrops, DeliverAborts, AfterLoop
<1>15. CASE PumpClosesIterator
  BY <1>15 DEF PumpClosesIterator
<1>16. CASE PumpClosesResults
  BY <1>16 DEF PumpClosesResults
<1>17. CASE Read
  BY <1>17 DEF Read
<1>18. CASE SeeClose
  BY <1>18 DEF SeeClose
<1>19. CASE Leave
  BY <1>19 DEF Leave
<1>20. ASSUME NEW c \in Cancelers, CancelNil(c) PROVE LateInv'
  BY <1>20 DEF CancelNil
<1>21. ASSUME NEW c \in Cancelers, CallCancel(c) PROVE LateInv'
  BY <1>21 DEF CallCancel
<1>22. ASSUME NEW c \in Cancelers, EnterOnce(c) PROVE LateInv'
  BY <1>22 DEF EnterOnce, OnceFree
<1>23. ASSUME NEW c \in Cancelers, CloseDone(c) PROVE LateInv'
  BY <1>23 DEF CloseDone
<1>24. ASSUME NEW c \in Cancelers, CancelerClosesIterator(c) PROVE LateInv'
  BY <1>24 DEF CancelerClosesIterator, OnceFinished
<1>25. ASSUME NEW c \in Cancelers, SkipOnce(c) PROVE LateInv'
  BY <1>25 DEF SkipOnce
<1>26. CASE UNCHANGED vars
  BY <1>26 DEF vars
<1> QED
  BY <1>1, <1>2, <1>3, <1>4, <1>5, <1>6, <1>7, <1>8, <1>9, <1>10, <1>11,
     <1>12, <1>13, <1>14, <1>15, <1>16, <1>17, <1>18, <1>19, <1>20, <1>21,
     <1>22, <1>23, <1>24, <1>25, <1>26
     DEF Next, Pump, InCancel

\* The initial state satisfies the inductive invariant.
LEMMA InitInd == Init => IndInv
<1> SUFFICES ASSUME Init PROVE IndInv
  OBVIOUS
<1> USE SubscriptionAssumption DEF Init
<1>1. TypeOK
  <2>1. received \in Seq(Results) /\ sent \in 0..MaxEvents /\ queued \in 0..(Cap + 1)
    OBVIOUS
  <2>2. cpc \in [Cancelers -> {"idle", "once", "closeDone", "closeIter", "returned"}]
    OBVIOUS
  <2>3. item \in Items
    BY DEF Items, NoItem
  <2> QED
    BY <2>1, <2>2, <2>3 DEF TypeOK
<1>2. PumpInv
  BY DEF PumpInv, Checks, Looping, Unwinding
<1>3. CancelInv
  BY DEF CancelInv, NoPanic
<1>4. LateInv
  BY DEF LateInv
<1> QED
  BY <1>1, <1>2, <1>3, <1>4 DEF IndInv

\* Every reachable state satisfies the inductive invariant of the pump, Cancel
\* and the consumer.
THEOREM Inductive == Spec => []IndInv
<1>1. IndInv /\ [Next]_vars => IndInv'
  BY TypeStep, PumpStep, CancelStep, LateStep DEF IndInv
<1> QED
  BY InitInd, <1>1, PTL DEF Spec

\* Every variable of a subscription stays in its range.
THEOREM TypeCorrect == Spec => []TypeOK
  BY Inductive, PTL DEF IndInv

\* However many goroutines call Cancel at once, done is closed once
\* (subscription.go:46-57).
THEOREM CancelNeverPanics == Spec => []NoPanic
<1>1. IndInv => NoPanic
  BY DEF IndInv, CancelInv
<1> QED
  BY Inductive, <1>1, PTL

\* After a Cancel has returned the consumer gets at most one more result.
THEOREM OneLateResult == Spec => []AtMostOneLate
<1>1. IndInv => AtMostOneLate
  BY DEF IndInv, LateInv, AtMostOneLate
<1> QED
  BY Inductive, <1>1, PTL

\* Results closed without a cancellation means that all was delivered.
THEOREM NothingLost == Spec => []CompleteUnlessCanceled
<1>1. IndInv => CompleteUnlessCanceled
  BY DEF IndInv, TypeOK, PumpInv, Unwinding, Exhausted, CompleteUnlessCanceled
<1> QED
  BY Inductive, <1>1, PTL

\* Whoever sees Results closed finds the source's iterator closed.
THEOREM ReleasedFirst == Spec => []CloseOrder
<1>1. IndInv => CloseOrder
  BY DEF IndInv, PumpInv, CloseOrder
<1> QED
  BY Inductive, <1>1, PTL

----------------------------------------------------------------------------
(* The subscription implements EventStream.                                *)

\* What the consumer got, as EventStream sees it: the results' numbers.
Out == [i \in DOMAIN received |-> received[i].ev]

\* The abstract output is a sequence as long as the results received.
LEMMA OutShape ==
  IndInv => /\ Len(Out) = Len(received)
            /\ DOMAIN Out = 1..Len(received)
            /\ \A i \in 1..Len(received) : Out[i] = received[i].ev
            /\ Out \in Seq(Nat)
<1> SUFFICES ASSUME IndInv
             PROVE  /\ Len(Out) = Len(received)
                    /\ DOMAIN Out = 1..Len(received)
                    /\ \A i \in 1..Len(received) : Out[i] = received[i].ev
                    /\ Out \in Seq(Nat)
  OBVIOUS
<1>1. received \in Seq(Results)
  BY DEF IndInv, TypeOK
<1>2. Len(received) \in Nat /\ DOMAIN received = 1..Len(received)
  BY <1>1
<1>3. Out = [i \in 1..Len(received) |-> received[i].ev]
  BY <1>2 DEF Out
<1>4. \A i \in 1..Len(received) : received[i].ev \in Nat
  <2>1. \A i \in 1..Len(received) : received[i] \in Results
    BY <1>1
  <2> QED
    BY <2>1 DEF Results
<1>5. Out \in Seq(Nat) /\ Len(Out) = Len(received)
  BY <1>2, <1>3, <1>4
<1> QED
  BY <1>2, <1>3, <1>5

\* A result handed to the consumer is the stream's next event, or its failure.
LEMMA DeliverImplements ==
  IndInv /\ DeliverSends => Stream!Deliver \/ Stream!DeliverFailure
<1> SUFFICES ASSUME IndInv, DeliverSends
             PROVE  Stream!Deliver \/ Stream!DeliverFailure
  OBVIOUS
<1>1. /\ pc = "deliver" /\ ~resultsClosed
      /\ received' = Append(received, item)
      /\ UNCHANGED <<sent, srcEnd, done, resultsClosed>>
      /\ received \in Seq(Results) /\ item \in Items
  BY DEF DeliverSends, IndInv, TypeOK, PumpInv, Looping, cancelVars, sourceVars
<1>2. /\ Len(Out) = Len(received) /\ Out \in Seq(Nat)
      /\ DOMAIN Out = 1..Len(received)
      /\ \A i \in 1..Len(received) : Out[i] = i
  <2>1. InOrder(Len(received))
    BY <1>1 DEF IndInv, PumpInv, Looping
  <2> QED
    BY <2>1, OutShape DEF InOrder
<1>3. Out' = Append(Out, item.ev)
  <2>1. /\ DOMAIN received' = 1..(Len(received) + 1)
        /\ \A i \in 1..Len(received) : received'[i] = received[i]
        /\ received'[Len(received) + 1] = item
    BY <1>1
  <2>2. /\ Append(Out, item.ev) = [i \in 1..(Len(Out) + 1) |->
                                    IF i = Len(Out) + 1 THEN item.ev ELSE Out[i]]
    BY <1>1, <1>2 DEF Items
  <2>3. Out' = [i \in 1..(Len(received) + 1) |-> received'[i].ev]
    BY <2>1 DEF Out
  <2>4. \A i \in 1..(Len(received) + 1) :
          received'[i].ev = IF i = Len(Out) + 1 THEN item.ev ELSE Out[i]
    BY <2>1, <1>1, <1>2, OutShape
  <2> QED
    BY <2>2, <2>3, <2>4, <1>2
<1>4. \A i \in DOMAIN Out : Out[i] # 0
  BY <1>2, <1>1
<1>5. CASE item.ev # 0
  <2>1. item.ev = Len(received) + 1 /\ item.ev = sent - queued
    BY <1>1, <1>5 DEF IndInv, PumpInv
  <2>2. Len(Out) < sent /\ Out' = Append(Out, Len(Out) + 1)
    BY <1>1, <1>2, <1>3, <2>1 DEF IndInv, TypeOK
  <2> QED
    BY <1>1, <1>4, <2>2 DEF Stream!Deliver, Stream!Failed, Stream!Failure, Out
<1>6. CASE item.ev = 0
  <2>1. done \/ (srcEnd = "error" /\ Len(received) = sent)
    BY <1>1, <1>6 DEF IndInv, PumpInv, TypeOK
  <2>2. srcEnd = "error" /\ Len(received) = sent
          => \A e \in 1..sent : \E i \in DOMAIN Out : Out[i] = e
    BY <1>2, <1>1
  <2> QED
    BY <1>1, <1>3, <1>4, <1>6, <2>1, <2>2
       DEF Stream!DeliverFailure, Stream!Failed, Stream!Failure, Stream!Drained, Out
<1> QED
  BY <1>5, <1>6

\* Closing Results is the stream's Close: canceled, or all delivered.
LEMMA CloseImplements == IndInv /\ PumpClosesResults => Stream!Close
<1> SUFFICES ASSUME IndInv, PumpClosesResults PROVE Stream!Close
  OBVIOUS
<1>1. /\ pc = "closeResults" /\ ~resultsClosed /\ resultsClosed'
      /\ UNCHANGED <<sent, srcEnd, done, received>>
      /\ done \/ Exhausted
  BY DEF PumpClosesResults, IndInv, PumpInv, Unwinding, cancelVars, sourceVars,
         readerVars
<1>2. Exhausted => \A e \in 1..sent : \E i \in DOMAIN Out : Out[i] = e
  BY OutShape DEF Exhausted, InOrder, IndInv, TypeOK
<1>3. Exhausted => \/ srcEnd = "eof"
                   \/ srcEnd = "error" /\ \E i \in DOMAIN Out : Out[i] = 0
  <2>1. sent + 1 \in 1..(sent + 1)
    BY DEF IndInv, TypeOK
  <2> QED
    BY <2>1, OutShape DEF Exhausted
<1>4. Out' = Out
  BY <1>1 DEF Out
<1> QED
  BY <1>1, <1>2, <1>3, <1>4
     DEF Stream!Close, Stream!Drained, Stream!Failed, Stream!Failure, Out

\* Every step of the subscription is a step of the stream or a stutter.
LEMMA StepImplements ==
  IndInv /\ [Next]_vars => [Stream!StreamNext]_(Stream!streamVars)
<1> SUFFICES ASSUME IndInv, [Next]_vars
             PROVE  [Stream!StreamNext]_(Stream!streamVars)
  OBVIOUS
<1> USE DEF sourceVars, cancelVars, readerVars
<1>1. CASE UNCHANGED <<sent, srcEnd, received, done, resultsClosed>>
  BY <1>1 DEF Stream!streamVars
<1>2. CASE Emit
  BY <1>2 DEF Emit, Stream!Emit, Stream!StreamNext
<1>3. CASE Finish
  BY <1>3 DEF Finish, Stream!Finish, Stream!StreamNext
<1>4. CASE DeliverSends
  BY <1>4, DeliverImplements DEF Stream!StreamNext
<1>5. CASE PumpClosesResults
  BY <1>5, CloseImplements DEF Stream!StreamNext
<1>6. ASSUME NEW c \in Cancelers, CloseDone(c)
      PROVE  [Stream!StreamNext]_(Stream!streamVars)
  BY <1>6 DEF CloseDone, Stream!Cancel, Stream!StreamNext
<1>7. CASE Reject
  BY <1>7, <1>1 DEF Reject
<1>8. CASE Accept
  BY <1>8, <1>1 DEF Accept
<1>9. CASE Next_
  BY <1>9, <1>1 DEF Next_
<1>10. CASE CallUserNext
  BY <1>10, <1>1 DEF CallUserNext
<1>11. CASE Take
  BY <1>11, <1>1 DEF Take
<1>12. CASE SelectDone
  BY <1>12, <1>1 DEF SelectDone
<1>13. CASE SourceEOF
  BY <1>13, <1>1 DEF SourceEOF
<1>14. CASE SourceFails
  BY <1>14, <1>1 DEF SourceFails
<1>15. CASE NextReleased
  BY <1>15, <1>1 DEF NextReleased
<1>16. CASE Complete
  BY <1>16, <1>1 DEF Complete
<1>17. CASE DeliverDrops
  BY <1>17, <1>1 DEF DeliverDrops
<1>18. CASE PumpClosesIterator
  BY <1>18, <1>1 DEF PumpClosesIterator
<1>19. CASE Read
  BY <1>19, <1>1 DEF Read
<1>20. CASE SeeClose
  BY <1>20, <1>1 DEF SeeClose
<1>21. CASE Leave
  BY <1>21, <1>1 DEF Leave
<1>22. ASSUME NEW c \in Cancelers, CancelNil(c)
      PROVE  [Stream!StreamNext]_(Stream!streamVars)
  BY <1>22, <1>1 DEF CancelNil
<1>23. ASSUME NEW c \in Cancelers, CallCancel(c)
      PROVE  [Stream!StreamNext]_(Stream!streamVars)
  BY <1>23, <1>1 DEF CallCancel
<1>24. ASSUME NEW c \in Cancelers, EnterOnce(c)
      PROVE  [Stream!StreamNext]_(Stream!streamVars)
  BY <1>24, <1>1 DEF EnterOnce
<1>25. ASSUME NEW c \in Cancelers, CancelerClosesIterator(c)
      PROVE  [Stream!StreamNext]_(Stream!streamVars)
  BY <1>25, <1>1 DEF CancelerClosesIterator
<1>26. ASSUME NEW c \in Cancelers, SkipOnce(c)
      PROVE  [Stream!StreamNext]_(Stream!streamVars)
  BY <1>26, <1>1 DEF SkipOnce
<1>27. CASE UNCHANGED vars
  BY <1>27, <1>1 DEF vars
<1> QED
  BY <1>2, <1>3, <1>4, <1>5, <1>6, <1>7, <1>8, <1>9, <1>10, <1>11, <1>12,
     <1>13, <1>14, <1>15, <1>16, <1>17, <1>18, <1>19, <1>20, <1>21, <1>22,
     <1>23, <1>24, <1>25, <1>26, <1>27
     DEF Next, Pump, InCancel

\* The subscription implements the event stream, whatever the source, the
\* number of cancelers and the pace of the consumer.
THEOREM Implements == Spec => ImplementsStream
<1>1. Init => Stream!StreamInit
  BY DEF Init, Stream!StreamInit
<1> QED
  BY <1>1, StepImplements, Inductive, PTL
     DEF Spec, ImplementsStream, Stream!StreamSpec
====
