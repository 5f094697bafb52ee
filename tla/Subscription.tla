---- MODULE Subscription ----
(***************************************************************************)
(* One subscription of subscription.go: the checks of Executor.Subscribe,  *)
(* the goroutine that pumps events from the resolver's source into         *)
(* Results, the goroutines that call Cancel, the consumer that ranges over *)
(* Results, and the source itself.                                         *)
(*                                                                         *)
(* The source is not code of the repository: a channel some producer sends *)
(* on, or a user's AsyncIterator.  Its k-th event is the number k.         *)
(***************************************************************************)
EXTENDS Naturals, Sequences

CONSTANTS
  Cancelers,        \* goroutines that call Subscription.Cancel, once each
  MaxEvents,        \* bound: events the source emits
  Cap,              \* capacity of the source's channel, or iterator's buffer
  Adapters,         \* which sources the resolver may return: "chan", "iter"
  CloseUnblocks,    \* a user iterator's Close makes a blocked Next return
  RootNonNull       \* the subscription's root field has a non-null type

ASSUME SubscriptionAssumption ==
  /\ MaxEvents \in Nat
  /\ Cap \in Nat
  /\ Adapters \subseteq {"chan", "iter"}
  /\ CloseUnblocks \in BOOLEAN
  /\ RootNonNull \in BOOLEAN

VARIABLES
  phase,            \* "new", "active", or the check that rejected the request
  adapter,          \* which iterator newAsyncIterator built, or "none"
  sent,             \* events 1..sent were handed to the source
  queued,           \* of those, the last `queued` wait to be taken
  srcEnd,           \* "open", "eof" (channel closed, io.EOF) or "error"
  pc,               \* where the pump goroutine is
  item,             \* the event or failure the pump holds
  closed,           \* the iterator's Close ran, or its channel was seen closed
  done,             \* the done channel is closed
  once,             \* sync.Once: "new", "running", "done"
  cpc,              \* where each canceler is
  rx,               \* the consumer: "busy", "recv", "left", "ended"
  received,         \* history: the results the consumer got, in order
  resultsClosed,    \* the Results channel is closed
  panicked,         \* some goroutine closed a closed channel
  late              \* history: results received after some Cancel returned

sourceVars == <<sent, queued, srcEnd>>
cancelVars == <<done, once, cpc, panicked>>
readerVars == <<rx, received, late>>
vars == <<phase, adapter, sent, queued, srcEnd, pc, item, closed, done, once,
          cpc, rx, received, resultsClosed, panicked, late>>

----------------------------------------------------------------------------
(* Executor.Subscribe: synchronous checks, then the pump is started.       *)

\* The conditions under which Subscribe returns an error, in its order.
Checks == {"schema", "document", "operation", "kind", "variables", "rootType",
           "noField", "manyFields", "unknownField", "arguments", "resolver",
           "stream"}

\* A result's data: the object with the completed field, that object with a
\* null field, a null data entry, or no data because the source failed.
Shapes == {"value", "fieldNull", "dataNull", "failure"}

Results == [ev : Nat, data : Shapes]
Items == [ev : Nat, data : Shapes \cup {"raw"}]
NoItem == [ev |-> 0, data |-> "raw"]
FailureItem == [ev |-> 0, data |-> "failure"]

Init ==
  /\ phase = "new"
  /\ adapter = "none"
  /\ sent = 0 /\ queued = 0 /\ srcEnd = "open"
  /\ pc = "none"
  /\ item = NoItem
  /\ closed = FALSE
  /\ done = FALSE /\ once = "new" /\ panicked = FALSE
  /\ cpc = [c \in Cancelers |-> "idle"]
  /\ rx = "busy" /\ received = << >> /\ late = 0
  /\ resultsClosed = FALSE

\* The first check that fails, whichever it is, decides the error.
Reject ==
  /\ phase = "new"
  /\ phase' \in Checks
  /\ UNCHANGED <<adapter, sourceVars, pc, item, closed, cancelVars, readerVars,
                 resultsClosed>>

Accept ==
  /\ phase = "new"
  /\ phase' = "active"
  /\ adapter' \in Adapters
  /\ pc' = "next"
  /\ UNCHANGED <<sourceVars, item, closed, cancelVars, readerVars,
                 resultsClosed>>

----------------------------------------------------------------------------
(* The source, outside the repository.  An event a blocked sender holds    *)
(* counts as queued: a channel of capacity Cap has Cap + 1 places.         *)

Room == queued <= Cap

SenderBlocked == queued = Cap + 1

Emit ==
  /\ phase = "active"
  /\ srcEnd = "open"
  /\ Room
  /\ sent < MaxEvents
  /\ sent' = sent + 1
  /\ queued' = queued + 1
  /\ UNCHANGED <<phase, adapter, srcEnd, pc, item, closed, cancelVars,
                 readerVars, resultsClosed>>

\* A sender that is blocked in its send cannot close its channel.
Finish ==
  /\ phase = "active"
  /\ srcEnd = "open"
  /\ ~SenderBlocked
  /\ srcEnd' \in IF adapter = "chan" THEN {"eof"} ELSE {"eof", "error"}
  /\ UNCHANGED <<phase, adapter, sent, queued, pc, item, closed, cancelVars,
                 readerVars, resultsClosed>>

----------------------------------------------------------------------------
(* The pump goroutine: Next, completeValue, deliver, and the deferred      *)
(* calls.                                                                  *)

\* Where a return from the loop goes: the deferred calls run last in first
\* out, iter.Close before close(results).
AfterLoopKeepsResults == "exited"
AfterLoop == "closeIter"

\* What Next tests before it waits: the adapter's own flag or the done channel.
NeverStopped == FALSE
Stopped == IF adapter = "chan" THEN closed ELSE done

Next_ ==
  /\ pc = "next"
  /\ pc' = IF Stopped THEN AfterLoop ELSE IF adapter = "chan" THEN "wait" ELSE "call"
  /\ UNCHANGED <<phase, adapter, sourceVars, item, closed, cancelVars,
                 readerVars, resultsClosed>>

\* doneAwareIterator.Next: the test of done and the call are two steps.
CallUserNext ==
  /\ pc = "call"
  /\ pc' = "wait"
  /\ UNCHANGED <<phase, adapter, sourceVars, item, closed, cancelVars,
                 readerVars, resultsClosed>>

NewestEvent == sent
HeadEvent == sent - queued + 1

\* An event is completed against the selection set before it is delivered.
AfterTake == "complete"

\* reflect.Select chose the source, or the user's Next returned an event.
Take ==
  /\ pc = "wait"
  /\ queued > 0
  /\ queued' = queued - 1
  /\ item' = [ev |-> HeadEvent, data |-> "raw"]
  /\ pc' = AfterTake
  /\ UNCHANGED <<phase, adapter, sent, srcEnd, closed, cancelVars, readerVars,
                 resultsClosed>>

\* The done case of reflect.Select; a user's Next has no such case.
SelectIgnoresDone == FALSE
SelectSeesDone == adapter = "chan" /\ done

SelectDone ==
  /\ pc = "wait"
  /\ SelectSeesDone
  /\ pc' = AfterLoop
  /\ UNCHANGED <<phase, adapter, sourceVars, item, closed, cancelVars,
                 readerVars, resultsClosed>>

SourceEOF ==
  /\ pc = "wait"
  /\ queued = 0 /\ srcEnd = "eof"
  /\ closed' = (closed \/ adapter = "chan")
  /\ pc' = AfterLoop
  /\ UNCHANGED <<phase, adapter, sourceVars, item, cancelVars, readerVars,
                 resultsClosed>>

SourceFails ==
  /\ pc = "wait"
  /\ queued = 0 /\ srcEnd = "error"
  /\ item' = FailureItem
  /\ pc' = "deliver"
  /\ UNCHANGED <<phase, adapter, sourceVars, closed, cancelVars, readerVars,
                 resultsClosed>>

\* A user's Next that Close releases returns io.EOF, or an error of its own.
NextReleased ==
  /\ pc = "wait"
  /\ adapter = "iter" /\ closed /\ CloseUnblocks
  /\ \/ pc' = AfterLoop /\ UNCHANGED item
     \/ pc' = "deliver" /\ item' = FailureItem
  /\ UNCHANGED <<phase, adapter, sourceVars, closed, cancelVars, readerVars,
                 resultsClosed>>

\* What completeValue makes of an event: a value, a null, or an error.  A
\* non-null type turns a null into an error, and any error nulls the data.
Outcomes == {"value", "null", "error"}
DataOf(outcome) ==
  CASE outcome = "value" -> "value"
    [] outcome = "null" /\ ~RootNonNull -> "fieldNull"
    [] OTHER -> "dataNull"

Complete ==
  /\ pc = "complete"
  /\ \E outcome \in Outcomes : item' = [item EXCEPT !.data = DataOf(outcome)]
  /\ pc' = "deliver"
  /\ UNCHANGED <<phase, adapter, sourceVars, closed, cancelVars, readerVars,
                 resultsClosed>>

CancelReturned == \E c \in Cancelers : cpc[c] = "returned"

\* Only an event goes round the loop again; a failure is the last result.
AlwaysReturns(it) == AfterLoop
AfterDeliver(it) == IF it.ev = 0 THEN AfterLoop ELSE "next"

\* deliver, when the select takes the send: Results has no buffer, so the
\* consumer is receiving at that moment.
DeliverSends ==
  /\ pc = "deliver"
  /\ rx = "recv"
  /\ received' = Append(received, item)
  /\ late' = late + (IF CancelReturned THEN 1 ELSE 0)
  /\ rx' = "busy"
  /\ pc' = AfterDeliver(item)
  /\ UNCHANGED <<phase, adapter, sourceVars, item, closed, cancelVars,
                 resultsClosed>>

\* deliver, when the select takes done.
DropsWhenBusy == done \/ rx = "busy"
DeliverAborts == done

DeliverDrops ==
  /\ pc = "deliver"
  /\ DeliverAborts
  /\ pc' = AfterLoop
  /\ UNCHANGED <<phase, adapter, sourceVars, item, closed, cancelVars,
                 readerVars, resultsClosed>>

PumpClosesIterator ==
  /\ pc = "closeIter"
  /\ closed' = TRUE
  /\ pc' = "closeResults"
  /\ UNCHANGED <<phase, adapter, sourceVars, item, cancelVars, readerVars,
                 resultsClosed>>

PumpClosesResults ==
  /\ pc = "closeResults"
  /\ resultsClosed' = TRUE
  /\ pc' = "exited"
  /\ UNCHANGED <<phase, adapter, sourceVars, item, closed, cancelVars,
                 readerVars>>

Pump ==
  \/ Next_ \/ CallUserNext \/ Take \/ SelectDone \/ SourceEOF \/ SourceFails \/ NextReleased
  \/ Complete \/ DeliverSends \/ DeliverDrops
  \/ PumpClosesIterator \/ PumpClosesResults

----------------------------------------------------------------------------
(* Subscription.Cancel, by any number of goroutines.                       *)

\* A rejected request returned no subscription: Cancel of nil does nothing.
CancelNil(c) ==
  /\ phase \in Checks
  /\ cpc[c] = "idle"
  /\ cpc' = [cpc EXCEPT ![c] = "returned"]
  /\ UNCHANGED <<phase, adapter, sourceVars, pc, item, closed, done, once,
                 panicked, readerVars, resultsClosed>>

CallCancel(c) ==
  /\ phase = "active"
  /\ cpc[c] = "idle"
  /\ cpc' = [cpc EXCEPT ![c] = "once"]
  /\ UNCHANGED <<phase, adapter, sourceVars, pc, item, closed, done, once,
                 panicked, readerVars, resultsClosed>>

OnceIgnored == TRUE
OnceFree == once = "new"

EnterOnce(c) ==
  /\ cpc[c] = "once"
  /\ OnceFree
  /\ once' = "running"
  /\ cpc' = [cpc EXCEPT ![c] = "closeDone"]
  /\ UNCHANGED <<phase, adapter, sourceVars, pc, item, closed, done, panicked,
                 readerVars, resultsClosed>>

\* Closing a closed channel panics.
CloseDone(c) ==
  /\ cpc[c] = "closeDone"
  /\ panicked' = (panicked \/ done)
  /\ done' = TRUE
  /\ cpc' = [cpc EXCEPT ![c] = "closeIter"]
  /\ UNCHANGED <<phase, adapter, sourceVars, pc, item, closed, once,
                 readerVars, resultsClosed>>

OnceNeverFinishes == "running"
OnceFinished == "done"

CancelerClosesIterator(c) ==
  /\ cpc[c] = "closeIter"
  /\ closed' = TRUE
  /\ once' = OnceFinished
  /\ cpc' = [cpc EXCEPT ![c] = "returned"]
  /\ UNCHANGED <<phase, adapter, sourceVars, pc, item, done, panicked,
                 readerVars, resultsClosed>>

\* Do returns at once when the function has run, and waits while it runs.
SkipOnce(c) ==
  /\ cpc[c] = "once"
  /\ once = "done"
  /\ cpc' = [cpc EXCEPT ![c] = "returned"]
  /\ UNCHANGED <<phase, adapter, sourceVars, pc, item, closed, done, once,
                 panicked, readerVars, resultsClosed>>

InCancel(c) ==
  EnterOnce(c) \/ CloseDone(c) \/ CancelerClosesIterator(c) \/ SkipOnce(c)

----------------------------------------------------------------------------
(* The consumer of Results.                                                *)

Read ==
  /\ phase = "active"
  /\ rx = "busy"
  /\ rx' = "recv"
  /\ UNCHANGED <<phase, adapter, sourceVars, pc, item, closed, cancelVars,
                 received, late, resultsClosed>>

SeeClose ==
  /\ rx = "recv"
  /\ resultsClosed
  /\ rx' = "ended"
  /\ UNCHANGED <<phase, adapter, sourceVars, pc, item, closed, cancelVars,
                 received, late, resultsClosed>>

Leave ==
  /\ phase = "active"
  /\ rx \in {"busy", "recv"}
  /\ rx' = "left"
  /\ UNCHANGED <<phase, adapter, sourceVars, pc, item, closed, cancelVars,
                 received, late, resultsClosed>>

----------------------------------------------------------------------------
Next ==
  \/ Reject \/ Accept
  \/ Emit \/ Finish
  \/ Pump
  \/ \E c \in Cancelers : CancelNil(c) \/ CallCancel(c) \/ InCancel(c)
  \/ Read \/ SeeClose \/ Leave

Spec == Init /\ [][Next]_vars

(* Go runs every goroutine that can run: the pump, a canceler inside       *)
(* Cancel, a consumer that ranges over Results.  Nothing makes anyone call *)
(* Cancel, a source emit or end, or a consumer leave.                      *)
Fairness ==
  /\ WF_vars(Pump)
  /\ \A c \in Cancelers : WF_vars(InCancel(c))
  /\ WF_vars(Read)
  /\ WF_vars(SeeClose)

FairSpec == Spec /\ Fairness

----------------------------------------------------------------------------
(* Properties.                                                             *)

\* Every variable stays in its range: a source never holds more than its buffer
\* and one blocked sender, and no result leaves the pump that was not completed
\* against the selection set (subscription.go:153-180).
TypeOK ==
  /\ phase \in {"new", "active"} \cup Checks
  /\ adapter \in {"none", "chan", "iter"}
  /\ sent \in 0..MaxEvents
  /\ queued \in 0..(Cap + 1)
  /\ srcEnd \in {"open", "eof", "error"}
  /\ pc \in {"none", "next", "call", "wait", "complete", "deliver", "closeIter",
             "closeResults", "exited"}
  /\ item \in Items
  /\ closed \in BOOLEAN
  /\ done \in BOOLEAN
  /\ once \in {"new", "running", "done"}
  /\ cpc \in [Cancelers -> {"idle", "once", "closeDone", "closeIter", "returned"}]
  /\ rx \in {"busy", "recv", "left", "ended"}
  /\ received \in Seq(Results)
  /\ resultsClosed \in BOOLEAN
  /\ panicked \in BOOLEAN
  /\ late \in Nat

\* Cancel "is safe to call multiple times" (subscription.go:46): however many
\* goroutines call it at once, the done channel is closed once.
NoPanic == ~panicked

\* deliver's select and Next's select may each let one event past a closed
\* done channel, but not twice: after some Cancel has returned the consumer
\* gets at most one more result (subscription.go:46, 185).
AtMostOneLate == late <= 1

\* Results is closed early only for a cancellation: otherwise the source has
\* ended and everything it emitted was delivered first, its failure included
\* (subscription.go:35-37).
CompleteUnlessCanceled ==
  resultsClosed /\ ~done =>
    /\ srcEnd # "open"
    /\ Len(received) = sent + (IF srcEnd = "error" THEN 1 ELSE 0)

\* A consumer that sees Results closed may rely on the source having been
\* released: the iterator is closed first (subscription.go:154-155).
CloseOrder == resultsClosed => closed

\* A subscription is an event stream: in order, no loss, no duplicate.
Stream == INSTANCE EventStream WITH
  emitted <- sent,
  ended <- srcEnd,
  out <- [i \in DOMAIN received |-> received[i].ev],
  canceled <- done,
  closed <- resultsClosed

\* The pump and its adapters implement EventStream (subscription.go:59-64).
ImplementsStream == Stream!StreamSpec

\* A cancellation closes Results when the source is a channel or an iterator
\* whose Close releases Next, whatever the consumer does (subscription.go:35-37).
CancelStops == done ~> resultsClosed

\* When the source ends, a consumer that keeps reading sees Results closed
\* (subscription.go:35-37), with or without a concurrent Cancel.
EndIsSeen == srcEnd # "open" ~> rx \in {"ended", "left"}

\* Every call of Cancel returns, those that find another one running included
\* (subscription.go:46).
CancelReturns ==
  \A c \in Cancelers : cpc[c] = "once" ~> cpc[c] = "returned"

\* Back-pressure, not loss: a sender blocked on the source's channel gets its
\* event taken while the consumer keeps reading and nobody cancels.
SenderReleased == SenderBlocked ~> (~SenderBlocked \/ done \/ rx = "left")

----------------------------------------------------------------------------
(* The inductive invariant behind the safety properties.                   *)

Looping == pc \in {"next", "call", "wait", "complete", "deliver"}
Unwinding == pc \in {"closeIter", "closeResults", "exited"}

\* The consumer got events 1..n, in order, as its first n results.
InOrder(n) == \A i \in 1..n : received[i].ev = i

\* The consumer got exactly what the source emitted, and it has ended.
Exhausted ==
  /\ queued = 0
  /\ InOrder(sent)
  /\ \/ srcEnd = "eof" /\ Len(received) = sent
     \/ /\ srcEnd = "error" /\ Len(received) = sent + 1
        /\ received[sent + 1].ev = 0

\* What each control point of the pump says of events sent, held and received.
PumpInv ==
  /\ pc = "none" <=> phase # "active"
  /\ queued <= sent
  /\ pc = "none" => sent = 0 /\ srcEnd = "open" /\ received = << >>
                     /\ ~done /\ ~closed
  /\ phase = "active" => adapter \in {"chan", "iter"}
  /\ Looping => InOrder(Len(received)) /\ Len(received) <= sent
  /\ pc \in {"next", "call", "wait"} => Len(received) = sent - queued
  /\ pc = "complete" => item.ev = Len(received) + 1 /\ item.ev = sent - queued
  /\ pc = "deliver" => item \in Results
  /\ pc = "deliver" =>
       \/ item.ev = Len(received) + 1 /\ item.ev = sent - queued
       \/ item.ev = 0 /\ done
       \/ /\ item.ev = 0 /\ srcEnd = "error" /\ queued = 0
          /\ Len(received) = sent
  /\ Looping /\ closed => done
  /\ Unwinding => done \/ Exhausted
  /\ pc \in {"closeResults", "exited"} => closed
  /\ resultsClosed <=> pc = "exited"

\* sync.Once lets one canceler through, which closes done and the iterator.
CancelInv ==
  /\ \A c, d \in Cancelers :
       cpc[c] \in {"closeDone", "closeIter"} /\ cpc[d] \in {"closeDone", "closeIter"}
         => c = d
  /\ \A c \in Cancelers :
       /\ phase # "active" => cpc[c] \in {"idle", "returned"}
       /\ phase = "new" => cpc[c] = "idle"
       /\ cpc[c] \in {"closeDone", "closeIter"} => once = "running"
       /\ cpc[c] = "closeDone" => ~done
       /\ cpc[c] = "closeIter" => done
       /\ phase = "active" /\ cpc[c] = "returned" => once = "done"
  /\ once = "new" => ~done
  /\ once = "done" => done /\ closed
  /\ NoPanic

\* The one late result is spent once the pump is back at Next or past it.
LateInv ==
  \/ late = 0
  \/ /\ late = 1 /\ once = "done"
     /\ pc = "next" \/ Unwinding

\* The pump, Cancel and the consumer together: what every reachable state of
\* subscription.go:140-193 satisfies and every step preserves.
IndInv == TypeOK /\ PumpInv /\ CancelInv /\ LateInv
====
