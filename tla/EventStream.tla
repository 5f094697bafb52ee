---- MODULE EventStream ----
(***************************************************************************)
(* What a subscription promises its consumer, and nothing of how: the      *)
(* events a source emits come out in order, each once, the stream may end  *)
(* with one failure, and it is closed early only after a cancellation.     *)
(* Subscription.tla implements it (subscription.go:35-37, 59-64).          *)
(***************************************************************************)
EXTENDS Naturals, Sequences

CONSTANT MaxEvents          \* bound: how many events the source may emit

VARIABLES
  emitted,                  \* events 1..emitted have left the source
  ended,                    \* "open", "eof" or "error": how the source ended
  out,                      \* what the consumer got: event numbers, 0 is the failure
  canceled,                 \* the consumer's side asked to stop
  closed                    \* the consumer was told that nothing more comes

streamVars == <<emitted, ended, out, canceled, closed>>

Failure == 0

StreamInit ==
  /\ emitted = 0
  /\ ended = "open"
  /\ out = << >>
  /\ canceled = FALSE
  /\ closed = FALSE

Emit ==
  /\ ended = "open"
  /\ emitted < MaxEvents
  /\ emitted' = emitted + 1
  /\ UNCHANGED <<ended, out, canceled, closed>>

Finish ==
  /\ ended = "open"
  /\ ended' \in {"eof", "error"}
  /\ UNCHANGED <<emitted, out, canceled, closed>>

\* Everything the source emitted has come out.
Drained == \A e \in 1..emitted : \E i \in DOMAIN out : out[i] = e

Failed == \E i \in DOMAIN out : out[i] = Failure

\* The next event in the source's order comes out.
Deliver ==
  /\ ~closed
  /\ ~Failed
  /\ Len(out) < emitted
  /\ out' = Append(out, Len(out) + 1)
  /\ UNCHANGED <<emitted, ended, canceled, closed>>

\* The stream fails: the source did, after all its events, or it was torn
\* down under a reader by a cancellation.
DeliverFailure ==
  /\ ~closed
  /\ ~Failed
  /\ canceled \/ (ended = "error" /\ Drained)
  /\ out' = Append(out, Failure)
  /\ UNCHANGED <<emitted, ended, canceled, closed>>

Cancel ==
  /\ canceled' = TRUE
  /\ UNCHANGED <<emitted, ended, out, closed>>

Close ==
  /\ ~closed
  /\ \/ canceled
     \/ ended = "eof" /\ Drained
     \/ ended = "error" /\ Drained /\ Failed
  /\ closed' = TRUE
  /\ UNCHANGED <<emitted, ended, out, canceled>>

StreamNext == Emit \/ Finish \/ Deliver \/ DeliverFailure \/ Cancel \/ Close

StreamSpec == StreamInit /\ [][StreamNext]_streamVars
====
