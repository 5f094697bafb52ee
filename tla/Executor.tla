---- MODULE Executor ----
(***************************************************************************)
(* Executor.Execute of executor.go: the recursive execution of a selection *)
(* set, serial or with a goroutine per field, null propagation, and the    *)
(* error list that all goroutines share under a mutex.                     *)
(*                                                                         *)
(* A position's control state is where the call (or goroutine) that        *)
(* completes it stands.  Resolvers are user code: `plan` holds what they   *)
(* answer, chosen at the start and known to no step before the resolver    *)
(* has run.                                                                *)
(***************************************************************************)
EXTENDS ResponseTree, Sequences

VARIABLES
  phase,        \* "new", "running", "answered", or the check that rejected
  opKind,       \* a subscription operation executes like a query
  concurrent,   \* ExecuteParams.Concurrent
  plan,         \* what user code answers at each position
  st,           \* where each position's execution is
  val,          \* what each position completed to, or "none"
  mu,           \* who holds ctx.mu: a position, or {}
  slot,         \* the length of the error list the holder read
  errors        \* ctx.errors: the positions errors were recorded for

vars == <<phase, opKind, concurrent, plan, st, val, mu, slot, errors>>
request == <<opKind, concurrent, plan>>

\* The conditions under which Execute returns before running anything.
Checks == {"schema", "document", "operation", "variables", "rootType"}

Active(p) == st[p] \in {"resolve", "lock", "append", "wait"}

Init ==
  /\ phase = "new"
  /\ opKind \in {"query", "mutation"}
  /\ concurrent \in BOOLEAN
  /\ plan \in Plans
  /\ st = [p \in Pos |-> "idle"]
  /\ val = [p \in Pos |-> "none"]
  /\ mu = {}
  /\ slot = 0
  /\ errors = << >>

Reject ==
  /\ phase = "new"
  /\ phase' \in Checks
  /\ UNCHANGED <<request, st, val, mu, slot, errors>>

\* The root selection set is executed; its own position needs no resolver.
Accept ==
  /\ phase = "new"
  /\ phase' = "running"
  /\ st' = [st EXCEPT ![Root] = "wait"]
  /\ UNCHANGED <<request, val, mu, slot, errors>>

\* Whether the children of p run in a goroutine each: fields when asked for,
\* but not the root fields of a mutation; the items of a list never.
ParallelAlways(p) == Kind[p] = "object" /\ concurrent
Parallel(p) ==
  /\ Kind[p] = "object"
  /\ concurrent
  /\ ~(p = Root /\ opKind = "mutation")

\* An item that fails its list ends the loop over the items; a field that
\* fails its object does not end the loop over the fields.
NeverGivesUp(p) == FALSE
GivesUp(p) == Kind[p] = "list" /\ \E c \in Children(p) : val[c] = "violation"

IgnoresOrder(p) == TRUE
Ready(p) ==
  \/ Parallel(Parent[p])
  \/ /\ \A c \in Children(Parent[p]) : c < p => st[c] = "done"
     /\ ~GivesUp(Parent[p])

\* The loop or the goroutine for position p begins.
Start(p) ==
  /\ p # Root
  /\ st[p] = "idle"
  /\ st[Parent[p]] = "wait"
  /\ Ready(p)
  /\ st' = [st EXCEPT ![p] = "resolve"]
  /\ UNCHANGED <<phase, request, val, mu, slot, errors>>

\* A leaf's serialized value, or the null of a nullable position.
LeafValue(p) == IF plan[p] = "ok" THEN "value" ELSE "null"

\* resolveField up to the nested selection set or items: the arguments, the
\* resolver and completeValue's own checks have run.
Resolve(p) ==
  /\ st[p] = "resolve"
  /\ \/ /\ Blamed(plan, p)
        /\ st' = [st EXCEPT ![p] = "lock"]
        /\ UNCHANGED val
     \/ /\ Opens(plan, p)
        /\ st' = [st EXCEPT ![p] = "wait"]
        /\ UNCHANGED val
     \/ /\ ~Blamed(plan, p) /\ ~Opens(plan, p)
        /\ st' = [st EXCEPT ![p] = "done"]
        /\ val' = [val EXCEPT ![p] = LeafValue(p)]
  /\ UNCHANGED <<phase, request, mu, slot, errors>>

\* addError: lock, append to the list as it is now, unlock.
NoLock == TRUE
Unlocked == mu = {}

LockErrors(p) ==
  /\ st[p] = "lock"
  /\ Unlocked
  /\ mu' = {p}
  /\ slot' = Len(errors)
  /\ st' = [st EXCEPT ![p] = "append"]
  /\ UNCHANGED <<phase, request, val, errors>>

KeepsLock(holder) == holder
Unlock(holder) == {}

AppendError(p) ==
  /\ st[p] = "append"
  /\ errors' = Append(SubSeq(errors, 1, slot), p)
  /\ mu' = Unlock(mu)
  /\ st' = [st EXCEPT ![p] = "done"]
  /\ val' = [val EXCEPT ![p] = FailedValue(p)]
  /\ UNCHANGED <<phase, request, slot>>

\* wg.Wait, or the end of the loop over fields or items.
SettledEarly(p) ==
  \/ \A c \in Children(p) : st[c] = "done"
  \/ \E c \in Children(p) : val[c] = "violation"
Settled(p) ==
  \/ \A c \in Children(p) : st[c] = "done"
  \/ GivesUp(p)

\* One failed child is enough, whichever it was.
LastViolated(p) ==
  \E c \in Children(p) :
    val[c] = "violation" /\ \A d \in Children(p) : d <= c
AnyViolated(p) == \E c \in Children(p) : val[c] = "violation"

\* The value of an object or list whose children have settled; for the root
\* selection set it is Result.Data.
Join(p) ==
  /\ st[p] = "wait"
  /\ Settled(p)
  /\ st' = [st EXCEPT ![p] = "done"]
  /\ val' = [val EXCEPT ![p] = IF AnyViolated(p) THEN FailedValue(p) ELSE "value"]
  /\ phase' = IF p = Root THEN "answered" ELSE phase
  /\ UNCHANGED <<request, mu, slot, errors>>

Step(p) ==
  Start(p) \/ Resolve(p) \/ LockErrors(p) \/ AppendError(p) \/ Join(p)

Next == Reject \/ Accept \/ \E p \in Pos : Step(p)

Spec == Init /\ [][Next]_vars

(* Go runs every goroutine that can run, and sync.Mutex starves nobody     *)
(* (each position locks at most once); resolvers are assumed to return.    *)
FairSpec == Spec /\ \A p \in Pos : WF_vars(Step(p))

----------------------------------------------------------------------------
(* Properties.                                                             *)

\* Every variable stays in its range: the mutex has one holder, and a finished
\* position holds a completed value, never what user code answered.
TypeOK ==
  /\ phase \in {"new", "running", "answered"} \cup Checks
  /\ opKind \in {"query", "mutation"}
  /\ concurrent \in BOOLEAN
  /\ plan \in Plans
  /\ st \in [Pos -> {"idle", "resolve", "lock", "append", "wait", "done"}]
  /\ val \in [Pos -> Values \cup {"none"}]
  /\ mu \in {{}} \cup {{p} : p \in Pos}
  /\ slot \in Nat
  /\ errors \in Seq(Pos)

\* No call or goroutine outlives the one that started it: whatever runs, its
\* parent waits for it, and after Execute returned nothing runs
\* (executor.go:203-217).
Structured ==
  /\ \A p \in 1..N : Active(p) => st[Parent[p]] = "wait"
  /\ Active(Root) <=> phase = "running"

\* "Mutations must be executed serially" (executor.go:82): two root fields of a
\* mutation, with all that is nested in them, never overlap, and they run in
\* document order even when Concurrent is set.
SerialMutation ==
  opKind = "mutation" =>
    \A p, q \in Children(Root) : p < q /\ st[q] # "idle" => st[p] = "done"

\* No recorded error is lost or repeated by goroutines that append at once: the
\* list holds each finished position at fault once (executor.go:591-599).
ErrorsOnce ==
  /\ \A i, j \in DOMAIN errors : errors[i] = errors[j] => i = j
  /\ \A p \in Pos : (st[p] = "done" /\ Blamed(plan, p))
                      <=> \E i \in DOMAIN errors : errors[i] = p

\* A failure reaches the nearest nullable position, not less and not more:
\* each finished position has the value its children's values give it,
\* whichever of them finished first (executor.go:11-13, 414-426).
Propagated ==
  \A p \in Pos : st[p] = "done" => val[p] = Completed(plan, val, p)

\* Without Concurrent the errors come in document order, the order a client
\* sees its fields in (executor.go:174-188).
OrderedErrors ==
  ~concurrent => \A i, j \in DOMAIN errors : i < j => errors[i] < errors[j]

\* MaxDepth bounds what a query makes the server run: no resolver is called
\* below the fields of the deepest object allowed (executor.go:562-576).
DepthLimit ==
  MaxDepth > 0 => \A p \in Pos : st[p] # "idle" => Depth[p] <= MaxDepth + 1

\* The data and the errors of the result are those the algorithm defines,
\* whatever the interleaving and whether or not execution is concurrent.
Result == INSTANCE Response WITH
  answers <- plan,
  state <- IF phase = "answered" THEN "answered"
           ELSE IF phase \in Checks THEN "rejected" ELSE "pending",
  shown <- IF phase = "answered" THEN Shown(val) ELSE {},
  blamed <- IF phase = "answered" THEN {errors[i] : i \in DOMAIN errors} ELSE {}

\* Execute implements Response (executor.go:37-93).
ImplementsResponse == Result!ResponseSpec

\* Every request that passed the checks is answered: no goroutine waits for
\* another forever, on the mutex or on the WaitGroup (executor.go:203-217).
Answered == phase = "running" ~> phase = "answered"

----------------------------------------------------------------------------
(* The inductive invariant behind the safety properties.                   *)

\* A position runs only below one that was opened, serial siblings run in
\* order, and a list gives up at its first failed item.
OrderInv ==
  /\ \A p \in 1..N : st[p] # "idle" =>
       Opens(plan, Parent[p]) /\ st[Parent[p]] \in {"wait", "done"}
  /\ \A p, q \in 1..N :
       Parent[p] = Parent[q] /\ p < q /\ ~Parallel(Parent[p]) /\ st[q] # "idle"
         => /\ st[p] = "done"
            /\ Kind[Parent[p]] = "list" => val[p] # "violation"
  /\ \A p \in Pos : st[p] = "wait" => Opens(plan, p)
  /\ \A p \in Pos : st[p] \in {"lock", "append"} => Blamed(plan, p)
  /\ \A p \in Pos : val[p] = "none" <=> st[p] # "done"
  /\ phase \in {"new"} \cup Checks <=> st[Root] = "idle"
  /\ phase = "running" <=> st[Root] = "wait"
  /\ phase = "answered" <=> st[Root] = "done"

\* The holder of the mutex is the one that appends, where it read the end.
MutexInv ==
  /\ \A p \in Pos : st[p] = "append" <=> mu = {p}
  /\ mu # {} => slot = Len(errors)

\* An object is over when all its fields are; a list also when it gave up.
SettledInv == \A p \in Pos : st[p] = "done" /\ Opens(plan, p) => Settled(p)

\* What every reachable state of an execution satisfies and every step
\* preserves (executor.go:161-232, 346-496, 591-599).
IndInv ==
  /\ TypeOK /\ OrderInv /\ MutexInv /\ SettledInv
  /\ Structured /\ Propagated /\ ErrorsOnce
====
