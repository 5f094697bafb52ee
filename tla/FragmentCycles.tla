---- MODULE FragmentCycles ----
(***************************************************************************)
(* The search for fragments that spread themselves (validation.go:240-282).*)
(* It starts from the fragments in any order, shares the set of visited    *)
(* fragments among its starts, and has a path for each start.              *)
(***************************************************************************)
EXTENDS Naturals, Sequences, Functions

CONSTANTS
  Documents,
  Names,            \* names of fragments
  Defined,          \* Defined[d]: the fragments that document d defines
  Spreads           \* Spreads[d][n]: the fragments that fragment n spreads, in
                    \* the order of its text

ASSUME FragmentsAssumption ==
  /\ Defined \in [Documents -> SUBSET Names]
  /\ Spreads \in [Documents -> [Names -> Seq(Names)]]

VARIABLES
  document,         \* the document at hand
  searching,        \* whether the search is not over
  todo,             \* the fragments the outer range has not visited yet
  visited,          \* the fragments any start has met
  path,             \* the fragments this start has met and not left
  calls,            \* the calls of detectFragmentCycle under way: each one's
                    \* fragment and the spreads it has still to visit
  blamed,           \* the fragments whose search has found a cycle
  finished          \* history: the fragments in the order their calls ended

searchVars == <<searching, todo, visited, path, calls, blamed, finished>>

DefinedHere == Defined[document]
SpreadsOf(n) == Spreads[document][n]

Top == calls[Len(calls)]
Spread == Head(Top.left)
Call(n) == [name |-> n, left |-> SpreadsOf(n)]
Advanced == [calls EXCEPT ![Len(calls)].left = Tail(@)]

InitSearch ==
  /\ searching = TRUE
  /\ todo = DefinedHere
  /\ visited = {}
  /\ path = {}
  /\ calls = << >>
  /\ blamed = {}
  /\ finished = << >>

\* The outer range visits n, with a path of its own.
Start(n) ==
  /\ searching
  /\ calls = << >>
  /\ n \in todo
  /\ todo' = todo \ {n}
  /\ IF n \in visited
     THEN UNCHANGED <<visited, path, calls>>
     ELSE /\ visited' = visited \cup {n}
          /\ path' = {n}
          /\ calls' = << Call(n) >>
  /\ UNCHANGED <<searching, blamed, finished>>

Visiting == searching /\ calls # << >> /\ Top.left # << >>

\* A spread of a fragment that is on the path: every call under way returns,
\* and none of them leaves the path.
SpreadsItself == Spread = Top.name
ClosesCycle == Spread \in path

Close ==
  /\ Visiting
  /\ ClosesCycle
  /\ blamed' = blamed \cup {calls[1].name}
  /\ calls' = << >>
  /\ UNCHANGED <<searching, todo, visited, path, finished>>

Pass ==
  /\ Visiting
  /\ ~ClosesCycle
  /\ Spread \in visited
  /\ calls' = Advanced
  /\ UNCHANGED <<searching, todo, visited, path, blamed, finished>>

Enter ==
  /\ Visiting
  /\ ~ClosesCycle
  /\ Spread \notin visited
  /\ Spread \in DefinedHere
  /\ visited' = visited \cup {Spread}
  /\ path' = path \cup {Spread}
  /\ calls' = Append(Advanced, Call(Spread))
  /\ UNCHANGED <<searching, todo, blamed, finished>>

\* A fragment that nobody defines is left at once, but stays on the path.
EnterUnknown ==
  /\ Visiting
  /\ ~ClosesCycle
  /\ Spread \notin visited
  /\ Spread \notin DefinedHere
  /\ visited' = visited \cup {Spread}
  /\ path' = path \cup {Spread}
  /\ calls' = Advanced
  /\ UNCHANGED <<searching, todo, blamed, finished>>

\* All spreads are visited: the fragment is deleted from the path.
KeepsPath == path
LeavesPath == path \ {Top.name}

Return ==
  /\ searching
  /\ calls # << >>
  /\ Top.left = << >>
  /\ path' = LeavesPath
  /\ finished' = Append(finished, Top.name)
  /\ calls' = SubSeq(calls, 1, Len(calls) - 1)
  /\ UNCHANGED <<searching, todo, visited, blamed>>

EndSearch ==
  /\ searching
  /\ calls = << >>
  /\ todo = {}
  /\ searching' = FALSE
  /\ UNCHANGED <<todo, visited, path, calls, blamed, finished>>

Search ==
  \/ \E n \in Names : Start(n)
  \/ Close
  \/ Pass
  \/ Enter
  \/ EnterUnknown
  \/ Return
  \/ EndSearch

vars == <<document, searchVars>>
Init == document \in Documents /\ InitSearch
Next == Search /\ UNCHANGED document
Spec == Init /\ [][Next]_vars

----------------------------------------------------------------------------
(* Properties                                                              *)

SpreadsIn(n) == Range(SpreadsOf(n))

\* Any set of fragments has one that spreads none of the set.
Acyclic ==
  \A S \in SUBSET DefinedHere :
    S # {} => \E n \in S : SpreadsIn(n) \cap S = {}

KnownSpreads == \A n \in DefinedHere : SpreadsIn(n) \subseteq DefinedHere

\* In whatever order the fragments are visited, a document without a cycle of
\* fragments is not blamed for one, if all the fragments it spreads are defined,
\* and one with a cycle always is (validation.go:240-282).
FindsCycles ==
  ~searching =>
    /\ blamed = {} => Acyclic
    /\ blamed # {} /\ KnownSpreads => ~Acyclic

----------------------------------------------------------------------------
(* Why it does: the inductive invariant                                    *)

TypeOK ==
  /\ document \in Documents
  /\ searching \in BOOLEAN
  /\ todo \subseteq Names
  /\ visited \subseteq Names
  /\ path \subseteq Names
  /\ calls \in Seq([name : Names, left : Seq(Names)])
  /\ blamed \subseteq Names
  /\ finished \in Seq(Names)

Finished == {finished[i] : i \in 1..Len(finished)}
UnderWay == {calls[i].name : i \in 1..Len(calls)}

\* A call is of a fragment that is visited, defined and on the path, and has
\* some of its spreads left.
CallsFit ==
  \A i \in 1..Len(calls) :
    /\ calls[i].name \in visited \cap path \cap DefinedHere
    /\ Range(calls[i].left) \subseteq SpreadsIn(calls[i].name)

CallsDiffer ==
  \A i, j \in 1..Len(calls) : calls[i].name = calls[j].name => i = j

CallsSpread ==
  \A i \in 1..Len(calls) : i < Len(calls) => calls[i + 1].name \in SpreadsIn(calls[i].name)

\* Nothing else is on the path, unless a fragment nobody defines was left there.
PathIsCalls == calls # << >> /\ KnownSpreads => path \subseteq UnderWay

\* What a call has passed is finished, or the fragment of the next call.
PassedFinished ==
  blamed = {} =>
    \A i \in 1..Len(calls) :
      \A m \in (SpreadsIn(calls[i].name) \cap DefinedHere) \ Range(calls[i].left) :
        m \in Finished \/ (i < Len(calls) /\ calls[i + 1].name = m)

VisitedFinished == blamed = {} => visited \cap DefinedHere \subseteq Finished \cup UnderWay

\* A fragment finishes after those it spreads.
FinishOrder ==
  blamed = {} =>
    \A i \in 1..Len(finished) : \A m \in SpreadsIn(finished[i]) \cap DefinedHere :
      \E j \in 1..(i - 1) : finished[j] = m

NoneForgotten ==
  /\ todo \subseteq DefinedHere
  /\ DefinedHere \ todo \subseteq visited
  /\ ~searching => todo = {} /\ calls = << >>

BlamesCycles == blamed # {} /\ KnownSpreads => ~Acyclic

IndInv ==
  /\ TypeOK
  /\ CallsFit
  /\ CallsDiffer
  /\ CallsSpread
  /\ PathIsCalls
  /\ PassedFinished
  /\ VisitedFinished
  /\ FinishOrder
  /\ NoneForgotten
  /\ BlamesCycles
====
