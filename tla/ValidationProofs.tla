---- MODULE ValidationProofs ----
(***************************************************************************)
(* Proofs about FragmentCycles and Validation, for any schema and any      *)
(* documents.  The search blames a document for a cycle of fragments       *)
(* exactly when it has one.  What the rules let through is what execution  *)
(* relies on: the rules say something of every selection that execution    *)
(* can come to, under every type an object can have there, so that what    *)
(* an object is asked for fits it.                                         *)
(***************************************************************************)
EXTENDS Validation, TLAPS, SequenceTheorems, FiniteSetTheorems, WellFoundedInduction

Calls == [name : Names, left : Seq(Names)]

\* Taking the last element off a sequence keeps the others.
LEMMA Popped ==
  ASSUME NEW S, NEW s \in Seq(S), s # << >>
  PROVE  LET p == SubSeq(s, 1, Len(s) - 1)
         IN  /\ p \in Seq(S)
             /\ Len(p) = Len(s) - 1
             /\ \A i \in 1..(Len(s) - 1) : p[i] = s[i]
<1> DEFINE n == Len(s) - 1
           p == SubSeq(s, 1, n)
<1>1. n \in Nat /\ n + 1 = Len(s) /\ \A i \in 1..(n + 1) : s[i] \in S
  OBVIOUS
<1> HIDE DEF n
<1>2. 1 \in Int /\ n \in Int /\ \A i \in 1..n : s[i] \in S
  BY <1>1
<1>3. /\ p \in Seq(S)
      /\ Len(p) = IF 1 <= n THEN n - 1 + 1 ELSE 0
      /\ \A i \in 1..(n - 1 + 1) : p[i] = s[1 + i - 1]
  BY <1>2, SubSeqProperties
<1> HIDE DEF p
<1>4. Len(p) = n /\ \A i \in 1..n : p[i] = s[i]
  BY <1>1, <1>3
<1> QED
  BY <1>1, <1>3, <1>4 DEF p, n

\* A nonempty set of natural numbers has a least element.
LEMMA Least ==
  ASSUME NEW T \in SUBSET Nat, T # {}
  PROVE  \E n \in T : \A m \in T : n <= m
<1>1. \E n \in T : \A m \in T : ~(<<m, n>> \in OpToRel(<, Nat))
  BY NatLessThanWellFounded, WFMin
<1>2. \A m, n \in Nat : m < n => <<m, n>> \in OpToRel(<, Nat)
  BY DEF OpToRel
<1>3. PICK n \in T : \A m \in T : ~(m < n)
  BY <1>1, <1>2
<1> QED
  BY <1>3

\* A sequence's elements are its head and those of its tail.
LEMMA HeadAndTail ==
  ASSUME NEW S, NEW s \in Seq(S), s # << >>
  PROVE  /\ Head(s) \in S /\ Tail(s) \in Seq(S)
         /\ Range(s) = {Head(s)} \cup Range(Tail(s))
<1>1. /\ Head(s) \in S /\ Tail(s) \in Seq(S) /\ Head(s) = s[1]
      /\ Len(Tail(s)) = Len(s) - 1 /\ Len(s) \in Nat /\ Len(s) >= 1
      /\ \A i \in 1..Len(Tail(s)) : Tail(s)[i] = s[i + 1]
      /\ DOMAIN s = 1..Len(s) /\ DOMAIN Tail(s) = 1..Len(Tail(s))
  OBVIOUS
<1> DEFINE t == Tail(s)
           n == Len(s)
<1>t. Len(t) = n - 1 /\ n \in Nat /\ n >= 1 /\ \A i \in 1..Len(t) : t[i] = s[i + 1]
  BY <1>1
<1>r. Range(s) = {s[i] : i \in 1..n} /\ Range(t) = {t[i] : i \in 1..(n - 1)}
  BY <1>1 DEF Range
<1> HIDE DEF t, n
<1>2. ASSUME NEW i \in 1..n PROVE s[i] \in {s[1]} \cup Range(t)
  <2>1. CASE i = 1
    BY <2>1
  <2>2. CASE i # 1
    <3>1. i - 1 \in 1..(n - 1) /\ i = (i - 1) + 1
      BY <2>2, <1>t
    <3>2. t[i - 1] = s[i]
      BY <3>1, <1>t
    <3> QED
      BY <3>1, <3>2, <1>r
  <2> QED
    BY <2>1, <2>2
<1>3. \A i \in 1..(n - 1) : t[i] \in Range(s)
  <2> TAKE i \in 1..(n - 1)
  <2>1. i + 1 \in 1..n /\ t[i] = s[i + 1]
    BY <1>t
  <2> QED
    BY <2>1, <1>r
<1>4. s[1] \in Range(s)
  BY <1>t, <1>r
<1>5. Range(s) = {s[1]} \cup Range(t)
  BY <1>2, <1>3, <1>4, <1>r
<1> QED
  BY <1>1, <1>5 DEF t

\* What a document says of its fragments.
LEMMA DocumentTypes ==
  ASSUME TypeOK
  PROVE  /\ DefinedHere \subseteq Names
         /\ \A n \in Names : SpreadsOf(n) \in Seq(Names)
BY FragmentsAssumption DEF TypeOK, DefinedHere, SpreadsOf

\* The document does not change, and what is said of it neither.
LEMMA SameDocument ==
  ASSUME document' = document
  PROVE  /\ DefinedHere' = DefinedHere
         /\ \A n : SpreadsOf(n)' = SpreadsOf(n) /\ SpreadsIn(n)' = SpreadsIn(n)
         /\ KnownSpreads' = KnownSpreads /\ Acyclic' = Acyclic
<1>1. DefinedHere' = DefinedHere /\ \A n : SpreadsOf(n)' = SpreadsOf(n)
  BY DEF DefinedHere, SpreadsOf
<1>2. \A n : SpreadsIn(n)' = SpreadsIn(n)
  BY <1>1 DEF SpreadsIn
<1> QED
  BY <1>1, <1>2 DEF KnownSpreads, Acyclic

\* The top call of a stack that is not empty.
LEMMA TopFacts ==
  ASSUME TypeOK, calls # << >>
  PROVE  /\ Len(calls) \in Nat /\ Len(calls) >= 1 /\ Len(calls) \in 1..Len(calls)
         /\ Top = calls[Len(calls)] /\ Top \in Calls
         /\ \A i \in 1..Len(calls) : calls[i] \in Calls
<1>1. calls \in Seq(Calls)
  BY DEF TypeOK, Calls
<1> DEFINE n == Len(calls)
<1>2. n \in Nat /\ n >= 1 /\ \A i \in 1..n : calls[i] \in Calls
  BY <1>1
<1>3. Top = calls[n]
  BY DEF Top
<1> HIDE DEF n
<1>4. n \in 1..n
  BY <1>2
<1> QED
  BY <1>2, <1>3, <1>4 DEF n

\* The top call passes its next spread.
LEMMA Advances ==
  ASSUME TypeOK, calls # << >>, Top.left # << >>
  PROVE  /\ Spread \in Names /\ Spread \in Range(Top.left)
         /\ Advanced \in Seq(Calls) /\ Len(Advanced) = Len(calls)
         /\ \A i \in 1..Len(calls) :
              /\ Advanced[i].name = calls[i].name
              /\ i < Len(calls) => Advanced[i].left = calls[i].left
         /\ Range(Top.left) = {Spread} \cup Range(Advanced[Len(calls)].left)
<1> DEFINE n == Len(calls)
<1>1. n \in Nat /\ n >= 1 /\ Top = calls[n] /\ Top \in Calls
  BY TopFacts
<1>2. Top.left \in Seq(Names)
  BY <1>1 DEF Calls
<1>3. /\ Spread \in Names /\ Tail(Top.left) \in Seq(Names)
      /\ Range(Top.left) = {Spread} \cup Range(Tail(Top.left))
  BY <1>2, HeadAndTail DEF Spread
<1>4. Advanced = [calls EXCEPT ![n] = [calls[n] EXCEPT !.left = Tail(calls[n].left)]]
  BY DEF Advanced
<1>5. [calls[n] EXCEPT !.left = Tail(calls[n].left)] \in Calls
  BY <1>1, <1>3 DEF Calls
<1>6. calls \in Seq(Calls)
  BY DEF TypeOK, Calls
<1>7. /\ Advanced \in Seq(Calls) /\ Len(Advanced) = n
      /\ \A i \in 1..n : i # n => Advanced[i] = calls[i]
      /\ Advanced[n] = [calls[n] EXCEPT !.left = Tail(calls[n].left)]
  <2> DEFINE c == [calls[n] EXCEPT !.left = Tail(calls[n].left)]
  <2>1. c \in Calls /\ Advanced = [calls EXCEPT ![n] = c] /\ n \in 1..Len(calls)
    BY <1>1, <1>4, <1>5
  <2>2. calls \in [1..Len(calls) -> Calls]
    BY <1>6
  <2> HIDE DEF c
  <2>3. Advanced \in [1..Len(calls) -> Calls]
    BY <2>1, <2>2
  <2>4. Advanced \in Seq(Calls) /\ Len(Advanced) = n
    BY <1>1, <2>3
  <2>5. Advanced[n] = c /\ \A i \in 1..n : i # n => Advanced[i] = calls[i]
    BY <2>1, <2>2
  <2> QED
    BY <2>4, <2>5 DEF c
<1>8. Advanced[n].name = calls[n].name /\ Advanced[n].left = Tail(Top.left)
  BY <1>1, <1>7 DEF Calls
<1>9. /\ n \in 1..n /\ Len(Advanced) = n
      /\ \A i \in 1..n : i < n => i # n
  BY <1>1, <1>7
<1> HIDE DEF n
<1>10. ASSUME NEW i \in 1..n
       PROVE  Advanced[i].name = calls[i].name /\ (i < n => Advanced[i].left = calls[i].left)
  <2>1. CASE i = n
    BY <2>1, <1>1, <1>8
  <2>2. CASE i # n
    BY <2>2, <1>7
  <2> QED
    BY <2>1, <2>2
<1> QED
  BY <1>3, <1>7, <1>8, <1>10 DEF n

LEMMA InitInv == Init => IndInv
<1> SUFFICES ASSUME Init PROVE IndInv
  OBVIOUS
<1>1. /\ document \in Documents /\ searching = TRUE /\ todo = DefinedHere
      /\ visited = {} /\ path = {} /\ calls = << >> /\ blamed = {} /\ finished = << >>
  BY DEF Init, InitSearch
<1>2. DefinedHere \subseteq Names
  BY <1>1, FragmentsAssumption DEF DefinedHere
<1>3. TypeOK
  BY <1>1, <1>2 DEF TypeOK
<1>4. CallsFit /\ CallsDiffer /\ CallsSpread /\ PathIsCalls /\ PassedFinished
  BY <1>1 DEF CallsFit, CallsDiffer, CallsSpread, PathIsCalls, PassedFinished
<1>5. VisitedFinished /\ FinishOrder /\ NoneForgotten /\ BlamesCycles
  BY <1>1 DEF VisitedFinished, FinishOrder, NoneForgotten, BlamesCycles
<1> QED
  BY <1>3, <1>4, <1>5 DEF IndInv

\* What holds of a search that visits a spread.
LEMMA VisitingFacts ==
  ASSUME IndInv, Visiting
  PROVE  /\ TypeOK /\ calls # << >> /\ Top.left # << >> /\ searching
         /\ Top.name \in Names \cap DefinedHere /\ Spread \in SpreadsIn(Top.name)
         /\ \A i \in 1..Len(calls) : calls[i].name \in visited \cap path \cap DefinedHere
<1>1. TypeOK /\ calls # << >> /\ Top.left # << >> /\ searching
  BY DEF IndInv, Visiting
<1>2. \A i \in 1..Len(calls) :
        /\ calls[i].name \in visited \cap path \cap DefinedHere
        /\ Range(calls[i].left) \subseteq SpreadsIn(calls[i].name)
  BY DEF IndInv, CallsFit
<1>3. Spread \in SpreadsIn(Top.name)
  BY <1>1, <1>2, TopFacts, Advances
<1>4. Top.name \in Names \cap DefinedHere
  BY <1>1, <1>2, TopFacts, DocumentTypes
<1> QED
  BY <1>1, <1>2, <1>3, <1>4

\* A visit that makes no call: the spread has been visited, or nobody defines it.
LEMMA AdvanceKeeps ==
  ASSUME IndInv, Visiting, calls' = Advanced,
         UNCHANGED <<document, searching, todo, blamed, finished>>,
         visited \subseteq visited', visited' \subseteq visited \cup {Spread},
         path \subseteq path', path' \subseteq path \cup {Spread},
         Spread \in DefinedHere =>
           visited' = visited /\ path' = path /\ (blamed = {} => Spread \in Finished)
  PROVE  IndInv'
<1> DEFINE n == Len(calls)
<1>1. /\ n \in Nat /\ n >= 1 /\ n \in 1..n /\ Len(calls') = n
      /\ Spread \in Names /\ calls' \in Seq(Calls) /\ calls' # << >>
      /\ \A i \in 1..n : /\ calls'[i].name = calls[i].name
                         /\ i < n => calls'[i].left = calls[i].left
      /\ Range(calls[n].left) = {Spread} \cup Range(calls'[n].left)
      /\ Top = calls[n]
  <2>1. Len(calls') = n /\ n >= 1 /\ calls' \in Seq(Calls)
    BY VisitingFacts, TopFacts, Advances
  <2>2. calls' # << >>
    BY <2>1
  <2> QED
    BY <2>1, <2>2, VisitingFacts, TopFacts, Advances
<1>2. /\ DefinedHere' = DefinedHere /\ Finished' = Finished
      /\ \A m : SpreadsIn(m)' = SpreadsIn(m)
      /\ KnownSpreads' = KnownSpreads /\ Acyclic' = Acyclic
  BY SameDocument DEF Finished
<1>3. UnderWay' = UnderWay
  BY <1>1 DEF UnderWay
<1>4. Spread \in SpreadsIn(calls[n].name) /\ calls[n].name \in DefinedHere
  BY VisitingFacts, <1>1
<1>k. KnownSpreads => Spread \in DefinedHere
  BY <1>4 DEF KnownSpreads
<1> HIDE DEF n
<1>5. TypeOK'
  BY <1>1 DEF IndInv, TypeOK, Calls
<1>6. CallsFit'
  <2> SUFFICES ASSUME NEW i \in 1..n
               PROVE  /\ calls'[i].name \in visited' \cap path' \cap DefinedHere
                      /\ Range(calls'[i].left) \subseteq SpreadsIn(calls'[i].name)
    BY <1>1, <1>2 DEF CallsFit
  <2>1. /\ calls[i].name \in visited \cap path \cap DefinedHere
        /\ Range(calls[i].left) \subseteq SpreadsIn(calls[i].name)
    BY DEF IndInv, CallsFit, n
  <2>2. Range(calls'[i].left) \subseteq Range(calls[i].left)
    <3>1. i < n \/ i = n
      BY <1>1
    <3> QED
      BY <3>1, <1>1
  <2> QED
    BY <1>1, <2>1, <2>2
<1>7. CallsDiffer' /\ CallsSpread'
  <2>1. CallsDiffer'
    BY <1>1 DEF IndInv, CallsDiffer, n
  <2>2. CallsSpread'
    <3> SUFFICES ASSUME NEW i \in 1..n, i < n
                 PROVE  calls'[i + 1].name \in SpreadsIn(calls'[i].name)
      BY <1>1, <1>2 DEF CallsSpread
    <3>1. i + 1 \in 1..n
      BY <1>1
    <3>2. calls[i + 1].name \in SpreadsIn(calls[i].name)
      BY DEF IndInv, CallsSpread, n
    <3> QED
      BY <1>1, <3>1, <3>2
  <2> QED
    BY <2>1, <2>2
<1>8. PathIsCalls'
  BY <1>1, <1>2, <1>3, <1>k, VisitingFacts DEF IndInv, PathIsCalls
<1>9. PassedFinished'
  <2> SUFFICES ASSUME blamed = {}, NEW i \in 1..n,
                      NEW m \in (SpreadsIn(calls[i].name) \cap DefinedHere) \ Range(calls'[i].left)
               PROVE  m \in Finished \/ (i < n /\ calls'[i + 1].name = m)
    BY <1>1, <1>2 DEF PassedFinished
  <2>1. CASE m \in Range(calls[i].left)
    <3>1. i = n
      BY <1>1, <2>1
    <3>2. m = Spread
      BY <3>1, <1>1, <2>1
    <3> QED
      BY <3>2
  <2>2. CASE m \notin Range(calls[i].left)
    <3>1. m \in Finished \/ (i < n /\ calls[i + 1].name = m)
      BY <2>2 DEF IndInv, PassedFinished, n
    <3>2. i < n => i + 1 \in 1..n
      BY <1>1
    <3> QED
      BY <3>1, <3>2, <1>1
  <2> QED
    BY <2>1, <2>2
<1>10. VisitedFinished'
  BY <1>2, <1>3 DEF IndInv, VisitedFinished
<1>11. FinishOrder'
  BY <1>2 DEF IndInv, FinishOrder
<1>12. NoneForgotten'
  BY <1>2, VisitingFacts DEF IndInv, NoneForgotten
<1>13. BlamesCycles'
  BY <1>2 DEF IndInv, BlamesCycles
<1> QED
  BY <1>5, <1>6, <1>7, <1>8, <1>9, <1>10, <1>11, <1>12, <1>13 DEF IndInv

LEMMA PassStep == IndInv /\ Pass /\ UNCHANGED document => IndInv'
<1> SUFFICES ASSUME IndInv, Pass, UNCHANGED document PROVE IndInv'
  OBVIOUS
<1>1. /\ Visiting /\ Spread \notin path /\ Spread \in visited /\ calls' = Advanced
      /\ UNCHANGED <<document, searching, todo, visited, path, blamed, finished>>
  BY DEF Pass, ClosesCycle
<1>2. Spread \notin UnderWay
  BY <1>1, VisitingFacts DEF UnderWay
<1>3. Spread \in DefinedHere /\ blamed = {} => Spread \in Finished
  BY <1>1, <1>2 DEF IndInv, VisitedFinished
<1> QED
  BY <1>1, <1>3, AdvanceKeeps

LEMMA EnterUnknownStep == IndInv /\ EnterUnknown /\ UNCHANGED document => IndInv'
<1> SUFFICES ASSUME IndInv, EnterUnknown, UNCHANGED document PROVE IndInv'
  OBVIOUS
<1>1. /\ Visiting /\ Spread \notin DefinedHere /\ calls' = Advanced
      /\ visited' = visited \cup {Spread} /\ path' = path \cup {Spread}
      /\ UNCHANGED <<document, searching, todo, blamed, finished>>
  BY DEF EnterUnknown
<1> QED
  BY <1>1, AdvanceKeeps

LEMMA EnterStep == IndInv /\ Enter /\ UNCHANGED document => IndInv'
<1> SUFFICES ASSUME IndInv, Enter, UNCHANGED document PROVE IndInv'
  OBVIOUS
<1> DEFINE n == Len(calls)
           c == Call(Spread)
<1>1. /\ Visiting /\ Spread \notin path /\ Spread \notin visited /\ Spread \in DefinedHere
      /\ visited' = visited \cup {Spread} /\ path' = path \cup {Spread}
      /\ calls' = Append(Advanced, c)
      /\ UNCHANGED <<document, searching, todo, blamed, finished>>
  BY DEF Enter, ClosesCycle
<1>2. /\ n \in Nat /\ n >= 1 /\ n \in 1..n /\ Len(Advanced) = n /\ Advanced \in Seq(Calls)
      /\ Spread \in Names
      /\ \A i \in 1..n : /\ Advanced[i].name = calls[i].name
                         /\ i < n => Advanced[i].left = calls[i].left
      /\ Range(calls[n].left) = {Spread} \cup Range(Advanced[n].left)
      /\ Top = calls[n]
  BY <1>1, VisitingFacts, TopFacts, Advances
<1>3. c \in Calls /\ c.name = Spread /\ c.left = SpreadsOf(Spread)
  BY <1>2, VisitingFacts, <1>1, DocumentTypes DEF Call, Calls
<1>4. /\ Len(calls') = n + 1 /\ calls' \in Seq(Calls) /\ calls'[n + 1] = c
      /\ \A i \in 1..n : calls'[i] = Advanced[i]
  <2> HIDE DEF c, n
  <2> QED
    BY <1>1, <1>2, <1>3
<1>5. /\ DefinedHere' = DefinedHere /\ Finished' = Finished
      /\ \A m : SpreadsIn(m)' = SpreadsIn(m)
      /\ KnownSpreads' = KnownSpreads /\ Acyclic' = Acyclic
  BY <1>1, SameDocument DEF Finished
<1>6. \A i \in 1..n : /\ calls[i].name \in visited \cap path \cap DefinedHere
                      /\ Range(calls[i].left) \subseteq SpreadsIn(calls[i].name)
                      /\ Range(Advanced[i].left) \subseteq Range(calls[i].left)
  <2> TAKE i \in 1..n
  <2>1. /\ calls[i].name \in visited \cap path \cap DefinedHere
        /\ Range(calls[i].left) \subseteq SpreadsIn(calls[i].name)
    BY DEF IndInv, CallsFit
  <2> HIDE DEF n
  <2>2. i < n \/ i = n
    BY <1>2
  <2> QED
    BY <2>1, <2>2, <1>2
<1>7. Range(c.left) = SpreadsIn(Spread)
  BY <1>3 DEF SpreadsIn
<1>8. Spread \in SpreadsIn(calls[n].name)
  BY <1>1, <1>2, VisitingFacts
<1> HIDE DEF n, c
<1>i. \A i \in 1..(n + 1) : i \in 1..n \/ i = n + 1
  BY <1>2
<1>9. TypeOK'
  BY <1>1, <1>2, <1>4 DEF IndInv, TypeOK, Calls
<1>10. CallsFit'
  <2> SUFFICES ASSUME NEW i \in 1..(n + 1)
               PROVE  /\ calls'[i].name \in visited' \cap path' \cap DefinedHere
                      /\ Range(calls'[i].left) \subseteq SpreadsIn(calls'[i].name)
    BY <1>4, <1>5 DEF CallsFit
  <2>1. CASE i = n + 1
    BY <2>1, <1>1, <1>3, <1>4, <1>7
  <2>2. CASE i \in 1..n
    <3>1. calls'[i].name = calls[i].name /\ calls'[i].left = Advanced[i].left
      BY <2>2, <1>2, <1>4
    <3> QED
      BY <2>2, <3>1, <1>1, <1>6
  <2> QED
    BY <2>1, <2>2, <1>i
<1>11. CallsDiffer'
  <2> SUFFICES ASSUME NEW i \in 1..(n + 1), NEW j \in 1..(n + 1), calls'[i].name = calls'[j].name
               PROVE  i = j
    BY <1>4 DEF CallsDiffer
  <2>1. \A k \in 1..n : calls'[k].name = calls[k].name /\ calls'[k].name # Spread
    BY <1>1, <1>2, <1>4, <1>6
  <2>2. calls'[n + 1].name = Spread
    BY <1>3, <1>4
  <2>3. i \in 1..n /\ j \in 1..n => i = j
    BY <2>1 DEF IndInv, CallsDiffer, n
  <2> QED
    BY <2>1, <2>2, <2>3, <1>i
<1>12. CallsSpread'
  <2> SUFFICES ASSUME NEW i \in 1..n
               PROVE  calls'[i + 1].name \in SpreadsIn(calls'[i].name)
    BY <1>2, <1>4, <1>5 DEF CallsSpread
  <2>1. CASE i = n
    BY <2>1, <1>2, <1>3, <1>4, <1>8
  <2>2. CASE i # n
    <3>1. i < n /\ i + 1 \in 1..n
      BY <2>2, <1>2
    <3>2. calls[i + 1].name \in SpreadsIn(calls[i].name)
      BY <3>1 DEF IndInv, CallsSpread, n
    <3> QED
      BY <3>1, <3>2, <1>2, <1>4
  <2> QED
    BY <2>1, <2>2
<1>u. UnderWay' = UnderWay \cup {Spread}
  <2>1. UnderWay' = {calls'[i].name : i \in 1..(n + 1)} /\ UnderWay = {calls[i].name : i \in 1..n}
    BY <1>4 DEF UnderWay, n
  <2>2. /\ \A i \in 1..n : calls'[i].name = calls[i].name /\ i \in 1..(n + 1)
        /\ calls'[n + 1].name = Spread /\ n + 1 \in 1..(n + 1)
    BY <1>2, <1>3, <1>4
  <2>3. \A m \in UnderWay' : m \in UnderWay \cup {Spread}
    BY <2>1, <2>2, <1>i
  <2>4. \A m \in UnderWay \cup {Spread} : m \in UnderWay'
    BY <2>1, <2>2
  <2> QED
    BY <2>3, <2>4
<1>13. PathIsCalls'
  BY <1>1, <1>5, <1>u, VisitingFacts DEF IndInv, PathIsCalls
<1>14. PassedFinished'
  <2> SUFFICES ASSUME blamed = {}, NEW i \in 1..(n + 1),
                      NEW m \in (SpreadsIn(calls'[i].name) \cap DefinedHere) \ Range(calls'[i].left)
               PROVE  m \in Finished \/ (i < n + 1 /\ calls'[i + 1].name = m)
    BY <1>1, <1>4, <1>5 DEF PassedFinished
  <2>1. CASE i = n + 1
    BY <2>1, <1>3, <1>4, <1>7
  <2>2. CASE i \in 1..n
    <3>1. /\ calls'[i].name = calls[i].name /\ calls'[i].left = Advanced[i].left
          /\ i < n + 1 /\ (i = n \/ i < n)
      BY <2>2, <1>2, <1>4
    <3>2. CASE m \in Range(calls[i].left)
      <4>1. i = n
        BY <3>1, <3>2, <1>2
      <4>2. m = Spread
        BY <4>1, <3>1, <3>2, <1>2
      <4> QED
        BY <4>1, <4>2, <3>1, <1>3, <1>4
    <3>3. CASE m \notin Range(calls[i].left)
      <4>1. m \in Finished \/ (i < n /\ calls[i + 1].name = m)
        BY <2>2, <3>1, <3>3 DEF IndInv, PassedFinished, n
      <4>2. i < n => i + 1 \in 1..n
        BY <2>2, <1>2
      <4> QED
        BY <4>1, <4>2, <3>1, <1>2, <1>4
    <3> QED
      BY <3>2, <3>3
  <2> QED
    BY <2>1, <2>2, <1>i
<1>15. VisitedFinished'
  BY <1>1, <1>5, <1>u DEF IndInv, VisitedFinished
<1>16. FinishOrder'
  BY <1>1, <1>5 DEF IndInv, FinishOrder
<1>17. NoneForgotten'
  BY <1>1, <1>5, VisitingFacts DEF IndInv, NoneForgotten
<1>18. BlamesCycles'
  BY <1>1, <1>5 DEF IndInv, BlamesCycles
<1> QED
  BY <1>9, <1>10, <1>11, <1>12, <1>13, <1>14, <1>15, <1>16, <1>17, <1>18 DEF IndInv

LEMMA StartStep == ASSUME IndInv, NEW n \in Names, Start(n), UNCHANGED document PROVE IndInv'
<1>1. /\ searching /\ calls = << >> /\ n \in todo /\ todo' = todo \ {n}
      /\ UNCHANGED <<document, searching, blamed, finished>>
  BY DEF Start
<1>2. /\ DefinedHere' = DefinedHere /\ Finished' = Finished
      /\ \A m : SpreadsOf(m)' = SpreadsOf(m) /\ SpreadsIn(m)' = SpreadsIn(m)
      /\ KnownSpreads' = KnownSpreads /\ Acyclic' = Acyclic
  BY <1>1, SameDocument DEF Finished
<1>3. FinishOrder' /\ BlamesCycles'
  BY <1>1, <1>2 DEF IndInv, FinishOrder, BlamesCycles
<1>4. CASE n \in visited
  <2>1. UNCHANGED <<visited, path, calls>>
    BY <1>4 DEF Start
  <2>2. TypeOK'
    BY <1>1, <2>1 DEF IndInv, TypeOK
  <2>3. CallsFit' /\ CallsDiffer' /\ CallsSpread' /\ PathIsCalls' /\ PassedFinished'
    BY <1>1, <2>1 DEF CallsFit, CallsDiffer, CallsSpread, PathIsCalls, PassedFinished
  <2>4. UnderWay' = UnderWay
    BY <2>1 DEF UnderWay
  <2>5. VisitedFinished' /\ NoneForgotten'
    BY <1>1, <1>2, <1>4, <2>1, <2>4 DEF IndInv, VisitedFinished, NoneForgotten
  <2> QED
    BY <1>3, <2>2, <2>3, <2>5 DEF IndInv
<1>5. CASE n \notin visited
  <2>1. visited' = visited \cup {n} /\ path' = {n} /\ calls' = << Call(n) >>
    BY <1>5 DEF Start
  <2>2. Call(n).name = n /\ Call(n).left = SpreadsOf(n) /\ SpreadsOf(n) \in Seq(Names)
    BY DocumentTypes DEF IndInv, Call
  <2>3. /\ Len(calls') = 1 /\ calls'[1].name = n /\ calls'[1].left = SpreadsOf(n)
        /\ 1..Len(calls') = {1} /\ calls' # << >>
    BY <2>1, <2>2
  <2>4. TypeOK'
    <3>1. Call(n) \in [name : Names, left : Seq(Names)]
      BY <2>2 DEF Call
    <3> QED
      BY <1>1, <2>1, <3>1 DEF IndInv, TypeOK
  <2>5. UnderWay' = {n}
    BY <2>3 DEF UnderWay
  <2>6. UnderWay = {}
    BY <1>1 DEF UnderWay
  <2>7. Range(SpreadsOf(n)) = SpreadsIn(n)
    BY DEF SpreadsIn
  <2>8. n \in DefinedHere
    BY <1>1 DEF IndInv, NoneForgotten
  <2>9. CallsFit'
    BY <1>2, <2>1, <2>3, <2>7, <2>8 DEF CallsFit
  <2>10. CallsDiffer' /\ CallsSpread'
    BY <2>3 DEF CallsDiffer, CallsSpread
  <2>11. PathIsCalls'
    BY <2>1, <2>5 DEF PathIsCalls
  <2>12. PassedFinished'
    BY <1>2, <2>3, <2>7 DEF PassedFinished
  <2>13. VisitedFinished'
    BY <1>1, <1>2, <2>1, <2>5, <2>6 DEF IndInv, VisitedFinished
  <2>14. NoneForgotten'
    BY <1>1, <1>2, <2>1 DEF IndInv, NoneForgotten
  <2> QED
    BY <1>3, <2>4, <2>9, <2>10, <2>11, <2>12, <2>13, <2>14 DEF IndInv
<1> QED
  BY <1>4, <1>5

\* A spread of a fragment on the path closes a cycle: the calls from its own on.
LEMMA CloseStep == IndInv /\ Close /\ UNCHANGED document => IndInv'
<1> SUFFICES ASSUME IndInv, Close, UNCHANGED document PROVE IndInv'
  OBVIOUS
<1> DEFINE n == Len(calls)
<1>1. /\ Visiting /\ Spread \in path
      /\ blamed' = blamed \cup {calls[1].name} /\ calls' = << >>
      /\ UNCHANGED <<document, searching, todo, visited, path, finished>>
  BY DEF Close, ClosesCycle
<1>2. /\ DefinedHere' = DefinedHere /\ Finished' = Finished
      /\ KnownSpreads' = KnownSpreads /\ Acyclic' = Acyclic
  BY <1>1, SameDocument DEF Finished
<1>3. /\ n \in Nat /\ n >= 1 /\ n \in 1..n /\ 1 \in 1..n /\ Top = calls[n]
      /\ \A i \in 1..n : calls[i].name \in Names \cap visited \cap path \cap DefinedHere
  <2>1. n \in Nat /\ n >= 1 /\ n \in 1..n /\ Top = calls[n] /\ \A i \in 1..n : calls[i] \in Calls
    BY <1>1, VisitingFacts, TopFacts
  <2>2. \A i \in 1..n : calls[i].name \in visited \cap path \cap DefinedHere
    BY <1>1, VisitingFacts
  <2> HIDE DEF n
  <2> QED
    BY <2>1, <2>2 DEF Calls
<1>4. blamed' # {} /\ blamed' \subseteq Names /\ Len(calls') = 0
  BY <1>1, <1>3 DEF IndInv, TypeOK
<1>5. TypeOK'
  BY <1>1, <1>4 DEF IndInv, TypeOK
<1>6. CallsFit' /\ CallsDiffer' /\ CallsSpread' /\ PathIsCalls'
  BY <1>1, <1>4 DEF CallsFit, CallsDiffer, CallsSpread, PathIsCalls
<1>7. PassedFinished' /\ VisitedFinished' /\ FinishOrder'
  BY <1>4 DEF PassedFinished, VisitedFinished, FinishOrder
<1>8. NoneForgotten'
  BY <1>1, <1>2 DEF IndInv, NoneForgotten
<1>9. BlamesCycles'
  <2> SUFFICES ASSUME KnownSpreads PROVE ~Acyclic
    BY <1>2 DEF BlamesCycles
  <2>1. PICK j \in 1..n : calls[j].name = Spread
    BY <1>1, VisitingFacts DEF IndInv, PathIsCalls, UnderWay
  <2> DEFINE S == {calls[i].name : i \in j..n}
  <2>2. \A i \in j..n : i \in 1..n
    BY <1>3, <2>1
  <2>3. S \subseteq DefinedHere /\ n \in j..n /\ j \in j..n
    BY <1>3, <2>1, <2>2
  <2>4. ASSUME NEW m \in S PROVE SpreadsIn(m) \cap S # {}
    <3>1. PICK i \in j..n : m = calls[i].name
      BY <2>4
    <3>2. CASE i = n
      <4>1. Spread \in SpreadsIn(m) /\ Spread \in S
        BY <3>1, <3>2, <1>1, <1>3, <2>1, <2>3, VisitingFacts
      <4> QED
        BY <4>1
    <3>3. CASE i # n
      <4>1. i \in 1..n /\ i < n /\ i + 1 \in j..n
        BY <3>3, <1>3, <2>1
      <4>2. calls[i + 1].name \in SpreadsIn(m) /\ calls[i + 1].name \in S
        BY <3>1, <4>1 DEF IndInv, CallsSpread
      <4> QED
        BY <4>2
    <3> QED
      BY <3>2, <3>3
  <2>5. S # {}
    BY <2>3
  <2> HIDE DEF S
  <2> QED
    BY <2>3, <2>4, <2>5 DEF Acyclic
<1> QED
  BY <1>5, <1>6, <1>7, <1>8, <1>9 DEF IndInv

LEMMA ReturnStep == IndInv /\ Return /\ UNCHANGED document => IndInv'
<1> SUFFICES ASSUME IndInv, Return, UNCHANGED document PROVE IndInv'
  OBVIOUS
<1> DEFINE n == Len(calls)
           k == Len(finished)
<1>1. /\ searching /\ calls # << >> /\ Top.left = << >>
      /\ path' = path \ {Top.name} /\ finished' = Append(finished, Top.name)
      /\ calls' = SubSeq(calls, 1, Len(calls) - 1)
      /\ UNCHANGED <<document, searching, todo, visited, blamed>>
  BY DEF Return, LeavesPath
<1>2. /\ n \in Nat /\ n >= 1 /\ n \in 1..n /\ Top = calls[n] /\ Top \in Calls
  BY <1>1, TopFacts DEF IndInv
<1>3. /\ calls' \in Seq(Calls) /\ Len(calls') = n - 1
      /\ \A i \in 1..(n - 1) : calls'[i] = calls[i]
  <2>1. calls \in Seq(Calls)
    BY DEF IndInv, TypeOK, Calls
  <2> QED
    BY <1>1, <2>1, Popped
<1>4. /\ DefinedHere' = DefinedHere
      /\ \A m : SpreadsIn(m)' = SpreadsIn(m)
      /\ KnownSpreads' = KnownSpreads /\ Acyclic' = Acyclic
  BY <1>1, SameDocument
<1>5. /\ k \in Nat /\ Len(finished') = k + 1 /\ finished' \in Seq(Names)
      /\ finished'[k + 1] = Top.name /\ \A i \in 1..k : finished'[i] = finished[i]
  BY <1>1, <1>2 DEF IndInv, TypeOK, Calls
<1>6. Range(Top.left) = {}
  BY <1>1 DEF Range
<1> HIDE DEF n, k
<1>7. Finished' = Finished \cup {Top.name}
  <2>1. Finished' = {finished'[i] : i \in 1..(k + 1)} /\ Finished = {finished[i] : i \in 1..k}
    BY <1>5 DEF Finished, k
  <2>2. \A i \in 1..(k + 1) : i \in 1..k \/ i = k + 1
    BY <1>5
  <2>3. (\A i \in 1..k : i \in 1..(k + 1)) /\ k + 1 \in 1..(k + 1)
    BY <1>5
  <2>4. \A m \in Finished' : m \in Finished \cup {Top.name}
    BY <2>1, <2>2, <1>5
  <2>5. \A m \in Finished \cup {Top.name} : m \in Finished'
    BY <2>1, <2>3, <1>5
  <2> QED
    BY <2>4, <2>5
<1>8. UnderWay \subseteq UnderWay' \cup {Top.name}
  <2>1. UnderWay' = {calls'[i].name : i \in 1..(n - 1)} /\ UnderWay = {calls[i].name : i \in 1..n}
    BY <1>3 DEF UnderWay, n
  <2>2. \A i \in 1..n : i \in 1..(n - 1) \/ i = n
    BY <1>2
  <2> QED
    BY <2>1, <2>2, <1>2, <1>3
<1>9. \A i \in 1..(n - 1) : i \in 1..n /\ i # n /\ i < n
  BY <1>2
<1>10. TypeOK'
  BY <1>1, <1>3, <1>5 DEF IndInv, TypeOK, Calls
<1>11. CallsFit'
  <2> SUFFICES ASSUME NEW i \in 1..(n - 1)
               PROVE  /\ calls[i].name \in visited \cap (path \ {Top.name}) \cap DefinedHere
                      /\ Range(calls[i].left) \subseteq SpreadsIn(calls[i].name)
    BY <1>1, <1>3, <1>4 DEF CallsFit
  <2>1. /\ calls[i].name \in visited \cap path \cap DefinedHere
        /\ Range(calls[i].left) \subseteq SpreadsIn(calls[i].name)
    BY <1>9 DEF IndInv, CallsFit, n
  <2>2. calls[i].name # Top.name
    BY <1>2, <1>9 DEF IndInv, CallsDiffer, n
  <2> QED
    BY <2>1, <2>2
<1>12. CallsDiffer'
  <2>1. \A i, j \in 1..n : calls[i].name = calls[j].name => i = j
    BY DEF IndInv, CallsDiffer, n
  <2> QED
    BY <1>3, <1>9, <2>1 DEF CallsDiffer
<1>13. CallsSpread'
  <2> SUFFICES ASSUME NEW i \in 1..(n - 1), i < n - 1
               PROVE  calls'[i + 1].name \in SpreadsIn(calls'[i].name)
    BY <1>3, <1>4 DEF CallsSpread
  <2>1. i + 1 \in 1..(n - 1)
    BY <1>2
  <2>2. calls[i + 1].name \in SpreadsIn(calls[i].name)
    BY <1>9 DEF IndInv, CallsSpread, n
  <2> QED
    BY <1>3, <2>1, <2>2
<1>14. PathIsCalls'
  BY <1>1, <1>4, <1>8 DEF IndInv, PathIsCalls
<1>15. PassedFinished'
  <2> SUFFICES ASSUME blamed = {}, NEW i \in 1..(n - 1),
                      NEW m \in (SpreadsIn(calls[i].name) \cap DefinedHere) \ Range(calls[i].left)
               PROVE  m \in Finished' \/ (i < n - 1 /\ calls'[i + 1].name = m)
    BY <1>1, <1>3, <1>4 DEF PassedFinished
  <2>1. m \in Finished \/ calls[i + 1].name = m
    BY <1>9 DEF IndInv, PassedFinished, n
  <2>2. i + 1 = n \/ (i < n - 1 /\ i + 1 \in 1..(n - 1))
    BY <1>2
  <2> QED
    BY <2>1, <2>2, <1>2, <1>3, <1>7
<1>16. VisitedFinished'
  BY <1>1, <1>4, <1>7, <1>8 DEF IndInv, VisitedFinished
<1>17. FinishOrder'
  <2> SUFFICES ASSUME blamed = {}, NEW i \in 1..(k + 1), NEW m \in SpreadsIn(finished'[i]) \cap DefinedHere
               PROVE  \E j \in 1..(i - 1) : finished'[j] = m
    BY <1>1, <1>4, <1>5 DEF FinishOrder
  <2>1. CASE i \in 1..k
    <3>1. PICK j \in 1..(i - 1) : finished[j] = m
      BY <2>1, <1>5 DEF IndInv, FinishOrder, k
    <3>2. j \in 1..k
      BY <2>1, <1>5
    <3> QED
      BY <3>1, <3>2, <1>5
  <2>2. CASE i = k + 1
    <3>1. m \in SpreadsIn(calls[n].name)
      BY <2>2, <1>2, <1>5
    <3>2. m \in Finished \/ (n < n /\ calls[n + 1].name = m)
      BY <3>1, <1>2, <1>6 DEF IndInv, PassedFinished, n
    <3>3. PICK j \in 1..k : finished[j] = m
      BY <3>2, <1>2 DEF Finished, k
    <3>4. j \in 1..(i - 1)
      BY <2>2, <1>5
    <3> QED
      BY <3>3, <3>4, <1>5
  <2> QED
    BY <2>1, <2>2, <1>5
<1>18. NoneForgotten'
  BY <1>1, <1>4 DEF IndInv, NoneForgotten
<1>19. BlamesCycles'
  BY <1>1, <1>4 DEF IndInv, BlamesCycles
<1> QED
  BY <1>10, <1>11, <1>12, <1>13, <1>14, <1>15, <1>16, <1>17, <1>18, <1>19 DEF IndInv

LEMMA EndSearchStep == IndInv /\ EndSearch /\ UNCHANGED document => IndInv'
<1> SUFFICES ASSUME IndInv, EndSearch, UNCHANGED document PROVE IndInv'
  OBVIOUS
<1>1. /\ calls = << >> /\ todo = {} /\ searching' = FALSE
      /\ UNCHANGED <<document, todo, visited, path, calls, blamed, finished>>
  BY DEF EndSearch
<1>2. /\ DefinedHere' = DefinedHere /\ Finished' = Finished /\ UnderWay' = UnderWay
      /\ \A m : SpreadsIn(m)' = SpreadsIn(m)
      /\ KnownSpreads' = KnownSpreads /\ Acyclic' = Acyclic
  BY <1>1, SameDocument DEF Finished, UnderWay
<1>3. TypeOK' /\ NoneForgotten' /\ BlamesCycles'
  BY <1>1, <1>2 DEF IndInv, TypeOK, NoneForgotten, BlamesCycles
<1>4. CallsFit' /\ CallsDiffer' /\ CallsSpread' /\ PathIsCalls' /\ PassedFinished'
  BY <1>1 DEF CallsFit, CallsDiffer, CallsSpread, PathIsCalls, PassedFinished
<1>5. VisitedFinished' /\ FinishOrder'
  BY <1>1, <1>2 DEF IndInv, VisitedFinished, FinishOrder
<1> QED
  BY <1>3, <1>4, <1>5 DEF IndInv

LEMMA StutterStep == IndInv /\ UNCHANGED vars => IndInv'
<1> SUFFICES ASSUME IndInv, UNCHANGED vars PROVE IndInv'
  OBVIOUS
<1>1. UNCHANGED <<document, searching, todo, visited, path, calls, blamed, finished>>
  BY DEF vars, searchVars
<1>2. /\ DefinedHere' = DefinedHere /\ Finished' = Finished /\ UnderWay' = UnderWay
      /\ \A m : SpreadsIn(m)' = SpreadsIn(m)
      /\ KnownSpreads' = KnownSpreads /\ Acyclic' = Acyclic
  BY <1>1, SameDocument DEF Finished, UnderWay
<1>3. TypeOK' /\ NoneForgotten' /\ BlamesCycles' /\ PathIsCalls'
  BY <1>1, <1>2 DEF IndInv, TypeOK, NoneForgotten, BlamesCycles, PathIsCalls
<1>4. CallsFit' /\ CallsDiffer' /\ CallsSpread' /\ PassedFinished'
  BY <1>1, <1>2 DEF IndInv, CallsFit, CallsDiffer, CallsSpread, PassedFinished
<1>5. VisitedFinished' /\ FinishOrder'
  BY <1>1, <1>2 DEF IndInv, VisitedFinished, FinishOrder
<1> QED
  BY <1>3, <1>4, <1>5 DEF IndInv

LEMMA NextInv == IndInv /\ [Next]_vars => IndInv'
<1> SUFFICES ASSUME IndInv, [Next]_vars PROVE IndInv'
  OBVIOUS
<1>1. CASE Search /\ UNCHANGED document
  <2>1. ASSUME NEW n \in Names, Start(n) PROVE IndInv'
    BY <1>1, <2>1, StartStep
  <2> QED
    BY <1>1, <2>1, CloseStep, PassStep, EnterStep, EnterUnknownStep, ReturnStep,
       EndSearchStep DEF Search
<1> QED
  BY <1>1, StutterStep DEF Next

\* A search that is over and blames nothing has finished every fragment, each
\* after those it spreads: of any set, the first to finish spreads none of it.
LEMMA FoundAll ==
  ASSUME IndInv, ~searching, blamed = {} PROVE Acyclic
<1> SUFFICES ASSUME NEW S \in SUBSET DefinedHere, S # {}
             PROVE  \E n \in S : SpreadsIn(n) \cap S = {}
  BY DEF Acyclic
<1>1. calls = << >> /\ todo = {} /\ DefinedHere \subseteq visited
  BY DEF IndInv, NoneForgotten
<1>2. S \subseteq Finished
  BY <1>1 DEF IndInv, VisitedFinished, UnderWay
<1> DEFINE T == {i \in 1..Len(finished) : finished[i] \in S}
<1>3. T \in SUBSET Nat
  OBVIOUS
<1>4. T # {}
  BY <1>2 DEF Finished
<1>5. PICK i \in T : \A j \in T : i <= j
  BY <1>3, <1>4, Least
<1>6. SpreadsIn(finished[i]) \cap S = {}
  <2> SUFFICES ASSUME NEW m \in SpreadsIn(finished[i]) \cap S PROVE FALSE
    OBVIOUS
  <2>1. PICK j \in 1..(i - 1) : finished[j] = m
    BY <1>5 DEF IndInv, FinishOrder
  <2>2. Len(finished) \in Nat
    BY DEF IndInv, TypeOK
  <2>3. j \in T /\ j < i
    BY <1>5, <2>1, <2>2
  <2> QED
    BY <1>3, <1>5, <2>3
<1> QED
  BY <1>5, <1>6

\* The search's state keeps its types and its strengthened invariant.
THEOREM Inductive == Spec => []IndInv
<1> QED
  BY InitInv, NextInv, PTL DEF Spec

\* The variables of the search keep their types (validation.go:240-282).
THEOREM TypeCorrect == Spec => []TypeOK
<1>1. IndInv => TypeOK
  BY DEF IndInv
<1> QED
  BY <1>1, Inductive, PTL

\* In whatever order a document's fragments are visited, the search blames it
\* for a cycle when it has one, and only then if every spread is of a fragment
\* it defines (validation.go:240-282).
THEOREM Finds == Spec => []FindsCycles
<1>1. IndInv => FindsCycles
  BY FoundAll DEF IndInv, BlamesCycles, FindsCycles
<1> QED
  BY <1>1, Inductive, PTL

----------------------------------------------------------------------------
(* The request                                                             *)

\* What is said of the document's text stays, as the document does.
LEMMA SameText ==
  ASSUME document' = document
  PROVE  /\ Text' = Text /\ Nodes' = Nodes /\ Selections' = Selections
         /\ Operations' = Operations /\ Fragments' = Fragments /\ DefinedHere' = DefinedHere
         /\ \A n : /\ OfKind(n)' = OfKind(n) /\ Kids(n)' = Kids(n)
                   /\ Within(n)' = Within(n) /\ Fragment(n)' = Fragment(n)
                   /\ RootType(n)' = RootType(n)
<1>1. Text' = Text /\ DefinedHere' = DefinedHere
  BY DEF Text, DefinedHere
<1> QED
  BY <1>1 DEF Nodes, Selections, Operations, Fragments, OfKind, Kids, Within, Fragment, RootType

LEMMA SameSpans ==
  ASSUME document' = document
  PROVE  \A o, names : Spanned(o, names)' = Spanned(o, names)
BY SameText DEF Spanned

LEMMA SameTypes ==
  ASSUME document' = document
  PROVE  \A g : TypesOf(g)' = TypesOf(g)
BY SMT DEF TypesOf, TypesAt, Nodes, DefinitionType, RootType, Under, Text

LEMMA SameMeetings ==
  ASSUME document' = document
  PROVE  /\ \A s, g : TypesOver(s, g)' = TypesOver(s, g) /\ TypesWith(s, g)' = TypesWith(s, g)
         /\ \A o, g : LedTo(o, g)' = LedTo(o, g)
         /\ \A o : Executed(o)' = Executed(o) /\ MetBy(o)' = MetBy(o) /\ ReachedBy(o)' = ReachedBy(o)
         /\ MetByOperations' = MetByOperations
<1>1. \A s, g : TypesOver(s, g)' = TypesOver(s, g) /\ TypesWith(s, g)' = TypesWith(s, g)
  BY SameText, SameTypes DEF TypesOver, TypesWith
<1>2. \A o, g : LedTo(o, g)' = LedTo(o, g)
  <2>1. \A names, o, g : Closed(names, o, g)' <=> Closed(names, o, g)
    BY <1>1, SameText, SameSpans DEF Closed
  <2> QED
    BY <2>1 DEF LedTo
<1>3. \A o : Executed(o)' = Executed(o) /\ MetBy(o)' = MetBy(o) /\ ReachedBy(o)' = ReachedBy(o)
  BY <1>2, SameSpans DEF Executed, MetBy, ReachedBy
<1> QED
  BY <1>1, <1>2, <1>3, SameText DEF MetByOperations

LEMMA SameUses ==
  ASSUME document' = document
  PROVE  \A o : UsedVariables(o)' = UsedVariables(o)
BY SameText, SameMeetings DEF UsedVariables, UsesOf

\* And so do the rules.
LEMMA SameRules ==
  ASSUME document' = document, blamed' = blamed
  PROVE  Broken' = Broken
<1>1. /\ UniqueOperationNames' = UniqueOperationNames
      /\ LoneAnonymousOperation' = LoneAnonymousOperation
      /\ KnownTypeNames' = KnownTypeNames
      /\ FragmentsOnCompositeTypes' = FragmentsOnCompositeTypes
      /\ UniqueFragmentNames' = UniqueFragmentNames
      /\ KnownFragmentNames' = KnownFragmentNames
  BY SameText DEF UniqueOperationNames, LoneAnonymousOperation, KnownTypeNames,
     FragmentsOnCompositeTypes, UniqueFragmentNames, KnownFragmentNames, Distinct
<1>2. /\ NoUnusedFragments' = NoUnusedFragments
      /\ NoFragmentCycles' = NoFragmentCycles
      /\ FieldsOnCorrectType' = FieldsOnCorrectType
      /\ ScalarLeafs' = ScalarLeafs
  BY SameText, SameMeetings DEF NoUnusedFragments, NoFragmentCycles, FieldsOnCorrectType, ScalarLeafs
<1>3. /\ KnownArgumentNames' = KnownArgumentNames
      /\ UniqueArgumentNames' = UniqueArgumentNames
      /\ ProvidedRequiredArguments' = ProvidedRequiredArguments
      /\ UniqueVariableNames' = UniqueVariableNames
  <2>1. MetByOperations' = MetByOperations /\ OfKind("field")' = OfKind("field") /\ Text' = Text
    BY SameText, SameMeetings
  <2>2. \A s : TypesWith(s, TRUE)' = TypesWith(s, TRUE)
    BY SameMeetings
  <2>3. KnownArgumentNames' = KnownArgumentNames
    BY <2>1, <2>2 DEF KnownArgumentNames
  <2>4. ProvidedRequiredArguments' = ProvidedRequiredArguments
    BY <2>1, <2>2 DEF ProvidedRequiredArguments
  <2>5. UniqueArgumentNames' = UniqueArgumentNames
    BY SameText DEF UniqueArgumentNames
  <2>6. UniqueVariableNames' = UniqueVariableNames
    BY SameText DEF UniqueVariableNames
  <2> QED
    BY <2>3, <2>4, <2>5, <2>6
<1>4. /\ NoUndefinedVariables' = NoUndefinedVariables
      /\ NoUnusedVariables' = NoUnusedVariables
      /\ KnownDirectives' = KnownDirectives
      /\ UniqueDirectivesPerLocation' = UniqueDirectivesPerLocation
      /\ VariablesAreInputTypes' = VariablesAreInputTypes
  BY SameText, SameUses DEF NoUndefinedVariables, NoUnusedVariables, KnownDirectives,
     UniqueDirectivesPerLocation, VariablesAreInputTypes
<1> QED
  BY <1>1, <1>2, <1>3, <1>4 DEF Broken, Report

\* A document without errors breaks none of the rules.
LEMMA ValidDocument ==
  ASSUME Broken = {}
  PROVE  /\ UniqueOperationNames /\ LoneAnonymousOperation /\ KnownTypeNames
         /\ UniqueFragmentNames /\ KnownFragmentNames
         /\ FieldsOnCorrectType /\ ScalarLeafs
         /\ KnownArgumentNames /\ UniqueArgumentNames /\ ProvidedRequiredArguments
         /\ UniqueVariableNames /\ NoUndefinedVariables
BY DEF Broken, Report

LEMMA SameFits ==
  ASSUME document' = document
  PROVE  /\ \A o, s, t, mixed : Fits(o, s, t, mixed)' <=> Fits(o, s, t, mixed)
         /\ \A o, sels, t, mixed : AllFit(o, sels, t, mixed)' <=> AllFit(o, sels, t, mixed)
<1>1. \A o, s, t, mixed : Fits(o, s, t, mixed)' <=> Fits(o, s, t, mixed)
  BY SameText, SameMeetings DEF Fits
<1> QED
  BY <1>1, SameText DEF AllFit

\* What is assumed of every document.
LEMMA DocumentFacts ==
  ASSUME document \in Documents
  PROVE  /\ Len(Text) \in Nat /\ Nodes = 1..Len(Text)
         /\ \A n \in Nodes : Text[n].kind \in DefinitionKinds \cup SelectionKinds
         /\ \A n \in Fragments \cup OfKind("spread") : n \in Nodes /\ Text[n].name \in Names
         /\ \A s \in Selections :
              /\ s \in Nodes /\ Text[s].parent \in Nodes \ OfKind("spread")
              /\ s \in Within(Text[s].parent) /\ Text[s].parent < s
         /\ DefinedHere = {Text[f].name : f \in Fragments}
<1>1. /\ Defined[document] = FragmentNames(Text)
      /\ Len(Text) \in Nat /\ DOMAIN Text = 1..Len(Text)
      /\ DOMAIN Text = NodesOf(Text, DefinitionKinds \cup SelectionKinds)
      /\ \A n \in NodesOf(Text, {"fragment", "spread"}) : Text[n].name \in Names
      /\ \A n \in NodesOf(Text, SelectionKinds) :
           /\ Text[n].parent \in DOMAIN Text \ NodesOf(Text, {"spread"})
           /\ n \in Following(Text, Text[n].parent)
  BY DocumentAssumption DEF Text
<1>2. \A n \in Nodes : Text[n].kind \in DefinitionKinds \cup SelectionKinds
  BY <1>1 DEF NodesOf, Nodes
<1>3. \A n \in Fragments \cup OfKind("spread") : n \in Nodes /\ Text[n].name \in Names
  BY <1>1 DEF NodesOf, Nodes, Fragments, OfKind
<1>4. \A s \in Selections :
        /\ s \in Nodes /\ Text[s].parent \in Nodes \ OfKind("spread")
        /\ s \in Within(Text[s].parent)
  BY <1>1 DEF NodesOf, Nodes, Selections, OfKind, Within
<1>5. \A s \in Selections : Text[s].parent < s
  BY <1>4 DEF Within, Following
<1>6. DefinedHere = {Text[f].name : f \in Fragments}
  BY <1>1 DEF DefinedHere, FragmentNames, Fragments, OfKind
<1> QED
  BY <1>1, <1>2, <1>3, <1>4, <1>5, <1>6 DEF Nodes

\* The definitions and the selections are different nodes.
LEMMA KindsDiffer ==
  /\ Operations \subseteq Nodes /\ Fragments \subseteq Nodes /\ Selections \subseteq Nodes
  /\ \A n \in Operations \cup Fragments : Text[n].kind \in DefinitionKinds
  /\ \A o \in Operations : Text[o].kind = "operation"
  /\ \A f \in Fragments : Text[f].kind = "fragment"
  /\ \A s \in Selections : Text[s].kind \in SelectionKinds /\ Text[s].kind \notin DefinitionKinds
  /\ \A kind \in SelectionKinds : \A s \in OfKind(kind) : s \in Selections /\ Text[s].kind = kind
BY DEF Operations, Fragments, Selections, OfKind, NodesOf, Nodes, DefinitionKinds, SelectionKinds

\* A selection stays within the definition of its parent.
LEMMA KidsStay ==
  ASSUME document \in Documents, NEW d \in Nodes, NEW p \in Within(d) \cup {d}, NEW s \in Kids(p)
  PROVE  s \in Within(d)
<1>1. s \in Selections /\ Text[s].parent = p
  BY DEF Kids
<1>2. s \in Within(p) /\ Nodes = 1..Len(Text) /\ Len(Text) \in Nat /\ p \in Nodes
  BY <1>1, DocumentFacts
<1>3. CASE p = d
  BY <1>2, <1>3
<1>4. CASE p \in Within(d)
  <2>1. p > d /\ \A k \in (d + 1)..p : Text[k].kind \notin DefinitionKinds
    BY <1>4 DEF Within, Following
  <2>2. s \in DOMAIN Text /\ s > p /\ \A k \in (p + 1)..s : Text[k].kind \notin DefinitionKinds
    BY <1>2 DEF Within, Following
  <2>3. s \in Nat /\ p \in Nat /\ d \in Nat
    BY <1>2, <2>2 DEF Nodes
  <2>4. ASSUME NEW k \in (d + 1)..s PROVE Text[k].kind \notin DefinitionKinds
    <3>1. k \in (d + 1)..p \/ k \in (p + 1)..s
      BY <2>3
    <3> QED
      BY <3>1, <2>1, <2>2
  <2>5. s > d
    BY <2>1, <2>2, <2>3
  <2> QED
    BY <2>2, <2>4, <2>5 DEF Within, Following
<1> QED
  BY <1>3, <1>4

\* The map of fragments has each one that is defined.
LEMMA FragmentDefined ==
  ASSUME document \in Documents, NEW n \in DefinedHere
  PROVE  Fragment(n) \in Fragments /\ Text[Fragment(n)].name = n
<1> DEFINE L == Len(Text)
           T == {i \in 0..L : \E f \in Fragments : f = L - i /\ Text[f].name = n}
<1>1. L \in Nat /\ Nodes = 1..L /\ DefinedHere = {Text[f].name : f \in Fragments} /\ Fragments \subseteq Nodes
  BY DocumentFacts, KindsDiffer
<1>2. PICK g \in Fragments : Text[g].name = n
  BY <1>1
<1> HIDE DEF L
<1>3. g \in 1..L
  BY <1>1
<1>4. L - g \in 0..L /\ g = L - (L - g)
  BY <1>1, <1>3
<1>5. L - g \in T
  BY <1>2, <1>4
<1>6. T \in SUBSET Nat
  OBVIOUS
<1>7. PICK i \in T : \A j \in T : i <= j
  BY <1>5, <1>6, Least
<1>8. PICK f \in Fragments : f = L - i /\ Text[f].name = n
  BY <1>7
<1>9. \A m \in Fragments : Text[m].name = n => m <= f
  <2> SUFFICES ASSUME NEW m \in Fragments, Text[m].name = n PROVE m <= f
    OBVIOUS
  <2>1. m \in 1..L
    BY <1>1
  <2>2. L - m \in 0..L /\ m = L - (L - m)
    BY <1>1, <2>1
  <2>3. L - m \in T
    BY <2>2
  <2>4. i <= L - m /\ i \in Nat
    BY <1>6, <1>7, <2>3
  <2> QED
    BY <1>1, <1>8, <2>1, <2>4
<1>10. Fragments = NodesOf(Text, {"fragment"})
  BY DEF Fragments, OfKind
<1> QED
  BY <1>8, <1>9, <1>10 DEF Fragment, LastNamed

\* What is asked for below a node of an operation is of the operation, and what
\* is asked for in a fragment of the fragment.
LEMMA SpannedKids ==
  ASSUME document \in Documents, NEW o \in Nodes, NEW names, NEW s
  PROVE  /\ s \in Kids(o) => s \in Spanned(o, names)
         /\ \A p \in Spanned(o, names) : s \in Kids(p) => s \in Spanned(o, names)
         /\ \A n \in names \cap DefinedHere : s \in Kids(Fragment(n)) => s \in Spanned(o, names)
<1>1. s \in Kids(o) => s \in Spanned(o, names)
  BY KidsStay DEF Spanned
<1>2. \A n \in names \cap DefinedHere : Fragment(n) \in Nodes
  BY FragmentDefined, KindsDiffer
<1>3. \A n \in names \cap DefinedHere : s \in Kids(Fragment(n)) => s \in Spanned(o, names)
  BY <1>2, KidsStay DEF Spanned
<1>4. ASSUME NEW p \in Spanned(o, names), s \in Kids(p) PROVE s \in Spanned(o, names)
  <2>1. CASE p \in Within(o)
    BY <1>4, <2>1, KidsStay DEF Spanned
  <2>2. ASSUME NEW n \in names \cap DefinedHere, p \in Within(Fragment(n)) PROVE s \in Spanned(o, names)
    BY <1>2, <1>4, <2>2, KidsStay DEF Spanned
  <2> QED
    BY <2>1, <2>2 DEF Spanned
<1> QED
  BY <1>1, <1>3, <1>4

\* An operation leads to the fragments that it or those it leads to spread.
LEMMA LedToClosed ==
  ASSUME document \in Documents, NEW o, NEW onlyMet \in BOOLEAN
  PROVE  Closed(LedTo(o, onlyMet), o, onlyMet)
<1> SUFFICES ASSUME NEW s \in Spanned(o, LedTo(o, onlyMet)) \cap OfKind("spread"),
                    onlyMet => TypesOver(s, TRUE) # {},
                    Text[s].name \notin LedTo(o, onlyMet)
             PROVE  FALSE
  BY DEF Closed
<1>1. Text[s].name \in Names
  BY DocumentFacts
<1>2. PICK names \in SUBSET (Names \ {Text[s].name}) : Closed(names, o, onlyMet)
  BY <1>1 DEF LedTo
<1>3. LedTo(o, onlyMet) \subseteq names
  BY <1>2 DEF LedTo
<1>4. s \in Spanned(o, names)
  BY <1>3 DEF Spanned
<1> QED
  BY <1>2, <1>4 DEF Closed

\* A set of natural numbers without a least element is empty.
LEMMA NoLeast ==
  ASSUME NEW T \in SUBSET Nat, \A k \in T : \E m \in T : m < k
  PROVE  T = {}
<1> SUFFICES ASSUME T # {} PROVE FALSE
  OBVIOUS
<1>1. PICK n \in T : \A m \in T : n <= m
  BY Least
<1>2. PICK m \in T : m < n
  OBVIOUS
<1> QED
  BY <1>1, <1>2

\* Each node's types are given by its parent's, which comes before it.
LEMMA TypesExist ==
  ASSUME document \in Documents, NEW goesOn \in BOOLEAN
  PROVE  \E types : types = [n \in Nodes |-> TypesAt(types, n, goesOn)]
<1> DEFINE UpTo(k) == \E types : /\ types = [n \in Nodes |-> types[n]]
                                 /\ \A n \in Nodes : n <= k => types[n] = TypesAt(types, n, goesOn)
           T == {k \in Nat : ~UpTo(k)}
           L == Len(Text)
<1>1. L \in Nat /\ Nodes = 1..L
  BY DocumentFacts
<1>2. \A n \in Nodes : Text[n].kind \notin DefinitionKinds => Text[n].parent \in Nodes /\ Text[n].parent < n
  BY DocumentFacts DEF Selections, NodesOf, Nodes
<1> HIDE DEF L
<1>3. UpTo(0)
  <2> DEFINE types == [n \in Nodes |-> {}]
  <2>1. types = [n \in Nodes |-> types[n]]
    OBVIOUS
  <2>2. \A n \in Nodes : ~(n <= 0)
    BY <1>1
  <2> HIDE DEF types
  <2> QED
    BY <2>1, <2>2
<1>4. ASSUME NEW k \in Nat, k # 0, UpTo(k - 1) PROVE UpTo(k)
  <2>1. PICK types : /\ types = [n \in Nodes |-> types[n]]
                     /\ \A n \in Nodes : n <= k - 1 => types[n] = TypesAt(types, n, goesOn)
    BY <1>4
  <2> DEFINE more == [n \in Nodes |-> IF n = k THEN TypesAt(types, n, goesOn) ELSE types[n]]
  <2>2. more = [n \in Nodes |-> more[n]]
    OBVIOUS
  <2>3. ASSUME NEW n \in Nodes, n <= k PROVE more[n] = TypesAt(more, n, goesOn)
    <3>1. Text[n].kind \notin DefinitionKinds => more[Text[n].parent] = types[Text[n].parent]
      <4>1. Text[n].kind \notin DefinitionKinds => Text[n].parent \in Nodes /\ Text[n].parent # k
        BY <1>1, <1>2, <2>3
      <4> QED
        BY <4>1
    <3>2. TypesAt(more, n, goesOn) = TypesAt(types, n, goesOn)
      BY <3>1 DEF TypesAt
    <3>3. n # k => n <= k - 1
      BY <1>1, <2>3
    <3> QED
      BY <2>1, <3>2, <3>3
  <2> HIDE DEF more
  <2> QED
    BY <2>2, <2>3
<1> HIDE DEF UpTo
<1>5. T = {}
  <2> SUFFICES ASSUME NEW k \in T PROVE \E m \in T : m < k
    BY NoLeast
  <2>1. k \in Nat /\ k # 0 /\ ~UpTo(k - 1)
    BY <1>3, <1>4
  <2>2. k - 1 \in T /\ k - 1 < k
    BY <2>1
  <2> QED
    BY <2>2
<1>6. UpTo(L)
  BY <1>1, <1>5
<1>7. PICK types : /\ types = [n \in Nodes |-> types[n]]
                   /\ \A n \in Nodes : n <= L => types[n] = TypesAt(types, n, goesOn)
  BY <1>6 DEF UpTo
<1>8. \A n \in Nodes : types[n] = TypesAt(types, n, goesOn)
  BY <1>1, <1>7
<1>9. types = [n \in Nodes |-> TypesAt(types, n, goesOn)]
  BY <1>7, <1>8
<1> QED
  BY <1>9

\* The recursive function is well defined.
LEMMA TypesDefined ==
  ASSUME document \in Documents, NEW goesOn \in BOOLEAN
  PROVE  \A n \in Nodes : TypesOf(goesOn)[n] = TypesAt(TypesOf(goesOn), n, goesOn)
<1>1. TypesOf(goesOn) = CHOOSE types : types = [n \in Nodes |-> TypesAt(types, n, goesOn)]
  BY DEF TypesOf
<1>2. TypesOf(goesOn) = [n \in Nodes |-> TypesAt(TypesOf(goesOn), n, goesOn)]
  BY <1>1, TypesExist
<1> QED
  BY <1>2

\* A type that is met is one of the schema's.
LEMMA TypesKnown ==
  ASSUME document \in Documents, NEW goesOn \in BOOLEAN
  PROVE  \A n \in Nodes : TypesOf(goesOn)[n] \subseteq DOMAIN Kind
<1> DEFINE types == TypesOf(goesOn)
           T == {n \in Nodes : ~(types[n] \subseteq DOMAIN Kind)}
<1>1. Nodes \subseteq Nat
  BY DocumentFacts
<1>2. \A n \in Nodes : Text[n].kind \notin DefinitionKinds => Text[n].parent \in Nodes /\ Text[n].parent < n
  BY DocumentFacts DEF Selections, NodesOf, Nodes
<1>3. \A n \in Nodes : types[n] = TypesAt(types, n, goesOn)
  BY TypesDefined
<1> HIDE DEF types
<1>4. ASSUME NEW n \in T PROVE \E m \in T : m < n
  <2>1. PICK t \in TypesAt(types, n, goesOn) : t \notin DOMAIN Kind
    BY <1>3, <1>4
  <2>2. Text[n].kind \notin DefinitionKinds
    BY <2>1 DEF TypesAt, Known
  <2>3. PICK u \in types[Text[n].parent] : t \in Under(u, n, goesOn)
    BY <2>1, <2>2 DEF TypesAt
  <2>4. u \in DOMAIN Kind => t \in DOMAIN Kind
    BY <2>3, SchemaAssumption DEF Under, Known
  <2>5. Text[n].parent \in T /\ Text[n].parent < n
    BY <1>2, <2>1, <2>2, <2>3, <2>4
  <2> QED
    BY <2>5
<1>5. T = {}
  BY <1>1, <1>4, NoLeast
<1> QED
  BY <1>5 DEF types

\* What a selection's own selections are met under.
LEMMA TypesBelow ==
  ASSUME document \in Documents, NEW goesOn \in BOOLEAN, NEW n \in Nodes, NEW s \in Kids(n)
  PROVE  /\ n \in Operations \cup Fragments =>
              TypesOver(s, goesOn) = {t \in {DefinitionType(n)} : Known(t)}
         /\ n \in Selections =>
              TypesOver(s, goesOn) = UNION {Under(t, n, goesOn) : t \in TypesOver(n, goesOn)}
         /\ TypesOver(s, goesOn) \subseteq DOMAIN Kind
<1>1. TypesOver(s, goesOn) = TypesOf(goesOn)[n]
  BY DEF TypesOver, Kids
<1>2. TypesOf(goesOn)[n] = TypesAt(TypesOf(goesOn), n, goesOn)
  BY TypesDefined
<1>3. TypesOf(goesOn)[n] \subseteq DOMAIN Kind
  BY TypesKnown
<1>4. CASE n \in Operations \cup Fragments
  <2>1. Text[n].kind \in DefinitionKinds /\ n \notin Selections
    BY <1>4, KindsDiffer
  <2> QED
    BY <1>1, <1>2, <1>3, <2>1 DEF TypesAt
<1>5. CASE n \in Selections
  <2>1. Text[n].kind \notin DefinitionKinds /\ n \notin Operations \cup Fragments
    BY <1>5, KindsDiffer
  <2> QED
    BY <1>1, <1>2, <1>3, <2>1 DEF TypesAt, TypesOver
<1> QED
  BY <1>1, <1>3, <1>4, <1>5

\* An object has the fields of what it may be met as, and they keep what those
\* promise.
LEMMA Promised ==
  ASSUME NEW p \in DOMAIN Kind, NEW t \in Possible[p], NEW f \in DOMAIN Fields[p]
  PROVE  /\ t \in DOMAIN Kind /\ f \in DOMAIN Fields[t]
         /\ LET own == Fields[t][f]
                promised == Fields[p][f]
            IN  /\ own.type \in DOMAIN Kind /\ promised.type \in DOMAIN Kind
                /\ Possible[own.type] \subseteq Possible[promised.type]
                /\ IsLeaf(own.type) <=> IsLeaf(promised.type)
                /\ DOMAIN promised.args \subseteq DOMAIN own.args
                /\ \A a \in DOMAIN own.args :
                     own.args[a] => a \in DOMAIN promised.args /\ promised.args[a]
<1>1. /\ Kind[p] \in {"object", "interface", "union", "leaf", "input"}
      /\ t \in DOMAIN Kind /\ Kind[t] = "object"
      /\ Kind[p] = "object" => Possible[p] = {p}
      /\ ~IsComposite(p) => Possible[p] = {}
      /\ Kind[p] = "union" => DOMAIN Fields[p] = {}
      /\ Known(Fields[p][f].type)
  BY SchemaAssumption
<1>2. CASE Kind[p] = "object"
  <2>1. t = p
    BY <1>1, <1>2
  <2> QED
    BY <1>1, <2>1 DEF Known
<1>3. CASE Kind[p] = "interface"
  <2> DEFINE own == Fields[t][f].type
             promised == Fields[p][f].type
  <2>1. f \in DOMAIN Fields[t] /\ Keeps(Fields[t][f], Fields[p][f])
    BY <1>3, SchemaAssumption
  <2>2. own \in DOMAIN Kind /\ promised \in DOMAIN Kind /\ own \in {promised} \cup Possible[promised]
    BY <1>1, <2>1, SchemaAssumption DEF Known, Keeps
  <2>3. CASE own # promised
    <3>1. own \in Possible[promised] /\ Kind[own] = "object" /\ Possible[own] = {own}
      BY <2>2, <2>3, SchemaAssumption
    <3>2. IsComposite(promised)
      BY <2>2, <3>1, SchemaAssumption
    <3> QED
      BY <1>1, <2>1, <2>2, <3>1, <3>2 DEF Keeps, IsLeaf, IsComposite
  <2> QED
    BY <1>1, <2>1, <2>2, <2>3 DEF Keeps
<1>4. CASE Kind[p] \in {"union", "leaf", "input"}
  BY <1>1, <1>4 DEF IsComposite
<1> QED
  BY <1>1, <1>2, <1>3, <1>4

\* What an operation executes and what the rules meet is closed.
LEMMA Reaches ==
  ASSUME document \in Documents, NEW o \in Operations
  PROVE  /\ \A s : s \in Kids(o) => s \in Selections \cap Executed(o) \cap MetBy(o)
         /\ \A p, s : s \in Kids(p) =>
              /\ s \in Selections
              /\ p \in Executed(o) => s \in Executed(o)
              /\ p \in MetBy(o) => s \in MetBy(o)
         /\ \A p \in OfKind("spread") : \A s :
              Text[p].name \in DefinedHere /\ s \in Kids(Fragment(Text[p].name)) =>
                /\ s \in Selections
                /\ p \in Executed(o) => s \in Executed(o)
                /\ p \in MetBy(o) /\ TypesOver(p, TRUE) # {} => s \in MetBy(o)
<1>1. o \in Nodes
  BY KindsDiffer
<1>2. \A p, s : s \in Kids(p) => s \in Selections
  BY DEF Kids
<1>3. \A s : s \in Kids(o) => s \in Selections \cap Executed(o) \cap MetBy(o)
  BY <1>1, <1>2, SpannedKids DEF Executed, MetBy
<1>4. \A p, s : s \in Kids(p) =>
        (p \in Executed(o) => s \in Executed(o)) /\ (p \in MetBy(o) => s \in MetBy(o))
  BY <1>1, SpannedKids DEF Executed, MetBy
<1>5. ASSUME NEW p \in OfKind("spread"), NEW s, Text[p].name \in DefinedHere,
             s \in Kids(Fragment(Text[p].name))
      PROVE  /\ p \in Executed(o) => s \in Executed(o)
             /\ p \in MetBy(o) /\ TypesOver(p, TRUE) # {} => s \in MetBy(o)
  <2>1. p \in Executed(o) => Text[p].name \in ReachedBy(o)
    BY <1>5, LedToClosed DEF Executed, ReachedBy, Closed
  <2>2. p \in MetBy(o) /\ TypesOver(p, TRUE) # {} => Text[p].name \in LedTo(o, TRUE)
    BY <1>5, LedToClosed DEF MetBy, Closed
  <2>3. \A names : Text[p].name \in names => s \in Spanned(o, names)
    BY <1>1, <1>5, SpannedKids
  <2> QED
    BY <2>1, <2>2, <2>3 DEF Executed, MetBy
<1> QED
  BY <1>2, <1>3, <1>4, <1>5

\* The root type's object is asked for the operation's selections.
LEMMA RootFits ==
  ASSUME document \in Documents, NEW o \in Operations, RootType(o) # None, NEW s \in Kids(o)
  PROVE  Fits(o, s, RootType(o), FALSE)
<1>1. Known(RootType(o)) /\ Kind[RootType(o)] = "object" /\ Possible[RootType(o)] = {RootType(o)}
  BY SchemaAssumption DEF RootType, Known
<1>2. o \in Nodes /\ DefinitionType(o) = RootType(o)
  BY KindsDiffer DEF DefinitionType
<1>3. \A goesOn \in BOOLEAN : TypesOver(s, goesOn) = {RootType(o)}
  BY <1>1, <1>2, TypesBelow
<1>4. s \in Selections \cap Executed(o) \cap MetBy(o)
  BY Reaches
<1> QED
  BY <1>1, <1>3, <1>4 DEF Fits

\* The types that what fits is met under.
LEMMA FitsUnder ==
  ASSUME document \in Documents, NEW o \in Operations, NEW s, NEW t, Fits(o, s, t, FALSE)
  PROVE  /\ s \in Selections /\ s \in Nodes /\ s \in MetBy(o) /\ s \in MetByOperations
         /\ TypesOver(s, FALSE) = TypesOver(s, TRUE)
         /\ TypesOver(s, TRUE) \subseteq DOMAIN Kind
         /\ \E u \in TypesOver(s, TRUE) :
              u \in DOMAIN Kind /\ t \in Possible[u] /\ t \in DOMAIN Kind /\ Kind[t] = "object"
<1>1. /\ s \in Selections /\ s \in MetBy(o) /\ TypesOver(s, FALSE) = TypesOver(s, TRUE)
      /\ \E u \in TypesOver(s, TRUE) : t \in Possible[u]
  BY DEF Fits
<1>2. s \in Nodes /\ s \in MetByOperations
  BY <1>1, KindsDiffer DEF MetByOperations
<1>3. Text[s].parent \in Nodes
  BY <1>1, DocumentFacts
<1>4. TypesOver(s, TRUE) \subseteq DOMAIN Kind
  BY <1>3, TypesKnown DEF TypesOver
<1>5. \A u \in DOMAIN Kind : \A x \in Possible[u] : x \in DOMAIN Kind /\ Kind[x] = "object"
  BY SchemaAssumption
<1> QED
  BY <1>1, <1>2, <1>4, <1>5

\* What a valid document says of a field that an object is asked for.
LEMMA FieldAllowed ==
  ASSUME document \in Documents, NEW o \in Operations, Broken = {},
         NEW s \in OfKind("field"), NEW t, Fits(o, s, t, FALSE), Text[s].name \notin Introspective
  PROVE  \E u \in TypesOver(s, TRUE) :
           /\ u \in DOMAIN Kind /\ t \in Possible[u] /\ Text[s].name \in DOMAIN Fields[u]
           /\ u \in TypesWith(s, TRUE) /\ u \in TypesWith(s, FALSE)
<1>1. FieldsOnCorrectType
  BY ValidDocument
<1>2. PICK u \in TypesOver(s, TRUE) : u \in DOMAIN Kind /\ t \in Possible[u]
  BY FitsUnder
<1>3. u \in TypesOver(s, FALSE)
  BY <1>2, FitsUnder
<1>4. Text[s].name \in DOMAIN Fields[u]
  BY <1>1, <1>3 DEF FieldsOnCorrectType
<1> QED
  BY <1>2, <1>3, <1>4 DEF TypesWith

\* An object that a field resolves to is asked for what is selected from it.
LEMMA FieldFits ==
  ASSUME document \in Documents, NEW o \in Operations, Broken = {},
         NEW f \in OfKind("field"), NEW t, NEW mixed \in BOOLEAN, Fits(o, f, t, mixed),
         ~mixed => Text[f].name \notin Introspective,
         NEW x, ~mixed => x \in Possible[Fields[t][Text[f].name].type],
         NEW s \in Kids(f)
  PROVE  Fits(o, s, x, mixed)
<1>1. f \in Executed(o) /\ s \in Selections /\ s \in Executed(o)
  BY Reaches DEF Fits
<1>2. CASE mixed
  BY <1>1, <1>2 DEF Fits
<1>3. CASE ~mixed
  <2> DEFINE name == Text[f].name
  <2>1. Fits(o, f, t, FALSE)
    BY <1>3 DEF Fits
  <2>2. PICK u \in TypesOver(f, TRUE) : u \in DOMAIN Kind /\ t \in Possible[u] /\ name \in DOMAIN Fields[u]
    BY <1>3, <2>1, FieldAllowed
  <2>3. x \in Possible[Fields[u][name].type]
    BY <1>3, <2>2, Promised
  <2>4. Text[f].kind = "field" /\ f \in Selections /\ f \in Nodes
    BY KindsDiffer DEF SelectionKinds
  <2>5. \A goesOn \in BOOLEAN : TypesOver(s, goesOn) = UNION {Under(v, f, goesOn) : v \in TypesOver(f, goesOn)}
    BY <2>4, TypesBelow
  <2>6. \A v : Under(v, f, TRUE) = Under(v, f, FALSE)
    BY <2>4 DEF Under
  <2>7. TypesOver(s, FALSE) = TypesOver(s, TRUE)
    <3>1. TypesOver(f, FALSE) = TypesOver(f, TRUE)
      BY <2>1, FitsUnder
    <3>2. TypesOver(s, TRUE) = UNION {Under(v, f, TRUE) : v \in TypesOver(f, TRUE)}
      BY <2>5
    <3>3. TypesOver(s, FALSE) = UNION {Under(v, f, FALSE) : v \in TypesOver(f, FALSE)}
      BY <2>5
    <3> QED
      BY <2>6, <3>1, <3>2, <3>3
  <2>8. Fields[u][name].type \in TypesOver(s, TRUE)
    <3>1. Under(u, f, TRUE) = {Fields[u][name].type}
      BY <2>2, <2>4 DEF Under
    <3> QED
      BY <2>2, <2>5, <3>1
  <2>9. s \in MetBy(o)
    BY <2>1, FitsUnder, Reaches
  <2> QED
    BY <1>1, <2>3, <2>7, <2>8, <2>9 DEF Fits
<1> QED
  BY <1>2, <1>3

\* An object that a condition applies to is asked for what is selected under it.
LEMMA InlineFits ==
  ASSUME document \in Documents, NEW o \in Operations, Broken = {},
         NEW i \in OfKind("inline"), NEW t, NEW mixed \in BOOLEAN, Fits(o, i, t, mixed),
         Applies(Text[i].on, t), NEW s \in Kids(i)
  PROVE  Fits(o, s, t, mixed)
<1>1. i \in Executed(o) /\ s \in Selections /\ s \in Executed(o)
  BY Reaches DEF Fits
<1>2. CASE mixed
  BY <1>1, <1>2 DEF Fits
<1>3. CASE ~mixed
  <2> DEFINE on == Text[i].on
  <2>1. Fits(o, i, t, FALSE)
    BY <1>3 DEF Fits
  <2>2. PICK u \in TypesOver(i, TRUE) : /\ u \in DOMAIN Kind /\ t \in Possible[u]
                                       /\ t \in DOMAIN Kind /\ Kind[t] = "object"
    BY <2>1, FitsUnder
  <2>3. Text[i].kind = "inline" /\ i \in Selections /\ i \in Nodes
    BY KindsDiffer DEF SelectionKinds
  <2>4. on # None => Known(on)
    BY ValidDocument DEF KnownTypeNames
  <2>5. \A goesOn \in BOOLEAN : TypesOver(s, goesOn) = UNION {Under(v, i, goesOn) : v \in TypesOver(i, goesOn)}
    BY <2>3, TypesBelow
  <2>6. TypesOver(i, FALSE) = TypesOver(i, TRUE)
    BY <2>1, FitsUnder
  <2>7. /\ TypesOver(s, FALSE) = TypesOver(s, TRUE)
        /\ \E v \in TypesOver(s, TRUE) : t \in Possible[v]
    <3>1. CASE on = None
      <4>1. \A v : \A goesOn \in BOOLEAN : Under(v, i, goesOn) = {v}
        BY <2>3, <3>1, SchemaAssumption DEF Under, Known
      <4>2. ASSUME NEW goesOn \in BOOLEAN PROVE TypesOver(s, goesOn) = TypesOver(i, goesOn)
        <5>1. TypesOver(s, goesOn) = UNION {Under(v, i, goesOn) : v \in TypesOver(i, goesOn)}
          BY <2>5
        <5>2. \A v : Under(v, i, goesOn) = {v}
          BY <4>1
        <5> QED
          BY <5>1, <5>2
      <4> QED
        BY <2>2, <2>6, <4>2
    <3>2. CASE on # None
      <4>1. \A v : \A goesOn \in BOOLEAN : Under(v, i, goesOn) = {on}
        BY <2>3, <2>4, <3>2 DEF Under
      <4>2. ASSUME NEW goesOn \in BOOLEAN PROVE TypesOver(s, goesOn) = {on}
        <5>1. TypesOver(s, goesOn) = UNION {Under(v, i, goesOn) : v \in TypesOver(i, goesOn)}
          BY <2>5
        <5>2. \A v : Under(v, i, goesOn) = {on}
          BY <4>1
        <5>3. u \in TypesOver(i, goesOn)
          BY <2>2, <2>6
        <5> QED
          BY <5>1, <5>2, <5>3
      <4>3. t \in Possible[t]
        BY <2>2, SchemaAssumption
      <4> QED
        BY <3>2, <4>2, <4>3 DEF Applies
    <3> QED
      BY <3>1, <3>2
  <2>8. s \in MetBy(o)
    BY <2>1, FitsUnder, Reaches
  <2> QED
    BY <1>1, <2>7, <2>8 DEF Fits
<1> QED
  BY <1>2, <1>3

LEMMA SpreadFits ==
  ASSUME document \in Documents, NEW o \in Operations, Broken = {},
         NEW p \in OfKind("spread"), NEW t, NEW mixed \in BOOLEAN, Fits(o, p, t, mixed),
         Text[p].name \in DefinedHere, Applies(Text[Fragment(Text[p].name)].on, t),
         NEW s \in Kids(Fragment(Text[p].name))
  PROVE  Fits(o, s, t, mixed)
<1>1. p \in Executed(o) /\ s \in Selections /\ s \in Executed(o)
  BY Reaches DEF Fits
<1>2. CASE mixed
  BY <1>1, <1>2 DEF Fits
<1>3. CASE ~mixed
  <2> DEFINE f == Fragment(Text[p].name)
             on == Text[f].on
  <2>1. Fits(o, p, t, FALSE)
    BY <1>3 DEF Fits
  <2>2. PICK u \in TypesOver(p, TRUE) : t \in DOMAIN Kind /\ Kind[t] = "object"
    BY <2>1, FitsUnder
  <2>3. f \in Fragments /\ f \in Nodes /\ Text[f].kind = "fragment"
    BY FragmentDefined, KindsDiffer
  <2>4. Known(on) /\ on # None
    BY <2>3, ValidDocument, SchemaAssumption DEF KnownTypeNames, Known
  <2>5. DefinitionType(f) = on
    BY <2>3 DEF DefinitionType
  <2>6. \A goesOn \in BOOLEAN : TypesOver(s, goesOn) = {on}
    BY <2>3, <2>4, <2>5, TypesBelow
  <2>7. t \in Possible[on]
    <3>1. t \in Possible[t]
      BY <2>2, SchemaAssumption
    <3> QED
      BY <2>4, <3>1 DEF Applies
  <2>8. s \in MetBy(o)
    BY <2>1, <2>2, FitsUnder, Reaches
  <2> QED
    BY <1>1, <2>6, <2>7, <2>8 DEF Fits
<1> QED
  BY <1>2, <1>3

LEMMA RestFits ==
  ASSUME NEW o, NEW t, NEW mixed, AllFit(o, unread, t, mixed), NEW i \in DOMAIN unread, NEW s
  PROVE  AllFit(o, Rest(i, s), t, mixed)
<1>1. /\ unread \in Seq(SUBSET Selections) /\ mixed \in BOOLEAN
      /\ \A j \in DOMAIN unread : \A x \in unread[j] : Fits(o, x, t, mixed)
  BY DEF AllFit
<1> DEFINE rest == Rest(i, s)
<1>2. /\ DOMAIN rest = DOMAIN unread
      /\ \A j \in DOMAIN unread : rest[j] \subseteq unread[j]
  BY DEF Rest
<1>3. DOMAIN unread = 1..Len(unread) /\ Len(unread) \in Nat /\ \A j \in 1..Len(unread) : unread[j] \in SUBSET Selections
  BY <1>1
<1>4. rest = [j \in 1..Len(unread) |-> rest[j]]
  BY <1>3 DEF Rest
<1> HIDE DEF rest
<1>5. \A j \in 1..Len(unread) : rest[j] \in SUBSET Selections
  BY <1>2, <1>3
<1>6. rest \in Seq(SUBSET Selections)
  BY <1>3, <1>4, <1>5
<1> QED
  BY <1>1, <1>2, <1>6 DEF AllFit, rest

LEMMA AppendFits ==
  ASSUME NEW o, NEW sels, NEW t, NEW mixed, AllFit(o, sels, t, mixed), NEW K \in SUBSET Selections,
         \A s \in K : Fits(o, s, t, mixed)
  PROVE  AllFit(o, Append(sels, K), t, mixed)
<1> DEFINE n == Len(sels)
           more == Append(sels, K)
<1>1. /\ sels \in Seq(SUBSET Selections) /\ mixed \in BOOLEAN
      /\ \A j \in DOMAIN sels : \A x \in sels[j] : Fits(o, x, t, mixed)
  BY DEF AllFit
<1>2. /\ more \in Seq(SUBSET Selections) /\ n \in Nat /\ DOMAIN more = 1..(n + 1) /\ DOMAIN sels = 1..n
      /\ more[n + 1] = K /\ \A j \in 1..n : more[j] = sels[j]
  BY <1>1
<1> HIDE DEF n, more
<1>3. \A j \in 1..(n + 1) : j \in 1..n \/ j = n + 1
  BY <1>2
<1>4. \A j \in DOMAIN more : \A x \in more[j] : Fits(o, x, t, mixed)
  BY <1>1, <1>2, <1>3
<1> QED
  BY <1>1, <1>2, <1>4 DEF AllFit, more

\* What holds while fields are collected.
LEMMA Collecting ==
  ASSUME RequestInv, object # None
  PROVE  /\ document \in Documents /\ pc = "execute" /\ Broken = {} /\ operation \in Operations
         /\ AllFit(operation, unread, object.type, object.mixed)
         /\ object.mixed \in BOOLEAN
         /\ \A i \in DOMAIN unread : \A s \in unread[i] : Fits(operation, s, object.type, object.mixed)
BY DEF RequestInv, Phases, UnreadFit, AllFit

\* A step of collectFields keeps all but the collected.
LEMMA CollectingKeeps ==
  ASSUME RequestInv, object # None,
         UNCHANGED <<document, searchVars, pc, violated, operation, variables, pending, object>>
  PROVE  /\ document' \in Documents /\ Phases' /\ PendingFit'
         /\ AllFit(operation, unread', object.type, object.mixed) => UnreadFit'
<1>1. document' = document /\ blamed' = blamed /\ pc' = pc /\ operation' = operation /\ pending' = pending /\ object' = object
  BY DEF searchVars
<1>2. Broken' = Broken /\ Operations' = Operations
  BY <1>1, SameRules, SameText
<1>3. document' \in Documents /\ Phases'
  BY <1>1, <1>2, Collecting DEF RequestInv, Phases
<1>4. PendingFit'
  BY <1>1, SameFits DEF RequestInv, PendingFit
<1>5. AllFit(operation, unread', object.type, object.mixed) => UnreadFit'
  BY <1>1, SameFits DEF UnreadFit
<1> QED
  BY <1>3, <1>4, <1>5

LEMMA RequestInitInv == RequestInit => RequestInv
<1> SUFFICES ASSUME RequestInit PROVE RequestInv
  OBVIOUS
<1>1. /\ document \in Documents /\ pc = "validate" /\ pending = {} /\ object = None
      /\ entries = << >> /\ spreadHere = {}
  BY DEF RequestInit
<1> QED
  BY <1>1 DEF RequestInv, Phases, PendingFit, UnreadFit, EntriesFit, SpreadsFit

\* Before and after the execution there is nothing to keep.
LEMMA IdleInv ==
  ASSUME document \in Documents, Phases, pending = {}, object = None
  PROVE  RequestInv
BY DEF RequestInv, Phases, PendingFit, UnreadFit, EntriesFit, SpreadsFit

LEMMA SearchCyclesStep == RequestInv /\ SearchCycles => RequestInv'
<1> SUFFICES ASSUME RequestInv, SearchCycles PROVE RequestInv'
  OBVIOUS
<1>1. /\ pc = "validate" /\ UNCHANGED <<document, pc, operation, pending, object, entries, spreadHere>>
  BY DEF SearchCycles, requestVars, executionVars
<1>2. document' \in Documents /\ Phases' /\ pending' = {} /\ object' = None
  BY <1>1 DEF RequestInv, Phases
<1> QED
  BY <1>1, <1>2 DEF RequestInv, Phases, PendingFit, UnreadFit, EntriesFit, SpreadsFit

LEMMA ValidateStep == RequestInv /\ Validate => RequestInv'
<1> SUFFICES ASSUME RequestInv, Validate PROVE RequestInv'
  OBVIOUS
<1>1. /\ pc = "validate" /\ violated' = Broken /\ pc' = IF violated' = {} THEN "find" ELSE "rejected"
      /\ UNCHANGED <<document, blamed, operation, pending, object, entries, spreadHere>>
  BY DEF Validate, searchVars, executionVars
<1>2. Broken' = Broken
  BY <1>1, SameRules
<1>3. document' \in Documents /\ Phases' /\ pending' = {} /\ object' = None
  BY <1>1, <1>2 DEF RequestInv, Phases
<1> QED
  BY <1>1, <1>3 DEF RequestInv, Phases, PendingFit, UnreadFit, EntriesFit, SpreadsFit

LEMMA FailStep ==
  ASSUME RequestInv, NEW name, NEW inputs, Fail(name, inputs) PROVE RequestInv'
<1>1. /\ pc = "find" /\ pc' = "done"
      /\ UNCHANGED <<document, blamed, operation, pending, object, entries, spreadHere>>
  BY DEF Fail, searchVars, executionVars
<1>2. Broken' = Broken
  BY <1>1, SameRules
<1>3. document' \in Documents /\ Phases' /\ pending' = {} /\ object' = None
  BY <1>1, <1>2 DEF RequestInv, Phases
<1> QED
  BY <1>1, <1>3 DEF RequestInv, Phases, PendingFit, UnreadFit, EntriesFit, SpreadsFit

LEMMA BeginStep ==
  ASSUME RequestInv, NEW name, NEW inputs, Begin(name, inputs) PROVE RequestInv'
<1>1. /\ pc = "find" /\ pc' = "execute"
      /\ UNCHANGED <<document, blamed, object, entries, spreadHere>>
  BY DEF Begin, searchVars
<1>2. PICK o \in Found(name) :
        /\ RootType(o) # None /\ operation' = o
        /\ pending' = {[type |-> RootType(o), mixed |-> FALSE, sels |-> << Kids(o) >>]}
  BY DEF Begin
<1>3. o \in Operations /\ document \in Documents /\ Broken = {} /\ object = None
  BY <1>1, <1>2 DEF Found, RequestInv, Phases
<1>4. Broken' = Broken /\ Operations' = Operations
  BY <1>1, SameRules, SameText
<1>5. document' \in Documents /\ Phases' /\ object' = None
  BY <1>1, <1>2, <1>3, <1>4 DEF RequestInv, Phases
<1>6. AllFit(o, << Kids(o) >>, RootType(o), FALSE)
  <2>1. Kids(o) \in SUBSET Selections
    BY DEF Kids
  <2>2. \A s \in Kids(o) : Fits(o, s, RootType(o), FALSE)
    BY <1>2, <1>3, RootFits
  <2> DEFINE sels == << Kids(o) >>
  <2>3. sels \in Seq(SUBSET Selections) /\ DOMAIN sels = {1} /\ sels[1] = Kids(o)
    BY <2>1
  <2> HIDE DEF sels
  <2>4. AllFit(o, sels, RootType(o), FALSE)
    BY <2>2, <2>3 DEF AllFit
  <2> QED
    BY <2>4 DEF sels
<1>7. PendingFit'
  <2> DEFINE root == [type |-> RootType(o), mixed |-> FALSE, sels |-> << Kids(o) >>]
  <2>1. root.type = RootType(o) /\ root.mixed = FALSE /\ root.sels = << Kids(o) >>
    OBVIOUS
  <2>2. AllFit(o, root.sels, root.type, root.mixed)
    BY <1>6, <2>1
  <2>3. pending' = {root} /\ operation' = o
    BY <1>2
  <2> HIDE DEF root
  <2> QED
    BY <1>1, <2>2, <2>3, SameFits DEF PendingFit
<1> QED
  BY <1>1, <1>5, <1>7 DEF RequestInv, Phases, UnreadFit, EntriesFit, SpreadsFit

LEMMA CollectStep ==
  ASSUME RequestInv, NEW w \in pending, Collect(w) PROVE RequestInv'
<1>1. /\ pc = "execute" /\ object = None /\ object' = w /\ pending' = pending \ {w} /\ unread' = w.sels
      /\ UNCHANGED <<document, blamed, pc, operation, entries, spreadHere>>
  BY DEF Collect, searchVars
<1>2. entries = << >> /\ spreadHere = {} /\ AllFit(operation, w.sels, w.type, w.mixed)
  BY <1>1 DEF RequestInv, Phases, PendingFit
<1>3. Broken' = Broken /\ Operations' = Operations
  BY <1>1, SameRules, SameText
<1>4. document' \in Documents /\ Phases'
  BY <1>1, <1>2, <1>3 DEF RequestInv, Phases
<1>5. PendingFit'
  BY <1>1, SameFits DEF RequestInv, PendingFit
<1>6. UnreadFit'
  BY <1>1, <1>2, SameFits DEF UnreadFit
<1> QED
  BY <1>1, <1>2, <1>4, <1>5, <1>6 DEF RequestInv, EntriesFit, SpreadsFit

\* The collected fields and the fragments met stay as they are.
LEMMA CollectedStays ==
  ASSUME RequestInv, UNCHANGED <<document, operation, object>>
  PROVE  /\ UNCHANGED entries => EntriesFit'
         /\ UNCHANGED spreadHere => SpreadsFit'
<1>1. OfKind("field")' = OfKind("field") /\ DefinedHere' = DefinedHere
  BY SameText
<1>2. UNCHANGED entries => EntriesFit'
  BY <1>1, SameFits DEF RequestInv, EntriesFit
<1> QED
  BY <1>1, <1>2 DEF RequestInv, SpreadsFit

LEMMA PassOverStep ==
  ASSUME RequestInv, NEW i \in DOMAIN unread, NEW s \in unread[i], PassOver(i, s) PROVE RequestInv'
<1>1. /\ object # None /\ unread' = Rest(i, s) /\ UNCHANGED <<entries, spreadHere>>
      /\ UNCHANGED <<document, searchVars, pc, violated, operation, variables, pending, object>>
  BY DEF PassOver, LooksAt
<1>2. AllFit(operation, Rest(i, s), object.type, object.mixed)
  BY <1>1, Collecting, RestFits
<1> QED
  BY <1>1, <1>2, CollectingKeeps, CollectedStays DEF RequestInv

LEMMA AddFieldStep ==
  ASSUME RequestInv, NEW i \in DOMAIN unread, NEW s \in unread[i], AddField(i, s) PROVE RequestInv'
<1> DEFINE key == Text[s].key
<1>1. /\ object # None /\ s \in OfKind("field") /\ unread' = Rest(i, s) /\ UNCHANGED spreadHere
      /\ entries' = [k \in DOMAIN entries \cup {key} |->
                       IF k = key THEN Append(Entry(k), s) ELSE Entry(k)]
      /\ UNCHANGED <<document, searchVars, pc, violated, operation, variables, pending, object>>
  BY DEF AddField, LooksAt
<1>2. AllFit(operation, Rest(i, s), object.type, object.mixed)
  BY <1>1, Collecting, RestFits
<1>3. document' \in Documents /\ Phases' /\ PendingFit' /\ UnreadFit' /\ SpreadsFit'
  BY <1>1, <1>2, CollectingKeeps, CollectedStays
<1> DEFINE fits(x) == Fits(operation, x, object.type, object.mixed)
           F == OfKind("field")
<1>4. s \in F /\ fits(s)
  BY <1>1, Collecting
<1>5. \A k \in DOMAIN entries : entries[k] \in Seq(F) /\ entries[k] # << >> /\ \A j \in DOMAIN entries[k] : fits(entries[k][j])
  BY <1>1 DEF RequestInv, EntriesFit
<1>6. \A k : Entry(k) \in Seq(F) /\ \A j \in DOMAIN Entry(k) : fits(Entry(k)[j])
  BY <1>5 DEF Entry
<1> HIDE DEF fits, F
<1>7. ASSUME NEW q \in Seq(F), \A j \in DOMAIN q : fits(q[j])
      PROVE  /\ Append(q, s) \in Seq(F) /\ Append(q, s) # << >>
             /\ \A j \in DOMAIN Append(q, s) : fits(Append(q, s)[j])
  <2> DEFINE more == Append(q, s)
             n == Len(q)
  <2>1. /\ more \in Seq(F) /\ more # << >> /\ n \in Nat /\ DOMAIN more = 1..(n + 1) /\ DOMAIN q = 1..n
        /\ more[n + 1] = s /\ \A j \in 1..n : more[j] = q[j]
    BY <1>4
  <2> HIDE DEF more, n
  <2>2. \A j \in 1..(n + 1) : j \in 1..n \/ j = n + 1
    BY <2>1
  <2>3. \A j \in DOMAIN more : fits(more[j])
    BY <1>4, <1>7, <2>1, <2>2
  <2> QED
    BY <2>1, <2>3 DEF more
<1>8. \A k \in DOMAIN entries' : /\ entries'[k] \in Seq(F) /\ entries'[k] # << >>
                                 /\ \A j \in DOMAIN entries'[k] : fits(entries'[k][j])
  <2> TAKE k \in DOMAIN entries'
  <2>1. entries'[k] = IF k = key THEN Append(Entry(k), s) ELSE Entry(k)
    BY <1>1
  <2>2. CASE k = key
    BY <1>6, <1>7, <2>1, <2>2
  <2>3. CASE k # key
    BY <1>1, <1>5, <2>1, <2>3 DEF Entry
  <2> QED
    BY <2>2, <2>3
<1>9. EntriesFit'
  <2>1. OfKind("field")' = F
    BY <1>1, SameText DEF F
  <2>2. \A x : Fits(operation, x, object.type, object.mixed)' <=> fits(x)
    BY <1>1, SameFits DEF fits
  <2> QED
    BY <1>8, <2>1, <2>2 DEF EntriesFit
<1> QED
  BY <1>3, <1>9 DEF RequestInv

LEMMA EnterInlineStep ==
  ASSUME RequestInv, NEW i \in DOMAIN unread, NEW s \in unread[i], EnterInline(i, s) PROVE RequestInv'
<1>1. /\ object # None /\ s \in OfKind("inline") /\ UNCHANGED <<entries, spreadHere>>
      /\ unread' = IF Applies(Text[s].on, object.type) THEN Append(Rest(i, s), Kids(s)) ELSE Rest(i, s)
      /\ UNCHANGED <<document, searchVars, pc, violated, operation, variables, pending, object>>
  BY DEF EnterInline, LooksAt
<1>2. AllFit(operation, Rest(i, s), object.type, object.mixed)
  BY <1>1, Collecting, RestFits
<1>3. ASSUME Applies(Text[s].on, object.type) PROVE AllFit(operation, Append(Rest(i, s), Kids(s)), object.type, object.mixed)
  <2>1. \A x \in Kids(s) : Fits(operation, x, object.type, object.mixed)
    BY <1>1, <1>3, Collecting, InlineFits
  <2>2. Kids(s) \in SUBSET Selections
    BY DEF Kids
  <2> QED
    BY <1>2, <2>1, <2>2, AppendFits
<1>4. AllFit(operation, unread', object.type, object.mixed)
  BY <1>1, <1>2, <1>3
<1> QED
  BY <1>1, <1>4, CollectingKeeps, CollectedStays DEF RequestInv

LEMMA EnterFragmentStep ==
  ASSUME RequestInv, NEW i \in DOMAIN unread, NEW s \in unread[i], EnterFragment(i, s) PROVE RequestInv'
<1> DEFINE n == Text[s].name
<1>1. /\ object # None /\ s \in OfKind("spread") /\ UNCHANGED entries
      /\ unread' = IF n \notin spreadHere /\ n \in DefinedHere /\ Applies(Text[Fragment(n)].on, object.type)
                   THEN Append(Rest(i, s), Kids(Fragment(n)))
                   ELSE Rest(i, s)
      /\ spreadHere' = spreadHere \cup {n}
      /\ UNCHANGED <<document, searchVars, pc, violated, operation, variables, pending, object>>
  BY DEF EnterFragment, LooksAt
<1>2. AllFit(operation, Rest(i, s), object.type, object.mixed)
  BY <1>1, Collecting, RestFits
<1>3. ASSUME n \in DefinedHere, Applies(Text[Fragment(n)].on, object.type)
      PROVE  AllFit(operation, Append(Rest(i, s), Kids(Fragment(n))), object.type, object.mixed)
  <2>1. \A x \in Kids(Fragment(n)) : Fits(operation, x, object.type, object.mixed)
    BY <1>1, <1>3, Collecting, SpreadFits
  <2>2. Kids(Fragment(n)) \in SUBSET Selections
    BY DEF Kids
  <2> QED
    BY <1>2, <2>1, <2>2, AppendFits
<1>4. AllFit(operation, unread', object.type, object.mixed)
  BY <1>1, <1>2, <1>3
<1>5. SpreadsFit'
  <2>1. n \in DefinedHere
    BY <1>1, Collecting, ValidDocument DEF KnownFragmentNames
  <2>2. DefinedHere' = DefinedHere
    BY <1>1, SameText
  <2> QED
    BY <1>1, <2>1, <2>2 DEF RequestInv, SpreadsFit
<1> QED
  BY <1>1, <1>4, <1>5, CollectingKeeps, CollectedStays DEF RequestInv

\* What the objects that the fields of one key resolve to are asked for.
LEMMA ObjectsFit ==
  ASSUME RequestInv, object # None, NEW k \in DOMAIN entries, NEW w \in Objects(entries[k])
  PROVE  AllFit(operation, w.sels, w.type, w.mixed)
<1> DEFINE entry == entries[k]
           n == Len(entry)
           name == Text[entry[1]].name
<1>1. /\ entry \in Seq(OfKind("field")) /\ entry # << >>
      /\ \A j \in DOMAIN entry : Fits(operation, entry[j], object.type, object.mixed)
  BY DEF RequestInv, EntriesFit
<1>2. /\ n \in Nat /\ n >= 1 /\ DOMAIN entry = 1..n
      /\ \A j \in 1..n : entry[j] \in OfKind("field")
  BY <1>1
<1>3. PICK t : /\ w = [type |-> t, mixed |-> object.mixed \/ Mixes(entry), sels |-> SubSelections(entry)]
               /\ name \in DOMAIN Fields[object.type] \ Introspective
               /\ t \in Possible[Fields[object.type][name].type]
  BY DEF Objects
<1>4. w.type = t /\ w.mixed \in BOOLEAN /\ w.sels = SubSelections(entry)
      /\ (w.mixed <=> object.mixed \/ Mixes(entry))
  BY <1>3
<1>5. \A j \in 1..n : ~w.mixed => Text[entry[j]].name = name
  BY <1>2, <1>4 DEF Mixes
<1> HIDE DEF entry, n
<1>6. ASSUME NEW j \in 1..n, NEW s \in Kids(entry[j]) PROVE Fits(operation, s, t, w.mixed)
  <2>1. Fits(operation, entry[j], object.type, w.mixed)
    BY <1>1, <1>2, <1>4, Collecting DEF Fits
  <2>2. entry[j] \in OfKind("field")
    BY <1>2
  <2>3. ~w.mixed => Text[entry[j]].name \notin Introspective
    BY <1>3, <1>5
  <2>4. ~w.mixed => t \in Possible[Fields[object.type][Text[entry[j]].name].type]
    BY <1>3, <1>5
  <2> QED
    BY <1>4, <1>6, <2>1, <2>2, <2>3, <2>4, Collecting, FieldFits
<1>7. /\ SubSelections(entry) \in Seq(SUBSET Selections)
      /\ DOMAIN SubSelections(entry) = 1..n
      /\ \A j \in 1..n : SubSelections(entry)[j] = Kids(entry[n + 1 - j])
  <2> DEFINE sels == SubSelections(entry)
  <2>1. \A x : Kids(x) \in SUBSET Selections
    BY DEF Kids
  <2>2. sels = [j \in 1..n |-> Kids(entry[n + 1 - j])]
    BY DEF SubSelections, n
  <2>3. DOMAIN sels = 1..n /\ \A j \in 1..n : sels[j] = Kids(entry[n + 1 - j])
    BY <2>2
  <2>4. sels \in [1..n -> SUBSET Selections]
    BY <2>1, <2>2
  <2>5. sels \in Seq(SUBSET Selections)
    BY <1>2, <2>4
  <2> QED
    BY <2>3, <2>5
<1>8. \A j \in 1..n : n + 1 - j \in 1..n
  BY <1>2
<1>9. \A j \in DOMAIN w.sels : \A s \in w.sels[j] : Fits(operation, s, w.type, w.mixed)
  BY <1>4, <1>6, <1>7, <1>8
<1> QED
  BY <1>4, <1>7, <1>9 DEF AllFit

LEMMA ResolveFieldsStep == RequestInv /\ ResolveFields => RequestInv'
<1> SUFFICES ASSUME RequestInv, ResolveFields PROVE RequestInv'
  OBVIOUS
<1>1. /\ pc = "execute" /\ object # None
      /\ object' = None /\ entries' = << >> /\ spreadHere' = {}
      /\ UNCHANGED <<document, blamed, pc, operation>>
  BY DEF ResolveFields, searchVars
<1>2. PICK objects \in SUBSET UNION {Objects(entries[k]) : k \in DOMAIN entries} :
        pending' = pending \cup objects
  BY DEF ResolveFields
<1>3. \A w \in pending \cup objects : AllFit(operation, w.sels, w.type, w.mixed)
  BY <1>1, <1>2, ObjectsFit DEF RequestInv, PendingFit
<1>4. PendingFit'
  BY <1>1, <1>2, <1>3, SameFits DEF PendingFit
<1>5. Broken' = Broken /\ Operations' = Operations
  BY <1>1, SameRules, SameText
<1>6. document' \in Documents /\ Phases'
  BY <1>1, <1>5 DEF RequestInv, Phases
<1> QED
  BY <1>1, <1>4, <1>6 DEF RequestInv, UnreadFit, EntriesFit, SpreadsFit

LEMMA AnswerStep == RequestInv /\ Answer => RequestInv'
<1> SUFFICES ASSUME RequestInv, Answer PROVE RequestInv'
  OBVIOUS
<1>1. /\ pc = "execute" /\ object = None /\ pending = {} /\ pc' = "done"
      /\ UNCHANGED <<document, blamed, operation, pending, object, entries, spreadHere>>
  BY DEF Answer, searchVars, executionVars
<1>2. Broken' = Broken
  BY <1>1, SameRules
<1>3. document' \in Documents /\ Phases' /\ pending' = {} /\ object' = None
  BY <1>1, <1>2 DEF RequestInv, Phases
<1> QED
  BY <1>1, <1>3 DEF RequestInv, Phases, PendingFit, UnreadFit, EntriesFit, SpreadsFit

LEMMA RequestStutter == RequestInv /\ UNCHANGED <<document, searchVars, requestVars>> => RequestInv'
<1> SUFFICES ASSUME RequestInv, UNCHANGED <<document, searchVars, requestVars>> PROVE RequestInv'
  OBVIOUS
<1>1. UNCHANGED <<document, blamed, pc, operation, pending, object, unread, entries, spreadHere>>
  BY DEF searchVars, requestVars, executionVars
<1>2. Broken' = Broken /\ Operations' = Operations
  BY <1>1, SameRules, SameText
<1>3. document' \in Documents /\ Phases'
  BY <1>1, <1>2 DEF RequestInv, Phases
<1>4. PendingFit' /\ UnreadFit'
  BY <1>1, SameFits DEF RequestInv, PendingFit, UnreadFit
<1> QED
  BY <1>1, <1>3, <1>4, CollectedStays DEF RequestInv

LEMMA RequestNextInv ==
  RequestInv /\ [RequestNext]_<<document, searchVars, requestVars>> => RequestInv'
<1> SUFFICES ASSUME RequestInv, [RequestNext]_<<document, searchVars, requestVars>> PROVE RequestInv'
  OBVIOUS
<1>1. ASSUME NEW name, NEW inputs, Fail(name, inputs) \/ Begin(name, inputs) PROVE RequestInv'
  BY <1>1, FailStep, BeginStep
<1>2. ASSUME NEW w \in pending, Collect(w) PROVE RequestInv'
  BY <1>2, CollectStep
<1>3. ASSUME CollectFields PROVE RequestInv'
  BY <1>3, PassOverStep, AddFieldStep, EnterInlineStep, EnterFragmentStep DEF CollectFields
<1> QED
  BY <1>1, <1>2, <1>3, SearchCyclesStep, ValidateStep, ResolveFieldsStep, AnswerStep, RequestStutter
     DEF RequestNext

\* An object that a request asks is asked for what fits it: the search and the
\* rules let nothing through that the execution would not expect, and collecting
\* fields keeps that from one object to the next (validation.go:9-663,
\* executor.go:239-372, 524-588).
THEOREM RequestInductive == RequestSpec => []RequestInv
<1> QED
  BY RequestInitInv, RequestNextInv, PTL DEF RequestSpec

\* The collected fields are of the document, and fit the object.
LEMMA CollectedFit ==
  ASSUME RequestInv, object # None, NEW s \in Collected
  PROVE  s \in OfKind("field") /\ Fits(operation, s, object.type, object.mixed)
<1>1. PICK k \in DOMAIN entries : s \in Range(entries[k])
  BY DEF Collected
<1>2. /\ entries[k] \in Seq(OfKind("field"))
      /\ \A i \in DOMAIN entries[k] : Fits(operation, entries[k][i], object.type, object.mixed)
  BY DEF RequestInv, EntriesFit
<1>3. PICK i \in DOMAIN entries[k] : s = entries[k][i]
  BY <1>1 DEF Range
<1>4. entries[k][i] \in OfKind("field")
  BY <1>2
<1> QED
  BY <1>2, <1>3, <1>4

LEMMA FitsWell == RequestInv => WellTyped
<1> SUFFICES ASSUME RequestInv, object # None, ~object.mixed, NEW s \in Collected,
                    Text[s].name \notin Introspective
             PROVE  /\ Text[s].name \in DOMAIN Fields[object.type]
                    /\ LET own == Fields[object.type][Text[s].name]
                       IN  /\ NamesOf(Text[s].args) \subseteq DOMAIN own.args
                           /\ \A a \in DOMAIN own.args : own.args[a] => a \in NamesOf(Text[s].args)
                           /\ IsLeaf(own.type) <=> Kids(s) = {}
  BY DEF WellTyped
<1> DEFINE t == object.type
           name == Text[s].name
           given == NamesOf(Text[s].args)
<1>1. s \in OfKind("field") /\ Fits(operation, s, t, FALSE)
  BY CollectedFit DEF Fits
<1>2. document \in Documents /\ operation \in Operations /\ Broken = {}
  BY Collecting
<1>3. PICK u \in TypesOver(s, TRUE) :
        /\ u \in DOMAIN Kind /\ t \in Possible[u] /\ name \in DOMAIN Fields[u]
        /\ u \in TypesWith(s, TRUE) /\ u \in TypesWith(s, FALSE)
  BY <1>1, <1>2, FieldAllowed
<1> DEFINE own == Fields[t][name]
           promised == Fields[u][name]
<1>4. /\ name \in DOMAIN Fields[t]
      /\ DOMAIN promised.args \subseteq DOMAIN own.args
      /\ \A a \in DOMAIN own.args : own.args[a] => a \in DOMAIN promised.args /\ promised.args[a]
      /\ IsLeaf(own.type) <=> IsLeaf(promised.type)
  BY <1>3, Promised
<1>5. s \in MetByOperations
  BY <1>1, <1>2, FitsUnder
<1>6. given \subseteq DOMAIN promised.args
  BY <1>1, <1>2, <1>3, <1>5, ValidDocument DEF KnownArgumentNames
<1>7. \A a \in DOMAIN promised.args : promised.args[a] => a \in given
  BY <1>1, <1>2, <1>3, <1>5, ValidDocument DEF ProvidedRequiredArguments
<1>8. IsLeaf(promised.type) <=> Kids(s) = {}
  BY <1>1, <1>2, <1>3, ValidDocument DEF ScalarLeafs
<1> QED
  BY <1>4, <1>6, <1>7, <1>8

\* Whatever types the objects have at run time, and however selections under one
\* key are merged, a valid document asks an object only for fields it has, with
\* the arguments they have and all they require, and selects from composites
\* only, unless a key above it names two fields (validation.go:299-663).
THEOREM StaysWellTyped == RequestSpec => []WellTyped
<1> QED
  BY FitsWell, RequestInductive, PTL

\* One index at most of a list whose names differ has a name, and one at least
\* if the name is among them.
LEMMA OneOfName ==
  ASSUME NEW q, NamesDiffer(q), NEW v \in NamesOf(q)
  PROVE  Cardinality({i \in DOMAIN q : q[i].name = v}) = 1
<1>1. PICK i \in DOMAIN q : q[i].name = v
  BY DEF NamesOf, Range
<1>2. {j \in DOMAIN q : q[j].name = v} = {i}
  BY <1>1 DEF NamesDiffer
<1> QED
  BY <1>2, FS_Singleton

LEMMA ResolvesByName == RequestInv => NamesResolveOnce
<1> SUFFICES ASSUME RequestInv, object # None
             PROVE  /\ \A o \in Operations \ {operation} : Text[o].name \notin {None, Text[operation].name}
                    /\ \A n \in spreadHere : Cardinality({f \in Fragments : Text[f].name = n}) = 1
                    /\ \A s \in Collected :
                         /\ NamesDiffer(Text[s].args)
                         /\ \A v \in UsesOf({s}) :
                              LET declared == Text[operation].vars
                              IN  Cardinality({i \in DOMAIN declared : declared[i].name = v}) = 1
  BY DEF NamesResolveOnce
<1>1. document \in Documents /\ operation \in Operations /\ Broken = {}
  BY Collecting
<1>2. \A o \in Operations \ {operation} : Text[o].name \notin {None, Text[operation].name}
  BY <1>1, ValidDocument DEF UniqueOperationNames, LoneAnonymousOperation, Distinct
<1>3. ASSUME NEW n \in spreadHere PROVE Cardinality({f \in Fragments : Text[f].name = n}) = 1
  <2>1. PICK f \in Fragments : Text[f].name = n
    BY <1>1, DocumentFacts DEF RequestInv, SpreadsFit
  <2>2. {g \in Fragments : Text[g].name = n} = {f}
    BY <1>1, <2>1, ValidDocument DEF UniqueFragmentNames, Distinct
  <2> QED
    BY <2>2, FS_Singleton
<1>4. ASSUME NEW s \in Collected PROVE NamesDiffer(Text[s].args)
  BY <1>1, <1>4, CollectedFit, ValidDocument DEF UniqueArgumentNames
<1>5. ASSUME NEW s \in Collected, NEW v \in UsesOf({s})
      PROVE  Cardinality({i \in DOMAIN Text[operation].vars : Text[operation].vars[i].name = v}) = 1
  <2>1. s \in Executed(operation)
    BY <1>5, CollectedFit DEF Fits
  <2>2. v \in UsedVariables(operation)
    BY <1>5, <2>1 DEF UsedVariables, UsesOf
  <2>3. v \in NamesOf(Text[operation].vars)
    BY <1>1, <2>2, ValidDocument DEF NoUndefinedVariables
  <2>4. NamesDiffer(Text[operation].vars)
    BY <1>1, ValidDocument DEF UniqueVariableNames
  <2> QED
    BY <2>3, <2>4, OneOfName
<1> QED
  BY <1>2, <1>3, <1>4, <1>5

\* The operation, the fragments, the arguments and the variables that an
\* execution looks up by name have one definition each (executor.go:96, 272,
\* values.go:276).
THEOREM ResolvesOnce == RequestSpec => []NamesResolveOnce
<1> QED
  BY ResolvesByName, RequestInductive, PTL

\* The search for cycles is right within a request too: all the rest leaves its
\* state alone (validation.go:240-282).
THEOREM RequestFinds == RequestSpec => []FindsCycles
<1>1. RequestInit => IndInv
  BY InitInv DEF RequestInit, Init
<1>2. IndInv /\ [RequestNext]_<<document, searchVars, requestVars>> => IndInv'
  <2>1. RequestNext => Next \/ UNCHANGED vars
    <3>1. SearchCycles => Next
      BY DEF SearchCycles, Next
    <3>2. Validate \/ ResolveFields \/ Answer => UNCHANGED vars
      BY DEF Validate, ResolveFields, Answer, vars
    <3>3. \A name, inputs : Fail(name, inputs) \/ Begin(name, inputs) => UNCHANGED vars
      BY DEF Fail, Begin, vars
    <3>4. \A w : Collect(w) => UNCHANGED vars
      BY DEF Collect, vars
    <3>5. CollectFields => UNCHANGED vars
      BY DEF CollectFields, PassOver, AddField, EnterInline, EnterFragment, LooksAt, vars
    <3> QED
      BY <3>1, <3>2, <3>3, <3>4, <3>5 DEF RequestNext
  <2>2. UNCHANGED <<document, searchVars, requestVars>> => UNCHANGED vars
    BY DEF vars
  <2> QED
    BY <2>1, <2>2, NextInv
<1>3. IndInv => FindsCycles
  BY FoundAll DEF IndInv, BlamesCycles, FindsCycles
<1> QED
  BY <1>1, <1>2, <1>3, PTL DEF RequestSpec

\* The search is over before the rules are read.
SearchedFirst == pc # "validate" => ~searching

\* Only a document whose fragments do not spread themselves is executed: every
\* call of collectFields comes to an end (validation.go:240-282,
\* executor.go:263-285).
THEOREM ExecutesAcyclic ==
  RequestSpec => [](pc \in {"find", "execute", "done"} => Acyclic)
<1>1. RequestInit => SearchedFirst
  BY DEF RequestInit, SearchedFirst
<1>2. SearchedFirst /\ [RequestNext]_<<document, searchVars, requestVars>> => SearchedFirst'
  <2> SUFFICES ASSUME SearchedFirst, [RequestNext]_<<document, searchVars, requestVars>>, pc' # "validate"
               PROVE  ~searching'
    BY DEF SearchedFirst
  <2>1. CASE pc = "validate"
    <3>1. Validate
      BY <2>1 DEF RequestNext, SearchCycles, Fail, Begin, Collect, CollectFields, PassOver, AddField,
         EnterInline, EnterFragment, LooksAt, ResolveFields, Answer, requestVars
    <3> QED
      BY <3>1 DEF Validate, searchVars
  <2>2. CASE pc # "validate"
    <3>1. UNCHANGED searching
      BY <2>2 DEF RequestNext, SearchCycles, Validate, Fail, Begin, Collect, CollectFields, PassOver,
         AddField, EnterInline, EnterFragment, LooksAt, ResolveFields, Answer, searchVars
    <3> QED
      BY <2>2, <3>1 DEF SearchedFirst
  <2> QED
    BY <2>1, <2>2
<1>3. RequestInv /\ FindsCycles /\ SearchedFirst => (pc \in {"find", "execute", "done"} => Acyclic)
  <2> SUFFICES ASSUME RequestInv, FindsCycles, SearchedFirst, pc \in {"find", "execute", "done"}
               PROVE  Acyclic
    OBVIOUS
  <2>1. ~searching /\ blamed = {}
    BY DEF SearchedFirst, RequestInv, Phases, Broken, Report, NoFragmentCycles
  <2> QED
    BY <2>1 DEF FindsCycles
<1> QED
  BY <1>1, <1>2, <1>3, RequestInductive, RequestFinds, PTL DEF RequestSpec
====
