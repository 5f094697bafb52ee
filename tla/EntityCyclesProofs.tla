---- MODULE EntityCyclesProofs ----
(* Proofs about EntityCycles, for any entity types and any graph: what the *)
(* search accepts has no cycle, and the cycle it reports is one.           *)
EXTENDS EntityCycles, TLAPS, SequenceTheorems, WellFoundedInduction

\* Taking the last element off a sequence keeps the others.
LEMMA Popped ==
  ASSUME NEW S, NEW s \in Seq(S), s # << >>
  PROVE  LET p == SubSeq(s, 1, Len(s) - 1)
         IN  /\ p \in Seq(S)
             /\ Len(p) = Len(s) - 1
             /\ \A i \in 1..(Len(s) - 1) : p[i] = s[i]
             /\ Len(s) \in Nat /\ Len(s) >= 1
             /\ s[Len(s)] \in S
<1> DEFINE n == Len(s) - 1
           p == SubSeq(s, 1, n)
<1>1. n \in Nat /\ n + 1 = Len(s) /\ \A i \in 1..(n + 1) : s[i] \in S
  OBVIOUS
<1> HIDE DEF n
<1>2. 1 \in Int /\ n \in Int /\ \A i \in 1..n : s[i] \in S
  BY <1>1
<1>3. /\ p \in Seq(S)
      /\ Len(p) = IF 1 <= n THEN n - 1 + 1 ELSE 0
      /\ \A i \in 1..(n - 1 + 1) : p[i] = s[1 + i - 1]
  BY <1>2, SubSeqProperties
<1> HIDE DEF p
<1>4. Len(p) = n /\ \A i \in 1..n : p[i] = s[i]
  BY <1>1, <1>3
<1>5. s[n + 1] \in S
  BY <1>1
<1> QED
  BY <1>1, <1>3, <1>4, <1>5 DEF p, n

\* Appending keeps the elements a sequence had.
LEMMA Appended ==
  ASSUME NEW S, NEW s \in Seq(S), NEW x \in S
  PROVE  /\ Append(s, x) \in Seq(S)
         /\ Len(Append(s, x)) = Len(s) + 1
         /\ \A i \in 1..Len(s) : Append(s, x)[i] = s[i]
         /\ Append(s, x)[Len(s) + 1] = x
         /\ Len(s) \in Nat
OBVIOUS

\* Reading a sequence backwards.
LEMMA Reversed ==
  ASSUME NEW S, NEW s \in Seq(S)
  PROVE  /\ Backwards(s) \in Seq(S)
         /\ Len(Backwards(s)) = Len(s)
         /\ \A i \in 1..Len(s) : Backwards(s)[i] = s[Len(s) + 1 - i]
BY DEF Backwards

\* A nonempty set of natural numbers has a least element.
LEMMA Least ==
  ASSUME NEW T \in SUBSET Nat, T # {}
  PROVE  \E n \in T : \A m \in T : n <= m
<1>1. \E n \in T : \A m \in T : ~(<<m, n>> \in OpToRel(<, Nat))
  BY NatLessThanWellFounded, WFMin
<1>2. \A m, n \in Nat : m < n => <<m, n>> \in OpToRel(<, Nat)
  BY DEF OpToRel
<1>3. PICK n \in T : \A m \in T : ~(m < n)
  BY <1>1, <1>2
<1> QED
  BY <1>3

\* A state in which a call of dfs(t) has begun from the top of the stack:
\* what the search's invariants need of a push.
LEMMA PushKeeps ==
  ASSUME IndInv, phase = "search", NEW t \in Types, color[t] = "white",
         color' = [color EXCEPT ![t] = "gray"],
         stack' = Append(stack, t),
         \A u \in Types : u # t /\ ~(stack # << >> /\ u = Top) => left'[u] = left[u],
         left'[t] = adj[t],
         stack # << >> => /\ t \in left[Top]
                          /\ left'[Top] = left[Top] \ {t}
                          /\ parent' = [parent EXCEPT ![t] = {Top}],
         stack = << >> => parent' = parent,
         stack # << >> \/ \A u \in Types : color[u] # "gray",
         UNCHANGED <<adj, phase, finished>>
  PROVE  GrayOnStack' /\ OnStackOnce' /\ StackIsPath' /\ VisitedFinished'
         /\ BlackFinished' /\ FinishOrder' /\ LeftInside'
<1> DEFINE n == Len(stack)
<1>1. /\ Len(stack') = n + 1 /\ n \in Nat
      /\ \A i \in 1..n : stack'[i] = stack[i] /\ stack[i] \in Types
      /\ stack'[n + 1] = t
  BY Appended DEF IndInv, TypeOK
<1>n. n \in Nat
  BY <1>1
<1> HIDE DEF n
<1>2. /\ adj' = adj
      /\ color \in [Types -> {"white", "gray", "black"}]
      /\ left \in [Types -> SUBSET Types]
      /\ parent \in [Types -> SUBSET Types]
      /\ adj \in [Types -> SUBSET Types]
  BY CyclesAssumption DEF IndInv, TypeOK
<1>3. \A i \in 1..n : stack[i] # t /\ color[stack[i]] = "gray"
  BY <1>1, <1>2 DEF IndInv, GrayOnStack, OnStack, n
<1>4. GrayOnStack'
  BY <1>1, <1>2 DEF IndInv, GrayOnStack, OnStack, n
<1>5. OnStackOnce'
  BY <1>1, <1>3 DEF IndInv, OnStackOnce, n
<1>6. StackIsPath'
  <2>a. Len(stack') - 1 = n
    BY <1>1, <1>n
  <2> SUFFICES ASSUME NEW i \in 1..n
               PROVE  /\ parent'[stack'[i + 1]] = {stack'[i]}
                      /\ stack'[i + 1] \in adj[stack'[i]]
    BY <1>2, <2>a DEF StackIsPath
  <2>1. CASE i < n
    BY <2>1, <1>1, <1>2, <1>3 DEF IndInv, StackIsPath, n
  <2>2. CASE i = n
    <3>1. stack # << >> /\ stack'[i + 1] = t /\ stack'[i] = Top
      BY <2>2, <1>1, <1>n DEF Top, n
    <3>2. left[Top] \subseteq adj[Top]
      BY <3>1, <1>1, <2>2 DEF IndInv, LeftInside, Top, n
    <3> QED
      BY <3>1, <3>2, <1>2
  <2>3. i < n \/ i = n
    BY <1>n
  <2> QED
    BY <2>1, <2>2, <2>3
<1>7. VisitedFinished'
  <2> SUFFICES ASSUME NEW i \in 1..(n + 1),
                      NEW u \in adj[stack'[i]] \ left'[stack'[i]]
               PROVE  \/ color'[u] = "black"
                      \/ i < n + 1 /\ stack'[i + 1] = u
    BY <1>1, <1>2, <1>n DEF VisitedFinished
  <2>1. CASE i = n + 1
    BY <2>1, <1>1
  <2>2. CASE i < n
    <3>1. stack[i] # Top /\ stack[i] # t
      <4>1. OnStackOnce /\ i \in 1..n /\ n \in 1..n /\ i # n
        BY <2>2, <1>n DEF IndInv
      <4> QED
        BY <4>1, <1>3 DEF OnStackOnce, Top, n
    <3>2. left'[stack'[i]] = left[stack[i]] /\ stack'[i] = stack[i]
      BY <3>1, <2>2, <1>1
    <3> QED
      BY <3>2, <2>2, <1>1, <1>2 DEF IndInv, VisitedFinished, n
  <2>3. CASE i = n
    <3>1. stack # << >> /\ stack'[i] = Top /\ stack[i] = Top /\ stack'[i + 1] = t
      BY <2>3, <1>1, <1>n DEF Top, n
    <3>2. u = t \/ u \in adj[stack[i]] \ left[stack[i]]
      BY <3>1
    <3> QED
      BY <3>1, <3>2, <2>3, <1>1, <1>2 DEF IndInv, VisitedFinished, n
  <2>4. i < n \/ i = n \/ i = n + 1
    BY <1>n
  <2> QED
    BY <2>1, <2>2, <2>3, <2>4
<1>8. BlackFinished' /\ FinishOrder'
  BY <1>2 DEF IndInv, BlackFinished, Finished, FinishOrder
<1>9. LeftInside'
  <2> SUFFICES ASSUME NEW i \in 1..(n + 1)
               PROVE  left'[stack'[i]] \subseteq adj[stack'[i]]
    BY <1>1, <1>2 DEF LeftInside
  <2>1. CASE i = n + 1
    BY <2>1, <1>1
  <2>2. CASE i \in 1..n
    <3>1. left[stack[i]] \subseteq adj[stack[i]]
      BY <2>2 DEF IndInv, LeftInside, n
    <3>2. left'[stack[i]] \subseteq left[stack[i]]
      <4>1. stack[i] # t /\ stack[i] \in Types
        BY <2>2, <1>1, <1>3
      <4>2. stack # << >>
        BY <2>2, <1>n DEF n
      <4> QED
        BY <4>1, <4>2
    <3>3. stack'[i] = stack[i]
      BY <2>2, <1>1
    <3> QED
      BY <3>1, <3>2, <3>3
  <2>3. i = n + 1 \/ i \in 1..n
    BY <1>n
  <2> QED
    BY <2>1, <2>2, <2>3
<1> QED
  BY <1>4, <1>5, <1>6, <1>7, <1>8, <1>9

\* The top of a stack that is not empty is a gray type on it.
LEMMA TopFacts ==
  ASSUME IndInv, stack # << >>
  PROVE  /\ Len(stack) \in Nat /\ Len(stack) >= 1
         /\ Top \in Types /\ Top = stack[Len(stack)] /\ color[Top] = "gray"
<1>1. Len(stack) \in Nat /\ Len(stack) >= 1 /\ Top \in Types /\ Top = stack[Len(stack)]
  BY Popped DEF IndInv, TypeOK, Top
<1>2. OnStack(Top)
  BY <1>1 DEF OnStack
<1> QED
  BY <1>1, <1>2 DEF IndInv, GrayOnStack

\* The graph is one of the schemas'.
LEMMA AdjType ==
  ASSUME IndInv PROVE adj \in [Types -> SUBSET Types] /\ \A t \in Types : t \notin adj[t]
BY CyclesAssumption DEF IndInv, TypeOK

\* A step of the reconstruction leaves what the search has built.
LEMMA SearchUnchanged ==
  ASSUME IndInv, UNCHANGED <<adj, color, left, parent, stack, finished>>
  PROVE  /\ GrayOnStack' /\ OnStackOnce' /\ StackIsPath' /\ VisitedFinished'
         /\ BlackFinished' /\ FinishOrder' /\ LeftInside'
<1>1. GrayOnStack' /\ BlackFinished'
  BY DEF IndInv, GrayOnStack, OnStack, BlackFinished, Finished
<1>2. OnStackOnce' /\ StackIsPath'
  BY DEF IndInv, OnStackOnce, StackIsPath
<1>3. FinishOrder'
  BY DEF IndInv, FinishOrder
<1>4. VisitedFinished'
  BY DEF IndInv, VisitedFinished
<1>5. LeftInside'
  BY DEF IndInv, LeftInside
<1> QED
  BY <1>1, <1>2, <1>3, <1>4, <1>5

\* Each action keeps the strengthened invariant.
LEMMA VisitRootStep ==
  ASSUME IndInv, NEW t \in Types, VisitRoot(t) PROVE IndInv'
<1>1. /\ phase = "search" /\ stack = << >> /\ t \in todo /\ todo' = todo \ {t}
      /\ UNCHANGED <<adj, phase, parent, cycle, finished>>
  BY DEF VisitRoot
<1>2. TraceInv'
  BY <1>1 DEF IndInv, TraceInv, ReportsCycle
<1>3. CASE color[t] = "white"
  <2>1. /\ color' = [color EXCEPT ![t] = "gray"]
        /\ left' = [left EXCEPT ![t] = adj[t]]
        /\ stack' = Append(stack, t)
    BY <1>3 DEF VisitRoot, Enter
  <2>2. TypeOK'
    BY <1>1, <2>1, AdjType DEF IndInv, TypeOK
  <2>3. \A u \in Types : color[u] # "gray"
    BY <1>1 DEF IndInv, GrayOnStack, OnStack
  <2>4. left'[t] = adj[t] /\ \A u \in Types : u # t => left'[u] = left[u]
    BY <2>1 DEF IndInv, TypeOK
  <2>5. /\ GrayOnStack' /\ OnStackOnce' /\ StackIsPath' /\ VisitedFinished'
        /\ BlackFinished' /\ FinishOrder' /\ LeftInside'
    BY <1>1, <1>3, <2>1, <2>3, <2>4, PushKeeps
  <2>6. NoneForgotten'
    BY <1>1, <2>1 DEF IndInv, TypeOK, NoneForgotten
  <2> QED
    BY <1>2, <2>2, <2>5, <2>6 DEF IndInv
<1>4. CASE color[t] # "white"
  <2>1. UNCHANGED <<color, left, stack>>
    BY <1>4 DEF VisitRoot
  <2>2. TypeOK' /\ NoneForgotten'
    BY <1>1, <1>4, <2>1 DEF IndInv, TypeOK, NoneForgotten
  <2>3. /\ GrayOnStack' /\ OnStackOnce' /\ StackIsPath' /\ VisitedFinished'
        /\ BlackFinished' /\ FinishOrder' /\ LeftInside'
    BY <1>1, <2>1, SearchUnchanged
  <2> QED
    BY <1>2, <2>2, <2>3 DEF IndInv
<1> QED
  BY <1>3, <1>4

LEMMA VisitWhiteStep ==
  ASSUME IndInv, NEW t \in Types, VisitWhite(t) PROVE IndInv'
<1>1. /\ phase = "search" /\ stack # << >> /\ t \in left[Top] /\ color[t] = "white"
      /\ parent' = [parent EXCEPT ![t] = {Top}]
      /\ color' = [color EXCEPT ![t] = "gray"]
      /\ left' = [left EXCEPT ![Top] = left[Top] \ {t}, ![t] = adj[t]]
      /\ stack' = Append(stack, t)
      /\ UNCHANGED <<adj, phase, todo, cycle, finished>>
  BY DEF VisitWhite
<1>2. TraceInv'
  BY <1>1 DEF IndInv, TraceInv, ReportsCycle
<1>3. Top \in Types /\ Top # t
  BY <1>1, TopFacts
<1>4. TypeOK'
  <2>1. parent' \in [Types -> SUBSET Types] /\ color' \in [Types -> {"white", "gray", "black"}]
    BY <1>1, <1>3 DEF IndInv, TypeOK
  <2>2. adj[t] \in SUBSET Types /\ left[Top] \ {t} \in SUBSET Types
    BY <1>3, AdjType DEF IndInv, TypeOK
  <2>3. left' \in [Types -> SUBSET Types]
    BY <1>1, <2>2 DEF IndInv, TypeOK
  <2>4. stack' \in Seq(Types)
    BY <1>1, Appended DEF IndInv, TypeOK
  <2> QED
    BY <1>1, <2>1, <2>3, <2>4 DEF IndInv, TypeOK
<1>5. /\ left'[t] = adj[t] /\ left'[Top] = left[Top] \ {t}
      /\ \A u \in Types : u # t /\ u # Top => left'[u] = left[u]
  BY <1>1, <1>3 DEF IndInv, TypeOK
<1>6. /\ GrayOnStack' /\ OnStackOnce' /\ StackIsPath' /\ VisitedFinished'
      /\ BlackFinished' /\ FinishOrder' /\ LeftInside'
  BY <1>1, <1>5, PushKeeps
<1>7. NoneForgotten'
  BY <1>1 DEF IndInv, TypeOK, NoneForgotten
<1> QED
  BY <1>2, <1>4, <1>6, <1>7 DEF IndInv

LEMMA VisitBlackStep ==
  ASSUME IndInv, NEW t \in Types, VisitBlack(t) PROVE IndInv'
<1>1. /\ phase = "search" /\ stack # << >> /\ t \in left[Top] /\ color[t] = "black"
      /\ left' = [left EXCEPT ![Top] = left[Top] \ {t}]
      /\ UNCHANGED <<adj, phase, todo, color, parent, stack, cycle, finished>>
  BY DEF VisitBlack, Skips, Rest
<1>2. Top \in Types
  BY <1>1, TopFacts
<1>3. TypeOK' /\ TraceInv' /\ NoneForgotten'
  BY <1>1, <1>2 DEF IndInv, TypeOK, TraceInv, ReportsCycle, NoneForgotten
<1>4. GrayOnStack' /\ OnStackOnce' /\ StackIsPath' /\ BlackFinished' /\ FinishOrder'
  BY <1>1 DEF IndInv, GrayOnStack, OnStack, OnStackOnce, StackIsPath,
     BlackFinished, Finished, FinishOrder
<1>5. /\ \A u \in Types : u # Top => left'[u] = left[u]
      /\ left'[Top] = left[Top] \ {t}
  BY <1>1, <1>2 DEF IndInv, TypeOK
<1>6. \A i \in 1..Len(stack) : stack[i] \in Types
  BY DEF IndInv, TypeOK
<1>7. LeftInside'
  BY <1>1, <1>5, <1>6 DEF IndInv, LeftInside
<1>8. VisitedFinished'
  <2> SUFFICES ASSUME NEW i \in 1..Len(stack), NEW u \in adj[stack[i]] \ left'[stack[i]]
               PROVE  color[u] = "black" \/ (i < Len(stack) /\ stack[i + 1] = u)
    BY <1>1 DEF VisitedFinished
  <2>1. u = t \/ u \in adj[stack[i]] \ left[stack[i]]
    BY <1>5, <1>6
  <2>2. ASSUME u = t PROVE color[u] = "black"
    BY <2>2, <1>1
  <2>3. VisitedFinished
    BY DEF IndInv
  <2>4. ASSUME u \in adj[stack[i]] \ left[stack[i]]
        PROVE  color[u] = "black" \/ (i < Len(stack) /\ stack[i + 1] = u)
    BY <2>3, <2>4 DEF VisitedFinished
  <2> QED
    BY <2>1, <2>2, <2>4
<1> QED
  BY <1>3, <1>4, <1>7, <1>8 DEF IndInv

LEMMA VisitGrayStep ==
  ASSUME IndInv, NEW t \in Types, VisitGray(t) PROVE IndInv'
<1>1. /\ phase = "search" /\ stack # << >> /\ t \in left[Top] /\ color[t] = "gray"
      /\ phase' = "trace" /\ cycle' = <<t, Top>>
      /\ UNCHANGED <<adj, todo, color, left, parent, stack, finished>>
  BY DEF VisitGray, Closes
<1>2. /\ Len(stack) \in Nat /\ Len(stack) >= 1
      /\ Top \in Types /\ Top = stack[Len(stack)]
  BY <1>1, TopFacts
<1>3. TypeOK' /\ NoneForgotten'
  BY <1>1, <1>2 DEF IndInv, TypeOK, NoneForgotten
<1>4. /\ GrayOnStack' /\ OnStackOnce' /\ StackIsPath' /\ VisitedFinished'
      /\ BlackFinished' /\ FinishOrder' /\ LeftInside'
  BY <1>1, SearchUnchanged DEF IndInv
<1>5. TraceInv'
  <2>1. Len(cycle') = 2 /\ cycle'[1] = t /\ cycle'[2] = Top /\ Top' = Top
    BY <1>1 DEF Top
  <2>2. t \in adj[Top]
    BY <1>1, <1>2 DEF IndInv, LeftInside
  <2>3. \E k \in 1..Len(stack) : stack[k] = t
    BY <1>1 DEF IndInv, GrayOnStack, OnStack
  <2> QED
    BY <1>1, <1>2, <2>1, <2>2, <2>3 DEF TraceInv, ReportsCycle, Neighbor
<1> QED
  BY <1>3, <1>4, <1>5 DEF IndInv

LEMMA RetreatStep ==
  ASSUME IndInv, Retreat PROVE IndInv'
<1> DEFINE n == Len(stack)
           m == Len(finished)
<1>1. /\ phase = "search" /\ stack # << >> /\ left[Top] = {}
      /\ color' = [color EXCEPT ![Top] = "black"]
      /\ finished' = Append(finished, Top)
      /\ stack' = SubSeq(stack, 1, Len(stack) - 1)
      /\ UNCHANGED <<adj, phase, todo, left, parent, cycle>>
  BY DEF Retreat, Blackened
<1>2. n \in Nat /\ n >= 1 /\ Top \in Types /\ Top = stack[n] /\ color[Top] = "gray"
  BY <1>1, TopFacts
<1>3. /\ stack' \in Seq(Types) /\ Len(stack') = n - 1
      /\ \A i \in 1..(n - 1) : stack'[i] = stack[i]
  BY <1>1, Popped DEF IndInv, TypeOK
<1>4. /\ finished' \in Seq(Types) /\ Len(finished') = m + 1 /\ m \in Nat
      /\ finished'[m + 1] = Top
      /\ \A i \in 1..m : finished'[i] = finished[i]
  BY <1>1, <1>2, Appended DEF IndInv, TypeOK
<1>5. color \in [Types -> {"white", "gray", "black"}] /\ stack \in Seq(Types)
  BY DEF IndInv, TypeOK
<1>6. OnStackOnce /\ \A i \in 1..n : stack[i] \in Types /\ (i < n => stack[i] # Top)
  BY <1>2, <1>5 DEF IndInv, OnStackOnce
<1>7. TypeOK'
  BY <1>1, <1>2, <1>3, <1>4 DEF IndInv, TypeOK
<1>8. TraceInv' /\ NoneForgotten'
  BY <1>1, <1>2, <1>5 DEF IndInv, TraceInv, ReportsCycle, NoneForgotten
<1>9. GrayOnStack'
  <2> SUFFICES ASSUME NEW t \in Types PROVE (color[t] = "gray" <=> OnStack(t))'
    BY DEF GrayOnStack
  <2>1. OnStack(t)' <=> \E i \in 1..(n - 1) : stack[i] = t
    BY <1>3 DEF OnStack
  <2>2. color[t] = "gray" <=> \E i \in 1..n : stack[i] = t
    BY DEF IndInv, GrayOnStack, OnStack
  <2>3. CASE t = Top
    BY <2>1, <2>3, <1>1, <1>2, <1>5, <1>6
  <2>4. CASE t # Top
    <3>1. (\E i \in 1..n : stack[i] = t) <=> (\E i \in 1..(n - 1) : stack[i] = t)
      BY <2>4, <1>2
    <3> QED
      BY <2>1, <2>2, <2>4, <3>1, <1>1, <1>5
  <2> QED
    BY <2>3, <2>4
<1>10. OnStackOnce'
  BY <1>2, <1>3 DEF IndInv, OnStackOnce
<1>11. StackIsPath'
  <2> SUFFICES ASSUME NEW i \in 1..(n - 1 - 1)
               PROVE  /\ parent[stack[i + 1]] = {stack[i]}
                      /\ stack[i + 1] \in adj[stack[i]]
    <3>1. \A i \in 1..(n - 1 - 1) : i \in 1..(n - 1) /\ i + 1 \in 1..(n - 1)
      BY <1>2
    <3>2. Len(stack') - 1 = n - 1 - 1
      BY <1>3
    <3> QED
      BY <3>1, <3>2, <1>1, <1>3 DEF StackIsPath
  <2>1. StackIsPath /\ i \in 1..(n - 1)
    BY <1>2 DEF IndInv
  <2> QED
    BY <2>1 DEF StackIsPath
<1>12. LeftInside'
  <2> SUFFICES ASSUME NEW i \in 1..(n - 1)
               PROVE  left[stack[i]] \subseteq adj[stack[i]]
    BY <1>1, <1>2, <1>3 DEF LeftInside
  <2>1. LeftInside /\ i \in 1..n
    BY <1>2 DEF IndInv
  <2> QED
    BY <2>1 DEF LeftInside
<1>13. VisitedFinished'
  <2> SUFFICES ASSUME NEW i \in 1..(n - 1), NEW u \in adj[stack[i]] \ left[stack[i]]
               PROVE  color'[u] = "black" \/ (i < n - 1 /\ stack[i + 1] = u)
    BY <1>1, <1>2, <1>3 DEF VisitedFinished
  <2>1. u \in Types
    BY <1>2, <1>6, AdjType
  <2>2. VisitedFinished /\ i \in 1..n
    BY <1>2 DEF IndInv
  <2>3. color[u] = "black" \/ stack[i + 1] = u
    BY <2>2 DEF VisitedFinished
  <2>4. i < n - 1 \/ i + 1 = n
    BY <1>2
  <2>5. (color[u] = "black" \/ u = Top) => color'[u] = "black"
    BY <2>1, <1>1, <1>5
  <2>6. i + 1 = n /\ stack[i + 1] = u => u = Top
    BY <1>2
  <2> QED
    BY <2>3, <2>4, <2>5, <2>6
<1>14. BlackFinished'
  <2> SUFFICES ASSUME NEW t \in Types PROVE (color[t] = "black" <=> Finished(t))'
    BY DEF BlackFinished
  <2>1. Finished(t)' <=> t = Top \/ \E i \in 1..m : finished[i] = t
    <3>1. \A i \in 1..(m + 1) : i = m + 1 \/ i \in 1..m
      BY <1>4
    <3> QED
      BY <1>4, <3>1 DEF Finished
  <2>2. color[t] = "black" <=> \E i \in 1..m : finished[i] = t
    BY DEF IndInv, BlackFinished, Finished
  <2> QED
    BY <2>1, <2>2, <1>1, <1>2, <1>5
<1>15. FinishOrder'
  <2> SUFFICES ASSUME NEW i \in 1..(m + 1), NEW u \in adj[finished'[i]]
               PROVE  \E j \in 1..(i - 1) : finished'[j] = u
    BY <1>1, <1>4 DEF FinishOrder
  <2>1. CASE i \in 1..m
    <3>1. PICK j \in 1..(i - 1) : finished[j] = u
      BY <2>1, <1>4 DEF IndInv, FinishOrder
    <3> QED
      BY <3>1, <2>1, <1>4
  <2>2. CASE i = m + 1
    <3>1. u \in adj[stack[n]] \ left[stack[n]] /\ u \in Types
      BY <2>2, <1>1, <1>2, <1>4, AdjType
    <3>2. color[u] = "black"
      BY <3>1, <1>2 DEF IndInv, VisitedFinished
    <3>3. PICK j \in 1..m : finished[j] = u
      BY <3>1, <3>2 DEF IndInv, BlackFinished, Finished
    <3> QED
      BY <3>3, <2>2, <1>4
  <2>3. i \in 1..m \/ i = m + 1
    BY <1>4
  <2> QED
    BY <2>1, <2>2, <2>3
<1> QED
  BY <1>7, <1>8, <1>9, <1>10, <1>11, <1>12, <1>13, <1>14, <1>15 DEF IndInv

LEMMA AcceptStep ==
  ASSUME IndInv, Accept PROVE IndInv'
<1>1. /\ phase = "search" /\ stack = << >> /\ todo = {} /\ phase' = "accepted"
      /\ UNCHANGED <<adj, todo, color, left, parent, stack, cycle, finished>>
  BY DEF Accept
<1>2. TypeOK' /\ NoneForgotten' /\ TraceInv'
  BY <1>1 DEF IndInv, TypeOK, NoneForgotten, TraceInv, ReportsCycle
<1> QED
  BY <1>1, <1>2, SearchUnchanged DEF IndInv

\* While it is under reconstruction, the path ends at a call of the stack at
\* or above the neighbor's, so that the parent it follows is the call below.
LEMMA TracePoint ==
  ASSUME IndInv, phase = "trace"
  PROVE  LET n == Len(stack)
             m == Len(cycle)
             q == n + 2 - m
         IN
         /\ n \in Nat /\ m \in 2..(n + 1) /\ q \in 1..n
         /\ \A i \in 1..n : stack[i] \in Types
         /\ Current = stack[q]
         /\ \A i \in 2..m : cycle[i] = stack[n + 2 - i]
         /\ Neighbor \in adj[stack[n]]
         /\ \E k \in 1..q : stack[k] = Neighbor
         /\ \A i \in 1..(n - 1) : /\ parent[stack[i + 1]] = {stack[i]}
                                  /\ stack[i + 1] \in adj[stack[i]]
         /\ RoundTrip \/ (q >= 2 /\ parent[Current] = {stack[q - 1]}
                          /\ \E k \in 1..(q - 1) : stack[k] = Neighbor)
<1> DEFINE n == Len(stack)
           m == Len(cycle)
           q == n + 2 - m
<1>1. /\ m \in 2..(n + 1) /\ Neighbor \in adj[stack[n]]
      /\ \A i \in 2..m : cycle[i] = stack[n + 2 - i]
      /\ \E k \in 1..q : stack[k] = Neighbor
  BY DEF IndInv, TraceInv, Top
<1>2. n \in Nat /\ \A i \in 1..n : stack[i] \in Types
  BY DEF IndInv, TypeOK
<1>3. q \in 1..n
  BY <1>1, <1>2
<1>4. Current = stack[q]
  BY <1>1, <1>2 DEF Current
<1>5. \A i \in 1..(n - 1) : /\ parent[stack[i + 1]] = {stack[i]}
                            /\ stack[i + 1] \in adj[stack[i]]
  BY DEF IndInv, StackIsPath
<1>6. ASSUME ~RoundTrip
      PROVE  /\ q >= 2 /\ parent[Current] = {stack[q - 1]}
             /\ \E k \in 1..(q - 1) : stack[k] = Neighbor
  <2>1. PICK k \in 1..q : stack[k] = Neighbor
    BY <1>1
  <2>2. k # q
    BY <1>4, <1>6, <2>1 DEF RoundTrip
  <2>3. k \in 1..(q - 1) /\ q >= 2 /\ q - 1 \in 1..(n - 1) /\ q - 1 + 1 = q
    BY <2>1, <2>2, <1>2, <1>3
  <2> QED
    BY <2>1, <2>3, <1>4, <1>5
<1> QED
  BY <1>1, <1>2, <1>3, <1>4, <1>5, <1>6

LEMMA TraceBackStep ==
  ASSUME IndInv, TraceBack PROVE IndInv'
<1>1. /\ phase = "trace" /\ ~RoundTrip
      /\ UNCHANGED <<adj, phase, todo, color, left, parent, stack, finished>>
  BY DEF TraceBack
<1>2. PICK t \in parent[Current] : cycle' = Append(cycle, t)
  BY DEF TraceBack
<1> DEFINE n == Len(stack)
           m == Len(cycle)
           q == n + 2 - m
<1>3. /\ n \in Nat /\ m \in 2..(n + 1) /\ q \in 1..n
      /\ \A i \in 1..n : stack[i] \in Types
      /\ \A i \in 2..m : cycle[i] = stack[n + 2 - i]
      /\ Neighbor \in adj[stack[n]]
      /\ q >= 2 /\ parent[Current] = {stack[q - 1]}
      /\ \E k \in 1..(q - 1) : stack[k] = Neighbor
  BY <1>1, TracePoint
<1>4. t = stack[q - 1] /\ t \in Types
  BY <1>2, <1>3
<1>5. /\ cycle' \in Seq(Types) /\ Len(cycle') = m + 1
      /\ \A i \in 1..m : cycle'[i] = cycle[i]
      /\ cycle'[m + 1] = t
  BY <1>2, <1>4, Appended DEF IndInv, TypeOK
<1>6. TypeOK' /\ NoneForgotten'
  BY <1>1, <1>5 DEF IndInv, TypeOK, NoneForgotten
<1>7. TraceInv'
  <2> HIDE DEF n, m
  <2>1. m + 1 \in 2..(n + 1) /\ n + 2 - (m + 1) = q - 1 /\ 1 \in 1..m
    BY <1>3
  <2>2. \A i \in 2..(m + 1) : cycle'[i] = stack[n + 2 - i]
    <3> SUFFICES ASSUME NEW i \in 2..(m + 1) PROVE cycle'[i] = stack[n + 2 - i]
      OBVIOUS
    <3>1. CASE i = m + 1
      BY <3>1, <1>4, <1>5, <2>1
    <3>2. CASE i \in 2..m
      BY <3>2, <1>3, <1>5
    <3> QED
      BY <3>1, <3>2, <1>3
  <2>3. cycle'[1] = cycle[1]
    BY <1>5, <2>1
  <2>4. Len(stack') = n /\ stack' = stack /\ adj' = adj /\ phase' = "trace"
    BY <1>1 DEF n
  <2>5. /\ Len(cycle)' \in 2..(Len(stack)' + 1)
        /\ Neighbor' \in adj'[Top']
        /\ \A i \in 2..Len(cycle') : cycle'[i] = stack'[Len(stack') + 2 - i]
    BY <2>1, <2>2, <2>3, <2>4, <1>3, <1>5 DEF Neighbor, Top
  <2>6. \E k \in 1..(Len(stack') + 2 - Len(cycle')) : stack'[k] = Neighbor'
    BY <2>1, <2>3, <2>4, <1>3, <1>5 DEF Neighbor
  <2> QED
    BY <2>4, <2>5, <2>6 DEF TraceInv, ReportsCycle
<1> QED
  BY <1>1, <1>6, <1>7, SearchUnchanged DEF IndInv

LEMMA RejectStep ==
  ASSUME IndInv, Reject PROVE IndInv'
<1>1. /\ phase = "trace" /\ phase' = "rejected" /\ cycle' = Backwards(cycle)
      /\ UNCHANGED <<adj, todo, color, left, parent, stack, finished>>
      /\ RoundTrip \/ parent[Current] = {}
  BY DEF Reject
<1> DEFINE n == Len(stack)
           m == Len(cycle)
           q == n + 2 - m
<1>2. /\ n \in Nat /\ m \in 2..(n + 1) /\ q \in 1..n
      /\ \A i \in 1..n : stack[i] \in Types
      /\ \A i \in 2..m : cycle[i] = stack[n + 2 - i]
      /\ Neighbor \in adj[stack[n]]
      /\ \A i \in 1..(n - 1) : stack[i + 1] \in adj[stack[i]]
      /\ RoundTrip
  BY <1>1, TracePoint
<1>3. /\ cycle' \in Seq(Types) /\ Len(cycle') = m
      /\ \A i \in 1..m : cycle'[i] = cycle[m + 1 - i]
  BY <1>1, Reversed DEF IndInv, TypeOK
<1>4. TypeOK' /\ NoneForgotten'
  BY <1>1, <1>3 DEF IndInv, TypeOK, NoneForgotten
<1>5. cycle[1] = Neighbor /\ cycle[m] = Neighbor
  BY <1>2 DEF Neighbor, RoundTrip, Current
<1>6. ReportsCycle'
  <2> HIDE DEF n, m
  <2>1. \A t \in Types : t \notin adj[t]
    BY AdjType
  <2>2. cycle[2] = stack[n] /\ stack[n] \in Types
    BY <1>2
  <2>3. m > 2
    BY <1>2, <1>5, <2>1, <2>2
  <2>4. cycle'[1] = cycle'[m]
    BY <1>2, <1>3, <1>5
  <2>5. ASSUME NEW i \in 1..(m - 1) PROVE cycle'[i + 1] \in adj[cycle'[i]]
    <3>1. cycle'[i] = cycle[m + 1 - i] /\ cycle'[i + 1] = cycle[m - i]
      BY <1>2, <1>3
    <3>2. CASE i = m - 1
      BY <3>1, <3>2, <1>2, <1>5, <2>2
    <3>3. CASE i < m - 1
      <4> DEFINE j == q + i - 1
      <4>1. m - i \in 2..m /\ m + 1 - i \in 2..m /\ j \in 1..(n - 1)
            /\ n + 2 - (m - i) = j + 1 /\ n + 2 - (m + 1 - i) = j
        BY <3>3, <1>2
      <4>2. cycle[m - i] = stack[j + 1] /\ cycle[m + 1 - i] = stack[j]
        BY <4>1, <1>2
      <4> QED
        BY <3>1, <4>1, <4>2, <1>2
    <3> QED
      BY <3>2, <3>3, <1>2
  <2> QED
    BY <1>1, <1>3, <2>3, <2>4, <2>5 DEF ReportsCycle, IsWalk
<1>7. TraceInv'
  BY <1>1, <1>6 DEF TraceInv
<1> QED
  BY <1>1, <1>4, <1>7, SearchUnchanged DEF IndInv

----------------------------------------------------------------------------

LEMMA InitInv == Init => IndInv
BY DEF Init, IndInv, TypeOK, GrayOnStack, OnStack, OnStackOnce, StackIsPath,
   BlackFinished, Finished, FinishOrder, LeftInside, VisitedFinished,
   NoneForgotten, TraceInv, ReportsCycle

\* The strengthened invariant holds in every reachable state of the search
\* (gateway.go:288-337).
THEOREM Inductive == Spec => []IndInv
<1>1. IndInv /\ [Next]_vars => IndInv'
  <2> SUFFICES ASSUME IndInv, [Next]_vars PROVE IndInv'
    OBVIOUS
  <2>1. ASSUME NEW t \in Types, VisitRoot(t) PROVE IndInv'
    BY <2>1, VisitRootStep
  <2>2. ASSUME NEW t \in Types, VisitWhite(t) PROVE IndInv'
    BY <2>2, VisitWhiteStep
  <2>3. ASSUME NEW t \in Types, VisitBlack(t) PROVE IndInv'
    BY <2>3, VisitBlackStep
  <2>4. ASSUME NEW t \in Types, VisitGray(t) PROVE IndInv'
    BY <2>4, VisitGrayStep
  <2>5. CASE Retreat
    BY <2>5, RetreatStep
  <2>6. CASE Accept
    BY <2>6, AcceptStep
  <2>7. CASE TraceBack
    BY <2>7, TraceBackStep
  <2>8. CASE Reject
    BY <2>8, RejectStep
  <2>9. CASE UNCHANGED vars
    <3>1. TypeOK' /\ NoneForgotten' /\ TraceInv'
      BY <2>9 DEF vars, IndInv, TypeOK, NoneForgotten, TraceInv, ReportsCycle,
         IsWalk, Neighbor, Top
    <3> QED
      BY <2>9, <3>1, SearchUnchanged DEF vars, IndInv
  <2> QED
    BY <2>1, <2>2, <2>3, <2>4, <2>5, <2>6, <2>7, <2>8, <2>9 DEF Next
<1> QED
  BY InitInv, <1>1, PTL DEF Spec

\* Every variable of the search stays in its range (gateway.go:288-337).
THEOREM TypeCorrect == Spec => []TypeOK
<1>1. IndInv => TypeOK
  BY DEF IndInv
<1> QED
  BY Inductive, <1>1, PTL

\* Whatever the graph and the order in which the maps are visited, the search
\* accepts none that has a cycle (gateway.go:329-337): of any set of types,
\* the one that finished first refers to none of the others.
THEOREM AcceptsAcyclic == Spec => []AcceptsOnlyAcyclic
<1>1. IndInv => AcceptsOnlyAcyclic
  <2> SUFFICES ASSUME IndInv, phase = "accepted",
                      NEW S \in SUBSET Types, S # {}
               PROVE  \E t \in S : adj[t] \cap S = {}
    BY DEF AcceptsOnlyAcyclic, Acyclic
  <2>1. \A t \in Types : Finished(t)
    <3>1. \A t \in Types : color[t] # "white"
      BY DEF IndInv, NoneForgotten
    <3>2. \A t \in Types : color[t] # "gray"
      <4>1. Len(stack) = 0 /\ GrayOnStack
        BY DEF IndInv, NoneForgotten
      <4> SUFFICES ASSUME NEW t \in Types, color[t] = "gray" PROVE FALSE
        OBVIOUS
      <4>2. PICK i \in 1..Len(stack) : stack[i] = t
        BY <4>1 DEF GrayOnStack, OnStack
      <4> QED
        BY <4>1, <4>2
    <3> QED
      BY <3>1, <3>2 DEF IndInv, TypeOK, BlackFinished
  <2> DEFINE m == Len(finished)
             T == {i \in 1..m : finished[i] \in S}
  <2>2. T \in SUBSET Nat /\ T # {} /\ m \in Nat
    <3>1. m \in Nat
      BY DEF IndInv, TypeOK
    <3>2. PICK t \in S : \E i \in 1..m : finished[i] = t
      BY <2>1 DEF Finished
    <3> QED
      BY <3>1, <3>2
  <2>3. PICK i \in T : \A j \in T : i <= j
    BY <2>2, Least
  <2>4. ASSUME NEW u \in adj[finished[i]] \cap S PROVE FALSE
    <3>1. PICK j \in 1..(i - 1) : finished[j] = u
      BY <2>3, <2>4 DEF IndInv, FinishOrder
    <3>2. j \in T /\ j < i
      BY <3>1, <2>2, <2>3, <2>4
    <3> QED
      BY <3>2, <2>2, <2>3
  <2> QED
    BY <2>3, <2>4
<1> QED
  BY Inductive, <1>1, PTL

\* A rejection reports a cycle of the graph, from a type back to itself
\* (gateway.go:302-316).
THEOREM CycleIsReal == Spec => []ReportsCycle
<1>1. IndInv => ReportsCycle
  BY DEF IndInv, TraceInv
<1> QED
  BY Inductive, <1>1, PTL
====
