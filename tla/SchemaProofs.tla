---- MODULE SchemaProofs ----
(* Proofs about the types of a schema, for any type systems and any order  *)
(* of the maps.  TypeCollection: the map is closed under references and    *)
(* holds what the roots lead to.  SupergraphTypes: which objects hide the  *)
(* merged ones.  Introspection: an answer describes each type once, leaves *)
(* out none that it is asked for, and refers where the types before lead.  *)
EXTENDS Introspection, SupergraphTypes, TLAPS, FiniteSetTheorems, WellFoundedInduction

\* A nonempty set of numbers has a first one.
LEMMA FirstOf ==
  ASSUME NEW S \in SUBSET Nat, S # {}
  PROVE  \E p \in S : \A q \in S : p <= q
<1>1. \E p \in S : \A q \in S : ~(<<q, p>> \in OpToRel(<, Nat))
  BY NatLessThanWellFounded, WFMin
<1>2. \A p, q \in Nat : p < q => <<p, q>> \in OpToRel(<, Nat)
  BY DEF OpToRel
<1>3. PICK p \in S : \A q \in S : ~(q < p)
  BY <1>1, <1>2
<1> QED
  BY <1>3

----------------------------------------------------------------------------
(* The collection of a schema's types.                                     *)

LEMMA SystemType ==
  ASSUME schema \in Schemas
  PROVE  /\ Roots \in Seq(SUBSET Types)
         /\ System[schema].listed \in [Types -> Seq(Types)]
         /\ System[schema].fields \in [Types -> SUBSET Types]
         /\ \A t \in Types : Refs(t) \subseteq Types
         /\ \A t \in BuiltIns : Refs(t) \subseteq BuiltIns
<1>1. System[schema] \in TypeSystem
  BY TypeCollectionAssumption
<1>2. /\ Roots \in Seq(SUBSET Types)
      /\ System[schema].listed \in [Types -> Seq(Types)]
      /\ System[schema].fields \in [Types -> SUBSET Types]
  BY <1>1 DEF TypeSystem, Roots
<1>3. \A t \in Types : Range(System[schema].listed[t]) \subseteq Types
  <2> SUFFICES ASSUME NEW t \in Types PROVE Range(System[schema].listed[t]) \subseteq Types
    OBVIOUS
  <2>1. System[schema].listed[t] \in Seq(Types)
    BY <1>2
  <2> QED
    BY <2>1 DEF Range
<1>4. \A t \in Types : Refs(t) \subseteq Types
  BY <1>2, <1>3 DEF Refs, References
<1>5. \A t \in BuiltIns : Refs(t) \subseteq BuiltIns
  BY TypeCollectionAssumption DEF Refs
<1> QED
  BY <1>2, <1>4, <1>5

\* What is known of the innermost call.
LEMMA TopType ==
  ASSUME TypeOK, calls # << >>
  PROVE  /\ Len(calls) \in Nat /\ Len(calls) >= 1
         /\ Len(calls) \in DOMAIN calls
         /\ Top = calls[Len(calls)]
         /\ Top \in Seq(SUBSET Types)
         /\ Pending(Top) \subseteq Types
<1>1. calls \in Seq(Seq(SUBSET Types))
  BY DEF TypeOK
<1>2. Len(calls) \in Nat /\ Len(calls) >= 1 /\ Len(calls) \in DOMAIN calls
  BY <1>1
<1>3. Top \in Seq(SUBSET Types) /\ Top = calls[Len(calls)]
  BY <1>1, <1>2 DEF Top
<1>4. \A i \in DOMAIN Top : Top[i] \in SUBSET Types
  BY <1>3
<1> QED
  BY <1>2, <1>3, <1>4 DEF Pending, Range

\* A call that has visited t has all its other types still to visit.
LEMMA AfterType ==
  ASSUME TypeOK, calls # << >>, NEW t \in Types
  PROVE  /\ After(t) \in Seq(SUBSET Types)
         /\ Pending(After(t)) = Pending(Top) \ {t}
<1>1. Top \in Seq(SUBSET Types)
  BY TopType
<1>2. After(t) \in Seq(SUBSET Types)
  BY <1>1 DEF After
<1>3. Pending(After(t)) = Pending(Top) \ {t}
  BY DEF Pending, Range, After
<1> QED
  BY <1>2, <1>3

\* A new call has all references of its type to visit.
LEMMA StagesType ==
  ASSUME schema \in Schemas, NEW t \in Types
  PROVE  /\ Stages(t) \in Seq(SUBSET Types)
         /\ Pending(Stages(t)) = Refs(t)
<1> DEFINE l == System[schema].listed[t]
           f == System[schema].fields[t]
           s == [i \in DOMAIN l |-> {l[i]}]
<1>1. l \in Seq(Types) /\ f \in SUBSET Types
  BY SystemType
<1>2. s \in Seq(SUBSET Types) /\ Len(s) = Len(l) /\ DOMAIN s = DOMAIN l
  BY <1>1
<1>3. Stages(t) = Append(s, f)
  BY DEF Stages, Listed
<1> HIDE DEF l, f
<1>4. /\ Stages(t) \in Seq(SUBSET Types)
      /\ DOMAIN Stages(t) = 1..(Len(l) + 1)
      /\ \A i \in 1..Len(l) : Stages(t)[i] = {l[i]}
      /\ Stages(t)[Len(l) + 1] = f
      /\ Len(l) \in Nat
  <2>1. Len(s) \in Nat /\ Len(l) \in Nat
    BY <1>1, <1>2
  <2>2. \A i \in 1..Len(s) : Append(s, f)[i] = s[i] /\ s[i] = {l[i]}
    BY <1>1, <1>2
  <2>3. Append(s, f)[Len(s) + 1] = f
    BY <1>1, <1>2
  <2>4. Append(s, f) \in Seq(SUBSET Types) /\ DOMAIN Append(s, f) = 1..(Len(s) + 1)
    BY <1>1, <1>2
  <2> QED
    BY <1>2, <1>3, <2>1, <2>2, <2>3, <2>4
<1>5. Pending(Stages(t)) = {l[i] : i \in 1..Len(l)} \cup f
  <2>1. \A r : r \in Pending(Stages(t)) <=> \E i \in 1..(Len(l) + 1) : r \in Stages(t)[i]
    BY <1>4 DEF Pending, Range
  <2>2. \A r : (\E i \in 1..(Len(l) + 1) : r \in Stages(t)[i])
                 <=> (\E i \in 1..Len(l) : r = l[i]) \/ r \in f
    BY <1>4
  <2> QED
    BY <2>1, <2>2
<1>6. Refs(t) = {l[i] : i \in 1..Len(l)} \cup f
  BY <1>1 DEF Refs, References, Range, l, f
<1> QED
  BY <1>4, <1>5, <1>6

LEMMA KeptTypes ==
  ASSUME TypeOK
  PROVE  /\ \A t : t \in Kept <=> \E n \in Names : t \in typeMap[n]
         /\ Kept \subseteq Types
         /\ \A t \in Kept : Known(NameOf[t]) /\ typeMap[NameOf[t]] = {t}
         /\ \A n \in Names : Known(n) => \E t \in Kept : NameOf[t] = n
<1>1. typeMap \in [Names -> SUBSET Types]
  BY DEF TypeOK
<1>2. \A t : t \in Kept <=> \E n \in Names : t \in typeMap[n]
  BY <1>1 DEF Kept, Range
<1>3. \A n \in Names : \A s, t \in typeMap[n] : NameOf[s] = n /\ s = t
  BY DEF TypeOK
<1>4. Kept \subseteq Types
  BY <1>1, <1>2
<1>5. \A t \in Kept : Known(NameOf[t]) /\ typeMap[NameOf[t]] = {t}
  BY <1>2, <1>3 DEF Known
<1>6. ASSUME NEW n \in Names, Known(n) PROVE \E t \in Kept : NameOf[t] = n
  <2>1. PICK t : t \in typeMap[n]
    BY <1>6 DEF Known
  <2> QED
    BY <1>2, <1>3, <2>1
<1> QED
  BY <1>2, <1>4, <1>5, <1>6

\* When the innermost call has visited t, whose name is then taken, what was
\* seen before is still seen.
LEMMA StillSeen ==
  ASSUME TypeOK, calls # << >>, NEW t \in Types, NEW r \in Types, Seen(r),
         \A n \in Names : Known(n) => Known(n)',
         Known(NameOf[t])',
         \A i \in 1..(Len(calls) - 1) : calls'[i] = calls[i],
         calls'[Len(calls)] = After(t),
         DOMAIN calls \subseteq DOMAIN calls'
  PROVE  Seen(r)'
<1>1. CASE Known(NameOf[r])
  <2>1. NameOf[r] \in Names
    BY TypeCollectionAssumption
  <2> QED
    BY <1>1, <2>1 DEF Seen
<1>2. CASE r = t
  BY <1>2 DEF Seen
<1>3. CASE r # t /\ \E i \in DOMAIN calls : r \in Pending(calls[i])
  <2>1. PICK i \in DOMAIN calls : r \in Pending(calls[i])
    BY <1>3
  <2>2. calls \in Seq(Seq(SUBSET Types)) /\ Len(calls) \in Nat /\ Top = calls[Len(calls)]
    BY TopType DEF TypeOK
  <2>3. CASE i = Len(calls)
    <3>1. r \in Pending(After(t))
      BY <1>3, <2>1, <2>2, <2>3, AfterType
    <3>2. r \in Pending(calls'[i])
      BY <2>3, <3>1
    <3> QED
      BY <3>2, <2>1 DEF Seen
  <2>4. CASE i # Len(calls)
    <3>1. i \in 1..(Len(calls) - 1)
      BY <2>1, <2>2, <2>4
    <3> QED
      BY <3>1, <2>1 DEF Seen
  <2> QED
    BY <2>3, <2>4
<1> QED
  BY <1>1, <1>2, <1>3 DEF Seen

LEMMA SkipStep ==
  ASSUME IndInv, NEW t \in Types, Skip(t) PROVE IndInv'
<1>1. /\ calls # << >> /\ IsNext(t) /\ Known(NameOf[t])
      /\ calls' = [calls EXCEPT ![Len(calls)] = After(t)]
      /\ UNCHANGED <<schema, pc, typeMap, implementations>>
  BY DEF Skip
<1>2. /\ Len(calls) \in Nat /\ Len(calls) >= 1 /\ Len(calls) \in DOMAIN calls
      /\ After(t) \in Seq(SUBSET Types) /\ Pending(After(t)) \subseteq Pending(Top)
      /\ calls \in Seq(Seq(SUBSET Types)) /\ Top = calls[Len(calls)]
  BY <1>1, TopType, AfterType DEF IndInv, TypeOK
<1>3. /\ calls' \in Seq(Seq(SUBSET Types))
      /\ DOMAIN calls' = DOMAIN calls
      /\ calls'[Len(calls)] = After(t)
      /\ \A i \in DOMAIN calls : i # Len(calls) => calls'[i] = calls[i]
  BY <1>1, <1>2
<1>4. TypeOK'
  BY <1>1, <1>3 DEF IndInv, TypeOK
<1>5. \A r \in Types : Seen(r) => Seen(r)'
  <2> SUFFICES ASSUME NEW r \in Types, Seen(r) PROVE Seen(r)'
    OBVIOUS
  <2>1. \A i \in 1..(Len(calls) - 1) : calls'[i] = calls[i]
    BY <1>2, <1>3
  <2>2. Known(NameOf[t])' /\ \A n \in Names : Known(n) => Known(n)'
    BY <1>1 DEF Known
  <2> QED
    BY <1>1, <1>3, <2>1, <2>2, StillSeen DEF IndInv
<1>6. /\ Roots' = Roots /\ Kept' = Kept /\ \A u : Refs(u)' = Refs(u)
      /\ Pending(Roots) \subseteq Types /\ \A u \in Kept : u \in Types /\ Refs(u) \subseteq Types
  <2>1. Roots \in Seq(SUBSET Types)
    BY SystemType DEF IndInv, TypeOK
  <2>2. Pending(Roots) \subseteq Types
    BY <2>1 DEF Pending, Range
  <2> QED
    BY <1>1, <2>2, SystemType, KeptTypes DEF Roots, Kept, Refs, References, IndInv, TypeOK
<1>7. NothingMissed'
  BY <1>5, <1>6 DEF IndInv, NothingMissed
<1>8. OnlyLedTo'
  <2>1. \A i \in DOMAIN calls : Pending(calls'[i]) \subseteq Pending(calls[i])
    BY <1>2, <1>3
  <2>2. IsClosed(Closure[schema])' <=> IsClosed(Closure[schema])
    BY <1>1, <1>6 DEF IsClosed
  <2> QED
    BY <1>1, <1>3, <1>6, <2>1, <2>2 DEF IndInv, OnlyLedTo
<1> QED
  BY <1>1, <1>4, <1>7, <1>8 DEF IndInv

LEMMA CollectStep ==
  ASSUME IndInv, NEW t \in Types, Collect(t) PROVE IndInv'
<1> DEFINE c == [calls EXCEPT ![Len(calls)] = After(t)]
<1>1. /\ calls # << >> /\ IsNext(t) /\ ~Known(NameOf[t])
      /\ typeMap' = [typeMap EXCEPT ![NameOf[t]] = {t}]
      /\ calls' = Append(c, Stages(t))
      /\ UNCHANGED <<schema, pc, implementations>>
  BY DEF Collect
<1>2. /\ Len(calls) \in Nat /\ Len(calls) >= 1 /\ Len(calls) \in DOMAIN calls
      /\ After(t) \in Seq(SUBSET Types) /\ Pending(After(t)) \subseteq Pending(Top)
      /\ calls \in Seq(Seq(SUBSET Types)) /\ Top = calls[Len(calls)]
  BY <1>1, TopType, AfterType DEF IndInv, TypeOK
<1>3. /\ c \in Seq(Seq(SUBSET Types)) /\ Len(c) = Len(calls)
      /\ c[Len(calls)] = After(t)
      /\ \A i \in DOMAIN calls : i # Len(calls) => c[i] = calls[i]
  BY <1>2
<1>4. /\ Stages(t) \in Seq(SUBSET Types) /\ Pending(Stages(t)) = Refs(t)
      /\ schema \in Schemas
  BY StagesType DEF IndInv, TypeOK
<1> HIDE DEF c
<1>5. /\ calls' \in Seq(Seq(SUBSET Types))
      /\ DOMAIN calls = 1..Len(calls)
      /\ DOMAIN calls' = 1..(Len(calls) + 1)
      /\ calls'[Len(calls) + 1] = Stages(t)
      /\ calls'[Len(calls)] = After(t)
      /\ \A i \in DOMAIN calls : i # Len(calls) => calls'[i] = calls[i]
  BY <1>1, <1>2, <1>3, <1>4
<1>6. /\ NameOf[t] \in Names /\ typeMap \in [Names -> SUBSET Types]
      /\ \A n \in Names : \A u, v \in typeMap[n] : NameOf[u] = n /\ u = v
  BY TypeCollectionAssumption DEF IndInv, TypeOK
<1>7. TypeOK'
  <2>1. typeMap' \in [Names -> SUBSET Types]
    BY <1>1, <1>6
  <2>2. \A n \in Names : \A u, v \in typeMap'[n] : NameOf[u] = n /\ u = v
    BY <1>1, <1>6
  <2> QED
    BY <1>1, <1>5, <2>1, <2>2 DEF IndInv, TypeOK
<1>8. /\ Known(NameOf[t])' /\ \A n \in Names : Known(n) => Known(n)'
      /\ \A u : u \in Kept' <=> u \in Kept \/ u = t
  <2>1. Known(NameOf[t])' /\ \A n \in Names : Known(n) => Known(n)'
    BY <1>1, <1>6 DEF Known
  <2>2. \A u : u \in Kept' <=> \E n \in Names : u \in typeMap'[n]
    BY <1>7, <1>1, <1>6 DEF Kept, Range
  <2>3. \A u : u \in Kept <=> \E n \in Names : u \in typeMap[n]
    BY KeptTypes DEF IndInv
  <2>4. typeMap[NameOf[t]] = {}
    BY <1>1 DEF Known
  <2> QED
    BY <2>1, <2>2, <2>3, <2>4, <1>1, <1>6
<1>9. \A r \in Types : Seen(r) => Seen(r)'
  <2> SUFFICES ASSUME NEW r \in Types, Seen(r) PROVE Seen(r)'
    OBVIOUS
  <2>1. /\ \A i \in 1..(Len(calls) - 1) : calls'[i] = calls[i]
        /\ DOMAIN calls \subseteq DOMAIN calls'
    BY <1>2, <1>5
  <2> QED
    BY <1>1, <1>5, <1>8, <2>1, StillSeen DEF IndInv
<1>10. \A r \in Refs(t) : Seen(r)'
  <2>1. \A r \in Refs(t) : r \in Pending(calls'[Len(calls) + 1])
    BY <1>4, <1>5
  <2>2. Len(calls) + 1 \in DOMAIN calls'
    BY <1>2, <1>5
  <2> QED
    BY <2>1, <2>2 DEF Seen
<1>11. /\ Roots' = Roots /\ \A u : Refs(u)' = Refs(u)
       /\ Pending(Roots) \subseteq Types /\ \A u \in Types : Refs(u) \subseteq Types
       /\ Kept \subseteq Types
  <2>1. Roots \in Seq(SUBSET Types)
    BY <1>4, SystemType
  <2>2. Pending(Roots) \subseteq Types
    BY <2>1 DEF Pending, Range
  <2> QED
    BY <1>1, <1>4, <2>2, SystemType, KeptTypes DEF Roots, Refs, References, IndInv
<1>12. NothingMissed'
  BY <1>8, <1>9, <1>10, <1>11 DEF IndInv, NothingMissed
<1>13. OnlyLedTo'
  <2> SUFFICES ASSUME IsClosed(Closure[schema])
               PROVE  /\ Kept' \ BuiltIns \subseteq Closure[schema]
                      /\ \A i \in DOMAIN calls' : Pending(calls'[i]) \subseteq Closure[schema]
    <3>1. IsClosed(Closure[schema])' <=> IsClosed(Closure[schema])
      BY <1>1, <1>11 DEF IsClosed
    <3> QED
      BY <3>1, <1>1 DEF OnlyLedTo
  <2>1. /\ Kept \ BuiltIns \subseteq Closure[schema]
        /\ \A i \in DOMAIN calls : Pending(calls[i]) \subseteq Closure[schema]
    BY DEF IndInv, OnlyLedTo
  <2>2. t \in Closure[schema]
    <3>1. t \in Pending(Top)
      BY <1>1 DEF IsNext, Pending, Range
    <3> QED
      BY <3>1, <2>1, <1>2
  <2>3. Refs(t) \subseteq Closure[schema]
    BY <2>2 DEF IsClosed
  <2>4. ASSUME NEW i \in DOMAIN calls' PROVE Pending(calls'[i]) \subseteq Closure[schema]
    <3>1. CASE i = Len(calls) + 1
      BY <3>1, <2>3, <1>4, <1>5
    <3>2. CASE i = Len(calls)
      BY <3>2, <2>1, <1>2, <1>5
    <3>3. CASE i # Len(calls) /\ i # Len(calls) + 1
      <4>1. i \in 1..(Len(calls) + 1) /\ Len(calls) \in Nat
        BY <1>2, <1>5
      <4>2. i \in 1..Len(calls)
        BY <3>3, <4>1
      <4>3. i \in DOMAIN calls
        BY <4>2, <1>5
      <4>4. calls'[i] = calls[i]
        BY <3>3, <4>3, <1>5
      <4> QED
        BY <4>3, <4>4, <2>1
    <3> QED
      BY <3>1, <3>2, <3>3
  <2> QED
    BY <2>1, <2>2, <2>4, <1>8
<1>14. pc = "collect"
  BY <1>1 DEF IndInv
<1> QED
  BY <1>1, <1>7, <1>12, <1>13, <1>14 DEF IndInv

LEMMA ReturnStep ==
  ASSUME IndInv, Return PROVE IndInv'
<1>1. /\ calls # << >> /\ Pending(Top) = {}
      /\ calls' = SubSeq(calls, 1, Len(calls) - 1)
      /\ UNCHANGED <<schema, pc, typeMap, implementations>>
  BY DEF Return
<1>2. /\ Len(calls) \in Nat /\ Len(calls) >= 1
      /\ calls \in Seq(Seq(SUBSET Types)) /\ Top = calls[Len(calls)]
  BY <1>1, TopType DEF IndInv, TypeOK
<1>3. /\ calls' \in Seq(Seq(SUBSET Types))
      /\ DOMAIN calls' = 1..(Len(calls) - 1)
      /\ \A i \in 1..(Len(calls) - 1) : calls'[i] = calls[i]
  BY <1>1, <1>2
<1>4. TypeOK'
  BY <1>1, <1>3 DEF IndInv, TypeOK
<1>5. \A r : Seen(r) => Seen(r)'
  <2> SUFFICES ASSUME NEW r, NEW i \in DOMAIN calls, r \in Pending(calls[i])
               PROVE  \E j \in DOMAIN calls' : r \in Pending(calls'[j])
    BY <1>1 DEF Seen, Known
  <2>1. i # Len(calls)
    BY <1>1, <1>2
  <2>2. i \in 1..(Len(calls) - 1)
    BY <2>1, <1>2
  <2> QED
    BY <2>2, <1>3
<1>6. /\ Roots' = Roots /\ Kept' = Kept /\ \A u : Refs(u)' = Refs(u)
  BY <1>1 DEF Roots, Kept, Refs, References
<1>7. NothingMissed'
  BY <1>5, <1>6 DEF IndInv, NothingMissed
<1>8. OnlyLedTo'
  <2>1. IsClosed(Closure[schema])' <=> IsClosed(Closure[schema])
    BY <1>1, <1>6 DEF IsClosed
  <2>0. DOMAIN calls = 1..Len(calls)
    BY <1>2
  <2>2. \A i \in DOMAIN calls' : i \in DOMAIN calls /\ calls'[i] = calls[i]
    BY <1>2, <1>3, <2>0
  <2>3. IsClosed(Closure[schema]) =>
          /\ Kept \ BuiltIns \subseteq Closure[schema]
          /\ \A i \in DOMAIN calls : Pending(calls[i]) \subseteq Closure[schema]
    BY DEF IndInv, OnlyLedTo
  <2>4. \A i \in DOMAIN calls' : Pending(calls'[i]) = Pending(calls[i])
    BY <2>2
  <2> QED
    BY <1>1, <1>6, <2>1, <2>2, <2>3, <2>4 DEF OnlyLedTo
<1>9. pc = "collect"
  BY <1>1 DEF IndInv
<1> QED
  BY <1>1, <1>4, <1>7, <1>8, <1>9 DEF IndInv

\* When nothing is left to visit, what is seen is known.
LEMMA NothingLeft ==
  ASSUME IndInv, calls = << >>
  PROVE  /\ \A r \in Pending(Roots) : Known(NameOf[r])
         /\ \A t \in Kept : \A r \in Refs(t) : Known(NameOf[r])
<1>1. \A r : Seen(r) => Known(NameOf[r])
  BY DEF Seen
<1> QED
  BY <1>1 DEF IndInv, NothingMissed

LEMMA AddBuiltInsStep ==
  ASSUME IndInv, AddBuiltIns PROVE IndInv'
<1>1. /\ pc = "collect" /\ calls = << >> /\ pc' = "implement"
      /\ typeMap' = [n \in Names |-> IF Known(n) THEN typeMap[n] ELSE BuiltInsNamed(n)]
      /\ UNCHANGED <<schema, calls, implementations>>
  BY DEF AddBuiltIns
<1>2. /\ typeMap \in [Names -> SUBSET Types] /\ schema \in Schemas
      /\ \A n \in Names : \A u, v \in typeMap[n] : NameOf[u] = n /\ u = v
  BY DEF IndInv, TypeOK
<1>3. /\ \A n \in Names : BuiltInsNamed(n) \subseteq BuiltIns
      /\ \A n \in Names : \A u, v \in BuiltInsNamed(n) : NameOf[u] = n /\ u = v
      /\ BuiltIns \subseteq Types
      /\ \A u \in BuiltIns : NameOf[u] \in Names /\ u \in BuiltInsNamed(NameOf[u])
  BY TypeCollectionAssumption DEF BuiltInsNamed
<1>4. typeMap' \in [Names -> SUBSET Types]
  BY <1>1, <1>2, <1>3
<1>5. TypeOK'
  <2>1. \A n \in Names : \A u, v \in typeMap'[n] : NameOf[u] = n /\ u = v
    BY <1>1, <1>2, <1>3
  <2> QED
    BY <1>1, <1>4, <2>1 DEF IndInv, TypeOK
<1>6. /\ \A n \in Names : Known(n) => Known(n)'
      /\ \A u \in BuiltIns : Known(NameOf[u])'
  BY <1>1, <1>3 DEF Known
<1>7. \A u \in Kept' : u \in Kept \/ u \in BuiltIns
  <2>1. \A u : u \in Kept' <=> \E n \in Names : u \in typeMap'[n]
    BY <1>4 DEF Kept, Range
  <2>2. \A u : u \in Kept <=> \E n \in Names : u \in typeMap[n]
    BY KeptTypes DEF IndInv
  <2> QED
    BY <2>1, <2>2, <1>1, <1>3
<1>8. /\ Roots' = Roots /\ \A u : Refs(u)' = Refs(u)
      /\ \A u \in BuiltIns : Refs(u) \subseteq BuiltIns
      /\ Pending(Roots) \subseteq Types /\ \A u \in Types : Refs(u) \subseteq Types
      /\ Kept \subseteq Types
  <2>1. Roots \in Seq(SUBSET Types)
    BY <1>2, SystemType
  <2>2. Pending(Roots) \subseteq Types
    BY <2>1 DEF Pending, Range
  <2> QED
    BY <1>1, <1>2, <2>2, SystemType, KeptTypes DEF Roots, Refs, References, IndInv
<1>9. NothingMissed'
  <2>1. \A r \in Types : Known(NameOf[r]) => Seen(r)'
    <3>1. \A r \in Types : NameOf[r] \in Names
      BY TypeCollectionAssumption
    <3> QED
      BY <1>6, <3>1 DEF Seen
  <2>2. \A r \in Pending(Roots) : Seen(r)'
    BY <2>1, <1>1, <1>8, NothingLeft
  <2>3. \A t \in Kept : \A r \in Refs(t) : Seen(r)'
    BY <2>1, <1>1, <1>8, NothingLeft
  <2>4. \A t \in BuiltIns : \A r \in Refs(t) : Seen(r)'
    BY <1>6, <1>8 DEF Seen
  <2> QED
    BY <2>2, <2>3, <2>4, <1>7, <1>8 DEF NothingMissed
<1>10. OnlyLedTo'
  <2>1. IsClosed(Closure[schema])' <=> IsClosed(Closure[schema])
    BY <1>1, <1>8 DEF IsClosed
  <2> QED
    BY <1>1, <1>7, <2>1 DEF IndInv, OnlyLedTo
<1> QED
  BY <1>1, <1>5, <1>9, <1>10 DEF IndInv

LEMMA BuildImplementationsStep ==
  ASSUME IndInv, BuildImplementations PROVE IndInv'
<1>1. /\ pc = "implement" /\ pc' = "done"
      /\ implementations' = [n \in Names |-> {t \in Kept : Implements(t, n)}]
      /\ UNCHANGED <<schema, calls, typeMap>>
  BY DEF BuildImplementations
<1>2. Kept \subseteq Types
  BY KeptTypes DEF IndInv
<1>3. TypeOK'
  BY <1>1, <1>2 DEF IndInv, TypeOK
<1>4. NothingMissed'
  BY <1>1 DEF IndInv, NothingMissed, Seen, Known, Kept, Refs, References, Roots
<1>5. OnlyLedTo'
  BY <1>1 DEF IndInv, OnlyLedTo, IsClosed, Kept, Refs, References, Roots
<1> QED
  BY <1>1, <1>3, <1>4, <1>5 DEF IndInv

LEMMA InitInv == Init => IndInv
<1> SUFFICES ASSUME Init PROVE IndInv
  OBVIOUS
<1>1. /\ schema \in Schemas /\ pc = "collect" /\ calls = << Roots >>
      /\ typeMap = [n \in Names |-> {}]
      /\ implementations = [n \in Names |-> {}]
  BY DEF Init, RootCall
<1>2. Roots \in Seq(SUBSET Types)
  BY <1>1, SystemType
<1>3. calls \in Seq(Seq(SUBSET Types)) /\ DOMAIN calls = {1} /\ calls[1] = Roots
  BY <1>1, <1>2
<1>4. TypeOK
  BY <1>1, <1>3 DEF TypeOK
<1>5. Kept = {}
  BY <1>1 DEF Kept, Range
<1>6. NothingMissed
  BY <1>3, <1>5 DEF NothingMissed, Seen
<1>7. OnlyLedTo
  BY <1>3, <1>5 DEF OnlyLedTo, IsClosed
<1> QED
  BY <1>1, <1>4, <1>6, <1>7 DEF IndInv

LEMMA StepInv == IndInv /\ [Next]_vars => IndInv'
<1> SUFFICES ASSUME IndInv, [Next]_vars PROVE IndInv'
  OBVIOUS
<1>1. ASSUME NEW t \in Types, Skip(t) PROVE IndInv'
  BY <1>1, SkipStep
<1>2. ASSUME NEW t \in Types, Collect(t) PROVE IndInv'
  BY <1>2, CollectStep
<1>3. CASE Return
  BY <1>3, ReturnStep
<1>4. CASE AddBuiltIns
  BY <1>4, AddBuiltInsStep
<1>5. CASE BuildImplementations
  BY <1>5, BuildImplementationsStep
<1>6. CASE UNCHANGED vars
  BY <1>6 DEF vars, IndInv, TypeOK, NothingMissed, OnlyLedTo, Seen, Known, Kept,
     Refs, References, IsClosed, Roots
<1> QED
  BY <1>1, <1>2, <1>3, <1>4, <1>5, <1>6 DEF Next

\* The strengthened invariant: whatever a type in the map refers to is known
\* by its name or still to be visited by a call under way (schema.go:146-194).
THEOREM Inductive == Spec => []IndInv
  BY InitInv, StepInv, PTL DEF Spec

\* Every variable stays in its range, and a name has one type at most
\* (schema.go:161-164).
THEOREM TypeCorrect == Spec => []TypeOK
<1>1. IndInv => TypeOK
  BY DEF IndInv
<1> QED
  BY Inductive, <1>1, PTL

\* For any type systems, in which names may be shared and references may form
\* cycles, and any order of the maps: every type in a schema's map refers to
\* names in the map only (schema.go:146-194).
THEOREM Closed == Spec => []ClosedUnderReferences
<1>1. IndInv => ClosedUnderReferences
  BY NothingLeft DEF IndInv, ClosedUnderReferences
<1> QED
  BY Inductive, <1>1, PTL

\* For any type system and any set of types that has its roots and what its
\* members refer to: a schema's map holds no other type and, when no two types
\* of the set share a name, it is such a set itself, hence the least one, in
\* whatever order the maps are visited (schema.go:46-55, 146-194).
THEOREM CollectsExactly == Spec => []CollectsReachable
<1>1. IndInv => CollectsReachable
  <2> DEFINE S == Closure[schema]
  <2> SUFFICES ASSUME IndInv, pc = "done", IsClosed(S)
               PROVE  /\ Kept \ BuiltIns \subseteq S
                      /\ UniqueNames(S \cup BuiltIns) => IsClosed(Kept)
    BY DEF CollectsReachable
  <2>1. Kept \ BuiltIns \subseteq S
    BY DEF IndInv, OnlyLedTo
  <2>2. ASSUME UniqueNames(S \cup BuiltIns) PROVE IsClosed(Kept)
    <3>1. /\ \A r \in Pending(Roots) : Known(NameOf[r])
          /\ \A t \in Kept : \A r \in Refs(t) : Known(NameOf[r])
      BY NothingLeft DEF IndInv
    <3>2. /\ \A t \in Types : NameOf[t] \in Names
          /\ schema \in Schemas /\ S \subseteq Types /\ BuiltIns \subseteq Types
      BY TypeCollectionAssumption DEF IndInv, TypeOK
    <3>3. ASSUME NEW r \in S \cup BuiltIns, Known(NameOf[r]) PROVE r \in Kept
      <4>1. PICK t \in Kept : NameOf[t] = NameOf[r]
        BY <3>2, <3>3, KeptTypes DEF IndInv
      <4>2. t \in S \cup BuiltIns
        BY <2>1
      <4> QED
        BY <4>1, <4>2, <2>2 DEF UniqueNames
    <3>4. Pending(Roots) \subseteq S
      BY DEF IsClosed
    <3>5. \A t \in Kept : Refs(t) \subseteq S \cup BuiltIns
      BY <2>1, <3>2, SystemType DEF IsClosed
    <3> QED
      BY <3>1, <3>3, <3>4, <3>5 DEF IsClosed
  <2> QED
    BY <2>1, <2>2
<1> QED
  BY Inductive, <1>1, PTL

----------------------------------------------------------------------------
(* The types of a supergraph.                                              *)

\* What a subgraph's type lists and its fields return is of that subgraph.
LEMMA InFacts ==
  ASSUME NEW n \in TypeNames, NEW s
  PROVE  /\ In(n, s)[1] = n
         /\ IsCopy(In(n, s)) => KindOf[n] = "object"
         /\ ~IsCopy(RewriteTypeRef(In(n, s)))
  BY MergedTypesAssumption DEF In, IsCopy, RewriteTypeRef, Merged

\* A type of a supergraph that refers to a subgraph's own object is abstract or
\* such an object itself.
LEMMA CopiesReferredTo ==
  ASSUME schema \in Schemas, InSupergraph, NEW t \in Types, NEW r \in Refs(t), IsCopy(r)
  PROVE  IsAbstract(t) \/ IsCopy(t)
<1> DEFINE G == Parts[schema]
           g == Composed(G)
<1>1. CASE t \notin TypeObjects
  BY <1>1, SupergraphAssumption DEF Refs
<1>2. CASE t \in TypeObjects
  <2> SUFFICES ASSUME ~IsAbstract(t), ~IsCopy(t) PROVE FALSE
    OBVIOUS
  <2>1. /\ G \in [1..N -> Subgraph]
        /\ System[schema].listed[t] = g.listed[t]
        /\ System[schema].fields[t] = g.fields[t]
    BY <1>2, SupergraphAssumption DEF InSupergraph
  <2>2. /\ g.listed[t] = ListedIn(G, t[1], IF t[2] = Merged THEN 1 ELSE t[2])
        /\ g.fields[t] = {FieldType(G, t, f) : f \in FieldsOf(G, t)}
    BY <1>2 DEF Composed, TypesOf
  <2>3. /\ t[1] \in TypeNames
        /\ t[2] \in 0..N
        /\ KindOf[t[1]] = "object" => t[2] = Merged
        /\ KindOf[t[1]] \in {"object", "enum", "scalar"}
    BY <1>2, MergedTypesAssumption
       DEF TypeObjects, In, MergedObjects, Named, Merged, IsCopy, IsAbstract
  <2> DEFINE s == IF t[2] = Merged THEN 1 ELSE t[2]
  <2>4. s \in 1..N
    BY <2>3, MergedTypesAssumption DEF Merged
  <2>5. \A x \in 1..N :
          /\ G[x] \in Subgraph
          /\ G[x].listed \in [TypeNames -> Seq(TypeNames)]
          /\ G[x].fields \in [TypeNames -> [Fields -> TypeNames \cup {None}]]
    BY <2>1 DEF Subgraph
  <2>6. CASE KindOf[t[1]] \in {"enum", "scalar"}
    <3>1. \A x \in 1..N : G[x].listed[t[1]] = << >> /\ \A f \in Fields : G[x].fields[t[1]][f] = None
      BY <2>3, <2>5, <2>6 DEF Subgraph
    <3>2. FieldsOf(G, t) = {}
      BY <2>3, <3>1 DEF FieldsOf, Declared, Merged
    <3>3. DOMAIN g.listed[t] = {}
      <4>1. G[s].listed[t[1]] = << >>
        BY <2>4, <3>1
      <4>2. DOMAIN G[s].listed[t[1]] = {}
        BY <4>1
      <4> QED
        BY <2>2, <4>2 DEF ListedIn
    <3> QED
      BY <2>1, <2>2, <3>2, <3>3 DEF Refs, References, Range
  <2>7. CASE KindOf[t[1]] = "object"
    <3>1. t[2] = Merged
      BY <2>3, <2>7
    <3>2. CASE r \in g.fields[t]
      <4>1. PICK f \in FieldsOf(G, t) : r = FieldType(G, t, f)
        BY <2>2, <3>2
      <4>2. f \in Fields /\ \E x \in 1..N : G[x].fields[t[1]][f] # None
        BY <3>1 DEF FieldsOf, Declared
      <4> DEFINE d == Definer(G, t[1], f)
      <4>3. d \in 1..N /\ G[d].fields[t[1]][f] # None
        <5> DEFINE D == {x \in 1..N : G[x].fields[t[1]][f] # None}
        <5>1. D \in SUBSET Nat /\ D # {}
          BY <4>2
        <5>2. PICK m \in D : \A x \in D : m <= x
          BY <5>1, FirstOf
        <5>3. m \in 1..N /\ \A x \in 1..(m - 1) : G[x].fields[t[1]][f] = None
          BY <5>2, MergedTypesAssumption
        <5>4. \E x \in 1..N : /\ G[x].fields[t[1]][f] # None
                             /\ \A y \in 1..(x - 1) : G[y].fields[t[1]][f] = None
          BY <5>2, <5>3
        <5> QED
          BY <5>4 DEF Definer
      <4>4. r = RewriteTypeRef(In(G[d].fields[t[1]][f], d))
        BY <3>1, <4>1 DEF FieldType
      <4>5. G[d].fields[t[1]][f] \in TypeNames
        <5> HIDE DEF d, G
        <5> QED
          BY <2>3, <2>5, <4>2, <4>3
      <4> HIDE DEF d
      <4> QED
        BY <4>4, <4>5, InFacts
    <3>3. CASE r \in Range(g.listed[t])
      <4>1. PICK i \in DOMAIN G[1].listed[t[1]] : r = In(G[1].listed[t[1]][i], 1)
        BY <2>2, <3>1, <3>3 DEF ListedIn, Range
      <4>2. KindOf[G[1].listed[t[1]][i]] = "interface" /\ G[1].listed[t[1]] \in Seq(TypeNames)
        <5>1. 1 \in 1..N /\ t[1] \in TypeNames /\ G[1] \in Subgraph /\ KindOf[t[1]] = "object"
          BY <2>3, <2>4, <2>5, <2>7, <3>1
        <5>2. G[1].listed \in [TypeNames -> Seq(TypeNames)]
          BY <2>5, <5>1
        <5> HIDE DEF G
        <5>3. KindOf[G[1].listed[t[1]][i]] = "interface"
          BY <4>1, <5>1 DEF Subgraph
        <5> QED
          BY <5>1, <5>2, <5>3
      <4>3. G[1].listed[t[1]][i] \in TypeNames
        <5> DEFINE q == G[1].listed[t[1]]
        <5>1. q \in Seq(TypeNames) /\ i \in DOMAIN q
          BY <4>1, <4>2
        <5> HIDE DEF q
        <5>2. q[i] \in TypeNames
          BY <5>1
        <5> QED
          BY <5>2 DEF q
      <4> QED
        BY <4>1, <4>2, <4>3, InFacts
    <3> QED
      BY <2>1, <3>2, <3>3 DEF Refs, References
  <2> QED
    BY <2>3, <2>6, <2>7
<1> QED
  BY <1>1, <1>2

\* No root of a supergraph is a subgraph's own object.
LEMMA RootsAreMerged ==
  ASSUME schema \in Schemas, InSupergraph, NEW r \in Pending(Roots)
  PROVE  ~IsCopy(r)
<1>1. Roots = Composed(Parts[schema]).roots
  BY SupergraphAssumption DEF InSupergraph, Roots
<1>2. Roots = << {<<Query, Merged>>},
                 {<<n, Merged>> : n \in MergedObjects \ {Query}},
                 {In(n, 1) : n \in Named("enum")},
                 {In(n, 1) : n \in Named("interface")} >>
  BY <1>1 DEF Composed, TypesOf
<1>3. \/ r = <<Query, Merged>>
      \/ \E n \in MergedObjects : r = <<n, Merged>>
      \/ \E n \in Named("enum") : r = In(n, 1)
      \/ \E n \in Named("interface") : r = In(n, 1)
  BY <1>2 DEF Pending, Range
<1> QED
  BY <1>3, InFacts DEF IsCopy, Named

\* A step that keeps all that is kept, keeps no copy anew but one that was to be
\* visited, and has no copy to visit anew but one that a newly kept type refers
\* to, keeps every copy led to.
LEMMA CopiesStep == IndInv /\ CopiesLedTo /\ [Next]_vars => CopiesLedTo'
<1> SUFFICES ASSUME IndInv, CopiesLedTo, [Next]_vars, InSupergraph'
             PROVE  CopiesLedTo'
  BY DEF CopiesLedTo
<1>0. schema' = schema /\ InSupergraph /\ schema \in Schemas /\ \A t : Refs(t)' = Refs(t)
  BY DEF Next, Skip, Collect, Return, AddBuiltIns, BuildImplementations, vars,
         InSupergraph, Refs, IndInv, TypeOK
<1>1. ASSUME Kept \subseteq Kept',
             \A t \in Kept' : IsCopy(t) => t \in Kept \/ \E i \in DOMAIN calls : t \in Pending(calls[i]),
             \A j \in DOMAIN calls' : \A r \in Pending(calls'[j]) :
               \/ \E i \in DOMAIN calls : r \in Pending(calls[i])
               \/ \E t \in Kept' : t \in Types /\ r \in Refs(t)
      PROVE  CopiesLedTo'
  <2>1. \A t : LedToByCopies(t) => LedToByCopies(t)'
    BY <1>0, <1>1 DEF LedToByCopies
  <2>2. \A t \in Kept' : IsCopy(t) => LedToByCopies(t)'
    BY <1>0, <1>1, <2>1 DEF CopiesLedTo
  <2>3. ASSUME NEW j \in DOMAIN calls', NEW r \in Pending(calls'[j]), IsCopy(r)
        PROVE  LedToByCopies(r)'
    <3>1. CASE \E i \in DOMAIN calls : r \in Pending(calls[i])
      BY <1>0, <2>1, <2>3, <3>1 DEF CopiesLedTo
    <3>2. CASE \E t \in Kept' : t \in Types /\ r \in Refs(t)
      BY <1>0, <2>3, <3>2, CopiesReferredTo DEF LedToByCopies
    <3> QED
      BY <1>1, <2>3, <3>1, <3>2
  <2> QED
    BY <2>2, <2>3 DEF CopiesLedTo
<1>2. typeMap \in [Names -> SUBSET Types] /\ calls \in Seq(Seq(SUBSET Types))
  BY DEF IndInv, TypeOK
<1>3. ASSUME NEW t \in Types, Skip(t) PROVE CopiesLedTo'
  <2>1. /\ calls # << >> /\ Kept' = Kept
        /\ calls' = [calls EXCEPT ![Len(calls)] = After(t)]
    BY <1>3 DEF Skip, Kept
  <2>2. Len(calls) \in DOMAIN calls /\ Pending(After(t)) \subseteq Pending(calls[Len(calls)])
    BY <2>1, TopType, AfterType DEF IndInv
  <2>3. \A j \in DOMAIN calls' : j \in DOMAIN calls /\ Pending(calls'[j]) \subseteq Pending(calls[j])
    BY <2>1, <2>2
  <2> QED
    BY <1>1, <2>1, <2>3
<1>4. ASSUME NEW t \in Types, Collect(t) PROVE CopiesLedTo'
  <2> DEFINE c == [calls EXCEPT ![Len(calls)] = After(t)]
  <2>1. /\ calls # << >> /\ IsNext(t) /\ ~Known(NameOf[t])
        /\ typeMap' = [typeMap EXCEPT ![NameOf[t]] = {t}]
        /\ calls' = Append(c, Stages(t))
    BY <1>4 DEF Collect
  <2>2. /\ Len(calls) \in DOMAIN calls /\ After(t) \in Seq(SUBSET Types)
        /\ Pending(After(t)) \subseteq Pending(calls[Len(calls)])
        /\ t \in Pending(calls[Len(calls)])
    <3>1. t \in Pending(Top)
      BY <2>1 DEF IsNext, Pending, Range
    <3> QED
      BY <2>1, <3>1, TopType, AfterType DEF IndInv
  <2>3. Stages(t) \in Seq(SUBSET Types) /\ Pending(Stages(t)) = Refs(t)
    BY <1>0, StagesType
  <2>4. NameOf[t] \in Names
    BY TypeCollectionAssumption
  <2>5. Kept' = Kept \cup {t}
    BY <1>2, <2>1, <2>4 DEF Kept, Range, Known
  <2>6. c \in Seq(Seq(SUBSET Types)) /\ Len(c) = Len(calls) /\ DOMAIN c = DOMAIN calls
        /\ \A j \in DOMAIN calls : Pending(c[j]) \subseteq Pending(calls[j])
    BY <1>2, <2>2
  <2>7. ASSUME NEW j \in DOMAIN calls', NEW r \in Pending(calls'[j])
        PROVE  \/ \E i \in DOMAIN calls : r \in Pending(calls[i])
               \/ r \in Refs(t)
    <3> HIDE DEF c
    <3>1. j \in DOMAIN c \/ calls'[j] = Stages(t)
      BY <2>1, <2>3, <2>6
    <3>2. CASE j \in DOMAIN c
      <4>1. calls'[j] = c[j]
        BY <2>1, <2>3, <2>6, <3>2
      <4> QED
        BY <2>6, <2>7, <3>2, <4>1
    <3> QED
      BY <2>3, <2>7, <3>1, <3>2
  <2> QED
    BY <1>1, <2>2, <2>5, <2>7
<1>5. CASE Return
  <2>1. /\ calls # << >> /\ Kept' = Kept
        /\ calls' = SubSeq(calls, 1, Len(calls) - 1)
    BY <1>5 DEF Return, Kept
  <2>2. \A j \in DOMAIN calls' : j \in DOMAIN calls /\ calls'[j] = calls[j]
    BY <1>2, <2>1
  <2> QED
    BY <1>1, <2>1, <2>2
<1>6. CASE AddBuiltIns
  <2>1. /\ typeMap' = [n \in Names |-> IF Known(n) THEN typeMap[n] ELSE BuiltInsNamed(n)]
        /\ calls' = calls
    BY <1>6 DEF AddBuiltIns
  <2>2. Kept \subseteq Kept' /\ \A t \in Kept' : t \in Kept \/ t \in BuiltIns
    BY <1>2, <2>1 DEF Kept, Range, Known, BuiltInsNamed
  <2>3. \A t \in BuiltIns : ~IsCopy(t)
    BY SupergraphAssumption
  <2> QED
    BY <1>1, <2>1, <2>2, <2>3
<1>7. CASE BuildImplementations \/ UNCHANGED vars
  <2>1. Kept' = Kept /\ calls' = calls
    BY <1>7 DEF BuildImplementations, vars, Kept
  <2> QED
    BY <1>1, <2>1
<1> QED
  BY <1>3, <1>4, <1>5, <1>6, <1>7 DEF Next

LEMMA CopiesInit == Init => CopiesLedTo
<1> SUFFICES ASSUME Init, InSupergraph PROVE CopiesLedTo
  BY DEF CopiesLedTo
<1>1. schema \in Schemas /\ calls = << Roots >> /\ typeMap = [n \in Names |-> {}]
  BY DEF Init, RootCall
<1>2. Kept = {}
  BY <1>1 DEF Kept, Range
<1>3. \A i \in DOMAIN calls : calls[i] = Roots
  BY <1>1
<1> QED
  BY <1>1, <1>2, <1>3, RootsAreMerged DEF CopiesLedTo

\* In the supergraph of any number of subgraphs, with any types and any order of
\* the maps, a subgraph's own object takes a name only where an interface's
\* field, a union or such an object leads to it (gateway.go:148-163).
THEOREM HidesByAbstractOnly == Spec => []HiddenByAbstractOnly
<1>1. CopiesLedTo => HiddenByAbstractOnly
  BY DEF CopiesLedTo, HiddenByAbstractOnly
<1>2. Spec => []CopiesLedTo
  BY CopiesInit, CopiesStep, Inductive, PTL DEF Spec
<1> QED
  BY <1>1, <1>2, PTL

----------------------------------------------------------------------------
(* Answers about a schema.                                                 *)

Lists == {"types", "operations", "directives", "type"}
Entries == [list : Lists, types : SUBSET Types]

LEMMA DescriptionType ==
  ASSUME schema \in Schemas, NEW t \in Types
  PROVE  Description(t) \in Seq(SUBSET Types)
BY IntrospectionAssumption DEF Description

\* The entries of __schema have every type of the map.
LEMMA SchemaEntriesType ==
  ASSUME IndInv
  PROVE  /\ SchemaEntries \in Seq(Entries)
         /\ \A i \in DOMAIN SortedNames :
              i \in DOMAIN SchemaEntries /\ SchemaEntries[i].types = typeMap[SortedNames[i]]
         /\ \A i \in DOMAIN SchemaEntries :
              SchemaEntries[i].list = "types" <=> i \in DOMAIN SortedNames
         /\ \A t \in Kept : \E i \in DOMAIN SchemaEntries : t \in SchemaEntries[i].types
<1> DEFINE ops == OperationTypes[schema]
           a == [i \in DOMAIN SortedNames |-> Entry("types", typeMap[SortedNames[i]])]
           b == [i \in DOMAIN ops |-> Entry("operations", {ops[i]})]
           c == [i \in DOMAIN DirectiveTypes |-> Entry("directives", DirectiveTypes[i])]
<1>1. /\ typeMap \in [Names -> SUBSET Types]
      /\ schema \in Schemas
  BY DEF IndInv, TypeOK
<1>2. /\ SortedNames \in Seq(Names)
      /\ \A n \in Names : \E i \in DOMAIN SortedNames : SortedNames[i] = n
      /\ ops \in Seq(Types)
      /\ DirectiveTypes \in Seq(SUBSET Types)
  BY <1>1, IntrospectionAssumption DEF Range
<1>3. a \in Seq(Entries) /\ Len(a) = Len(SortedNames) /\ DOMAIN a = DOMAIN SortedNames
  <2>1. \A i \in DOMAIN SortedNames : Entry("types", typeMap[SortedNames[i]]) \in Entries
    BY <1>1, <1>2 DEF Entry, Entries, Lists
  <2>2. Len(SortedNames) \in Nat /\ DOMAIN SortedNames = 1..Len(SortedNames)
    BY <1>2
  <2>3. a \in [1..Len(SortedNames) -> Entries]
    BY <2>1, <2>2
  <2> QED
    BY <2>2, <2>3
<1>4. b \in Seq(Entries)
  <2>1. \A i \in DOMAIN ops : Entry("operations", {ops[i]}) \in Entries
    BY <1>2 DEF Entry, Entries, Lists
  <2>2. Len(ops) \in Nat /\ DOMAIN ops = 1..Len(ops)
    BY <1>2
  <2> QED
    BY <2>1, <2>2
<1>5. c \in Seq(Entries)
  <2>1. \A i \in DOMAIN DirectiveTypes : Entry("directives", DirectiveTypes[i]) \in Entries
    BY <1>2 DEF Entry, Entries, Lists
  <2>2. Len(DirectiveTypes) \in Nat /\ DOMAIN DirectiveTypes = 1..Len(DirectiveTypes)
    BY <1>2
  <2> QED
    BY <2>1, <2>2
<1>6. SchemaEntries = a \o b \o c
  BY DEF SchemaEntries
<1>7. /\ \A i \in DOMAIN a : a[i].types = typeMap[SortedNames[i]] /\ a[i].list = "types"
      /\ \A i \in DOMAIN b : b[i].list # "types"
      /\ \A i \in DOMAIN c : c[i].list # "types"
  BY <1>3 DEF Entry
<1> HIDE DEF a, b, c
<1>8. /\ SchemaEntries \in Seq(Entries)
      /\ \A i \in DOMAIN a : i \in DOMAIN SchemaEntries /\ SchemaEntries[i] = a[i]
      /\ \A i \in DOMAIN SchemaEntries \ DOMAIN a : SchemaEntries[i].list # "types"
  <2>1. /\ a \o b \in Seq(Entries)
        /\ \A i \in DOMAIN a : i \in DOMAIN (a \o b) /\ (a \o b)[i] = a[i]
        /\ \A i \in DOMAIN (a \o b) \ DOMAIN a : \E j \in DOMAIN b : (a \o b)[i] = b[j]
    <3>1. ASSUME NEW i \in DOMAIN (a \o b) \ DOMAIN a PROVE \E j \in DOMAIN b : (a \o b)[i] = b[j]
      BY <1>3, <1>4 DEF Entries
    <3> QED
      BY <1>3, <1>4, <3>1
  <2>2. /\ (a \o b) \o c \in Seq(Entries)
        /\ \A i \in DOMAIN (a \o b) : i \in DOMAIN ((a \o b) \o c) /\ ((a \o b) \o c)[i] = (a \o b)[i]
        /\ \A i \in DOMAIN ((a \o b) \o c) \ DOMAIN (a \o b) :
             \E j \in DOMAIN c : ((a \o b) \o c)[i] = c[j]
    <3> DEFINE ab == a \o b
    <3> HIDE DEF ab
    <3>0. ab \in Seq(Entries)
      BY <2>1 DEF ab
    <3>1. ASSUME NEW i \in DOMAIN (ab \o c) \ DOMAIN ab PROVE \E j \in DOMAIN c : (ab \o c)[i] = c[j]
      BY <1>5, <3>0
    <3>2. /\ ab \o c \in Seq(Entries)
          /\ \A i \in DOMAIN ab : i \in DOMAIN (ab \o c) /\ (ab \o c)[i] = ab[i]
      BY <1>5, <3>0
    <3> QED
      BY <3>1, <3>2 DEF ab
  <2> QED
    BY <1>6, <1>7, <2>1, <2>2
<1>9. ASSUME NEW t \in Kept PROVE \E i \in DOMAIN SchemaEntries : t \in SchemaEntries[i].types
  <2>1. PICK n \in Names : t \in typeMap[n]
    BY KeptTypes DEF IndInv
  <2>2. PICK i \in DOMAIN SortedNames : SortedNames[i] = n
    BY <1>2
  <2> QED
    BY <2>1, <2>2, <1>3, <1>7, <1>8
<1> QED
  BY <1>3, <1>7, <1>8, <1>9

LEMMA AskStep ==
  ASSUME AnswerInv, NEW r \in Requests, Ask(r), UNCHANGED vars
  PROVE  AnswerTypeOK' /\ VisitedDescribed' /\ NothingLost'
<1>1. /\ pc = "done" /\ request' = r
      /\ entries' = IF r = Whole THEN SchemaEntries ELSE TypeEntries(r)
      /\ UNCHANGED <<building, visited, described, references>>
      /\ pc' = pc /\ typeMap' = typeMap /\ Kept' = Kept
  BY DEF Ask, vars, Kept
<1>2. entries' \in Seq(Entries)
  <2>1. CASE r = Whole
    BY <2>1, <1>1, SchemaEntriesType DEF AnswerInv
  <2>2. CASE r # Whole
    <3>1. typeMap[r] \in SUBSET Types
      BY <2>2, IntrospectionAssumption DEF AnswerInv, IndInv, TypeOK
    <3>2. Entry("type", typeMap[r]) \in Entries
      BY <3>1 DEF Entry, Entries, Lists
    <3> QED
      BY <2>2, <3>2, <1>1 DEF TypeEntries
  <2> QED
    BY <2>1, <2>2
<1>3. AnswerTypeOK'
  BY <1>1, <1>2 DEF AnswerInv, AnswerTypeOK, Entries, Lists
<1>4. VisitedDescribed'
  BY <1>1 DEF AnswerInv, VisitedDescribed
<1>5. \A t \in Wanted' : \E i \in DOMAIN entries' : t \in entries'[i].types
  <2>1. CASE r = Whole
    BY <2>1, <1>1, SchemaEntriesType DEF AnswerInv, Wanted
  <2>2. CASE r # Whole
    BY <2>2, <1>1 DEF Wanted, TypeEntries, Entry
  <2> QED
    BY <2>1, <2>2
<1> QED
  BY <1>1, <1>3, <1>4, <1>5 DEF NothingLost

\* Whether a type is described or referred to, it is visited after that, and
\* described once.
LEMMA DescribeOrRefer ==
  ASSUME AnswerInv, NEW t \in Types, NEW calling \in Seq(Seq(SUBSET Types)),
         Describe(t, calling) \/ Refer(t, calling)
  PROVE  /\ building' \in Seq(Seq(SUBSET Types))
         /\ visited' = visited \cup {t}
         /\ described' \in Seq(Types)
         /\ VisitedDescribed'
<1>1. described \in Seq(Types) /\ visited \subseteq Types /\ schema \in Schemas
  BY DEF AnswerInv, AnswerTypeOK, IndInv, TypeOK
<1>2. CASE Refer(t, calling)
  BY <1>1, <1>2 DEF Refer, AnswerInv, VisitedDescribed
<1>3. CASE Describe(t, calling)
  <2>1. /\ t \notin visited /\ visited' = visited \cup {t}
        /\ described' = Append(described, t)
        /\ building' = Append(calling, Description(t))
    BY <1>3 DEF Describe, Marked
  <2>2. building' \in Seq(Seq(SUBSET Types))
    BY <1>1, <2>1, DescriptionType
  <2>3. /\ described' \in Seq(Types) /\ Len(described) \in Nat
        /\ DOMAIN described = 1..Len(described)
        /\ DOMAIN described' = 1..(Len(described) + 1)
        /\ described'[Len(described) + 1] = t
        /\ \A i \in 1..Len(described) : described'[i] = described[i]
    BY <1>1, <2>1
  <2>4. \A i \in DOMAIN described : described[i] \in visited
    BY DEF AnswerInv, VisitedDescribed, Range
  <2>5. \A i, j \in DOMAIN described' : described'[i] = described'[j] => i = j
    <3> SUFFICES ASSUME NEW i \in DOMAIN described', NEW j \in DOMAIN described',
                        described'[i] = described'[j]
                 PROVE  i = j
      OBVIOUS
    <3>1. CASE i \in 1..Len(described) /\ j \in 1..Len(described)
      BY <3>1, <2>3 DEF AnswerInv, VisitedDescribed
    <3>2. CASE i \notin 1..Len(described) \/ j \notin 1..Len(described)
      BY <3>2, <2>1, <2>3, <2>4
    <3> QED
      BY <3>1, <3>2
  <2>6. visited' = Range(described')
    <3>1. \A x : x \in Range(described') <=> \E i \in 1..(Len(described) + 1) : x = described'[i]
      BY <2>3 DEF Range
    <3>2. \A x : x \in visited <=> \E i \in 1..Len(described) : x = described[i]
      BY <2>3 DEF AnswerInv, VisitedDescribed, Range
    <3>3. \A x : x \in Range(described') <=> x \in visited \/ x = t
      BY <3>1, <3>2, <2>3
    <3> QED
      BY <3>3, <2>1
  <2> QED
    BY <2>1, <2>2, <2>3, <2>5, <2>6 DEF VisitedDescribed
<1> QED
  BY <1>2, <1>3

\* What is wanted stays wanted while the map does.
LEMMA SameWanted ==
  ASSUME UNCHANGED vars, request' = request
  PROVE  Wanted' = Wanted /\ pc' = pc
BY DEF vars, Wanted, Kept

LEMMA BuildEntryStep ==
  ASSUME AnswerInv, NEW t \in Types, BuildEntry(t), UNCHANGED vars
  PROVE  AnswerTypeOK' /\ VisitedDescribed' /\ NothingLost'
<1>1. /\ entries # << >> /\ t \in Head(entries).types
      /\ Describe(t, << >>) \/ Refer(t, << >>)
      /\ entries' = [entries EXCEPT ![1].types = @ \ {t}]
      /\ references' \subseteq references \cup {t}
      /\ request' = request
  BY DEF BuildEntry
<1>2. /\ building' \in Seq(Seq(SUBSET Types)) /\ visited' = visited \cup {t}
      /\ described' \in Seq(Types) /\ VisitedDescribed'
  <2>1. << >> \in Seq(Seq(SUBSET Types))
    OBVIOUS
  <2> QED
    BY <1>1, <2>1, DescribeOrRefer
<1>3. entries \in Seq(Entries)
  BY DEF AnswerInv, AnswerTypeOK, Entries, Lists
<1>4. /\ entries' \in Seq(Entries) /\ DOMAIN entries' = DOMAIN entries
      /\ \A i \in DOMAIN entries : \A u : u \in entries[i].types => u = t \/ u \in entries'[i].types
  <2>1. 1 \in DOMAIN entries /\ entries[1] \in Entries
    BY <1>1, <1>3
  <2>2. [entries[1] EXCEPT !.types = @ \ {t}] \in Entries
    BY <2>1 DEF Entries
  <2>3. entries' = [entries EXCEPT ![1] = [entries[1] EXCEPT !.types = @ \ {t}]]
    BY <1>1
  <2>4. entries'[1].types = entries[1].types \ {t}
    BY <2>1, <2>3, <1>3 DEF Entries
  <2> QED
    BY <1>3, <2>1, <2>2, <2>3, <2>4
<1>5. AnswerTypeOK'
  BY <1>1, <1>2, <1>4 DEF AnswerInv, AnswerTypeOK, Entries, Lists
<1>6. NothingLost'
  BY <1>1, <1>2, <1>4, SameWanted DEF AnswerInv, NothingLost
<1> QED
  BY <1>2, <1>5, <1>6

LEMMA EndEntryStep ==
  ASSUME AnswerInv, EndEntry, UNCHANGED vars
  PROVE  AnswerTypeOK' /\ VisitedDescribed' /\ NothingLost'
<1>1. /\ entries # << >> /\ Head(entries).types = {} /\ entries' = Tail(entries)
      /\ UNCHANGED <<request, building, visited, described, references>>
  BY DEF EndEntry
<1>2. entries \in Seq(Entries)
  BY DEF AnswerInv, AnswerTypeOK, Entries, Lists
<1>3. /\ entries' \in Seq(Entries)
      /\ entries[1].types = {}
      /\ \A i \in DOMAIN entries : i # 1 => i - 1 \in DOMAIN entries' /\ entries'[i - 1] = entries[i]
  BY <1>1, <1>2
<1>4. AnswerTypeOK' /\ VisitedDescribed'
  BY <1>1, <1>3 DEF AnswerInv, AnswerTypeOK, VisitedDescribed, Entries, Lists
<1>5. \A t : (\E i \in DOMAIN entries : t \in entries[i].types)
               => \E i \in DOMAIN entries' : t \in entries'[i].types
  BY <1>3
<1>6. NothingLost'
  BY <1>1, <1>5, SameWanted DEF AnswerInv, NothingLost
<1> QED
  BY <1>4, <1>6

LEMMA BuildMemberStep ==
  ASSUME AnswerInv, NEW t \in Types, BuildMember(t), UNCHANGED vars
  PROVE  AnswerTypeOK' /\ VisitedDescribed' /\ NothingLost'
<1>1. /\ building # << >>
      /\ Describe(t, Passed(t)) \/ Refer(t, Passed(t))
      /\ UNCHANGED <<request, entries, references>>
  BY DEF BuildMember
<1>2. Passed(t) \in Seq(Seq(SUBSET Types))
  <2>1. building \in Seq(Seq(SUBSET Types)) /\ Len(building) \in DOMAIN building
    BY <1>1 DEF AnswerInv, AnswerTypeOK
  <2>2. Innermost \in Seq(SUBSET Types)
    BY <2>1 DEF Innermost
  <2>3. [i \in DOMAIN Innermost |-> Innermost[i] \ {t}] \in Seq(SUBSET Types)
    BY <2>2
  <2> QED
    BY <2>1, <2>3 DEF Passed
<1>3. /\ building' \in Seq(Seq(SUBSET Types)) /\ visited' = visited \cup {t}
      /\ described' \in Seq(Types) /\ VisitedDescribed'
  BY <1>1, <1>2, DescribeOrRefer
<1>4. AnswerTypeOK'
  BY <1>1, <1>3 DEF AnswerInv, AnswerTypeOK
<1>5. NothingLost'
  BY <1>1, <1>3, SameWanted DEF AnswerInv, NothingLost
<1> QED
  BY <1>3, <1>4, <1>5

LEMMA EndDescriptionStep ==
  ASSUME AnswerInv, EndDescription, UNCHANGED vars
  PROVE  AnswerTypeOK' /\ VisitedDescribed' /\ NothingLost'
<1>1. /\ building # << >> /\ building' = SubSeq(building, 1, Len(building) - 1)
      /\ UNCHANGED <<request, entries, visited, described, references>>
  BY DEF EndDescription
<1>2. building' \in Seq(Seq(SUBSET Types))
  BY <1>1 DEF AnswerInv, AnswerTypeOK
<1>3. AnswerTypeOK' /\ VisitedDescribed'
  BY <1>1, <1>2 DEF AnswerInv, AnswerTypeOK, VisitedDescribed
<1>4. NothingLost'
  BY <1>1, SameWanted DEF AnswerInv, NothingLost
<1> QED
  BY <1>3, <1>4

\* NewSchema does nothing more once it is done, so that the map an answer is
\* built from does not change.
LEMMA DoneStays ==
  ASSUME IndInv, pc = "done" PROVE ~Next
BY DEF IndInv, Next, Skip, Collect, Return, AddBuiltIns, BuildImplementations

LEMMA AnswerStep == AnswerInv /\ [AskedNext]_<<vars, answerVars>> => AnswerInv'
<1> SUFFICES ASSUME AnswerInv, [AskedNext]_<<vars, answerVars>> PROVE AnswerInv'
  OBVIOUS
<1>1. IndInv'
  BY StepInv DEF AnswerInv, AskedNext, Work
<1>2. CASE Next /\ UNCHANGED answerVars
  <2>1. request = NoRequest \/ ~NothingLost \/ pc # "done"
    BY <1>2, DoneStays DEF AnswerInv, NothingLost
  <2>2. request = NoRequest
    BY <1>2, DoneStays DEF AnswerInv, NothingLost
  <2> QED
    BY <1>1, <1>2, <2>2 DEF answerVars, AnswerInv, AnswerTypeOK, VisitedDescribed, NothingLost
<1>3. ASSUME NEW t \in Types, BuildEntry(t), UNCHANGED vars PROVE AnswerInv'
  BY <1>1, <1>3, BuildEntryStep DEF AnswerInv
<1>4. ASSUME NEW t \in Types, BuildMember(t), UNCHANGED vars PROVE AnswerInv'
  BY <1>1, <1>4, BuildMemberStep DEF AnswerInv
<1>5. CASE EndEntry /\ UNCHANGED vars
  BY <1>1, <1>5, EndEntryStep DEF AnswerInv
<1>6. CASE EndDescription /\ UNCHANGED vars
  BY <1>1, <1>6, EndDescriptionStep DEF AnswerInv
<1>7. ASSUME NEW r \in Requests, Ask(r), UNCHANGED vars PROVE AnswerInv'
  BY <1>1, <1>7, AskStep DEF AnswerInv
<1>8. CASE UNCHANGED <<vars, answerVars>>
  BY <1>1, <1>8, SameWanted DEF answerVars, AnswerInv, AnswerTypeOK, VisitedDescribed, NothingLost
<1> QED
  BY <1>2, <1>3, <1>4, <1>5, <1>6, <1>7, <1>8 DEF AskedNext, Work, Build

LEMMA AnswerInit == AskedInit => AnswerInv
<1> SUFFICES ASSUME AskedInit PROVE AnswerInv
  OBVIOUS
<1>1. IndInv
  BY InitInv DEF AskedInit
<1>2. /\ request = NoRequest /\ entries = << >> /\ building = << >>
      /\ visited = {} /\ described = << >> /\ references = {}
  BY DEF AskedInit, InitAnswer
<1> QED
  BY <1>1, <1>2 DEF AnswerInv, AnswerTypeOK, VisitedDescribed, NothingLost, Range

\* The strengthened invariant: what a builder has visited it has described, and
\* what is wanted is described or in an entry to come (executor.go:676-728).
THEOREM AnswerInductive == AskedSpec => []AnswerInv
BY AnswerInit, AnswerStep, PTL DEF AskedSpec

\* Every variable of an answer stays in its range (executor.go:676-728).
THEOREM AnswerTypeCorrect == AskedSpec => []AnswerTypeOK
<1>1. AnswerInv => AnswerTypeOK
  BY DEF AnswerInv
<1> QED
  BY AnswerInductive, <1>1, PTL

\* For any schema, with cycles and shared names, and any request: no type is
\* described twice, and a complete answer has described each type of the map,
\* or the one it was asked for (executor.go:676-678, 777-789).
THEOREM EachDescribedOnce == AskedSpec => []DescribesOnce
<1>1. AnswerInv => DescribesOnce
  BY DEF AnswerInv, VisitedDescribed, NothingLost, DescribesOnce, Complete
<1> QED
  BY AnswerInductive, <1>1, PTL

----------------------------------------------------------------------------
(* What the members of a set of types lead to: the least set that has them *)
(* and is closed under members.                                            *)

\* f goes from S a step further with each number up to n.
IsLed(f, s, S, n) ==
  \A k \in 0..n : f[k] = IF k = 0 THEN S ELSE WithMembers(s, f[k - 1])

LEMMA WithMembersType ==
  ASSUME NEW s \in Schemas, NEW S \in SUBSET Types
  PROVE  WithMembers(s, S) \in SUBSET Types /\ S \subseteq WithMembers(s, S)
<1>1. ASSUME NEW t \in Types PROVE Pending(Members[s][t]) \subseteq Types
  <2>1. Members[s][t] \in Seq(SUBSET Types)
    BY IntrospectionAssumption
  <2> QED
    BY <2>1 DEF Pending, Range
<1> QED
  BY <1>1 DEF WithMembers

LEMMA LedExists ==
  ASSUME NEW s \in Schemas, NEW S \in SUBSET Types, NEW n \in Nat
  PROVE  \E f \in [0..n -> SUBSET Types] : IsLed(f, s, S, n)
<1> DEFINE Fails == {m \in Nat : ~\E f \in [0..m -> SUBSET Types] : IsLed(f, s, S, m)}
<1> SUFFICES Fails = {}
  OBVIOUS
<1> SUFFICES ASSUME Fails # {} PROVE FALSE
  OBVIOUS
<1>1. PICK m \in Fails : \A j \in Fails : m <= j
  <2>1. Fails \in SUBSET Nat
    OBVIOUS
  <2> HIDE DEF Fails
  <2> QED
    BY <2>1, FirstOf
<1>2. CASE m = 0
  <2> DEFINE f == [k \in 0..0 |-> S]
  <2>1. f \in [0..0 -> SUBSET Types] /\ IsLed(f, s, S, 0)
    BY DEF IsLed
  <2> HIDE DEF f
  <2> QED
    BY <1>1, <1>2, <2>1
<1>3. CASE m # 0
  <2>1. m \in Nat /\ m - 1 \in Nat /\ m - 1 \notin Fails
    BY <1>1, <1>3
  <2>2. PICK f \in [0..(m - 1) -> SUBSET Types] : IsLed(f, s, S, m - 1)
    BY <2>1
  <2> DEFINE g == [k \in 0..m |-> IF k = m THEN WithMembers(s, f[m - 1]) ELSE f[k]]
  <2>3. g \in [0..m -> SUBSET Types]
    BY <2>1, WithMembersType
  <2>4. ASSUME NEW k \in 0..m
        PROVE  g[k] = IF k = 0 THEN S ELSE WithMembers(s, g[k - 1])
    <3>1. CASE k = m
      BY <1>3, <2>1, <3>1
    <3>2. CASE k # m
      <4>1. k \in 0..(m - 1) /\ (k # 0 => k - 1 \in 0..m /\ k - 1 # m)
        BY <2>1, <3>2
      <4> QED
        BY <2>2, <3>2, <4>1 DEF IsLed
    <3> QED
      BY <3>1, <3>2
  <2> HIDE DEF g
  <2>5. IsLed(g, s, S, m)
    BY <2>4 DEF IsLed
  <2> QED
    BY <1>1, <2>3, <2>5
<1> QED
  BY <1>2, <1>3

LEMMA LedDefined ==
  ASSUME NEW s \in Schemas, NEW S \in SUBSET Types
  PROVE  \E f \in [0..Cardinality(Types) -> SUBSET Types] :
           /\ IsLed(f, s, S, Cardinality(Types))
           /\ LedTo(s, S) = f[Cardinality(Types)]
<1> DEFINE n == Cardinality(Types)
           Eq(f, k) == IF k = 0 THEN S ELSE WithMembers(s, f[k - 1])
           F == CHOOSE f : f = [k \in 0..n |-> Eq(f, k)]
<1>1. LedTo(s, S) = F[n]
  BY DEF LedTo
<1>2. n \in Nat
  BY IntrospectionAssumption, FS_CardinalityType
<1>3. PICK f \in [0..n -> SUBSET Types] : IsLed(f, s, S, n)
  BY <1>2, LedExists
<1>4. f = [k \in 0..n |-> Eq(f, k)]
  BY <1>3 DEF IsLed
<1> HIDE DEF Eq
<1>5. F = [k \in 0..n |-> Eq(F, k)]
  BY <1>4
<1>6. \A k \in 0..n : F[k] = Eq(F, k)
  BY <1>5
<1> HIDE DEF F
<1>7. IsLed(F, s, S, n)
  BY <1>6 DEF IsLed, Eq
<1>8. F \in [0..n -> SUBSET Types]
  <2> DEFINE Fails == {k \in 0..n : F[k] \notin SUBSET Types}
  <2> SUFFICES ASSUME Fails # {} PROVE FALSE
    BY <1>5
  <2>1. PICK k \in Fails : \A j \in Fails : k <= j
    <3>1. Fails \in SUBSET Nat
      BY <1>2
    <3> HIDE DEF Fails
    <3> QED
      BY <3>1, FirstOf
  <2>2. k \in 0..n /\ k \in Nat /\ F[k] \notin SUBSET Types
    BY <2>1
  <2>3. k # 0 => k - 1 \in 0..n /\ F[k - 1] \in SUBSET Types
    BY <1>2, <2>1, <2>2
  <2> QED
    BY <1>7, <2>2, <2>3, WithMembersType DEF IsLed
<1> QED
  BY <1>1, <1>7, <1>8

\* Whatever has the set and is closed under members has all that it leads to.
LEMMA LedToLeast ==
  ASSUME NEW s \in Schemas, NEW S \in SUBSET Types,
         NEW C \in SUBSET Types, S \subseteq C, WithMembers(s, C) \subseteq C
  PROVE  LedTo(s, S) \subseteq C
<1> DEFINE n == Cardinality(Types)
<1>1. PICK f \in [0..n -> SUBSET Types] : IsLed(f, s, S, n) /\ LedTo(s, S) = f[n]
  BY LedDefined
<1>2. n \in Nat
  BY IntrospectionAssumption, FS_CardinalityType
<1> HIDE DEF n
<1> DEFINE Fails == {k \in 0..n : ~(f[k] \subseteq C)}
<1> SUFFICES ASSUME Fails # {} PROVE FALSE
  BY <1>1, <1>2
<1>3. PICK k \in Fails : \A j \in Fails : k <= j
  <2>1. Fails \in SUBSET Nat
    BY <1>2
  <2> HIDE DEF Fails
  <2> QED
    BY <2>1, FirstOf
<1>4. k \in 0..n /\ k \in Nat /\ ~(f[k] \subseteq C)
  BY <1>3
<1>5. k # 0
  BY <1>1, <1>4 DEF IsLed
<1>6. k - 1 \in 0..n /\ f[k - 1] \subseteq C
  BY <1>2, <1>3, <1>4, <1>5
<1>7. f[k] = WithMembers(s, f[k - 1])
  BY <1>1, <1>4, <1>5 DEF IsLed
<1> QED
  BY <1>4, <1>6, <1>7 DEF WithMembers

\* As long as it is not closed, each step adds a type: the number of all types
\* is steps enough.
LEMMA LedToClosed ==
  ASSUME NEW s \in Schemas, NEW S \in SUBSET Types
  PROVE  /\ LedTo(s, S) \in SUBSET Types
         /\ S \subseteq LedTo(s, S)
         /\ WithMembers(s, LedTo(s, S)) \subseteq LedTo(s, S)
<1> DEFINE n == Cardinality(Types)
<1>1. PICK f \in [0..n -> SUBSET Types] : IsLed(f, s, S, n) /\ LedTo(s, S) = f[n]
  BY LedDefined
<1>2. n \in Nat
  BY IntrospectionAssumption, FS_CardinalityType
<1>3. \A T \in SUBSET Types : /\ Cardinality(T) \in Nat
                              /\ Cardinality(T) <= n
                              /\ Cardinality(T) = n => T = Types
  BY IntrospectionAssumption, FS_Subset, FS_CardinalityType
<1>4. \A T \in SUBSET Types : \A U \in SUBSET T :
        Cardinality(U) <= Cardinality(T) /\ (Cardinality(U) = Cardinality(T) => U = T)
  BY IntrospectionAssumption, FS_Subset
<1> HIDE DEF n
<1> DEFINE Holds(k) == /\ S \subseteq f[k]
                       /\ WithMembers(s, f[k]) \subseteq f[k] \/ Cardinality(f[k]) >= k
           Fails == {k \in 0..n : ~Holds(k)}
<1>5. Fails = {}
  <2> SUFFICES ASSUME Fails # {} PROVE FALSE
    OBVIOUS
  <2>1. PICK k \in Fails : \A j \in Fails : k <= j
    <3>1. Fails \in SUBSET Nat
      BY <1>2
    <3> HIDE DEF Fails
    <3> QED
      BY <3>1, FirstOf
  <2>2. k \in 0..n /\ k \in Nat /\ ~Holds(k)
    BY <2>1
  <2>3. k # 0
    <3>1. f[0] = S /\ 0 \in 0..n
      BY <1>1, <1>2 DEF IsLed
    <3>2. Cardinality(f[0]) >= 0
      BY <1>3, <3>1
    <3> QED
      BY <2>2, <3>1, <3>2
  <2>4. k - 1 \in 0..n /\ Holds(k - 1)
    BY <1>2, <2>1, <2>2, <2>3
  <2> DEFINE T == f[k - 1]
             U == f[k]
  <2>5. U = WithMembers(s, T) /\ T \in SUBSET Types /\ U \in SUBSET Types /\ T \subseteq U
    BY <1>1, <2>2, <2>3, <2>4, WithMembersType DEF IsLed
  <2>6. S \subseteq U
    BY <2>4, <2>5
  <2>7. CASE U = T
    BY <2>2, <2>4, <2>5, <2>6, <2>7
  <2>8. CASE U # T
    <3>1. Cardinality(T) >= k - 1
      BY <2>4, <2>5, <2>8
    <3>2. /\ Cardinality(T) \in Nat /\ Cardinality(U) \in Nat
          /\ Cardinality(T) <= Cardinality(U) /\ Cardinality(T) # Cardinality(U)
      BY <1>3, <1>4, <2>5, <2>8
    <3>3. Cardinality(U) >= k
      BY <2>2, <3>1, <3>2
    <3> QED
      BY <2>2, <2>6, <3>3
  <2> QED
    BY <2>7, <2>8
<1>6. Holds(n)
  BY <1>2, <1>5
<1>7. Cardinality(f[n]) >= n => f[n] = Types
  BY <1>2, <1>3
<1> QED
  BY <1>1, <1>2, <1>6, <1>7, WithMembersType

LEMMA LedToGrows ==
  ASSUME NEW s \in Schemas, NEW T \in SUBSET Types, NEW S \in SUBSET T
  PROVE  LedTo(s, S) \subseteq LedTo(s, T)
BY LedToClosed, LedToLeast

----------------------------------------------------------------------------
(* The answer to __schema, entry by entry.                                 *)

\* The entries and what has been taken from them.
LEMMA EntriesFacts ==
  ASSUME AnswerInv, EntriesInOrder
  PROVE  /\ SchemaEntries \in Seq(Entries) /\ entries \in Seq(Entries)
         /\ Len(SchemaEntries) \in Nat /\ Len(entries) \in Nat
         /\ DOMAIN SchemaEntries = 1..Len(SchemaEntries)
         /\ Ended \in Nat /\ Ended + Len(entries) = Len(SchemaEntries)
         /\ \A i \in DOMAIN SchemaEntries : SchemaEntries[i].types \in SUBSET Types
         /\ Taken \in SUBSET Types
<1>1. SchemaEntries \in Seq(Entries)
  BY SchemaEntriesType DEF AnswerInv
<1>2. entries \in Seq(Entries)
  BY DEF AnswerInv, AnswerTypeOK, Entries, Lists
<1>3. \A i \in DOMAIN SchemaEntries : SchemaEntries[i].types \in SUBSET Types
  <2> SUFFICES ASSUME NEW i \in DOMAIN SchemaEntries PROVE SchemaEntries[i].types \in SUBSET Types
    OBVIOUS
  <2>1. SchemaEntries[i] \in Entries
    BY <1>1
  <2> QED
    BY <2>1 DEF Entries
<1>4. Ended \in Nat /\ Ended + Len(entries) = Len(SchemaEntries)
  BY <1>1, <1>2 DEF Ended, EntriesInOrder
<1>5. Taken \in SUBSET Types
  BY <1>3 DEF Taken, TakenFrom
<1> QED
  BY <1>1, <1>2, <1>3, <1>4, <1>5

\* The types V are visited and B to be visited, of what T leads to, and nothing
\* that V leads to is forgotten.
Between(s, T, V, B) ==
  V \cup B \subseteq LedTo(s, T) /\ WithMembers(s, V) \subseteq V \cup B

\* To visit t leaves D of B to be visited: no more where t was visited before,
\* and its members too where it was not.
Leaves(s, t, V, B, D) ==
  /\ B \subseteq D \cup {t}
  /\ \/ t \in V /\ D \subseteq B
     \/ Pending(Members[s][t]) \subseteq D /\ D \subseteq B \cup Pending(Members[s][t])

LEMMA Visits ==
  ASSUME NEW s \in Schemas, NEW T \in SUBSET Types, NEW U \in SUBSET T, NEW t \in LedTo(s, T),
         NEW V, NEW B, NEW D, Between(s, U, V, B), Leaves(s, t, V, B, D)
  PROVE  Between(s, T, V \cup {t}, D)
<1>0. /\ V \cup B \subseteq LedTo(s, U) /\ WithMembers(s, V) \subseteq V \cup B
      /\ B \subseteq D \cup {t}
      /\ \/ t \in V /\ D \subseteq B
         \/ Pending(Members[s][t]) \subseteq D /\ D \subseteq B \cup Pending(Members[s][t])
  BY DEF Between, Leaves
<1>1. V \cup B \subseteq LedTo(s, T)
  BY <1>0, LedToGrows
<1>2. Pending(Members[s][t]) \subseteq LedTo(s, T)
  BY LedToClosed DEF WithMembers
<1>3. \A u \in V : Pending(Members[s][u]) \subseteq V \cup B
  BY <1>0 DEF WithMembers
<1>4. Pending(Members[s][t]) \subseteq V \cup B \/ Pending(Members[s][t]) \subseteq D
  BY <1>0, <1>3
<1>5. V \cup B \subseteq V \cup {t} \cup D
  BY <1>0
<1>6. \A u \in V \cup {t} : Pending(Members[s][u]) \subseteq V \cup {t} \cup D
  BY <1>3, <1>4, <1>5
<1> QED
  BY <1>0, <1>1, <1>2, <1>6 DEF Between, WithMembers

\* What is to be visited once t is described or referred to.
LEMMA BuildingAfter ==
  ASSUME AnswerInv, NEW t \in Types, NEW calling \in Seq(Seq(SUBSET Types)),
         Describe(t, calling) \/ Refer(t, calling)
  PROVE  \/ t \in visited /\ Building' = ToVisit(calling)
         \/ Building' = ToVisit(calling) \cup Pending(Members[schema][t])
<1>1. CASE Refer(t, calling)
  BY <1>1 DEF Refer, Building
<1>2. CASE Describe(t, calling)
  <2>1. building' = Append(calling, Members[schema][t])
    BY <1>2 DEF Describe, Description
  <2>2. /\ DOMAIN building' = (DOMAIN calling) \cup {Len(calling) + 1}
        /\ building'[Len(calling) + 1] = Members[schema][t]
        /\ \A j \in DOMAIN calling : building'[j] = calling[j]
    BY <2>1
  <2>3. ASSUME NEW u
        PROVE  u \in Building' <=> u \in ToVisit(calling) \/ u \in Pending(Members[schema][t])
    <3>1. u \in Building' <=> \E j \in DOMAIN building' : u \in Pending(building'[j])
      BY DEF Building, ToVisit
    <3>2. u \in ToVisit(calling) <=> \E j \in DOMAIN calling : u \in Pending(calling[j])
      BY DEF ToVisit
    <3> QED
      BY <2>2, <3>1, <3>2
  <2> QED
    BY <2>3
<1> QED
  BY <1>1, <1>2

LEMMA WholeAsk ==
  ASSUME AnswerInv, WholeInv, NEW r \in Requests, Ask(r), UNCHANGED vars
  PROVE  WholeInv'
<1>1. /\ request = NoRequest /\ request' = r
      /\ entries' = IF r = Whole THEN SchemaEntries ELSE TypeEntries(r)
      /\ building' = << >> /\ visited' = {} /\ references' = {}
      /\ schema' = schema /\ schema \in Schemas /\ typeMap' = typeMap
      /\ SchemaEntries' = SchemaEntries
  BY DEF Ask, WholeInv, vars, SchemaEntries, AnswerInv, IndInv, TypeOK
<1>2. r # NoRequest
  BY IntrospectionAssumption
<1>3. ASSUME r = Whole PROVE EntriesInOrder' /\ VisitedLedTo' /\ ReferencesSoFar'
  <2>1. entries' = SchemaEntries /\ Ended' = 0
    <3>1. SchemaEntries \in Seq(Entries)
      BY SchemaEntriesType DEF AnswerInv
    <3> QED
      BY <1>1, <1>3, <3>1 DEF Ended
  <2>2. /\ SchemaEntries \in Seq(Entries)
        /\ DOMAIN SchemaEntries = 1..Len(SchemaEntries) /\ Len(SchemaEntries) \in Nat
        /\ \A i \in DOMAIN SortedNames : i \in DOMAIN SchemaEntries
    BY SchemaEntriesType DEF AnswerInv
  <2>3. EntriesInOrder'
    BY <1>1, <2>1, <2>2 DEF EntriesInOrder
  <2>4. \A i \in DOMAIN SchemaEntries : TakenFrom(i)' = {}
    BY <1>1, <2>1, <2>2 DEF TakenFrom
  <2>5. Taken' = {}
    BY <1>1, <2>4 DEF Taken
  <2>6. Building' = {}
    BY <1>1 DEF Building, ToVisit
  <2>7. VisitedLedTo'
    BY <1>1, <2>5, <2>6 DEF VisitedLedTo, WithMembers
  <2>8. ReferencesSoFar'
    BY <1>1, <2>2, <2>4 DEF ReferencesSoFar
  <2> QED
    BY <2>3, <2>7, <2>8
<1> QED
  BY <1>1, <1>2, <1>3 DEF WholeInv

\* What of WholeInv is about the answer to __schema.
Answering == request = Whole /\ EntriesInOrder /\ VisitedLedTo /\ ReferencesSoFar

\* Where an entry for a name begins, exactly what the types of the entries
\* before it lead to is visited.
LEMMA VisitedAtEntry ==
  ASSUME AnswerInv, EntriesInOrder, VisitedLedTo, building = << >>,
         NEW t \in entries[1].types, entries # << >>,
         Ended + 1 \in DOMAIN SortedNames
  PROVE  visited = LedTo(schema, TypesBefore(Ended + 1))
<1> DEFINE p == Ended + 1
<1>1. /\ p \in DOMAIN SchemaEntries /\ p \in Nat /\ Ended \in Nat
      /\ DOMAIN SchemaEntries = 1..Len(SchemaEntries)
      /\ schema \in Schemas /\ visited \subseteq Types /\ Taken \in SUBSET Types
  BY EntriesFacts DEF AnswerInv, AnswerTypeOK, IndInv, TypeOK
<1>2. entries[1].types \subseteq SchemaEntries[p].types
  BY EntriesFacts DEF EntriesInOrder
<1>3. SchemaEntries[p].types = typeMap[SortedNames[p]]
  BY SchemaEntriesType DEF AnswerInv
<1>4. \A u \in SchemaEntries[p].types : u = t
  <2>1. SortedNames[p] \in Names
    BY IntrospectionAssumption
  <2> QED
    BY <1>2, <1>3, <2>1 DEF AnswerInv, IndInv, TypeOK
<1>5. TakenFrom(p) = {}
  BY <1>1, <1>4 DEF TakenFrom
<1>6. Taken = TypesBefore(p)
  <2>1. \A i \in DOMAIN SchemaEntries : i < p => TakenFrom(i) = SchemaEntries[i].types
    BY <1>1 DEF TakenFrom
  <2>2. \A i \in DOMAIN SchemaEntries : i > p => TakenFrom(i) = {}
    BY <1>1 DEF TakenFrom
  <2>3. \A i \in 1..(p - 1) : i \in DOMAIN SchemaEntries /\ i < p
    BY <1>1
  <2>4. \A i \in DOMAIN SchemaEntries : i < p => i \in 1..(p - 1)
    BY <1>1
  <2>5. Taken \subseteq TypesBefore(p)
    BY <1>1, <1>5, <2>1, <2>2, <2>4 DEF Taken, TypesBefore
  <2>6. TypesBefore(p) \subseteq Taken
    BY <2>1, <2>3 DEF Taken, TypesBefore
  <2> QED
    BY <2>5, <2>6
<1>7. Building = {}
  BY DEF Building, ToVisit
<1>8. WithMembers(schema, visited) \subseteq visited /\ Taken \subseteq visited
      /\ visited \subseteq LedTo(schema, Taken)
  BY <1>7 DEF VisitedLedTo
<1>9. LedTo(schema, Taken) \subseteq visited
  BY <1>1, <1>8, LedToLeast
<1> QED
  BY <1>6, <1>8, <1>9

LEMMA WholeBuildEntry ==
  ASSUME AnswerInv, Answering, NEW t \in Types, BuildEntry(t), UNCHANGED vars
  PROVE  Answering'
<1>0. PICK p : p = Ended + 1
  OBVIOUS
<1>1. /\ building = << >> /\ entries # << >> /\ t \in entries[1].types
      /\ Describe(t, << >>) \/ Refer(t, << >>)
      /\ entries' = [entries EXCEPT ![1].types = @ \ {t}]
      /\ references' = IF entries[1].list = "types" /\ t \in visited
                       THEN references \cup {t} ELSE references
      /\ request' = request
      /\ EntriesInOrder /\ VisitedLedTo /\ ReferencesSoFar
  BY EntriesFacts DEF BuildEntry, Answering
<1>2. /\ schema' = schema /\ schema \in Schemas /\ typeMap' = typeMap
      /\ SchemaEntries' = SchemaEntries
      /\ \A i : TypesBefore(i)' = TypesBefore(i)
  BY DEF vars, SchemaEntries, AnswerInv, IndInv, TypeOK, TypesBefore
<1>3. /\ entries \in Seq(Entries) /\ SchemaEntries \in Seq(Entries)
      /\ Len(entries) \in Nat /\ Len(SchemaEntries) \in Nat /\ 1 \in DOMAIN entries
      /\ DOMAIN SchemaEntries = 1..Len(SchemaEntries)
      /\ Ended \in Nat /\ Ended + Len(entries) = Len(SchemaEntries)
      /\ p \in DOMAIN SchemaEntries /\ p \in Nat
      /\ Taken \in SUBSET Types
  BY <1>0, <1>1, EntriesFacts
<1>4. /\ DOMAIN entries' = DOMAIN entries /\ Len(entries') = Len(entries)
      /\ entries'[1].types = entries[1].types \ {t}
      /\ entries'[1].list = entries[1].list
      /\ \A k \in DOMAIN entries : k # 1 => entries'[k] = entries[k]
  <2>1. entries[1] \in Entries
    BY <1>3
  <2>2. entries' = [entries EXCEPT ![1] = [entries[1] EXCEPT !.types = @ \ {t}]]
    BY <1>1
  <2> QED
    BY <1>3, <2>1, <2>2 DEF Entries
<1>5. Ended' = Ended
  BY <1>2, <1>4 DEF Ended
<1>6. EntriesInOrder'
  BY <1>1, <1>2, <1>4, <1>5 DEF EntriesInOrder
<1>7. t \in SchemaEntries[p].types
  BY <1>0, <1>1, <1>3 DEF EntriesInOrder
<1>8. /\ TakenFrom(p)' = TakenFrom(p) \cup {t} /\ t \notin TakenFrom(p)
      /\ \A i \in DOMAIN SchemaEntries : i # p => TakenFrom(i)' = TakenFrom(i)
  <2>1. /\ TakenFrom(p) = SchemaEntries[p].types \ entries[1].types
        /\ TakenFrom(p)' = SchemaEntries[p].types \ entries'[1].types
    BY <1>0, <1>2, <1>3, <1>5 DEF TakenFrom
  <2>2. \A i \in DOMAIN SchemaEntries : i # p => TakenFrom(i)' = TakenFrom(i)
    BY <1>0, <1>2, <1>3, <1>5 DEF TakenFrom
  <2> QED
    BY <1>1, <1>4, <1>7, <2>1, <2>2
<1>9. Taken' = Taken \cup {t}
  <2> DEFINE SE == SchemaEntries
  <2>1. Taken' = UNION {TakenFrom(i)' : i \in DOMAIN SE}
    BY <1>2 DEF Taken
  <2>2. Taken = UNION {TakenFrom(i) : i \in DOMAIN SE}
    BY DEF Taken
  <2>3. ASSUME NEW u PROVE u \in Taken' <=> u \in Taken \cup {t}
    <3>1. u \in Taken' <=> \E i \in DOMAIN SE : u \in TakenFrom(i)'
      BY <2>1
    <3>2. u \in Taken <=> \E i \in DOMAIN SE : u \in TakenFrom(i)
      BY <2>2
    <3> QED
      BY <1>3, <1>8, <3>1, <3>2
  <2> QED
    BY <2>3
<1>10. VisitedLedTo'
  <2>1. Building = {}
    BY <1>1 DEF Building, ToVisit
  <2>2. /\ visited' = visited \cup {t}
        /\ (t \in visited /\ Building' = {}) \/ Building' = Pending(Members[schema][t])
    <3>1. << >> \in Seq(Seq(SUBSET Types)) /\ ToVisit(<< >>) = {}
      BY DEF ToVisit
    <3>2. visited' = visited \cup {t}
      BY <1>1, <3>1, DescribeOrRefer
    <3>3. \/ t \in visited /\ Building' = ToVisit(<< >>)
          \/ Building' = ToVisit(<< >>) \cup Pending(Members[schema][t])
      BY <1>1, <3>1, BuildingAfter
    <3> QED
      BY <3>1, <3>2, <3>3
  <2>3. Taken' \in SUBSET Types /\ Taken \in SUBSET Taken' /\ t \in LedTo(schema, Taken')
    BY <1>2, <1>3, <1>9, LedToClosed
  <2>4. Between(schema, Taken, visited, {})
    BY <1>1, <2>1 DEF VisitedLedTo, Between
  <2>5. Leaves(schema, t, visited, {}, Building')
    BY <2>2 DEF Leaves
  <2>6. Between(schema, Taken', visited \cup {t}, Building')
    BY <1>2, <2>3, <2>4, <2>5, Visits
  <2> QED
    BY <1>1, <1>2, <1>9, <2>2, <2>6 DEF VisitedLedTo, Between
<1>11. ReferencesSoFar'
  <2> SUFFICES ASSUME NEW i \in DOMAIN SortedNames, NEW u \in typeMap[SortedNames[i]]
               PROVE  u \in references' <=>
                        u \in TakenFrom(i)' /\ u \in LedTo(schema, TypesBefore(i))
    BY <1>2 DEF ReferencesSoFar
  <2>1. u \in references <=> u \in TakenFrom(i) /\ u \in LedTo(schema, TypesBefore(i))
    BY <1>1 DEF ReferencesSoFar
  <2>2. i \in DOMAIN SchemaEntries
    BY SchemaEntriesType DEF AnswerInv
  <2>3. entries[1].list = "types" <=> p \in DOMAIN SortedNames
    <3>1. entries[1].list = SchemaEntries[p].list
      BY <1>0, <1>1, <1>3 DEF EntriesInOrder
    <3> QED
      BY <1>3, <3>1, SchemaEntriesType DEF AnswerInv
  <2>4. CASE i = p
    <3>1. p \in DOMAIN SortedNames
      BY <2>4
    <3>2. u = t
      <4>1. t \in typeMap[SortedNames[p]] /\ SortedNames[p] \in Names
        BY <1>7, <3>1, SchemaEntriesType, IntrospectionAssumption DEF AnswerInv
      <4> QED
        BY <2>4, <4>1 DEF AnswerInv, IndInv, TypeOK
    <3>3. visited = LedTo(schema, TypesBefore(p))
      BY <1>0, <1>1, <3>1, VisitedAtEntry
    <3> QED
      BY <1>1, <1>8, <2>1, <2>3, <2>4, <3>1, <3>2, <3>3
  <2>5. CASE i # p
    <3>1. p \in DOMAIN SortedNames => u # t
      <4> SUFFICES ASSUME p \in DOMAIN SortedNames, u = t PROVE FALSE
        OBVIOUS
      <4>1. t \in typeMap[SortedNames[p]]
        BY <1>7, SchemaEntriesType DEF AnswerInv
      <4>2. SortedNames[p] \in Names /\ SortedNames[i] \in Names
        BY IntrospectionAssumption
      <4>3. NameOf[t] = SortedNames[p] /\ NameOf[t] = SortedNames[i]
        BY <4>1, <4>2 DEF AnswerInv, IndInv, TypeOK
      <4> QED
        BY <2>5, <4>3, IntrospectionAssumption DEF IsInjective
    <3>2. TakenFrom(i)' = TakenFrom(i)
      BY <1>8, <2>2, <2>5
    <3> QED
      BY <1>1, <2>1, <2>3, <3>1, <3>2
  <2> QED
    BY <2>4, <2>5
<1> QED
  BY <1>1, <1>6, <1>10, <1>11 DEF Answering

LEMMA WholeEndEntry ==
  ASSUME AnswerInv, Answering, EndEntry, UNCHANGED vars
  PROVE  Answering'
<1>1. /\ entries # << >> /\ entries' = Tail(entries)
      /\ UNCHANGED <<request, building, visited, described, references>>
      /\ EntriesInOrder /\ VisitedLedTo /\ ReferencesSoFar
  BY DEF EndEntry, Answering
<1>2. /\ schema' = schema /\ typeMap' = typeMap /\ SchemaEntries' = SchemaEntries
      /\ \A i : TypesBefore(i)' = TypesBefore(i)
      /\ Building' = Building
  BY <1>1 DEF vars, SchemaEntries, TypesBefore, Building
<1>3. /\ entries \in Seq(Entries) /\ SchemaEntries \in Seq(Entries)
      /\ Len(entries) \in Nat /\ Len(SchemaEntries) \in Nat /\ 1 \in DOMAIN entries
      /\ DOMAIN SchemaEntries = 1..Len(SchemaEntries)
      /\ Ended \in Nat /\ Ended + Len(entries) = Len(SchemaEntries)
  BY <1>1, EntriesFacts
<1>4. /\ Len(entries') = Len(entries) - 1
      /\ \A k \in DOMAIN entries' : k + 1 \in DOMAIN entries /\ entries'[k] = entries[k + 1]
      /\ DOMAIN entries' = 1..(Len(entries) - 1)
      /\ entries[1].types = {}
  BY <1>1, <1>3 DEF EndEntry
<1>5. Ended' = Ended + 1
  BY <1>2, <1>3, <1>4 DEF Ended
<1>6. EntriesInOrder'
  <2> SUFFICES ASSUME NEW k \in DOMAIN entries'
               PROVE  entries'[k] = SchemaEntries[Ended + 1 + k]
    BY <1>2, <1>3, <1>4, <1>5 DEF EntriesInOrder
  <2>1. /\ k \in Nat /\ k + 1 # 1 /\ k + 1 \in DOMAIN entries
        /\ entries'[k] = entries[k + 1] /\ Ended + (k + 1) = Ended + 1 + k
    BY <1>3, <1>4
  <2>2. entries[k + 1] = SchemaEntries[Ended + (k + 1)]
    BY <1>1, <2>1 DEF EntriesInOrder
  <2> QED
    BY <2>1, <2>2
<1>7. ASSUME NEW i \in DOMAIN SchemaEntries PROVE TakenFrom(i)' = TakenFrom(i)
  <2>0. i \in Nat
    BY <1>3
  <2>1. CASE i <= Ended
    BY <1>2, <1>3, <1>5, <2>0, <2>1 DEF TakenFrom
  <2>2. CASE i = Ended + 1
    BY <1>2, <1>3, <1>4, <1>5, <2>2 DEF TakenFrom
  <2>3. CASE i = Ended + 2
    <3>1. 1 \in DOMAIN entries' /\ entries'[1] = SchemaEntries[Ended + 2]
      <4>1. 1 \in DOMAIN entries'
        BY <1>3, <1>4, <2>3
      <4>2. 2 \in DOMAIN entries /\ entries'[1] = entries[2]
        BY <1>4, <4>1
      <4> QED
        BY <1>1, <4>1, <4>2 DEF EntriesInOrder
    <3>2. TakenFrom(i)' = SchemaEntries[i].types \ entries'[1].types
      BY <1>2, <1>3, <1>5, <2>3 DEF TakenFrom
    <3>3. TakenFrom(i) = {}
      BY <1>3, <2>3 DEF TakenFrom
    <3> QED
      BY <2>3, <3>1, <3>2, <3>3
  <2>4. CASE i > Ended + 2
    BY <1>2, <1>3, <1>5, <2>0, <2>4 DEF TakenFrom
  <2> QED
    BY <1>3, <2>0, <2>1, <2>2, <2>3, <2>4
<1>8. Taken' = Taken
  BY <1>2, <1>7 DEF Taken
<1>9. VisitedLedTo'
  BY <1>1, <1>2, <1>8 DEF VisitedLedTo
<1>10. ReferencesSoFar'
  <2>1. \A i \in DOMAIN SortedNames : i \in DOMAIN SchemaEntries
    BY SchemaEntriesType DEF AnswerInv
  <2> QED
    BY <1>1, <1>2, <1>7, <2>1 DEF ReferencesSoFar
<1> QED
  BY <1>1, <1>6, <1>9, <1>10 DEF Answering

\* While the entries stay, so does what was taken from them.
LEMMA SameTaken ==
  ASSUME UNCHANGED <<vars, entries>>
  PROVE  /\ Taken' = Taken /\ SchemaEntries' = SchemaEntries
         /\ \A i : TakenFrom(i)' = TakenFrom(i) /\ TypesBefore(i)' = TypesBefore(i)
         /\ EntriesInOrder => EntriesInOrder'
<1>1. schema' = schema /\ typeMap' = typeMap /\ entries' = entries
  BY DEF vars
<1>2. SchemaEntries' = SchemaEntries
  BY <1>1 DEF SchemaEntries
<1>3. Ended' = Ended
  BY <1>1, <1>2 DEF Ended
<1>4. \A i : TakenFrom(i)' = TakenFrom(i) /\ TypesBefore(i)' = TypesBefore(i)
  BY <1>1, <1>2, <1>3 DEF TakenFrom, TypesBefore
<1>5. Taken' = Taken
  BY <1>2, <1>4 DEF Taken
<1> QED
  BY <1>1, <1>2, <1>3, <1>4, <1>5 DEF EntriesInOrder

LEMMA WholeBuildMember ==
  ASSUME AnswerInv, Answering, NEW t \in Types, BuildMember(t), UNCHANGED vars
  PROVE  Answering'
<1>1. /\ building # << >> /\ IsNextMember(t)
      /\ Describe(t, Passed(t)) \/ Refer(t, Passed(t))
      /\ UNCHANGED <<request, entries, references>>
      /\ EntriesInOrder /\ VisitedLedTo /\ ReferencesSoFar
  BY DEF BuildMember, Answering
<1>2. /\ schema' = schema /\ schema \in Schemas /\ typeMap' = typeMap
      /\ Taken' = Taken /\ Taken \in SUBSET Types
      /\ \A i : TakenFrom(i)' = TakenFrom(i) /\ TypesBefore(i)' = TypesBefore(i)
      /\ EntriesInOrder'
  BY <1>1, SameTaken, EntriesFacts DEF vars, AnswerInv, IndInv, TypeOK
<1> DEFINE n == Len(building)
           C == ToVisit(Passed(t))
<1>3. /\ building \in Seq(Seq(SUBSET Types)) /\ n \in DOMAIN building
      /\ Innermost = building[n] /\ Innermost \in Seq(SUBSET Types)
  BY <1>1 DEF AnswerInv, AnswerTypeOK, Innermost
<1> DEFINE stages == [i \in DOMAIN Innermost |-> Innermost[i] \ {t}]
<1>4. stages \in Seq(SUBSET Types) /\ Pending(stages) = Pending(Innermost) \ {t}
  <2>1. stages \in Seq(SUBSET Types) /\ DOMAIN stages = DOMAIN Innermost
    BY <1>3
  <2> QED
    BY <2>1 DEF Pending, Range
<1>5. /\ Passed(t) \in Seq(Seq(SUBSET Types)) /\ DOMAIN Passed(t) = DOMAIN building
      /\ Passed(t)[n] = stages
      /\ \A j \in DOMAIN building : j # n => Passed(t)[j] = building[j]
  <2> HIDE DEF n
  <2>1. Passed(t) = [building EXCEPT ![n] = stages]
    BY DEF Passed, n
  <2> HIDE DEF stages
  <2> QED
    BY <1>3, <1>4, <2>1
<1> HIDE DEF stages
<1>6. C \subseteq Building /\ Building \subseteq C \cup {t}
  <2> HIDE DEF n
  <2>1. \A j \in DOMAIN building :
          /\ Pending(Passed(t)[j]) \subseteq Pending(building[j])
          /\ Pending(building[j]) \subseteq Pending(Passed(t)[j]) \cup {t}
    BY <1>3, <1>4, <1>5
  <2> QED
    BY <1>5, <2>1 DEF Building, ToVisit
<1>7. t \in Building
  <2>1. t \in Pending(Innermost)
    BY <1>1 DEF IsNextMember, Pending, Range
  <2> HIDE DEF n
  <2> QED
    BY <1>3, <2>1 DEF Building, ToVisit
<1>8. visited' = visited \cup {t}
  BY <1>1, <1>5, DescribeOrRefer
<1>9. \/ t \in visited /\ Building' = C
      \/ Building' = C \cup Pending(Members[schema][t])
  BY <1>1, <1>5, BuildingAfter
<1> HIDE DEF C
<1>10. Between(schema, Taken, visited \cup {t}, Building')
  <2>1. Between(schema, Taken, visited, Building)
    BY <1>1 DEF VisitedLedTo, Between
  <2>2. Taken \in SUBSET Taken /\ t \in LedTo(schema, Taken)
    BY <1>7, <2>1 DEF Between
  <2>3. Leaves(schema, t, visited, Building, Building')
    BY <1>6, <1>9 DEF Leaves
  <2> QED
    BY <1>2, <2>1, <2>2, <2>3, Visits
<1>11. VisitedLedTo'
  BY <1>1, <1>2, <1>8, <1>10 DEF VisitedLedTo, Between
<1>12. ReferencesSoFar'
  BY <1>1, <1>2 DEF ReferencesSoFar
<1> QED
  BY <1>1, <1>2, <1>11, <1>12 DEF Answering

LEMMA WholeEndDescription ==
  ASSUME AnswerInv, Answering, EndDescription, UNCHANGED vars
  PROVE  Answering'
<1>1. /\ building # << >> /\ Pending(Innermost) = {}
      /\ building' = SubSeq(building, 1, Len(building) - 1)
      /\ UNCHANGED <<request, entries, visited, described, references>>
      /\ EntriesInOrder /\ VisitedLedTo /\ ReferencesSoFar
  BY DEF EndDescription, Answering
<1>2. /\ schema' = schema /\ typeMap' = typeMap /\ Taken' = Taken
      /\ \A i : TakenFrom(i)' = TakenFrom(i) /\ TypesBefore(i)' = TypesBefore(i)
      /\ EntriesInOrder'
  BY <1>1, SameTaken DEF vars
<1>3. Building' = Building
  <2>1. /\ building \in Seq(Seq(SUBSET Types)) /\ Len(building) \in Nat /\ Len(building) >= 1
    BY <1>1 DEF AnswerInv, AnswerTypeOK
  <2>2. /\ DOMAIN building' = 1..(Len(building) - 1)
        /\ DOMAIN building = 1..Len(building)
        /\ \A j \in 1..(Len(building) - 1) : building'[j] = building[j]
    BY <1>1, <2>1
  <2>3. \A j \in DOMAIN building : j \in DOMAIN building' \/ Pending(building[j]) = {}
    BY <1>1, <2>1, <2>2 DEF Innermost
  <2>4. \A j \in DOMAIN building' : j \in DOMAIN building /\ building'[j] = building[j]
    BY <2>1, <2>2
  <2>5. ASSUME NEW u PROVE u \in Building' <=> u \in Building
    <3>1. u \in Building' <=> \E j \in DOMAIN building' : u \in Pending(building'[j])
      BY DEF Building, ToVisit
    <3>2. u \in Building <=> \E j \in DOMAIN building : u \in Pending(building[j])
      BY DEF Building, ToVisit
    <3> QED
      BY <2>3, <2>4, <3>1, <3>2
  <2> QED
    BY <2>5
<1> QED
  BY <1>1, <1>2, <1>3 DEF Answering, VisitedLedTo, ReferencesSoFar

LEMMA WholeStep == AnswerInv /\ WholeInv /\ [AskedNext]_<<vars, answerVars>> => WholeInv'
<1> SUFFICES ASSUME AnswerInv, WholeInv, [AskedNext]_<<vars, answerVars>> PROVE WholeInv'
  OBVIOUS
<1>0. NoRequest # Whole
  BY IntrospectionAssumption
<1>1. CASE Next /\ UNCHANGED answerVars
  <2>1. request = NoRequest
    BY <1>1, DoneStays DEF AnswerInv, NothingLost
  <2> QED
    BY <1>0, <1>1, <2>1 DEF answerVars, WholeInv
<1>2. CASE Build /\ UNCHANGED vars
  <2>1. request # NoRequest /\ request' = request
    BY <1>2 DEF Build, BuildEntry, BuildMember, EndEntry, EndDescription, WholeInv
  <2>2. CASE request # Whole
    BY <2>1, <2>2 DEF WholeInv
  <2>3. CASE request = Whole
    <3>1. Answering
      BY <2>3 DEF WholeInv, Answering
    <3>2. Answering'
      BY <1>2, <3>1, WholeBuildEntry, WholeEndEntry, WholeBuildMember, WholeEndDescription
         DEF Build
    <3> QED
      BY <2>1, <3>2 DEF WholeInv, Answering
  <2> QED
    BY <2>2, <2>3
<1>3. ASSUME NEW r \in Requests, Ask(r), UNCHANGED vars PROVE WholeInv'
  BY <1>3, WholeAsk
<1>4. CASE UNCHANGED <<vars, answerVars>>
  <2>1. request' = request /\ UNCHANGED <<vars, entries>>
        /\ building' = building /\ visited' = visited /\ references' = references
        /\ schema' = schema /\ typeMap' = typeMap /\ Building' = Building
    BY <1>4 DEF answerVars, vars, Building
  <2> QED
    BY <2>1, SameTaken DEF WholeInv, VisitedLedTo, ReferencesSoFar
<1> QED
  BY <1>1, <1>2, <1>3, <1>4 DEF AskedNext, Work

\* The strengthened invariant of an answer to __schema: it works the entries off
\* in their order, and has visited what lies between the types taken and all
\* that they lead to (executor.go:676-728).
THEOREM WholeInductive == AskedSpec => []WholeInv
<1>1. AskedInit => WholeInv
  <2> SUFFICES ASSUME AskedInit PROVE WholeInv
    OBVIOUS
  <2>1. NoRequest # Whole
    BY IntrospectionAssumption
  <2> QED
    BY <2>1 DEF AskedInit, InitAnswer, WholeInv
<1> QED
  BY <1>1, AnswerInductive, WholeStep, PTL DEF AskedSpec

\* For any types, in cycles too, and any order of the maps: in a complete answer
\* to __schema the entry of a type in the list of types only refers to it if and
\* only if a type listed before leads to it (executor.go:692-702).
THEOREM RefersWhereReached == AskedSpec => []ReferencesReached
<1>1. AnswerInv /\ WholeInv => ReferencesReached
  <2> SUFFICES ASSUME AnswerInv, WholeInv, Complete, request = Whole,
                      NEW i \in DOMAIN SortedNames, NEW t \in typeMap[SortedNames[i]]
               PROVE  t \in references <=>
                        t \in LedTo(schema, UNION {typeMap[SortedNames[j]] : j \in 1..(i - 1)})
    BY DEF ReferencesReached
  <2>1. EntriesInOrder /\ ReferencesSoFar /\ entries = << >>
    BY DEF WholeInv, Complete
  <2>2. /\ i \in Nat /\ i \in DOMAIN SchemaEntries /\ SchemaEntries[i].types = typeMap[SortedNames[i]]
        /\ Ended = Len(SchemaEntries) /\ DOMAIN SchemaEntries = 1..Len(SchemaEntries)
    BY <2>1, EntriesFacts, SchemaEntriesType, IntrospectionAssumption DEF AnswerInv
  <2>3. t \in TakenFrom(i)
    BY <2>2 DEF TakenFrom
  <2>4. \A j \in 1..(i - 1) : SchemaEntries[j].types = typeMap[SortedNames[j]]
    <3>1. \A j \in 1..(i - 1) : j \in DOMAIN SortedNames
      BY <2>2, IntrospectionAssumption
    <3> QED
      BY <3>1, SchemaEntriesType DEF AnswerInv
  <2>5. TypesBefore(i) = UNION {typeMap[SortedNames[j]] : j \in 1..(i - 1)}
    BY <2>4 DEF TypesBefore
  <2> QED
    BY <2>1, <2>3, <2>5 DEF ReferencesSoFar
<1> QED
  BY <1>1, AnswerInductive, WholeInductive, PTL
====
