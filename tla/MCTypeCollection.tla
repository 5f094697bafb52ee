---- MODULE MCTypeCollection ----
(* An instance of SupergraphTypes for TLC: the schemas of two subgraphs with *)
(* objects, an interface, a union and an enum in common, and of their        *)
(* supergraphs.                                                              *)
EXTENDS SupergraphTypes, Introspection

CONSTANTS Root, User, Post, Node, Search, Role, String, Meta, p, q

AllNames == {Root, User, Post, Node, Search, Role, String}

Kinds ==
  [n \in AllNames |->
     CASE n \in {Root, User, Post} -> "object"
       [] n = Node -> "interface"
       [] n = Search -> "union"
       [] n = Role -> "enum"
       [] n = String -> "scalar"]

\* Fields p and q of a type.
F(a, b) == [f \in {p, q} |-> IF f = p THEN a ELSE b]

Types2(root, user, post, node, interfaces, members) ==
  [listed |-> [n \in AllNames |-> CASE n = Search -> members
                                    [] n = User -> interfaces
                                    [] OTHER -> << >>],
   fields |-> [n \in AllNames |-> CASE n = Root -> root
                                    [] n = User -> user
                                    [] n = Post -> post
                                    [] n = Node -> node
                                    [] OTHER -> F(None, None)]]

FirstSubgraphs ==
  {User, Search, Node} \X {None, Post} \X {String, User} \X {<< >>, <<Node>>}
First(s) == Types2(F(s[1], None), F(s[2], Role), F(String, None), F(s[3], None), s[4], <<User>>)

SecondSubgraphs ==
  {User, Search, Node} \X {String, Search} \X {User, None} \X {<<Post, User>>}
Second(s) == Types2(F(None, s[1]), F(s[2], None), F(None, s[3]), F(String, None), << >>, s[4])

\* The schemas: of a gateway, and of each of its subgraphs.
Gateways == FirstSubgraphs \X SecondSubgraphs
AllSchemas == Gateways \cup {<<a>> : a \in FirstSubgraphs}

\* The introspection types refer to scalars and to each other.
MetaType == <<Meta, Merged>>
MetaNames == AllNames \cup {Meta}
AllTypes == TypeObjects \cup {MetaType}
Shared == {<<String, Merged>>, MetaType}
NameOfType == [t \in AllTypes |-> t[1]]
AllObjects == {t \in TypeObjects : Kinds[t[1]] = "object"} \cup {MetaType}

WithIntrospection(g) ==
  [roots |-> g.roots,
   listed |-> [t \in AllTypes |-> IF t = MetaType THEN << >> ELSE g.listed[t]],
   fields |-> [t \in AllTypes |-> IF t = MetaType THEN Shared ELSE g.fields[t]]]

SubgraphsOf(s) == IF Len(s) = 2 THEN <<First(s[1]), Second(s[2])>> ELSE <<First(s[1]), First(s[1])>>
AllParts == [s \in AllSchemas |-> SubgraphsOf(s)]

Systems ==
  [s \in AllSchemas |->
     WithIntrospection(IF Len(s) = 2 THEN Composed(SubgraphsOf(s)) ELSE OwnTypes(SubgraphsOf(s), 1))]

\* A type's fields by their names, then what it lists.
MembersIn(s, t) ==
  IF t = MetaType THEN << Shared >>
  ELSE [i \in 1..2 |-> {FieldType(SubgraphsOf(s), t, f) : f \in FieldsOf(SubgraphsOf(s), t) \cap {<<p, q>>[i]}}]
       \o [i \in DOMAIN System[s].listed[t] |-> {System[s].listed[t][i]}]
AllMembers == [s \in AllSchemas |-> [t \in AllTypes |-> MembersIn(s, t)]]

ByName == <<Meta, Node, Post, Role, Root, Search, String, User>>
Queries == [s \in AllSchemas |-> << IF Len(s) = 2 THEN <<Query, Merged>> ELSE <<Query, 1>> >>]
Conditions == << {<<String, Merged>>}, {} >>
Asked == {Whole, User, Search}

\* What the roots of a schema lead to.
RECURSIVE Reach(_, _)
Reach(s, S) ==
  LET T == S \cup UNION {References(s, t) : t \in S}
  IN  IF T = S THEN S ELSE Reach(s, T)

Reachable == [s \in AllSchemas |-> Reach(s, Pending(System[s].roots))]
====
