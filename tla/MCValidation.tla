---- MODULE MCValidation ----
(***************************************************************************)
(* Instances of Validation for TLC: a small schema and two families of     *)
(* documents, one about fragments and types, one about names.              *)
(***************************************************************************)
EXTENDS Validation, TLC

\* TLC evaluates the definition that a constant stands for once.
CONSTANTS Texts, FragmentsOf, SpreadOf

Kinds ==
  [Query |-> "object", User |-> "object", Bot |-> "object", Named |-> "interface",
   Any |-> "union", String |-> "leaf", Boolean |-> "leaf", Filter |-> "input"]

NoArgs == << >>
Plain(t) == [type |-> t, args |-> NoArgs]
Name == [type |-> "String", args |-> [short |-> FALSE]]

FieldsOfTypes ==
  [Query |-> [me |-> Plain("User"), any |-> Plain("Any"), named |-> Plain("Named")],
   User |-> [name |-> Name, peer |-> Plain("User"),
             best |-> [type |-> "Bot", args |-> [of |-> TRUE]]],
   Bot |-> [name |-> Name, peer |-> Plain("Named")],
   Named |-> [name |-> Name, peer |-> Plain("Named")],
   Any |-> << >>, String |-> << >>, Boolean |-> << >>, Filter |-> << >>]

PossibleTypes ==
  [Query |-> {"Query"}, User |-> {"User"}, Bot |-> {"Bot"}, Named |-> {"User", "Bot"},
   Any |-> {"User", "Bot"}, String |-> {}, Boolean |-> {}, Filter |-> {}]

RootTypes == [query |-> "Query"]

(* A definition or selection, and the selections in it.                    *)
F(key, name, args, dirs, sels) ==
  <<[kind |-> "field", key |-> key, name |-> name, args |-> args, dirs |-> dirs], sels>>
Field(name, sels) == F(name, name, << >>, << >>, sels)
Leaf(name) == Field(name, << >>)
On(t, sels) == <<[kind |-> "inline", on |-> t, dirs |-> << >>], sels>>
Spreading(n) == <<[kind |-> "spread", name |-> n, dirs |-> << >>], << >> >>
Arg(n, uses) == [name |-> n, uses |-> uses]
Dir(n, x) == [name |-> n, if |-> x]
Var(n, t, required) == [name |-> n, type |-> t, required |-> required]
Operation(n, sort, vs, sels) ==
  <<[kind |-> "operation", name |-> n, sort |-> sort, vars |-> vs, dirs |-> << >>], sels>>
Frag(n, t, sels) == <<[kind |-> "fragment", name |-> n, on |-> t, dirs |-> << >>], sels>>

\* Their nodes in the order of the text, the first of them numbered n.
RECURSIVE Numbered(_, _, _)
Numbered(sels, parent, n) ==
  IF sels = << >>
  THEN << >>
  ELSE LET s == Head(sels)
           first == << s[1] @@ [parent |-> parent] >> \o Numbered(s[2], n, n + 1)
       IN  first \o Numbered(Tail(sels), parent, n + Len(first))
Doc(ops, frags) == Numbered(ops \o frags, 0, 1)

V == <<Var("v", "Boolean", FALSE)>>
Best(sels) == F("best", "best", <<Arg("of", {"v"})>>, << >>, sels)

(* Documents of one operation and two fragments.                           *)
Tops ==
  << <<Field("me", <<Spreading("F")>>)>>,
     <<Field("any", <<Spreading("F"), Leaf("__typename")>>)>>,
     <<Field("named", <<Spreading("F"), Spreading("G")>>)>>,
     <<Field("me", <<On("Named", <<Spreading("G")>>), Leaf("name")>>),
       Field("me", <<Field("peer", <<Spreading("F")>>)>>)>>,
     <<Field("me", <<F("a", "name", << >>, << >>, << >>), F("a", "best", <<Arg("of", {})>>, << >>, <<Spreading("F")>>)>>)>>,
     <<Field("me", <<F("a", "best", <<Arg("of", {})>>, << >>, <<Leaf("name")>>),
                     F("a", "peer", << >>, << >>, <<Best(<<Leaf("name")>>), Spreading("F")>>)>>)>>,
     <<On("Any", << >>), Field("any", <<On("Nope", <<Spreading("F")>>), On("Bot", <<Leaf("best")>>)>>)>> >>

Bodies ==
  << <<Leaf("name")>>,
     <<Field("peer", <<Spreading("F")>>)>>,
     <<Spreading("G")>>,
     <<Best(<<Spreading("G")>>)>>,
     <<Field("best", <<Leaf("name")>>)>>,
     <<F("name", "name", <<Arg("short", {"v"})>>, << >>, << >>)>>,
     <<Leaf("peer"), On(None, <<Spreading("H")>>)>>,
     <<On("Bot", <<Field("peer", <<Leaf("name"), On("User", <<Best(<<Leaf("name")>>)>>)>>)>>)>>,
     <<Field("name", <<Leaf("name")>>)>>,
     <<Spreading("G"), On(None, <<Spreading("H")>>)>> >>

Tails ==
  << << >>,
    <<Frag("G", "Bot", <<Leaf("name")>>)>>,
    <<Frag("G", "User", <<Spreading("F")>>)>>,
    <<Frag("G", "Named", <<Field("peer", <<Spreading("F"), Leaf("name")>>)>>)>>,
    <<Frag("G", "Named", <<Spreading("H"), Field("peer", <<Spreading("H")>>)>>), Frag("H", "Bot", <<Spreading("G")>>)>>,
    <<Frag("G", "Nope", <<Spreading("H"), Spreading("H")>>)>>,
    <<Frag("G", "Filter", << >>)>>,
    <<Frag("G", "Any", <<Leaf("__typename"), On("User", <<Spreading("F")>>)>>)>>,
    <<Frag("G", "Named", <<Spreading("H")>>), Frag("H", "Bot", <<Field("peer", <<Leaf("name")>>)>>)>> >>

\* The documents are numbered: a digit of the number picks each part.
Digit(i, unit, base) == ((i \div unit) % base) + 1

TypedDocuments == 2 * 7 * 2 * 10 * 9
Typed(i) ==
  Doc(<<Operation(None, "query", << << >>, V >>[Digit(i, 1, 2)], Tops[Digit(i, 2, 7)])>>,
      <<Frag("F", <<"User", "Named">>[Digit(i, 14, 2)], Bodies[Digit(i, 28, 10)])>>
      \o Tails[Digit(i, 280, 9)])

(* Documents that use names more than once, or not at all.                 *)
Defs == << << >>, V, V \o V, <<Var("v", "Boolean", TRUE), Var("w", "Nope", FALSE)>>, <<Var("v", "Filter", FALSE)>>,
         <<Var("v", "User", FALSE)>> >>
Args == << << >>, <<Arg("short", {"v"})>>, <<Arg("short", {"v"}), Arg("short", {"w"})>>, <<Arg("long", {})>> >>
Dirs == << << >>, <<Dir("skip", "true")>>, <<Dir("skip", "v"), Dir("include", "v")>>,
         <<Dir("skip", "w"), Dir("skip", "false")>>, <<Dir("defer", "true")>>, <<Dir("include", "w")>> >>
Others ==
  << << >>, <<Operation("A", "query", << >>, <<Leaf("__typename")>>)>>,
    <<Operation("B", "mutation", << >>, <<Field("make", <<Spreading("F")>>)>>)>> >>
Seconds == << << >>, <<Frag("F", "Named", <<Leaf("__typename")>>)>> >>

WordedDocuments == 2 * 6 * 4 * 6 * 3 * 2
Worded(i) ==
  Doc(<<Operation(<<None, "A">>[Digit(i, 1, 2)], "query", Defs[Digit(i, 2, 6)],
                  <<Field("me", <<Spreading("F"),
                                  F("name", "name", Args[Digit(i, 12, 4)], Dirs[Digit(i, 48, 6)], << >>)>>)>>)>>
      \o Others[Digit(i, 288, 3)],
      <<Frag("F", "User", <<Leaf("name")>>)>> \o Seconds[Digit(i, 864, 2)])

AllIds == 1..(TypedDocuments + WordedDocuments)
TextOf(i) == IF i <= TypedDocuments THEN Typed(i - 1) ELSE Worded(i - 1)
AllTexts == << >> \o [i \in AllIds |-> TextOf(i)]
AllFragments == << >> \o [i \in AllIds |-> FragmentNames(TextOf(i))]
AllSpreads ==
  << >> \o [i \in AllIds |-> LET text == TextOf(i) IN [n \in {"F", "G", "H"} |-> FragmentSpreads(text, n)]]

Documented == AllTexts
DefinedIn == AllFragments
SpreadIn == AllSpreads
====
