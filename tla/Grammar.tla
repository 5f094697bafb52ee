------------------------------ MODULE Grammar ------------------------------
(***************************************************************************)
(* What a parser of GraphQL documents promises: the context-free grammar   *)
(* of executable documents, and the token sequences that begin one of its  *)
(* sentences.  It knows no lookahead, no order of decisions and no stack   *)
(* of calls.  As in the code, and unlike in the GraphQL specification,     *)
(* braces and parentheses may be empty.                                    *)
(***************************************************************************)
EXTENDS Naturals, Sequences, TLC

(* The lexical grammar, over the characters of module Lexer.               *)
Digit == {"0", "1"}
NameChar == {"a", "o", "q", "f", "e", "u"} \cup Digit
All(text, S) == \A i \in DOMAIN text : text[i] \in S
Part(text, i, j) == SubSeq(text, i, j)

IsDigits(text) == text # <<>> /\ All(text, Digit)
Unsigned(text) == IF text # <<>> /\ text[1] = "-" THEN Tail(text) ELSE text
IsInt(text) == IsDigits(Unsigned(text)) /\ (Unsigned(text)[1] = "0" => Len(Unsigned(text)) = 1)
IsFraction(text) == text # <<>> /\ text[1] = "." /\ IsDigits(Tail(text))
IsExponent(text) ==
  /\ Len(text) > 1 /\ text[1] = "e"
  /\ IsDigits(IF text[2] \in {"+", "-"} THEN Part(text, 3, Len(text)) ELSE Tail(text))
IsFloat(text) ==
  \E i, j \in 1..Len(text) :
    /\ i <= j /\ ~(i = j /\ j = Len(text))
    /\ IsInt(Part(text, 1, i))
    /\ i = j \/ IsFraction(Part(text, i + 1, j))
    /\ j = Len(text) \/ IsExponent(Part(text, j + 1, Len(text)))

\* Between quotes: characters and escapes, an escape beginning at each of B.
IsString(text) ==
  LET n == Len(text) IN
  /\ n >= 2 /\ text[1] = "\"" /\ text[n] = "\"" /\ "\n" \notin {text[i] : i \in 2..(n - 1)}
  /\ \E B \in SUBSET (2..(n - 2)) :
       \A i \in 2..(n - 1) :
         IF i \in B THEN text[i] = "\\" /\ i - 1 \notin B /\ text[i + 1] \in {"\"", "\\", "f"}
         ELSE i - 1 \in B \/ text[i] \notin {"\"", "\\"}

\* kinds without a rule here are spelled in one way only
IsLexeme(kind, text) ==
  CASE kind \in {"Name", "on", "query", "fragment"} ->
         text # <<>> /\ All(text, NameChar) /\ text[1] \notin Digit
    [] kind = "Int" -> IsInt(text)
    [] kind = "Float" -> IsFloat(text)
    [] kind = "String" -> IsString(text)
    [] OTHER -> TRUE

----------------------------------------------------------------------------
(* The terminals: each stands for a class of tokens.                       *)
Class ==
  [name |-> {"Name", "on", "query", "fragment"},
   fragmentName |-> {"Name", "query", "fragment"},
   literal |-> {"Name", "on", "query", "fragment", "Int", "Float", "String", "BlockString"}]
Matches(symbol, token) ==
  IF symbol \in DOMAIN Class THEN token \in Class[symbol] ELSE token = symbol

(* The rules: the right-hand sides of every nonterminal.                   *)
Rules ==
  [Source |-> {<<"Definition", "Definitions", "EOF">>},
   Definitions |-> {<<>>, <<"Definition", "Definitions">>},
   Definition |->
     {<<"SelectionSet">>,
      <<"query", "OptionalName", "OptionalVariables", "Directives", "SelectionSet">>,
      <<"fragment", "fragmentName", "on", "name", "Directives", "SelectionSet">>},
   OptionalName |-> {<<>>, <<"name">>},
   SelectionSet |-> {<<"{", "Selections", "}">>},
   Selections |-> {<<>>, <<"Selection", "Selections">>},
   Selection |->
     {<<"name", "Arguments", "Directives", "OptionalSet">>,
      <<"name", ":", "name", "Arguments", "Directives", "OptionalSet">>,
      <<"...", "fragmentName", "Directives">>,
      <<"...", "on", "name", "Directives", "SelectionSet">>,
      <<"...", "Directives", "SelectionSet">>},
   OptionalSet |-> {<<>>, <<"SelectionSet">>},
   Arguments |-> {<<>>, <<"(", "ArgumentList", ")">>},
   ArgumentList |-> {<<>>, <<"name", ":", "Value", "ArgumentList">>},
   Directives |-> {<<>>, <<"@", "name", "Arguments", "Directives">>},
   OptionalVariables |-> {<<>>, <<"(", "Variables", ")">>},
   Variables |->
     {<<>>, <<"$", "name", ":", "Type", "Default", "ConstDirectives", "Variables">>},
   Default |-> {<<>>, <<"=", "ConstValue">>},
   Type |-> {<<"name">>, <<"name", "!">>, <<"[", "Type", "]">>, <<"[", "Type", "]", "!">>},
   Value |-> {<<"literal">>, <<"$", "name">>, <<"[", "Values", "]">>, <<"{", "Fields", "}">>},
   Values |-> {<<>>, <<"Value", "Values">>},
   Fields |-> {<<>>, <<"name", ":", "Value", "Fields">>},
   ConstValue |-> {<<"literal">>, <<"[", "ConstValues", "]">>, <<"{", "ConstFields", "}">>},
   ConstValues |-> {<<>>, <<"ConstValue", "ConstValues">>},
   ConstFields |-> {<<>>, <<"name", ":", "ConstValue", "ConstFields">>},
   ConstDirectives |-> {<<>>, <<"@", "name", "ConstArguments", "ConstDirectives">>},
   ConstArguments |-> {<<>>, <<"(", "ConstFields", ")">>}]

(* Leftmost derivations: a form is what is still to be derived.            *)
RECURSIVE Expand(_)
Expand(form) ==
  IF form = <<>> \/ Head(form) \notin DOMAIN Rules THEN {form}
  ELSE UNION {Expand(side \o Tail(form)) : side \in Rules[Head(form)]}

(* The forms left when a sentence has begun with these tokens.             *)
RECURSIVE FormsAfter(_)
FormsAfter(tokens) ==
  IF tokens = <<>> THEN Expand(<<"Source">>)
  ELSE LET forms == FormsAfter(SubSeq(tokens, 1, Len(tokens) - 1))
           token == tokens[Len(tokens)]
       IN  UNION {Expand(Tail(form)) :
                    form \in {f \in forms : f # <<>> /\ Matches(Head(f), token)}}

(* tokens begin a sentence; tokens are a sentence.                         *)
IsPrefix(tokens) == FormsAfter(tokens) # {}
IsSentence(tokens) == <<>> \in FormsAfter(tokens)
=============================================================================
