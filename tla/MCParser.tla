------------------------------ MODULE MCParser ------------------------------
(***************************************************************************)
(* Instances of Parser for TLC, and what relates it to the grammar.        *)
(***************************************************************************)
EXTENDS Parser

G == INSTANCE Grammar

(* Openings that lead to each part of the syntax.                          *)
InField == <<"{", "a", " ">>
InArguments == <<"{", "a", "(", "a", ":">>
InVariables == <<"q", " ", "(", "$", "a", ":">>
InDefault == InVariables \o <<"a", "=">>
InVariableDirective == InVariables \o <<"a", "@", "a", " ", "(", "a", ":">>
InFragment == <<"f", " ", "a", " ", "o", " ">>

Marks == {<<c>> : c \in {"!", "$", "(", ")", ":", "=", "@", "[", "]", "{", "}"}}
Words == {<<c, " ">> : c \in {"a", "o", "q", "f"}} \cup {<<"#", "a", "\n", "o", "1", ",">>}
Spread == <<".", ".", ".">>
Numbers == {<<"-", "0", "1", "o", " ">>, <<"1", "0", ".", "0", "1", "e", "-", "1", " ">>}
Texts == {<<"\"", "\\", "\"", "\"">>,
          <<"\"", "\"", "\"", "a", "\"", "\"", "\"">>}
\* What begins like a number or a string and is none: the lexer reports an
\* error from behind its beginning.  It never gets past a "?".
Broken == {<<"1", ".", " ">>, <<"\"", "a", "\n">>}
Foreign == {<<"?">>}

AllLexemes == Marks \cup Words \cup {Spread} \cup Numbers \cup Texts \cup Broken
AllOpenings == {<<>>, InField, InArguments, InVariables, InDefault, InVariableDirective, InFragment}
AnyLexemes == AllLexemes \cup Foreign

(* A document is accepted only when its tokens are a sentence of the       *)
(* grammar, and rejected by the parser only when the tokens read up to the *)
(* current one begin none: one token of lookahead never misleads it.       *)
ParsesTheGrammar ==
  ~err => /\ outcome = "document" => G!IsSentence(read)
          /\ outcome = "rejected" => ~G!IsPrefix(read)

(* The current token is a lexeme of its kind, and the longest that could   *)
(* be read: with characters that follow it would be none (readName,        *)
(* readNumber, readString).                                                *)
LongestLexeme ==
  /\ G!IsLexeme(cur.kind, cur.value)
  /\ cur.kind \in Names \cup {"Int", "Float"} =>
       \A n \in 1..Len(source) :
         \A kind \in {"Name", "Int", "Float"} :
           ~G!IsLexeme(kind, cur.value \o SubSeq(source, 1, n))

(* Parse returns, whatever the source, as long as the lexer gets past what *)
(* it reports.  Most advances return the lexer's error, but those that     *)
(* drop it see the same token again and must not do so for ever.           *)
Returns == <>(outcome \in {"document", "rejected"})

(* What the lexer calls an error makes Parse fail.                         *)
LexicalErrorRejects == err ~> outcome = "rejected"
=============================================================================
