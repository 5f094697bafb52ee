------------------------------- MODULE Lexer -------------------------------
(***************************************************************************)
(* The lexer (lexer.go).  A source is a sequence of characters, and a      *)
(* character stands for its class: "o", "q" and "f" begin the keywords on, *)
(* query (mutation, subscription) and fragment and are, alone, that word;  *)
(* "a" is any other letter, "e" the exponent's, "1" a digit that is not    *)
(* zero, "?" a character no token begins with.  Positions count from 1 and *)
(* an operator takes what is left of the source, so that the position is   *)
(* an offset into it; line and column are left out.                        *)
(***************************************************************************)
EXTENDS Naturals, Sequences, FiniteSetsExt

Punctuators == {"!", "$", "&", "(", ")", ":", "=", "@", "[", "]", "{", "|", "}"}
Digits == {"0", "1"}
NameStart == {"a", "o", "q", "f", "e", "u"}
NameContinueLetters == NameStart
NameContinue == NameStart \cup Digits
Blanks == {" ", ",", "\n"}
Hex == Digits \cup {"a", "e", "f"}
Escapes == {"\"", "\\", "f"}

(* The character at position p is one of S.                                *)
At(source, p, S) == p <= Len(source) /\ source[p] \in S

(* The first position from p on whose character is not one of S.           *)
Past(source, p, S) == Min({q \in p..(Len(source) + 1) : ~At(source, q, S)})

(* What NextToken returns: a token, or an error that leaves the lexer at   *)
(* the position it had reached.                                            *)
Lexeme(kind, next) == [ok |-> TRUE, kind |-> kind, next |-> next]
SyntaxErrorRewound(next) == [ok |-> FALSE, kind |-> "none", next |-> 1]
SyntaxError(next) == [ok |-> FALSE, kind |-> "none", next |-> next]

(* Blanks, and comments up to the end of their line.                       *)
skipIgnored(source) ==
  Min({p \in 1..(Len(source) + 1) :
         \/ p = Len(source) + 1
         \/ /\ source[p] \notin Blanks
            /\ ~\E q \in 1..p : source[q] = "#" /\ \A r \in q..p : source[r] # "\n"})

readName(source, p) == Lexeme("Name", Past(source, p, NameContinue))

(* The end of a sequence of digits that must not be empty is handed on by  *)
(* ThenDigits; without one the error stands where the digit is missing.    *)
ThenDigits(source, p, Continue(_)) ==
  IF At(source, p, Digits) THEN Continue(Past(source, p, Digits)) ELSE SyntaxError(p)

readExponent(source, p, kind) ==
  IF ~At(source, p, {"e"})
  THEN Lexeme(kind, p)
  ELSE ThenDigits(source, IF At(source, p + 1, {"+", "-"}) THEN p + 2 ELSE p + 1,
                  LAMBDA end : Lexeme("Float", end))

readFraction(source, p) ==
  IF ~At(source, p, {"."})
  THEN readExponent(source, p, "Int")
  ELSE ThenDigits(source, p + 1, LAMBDA end : readExponent(source, end, "Float"))

readNumber(source, p) ==
  LET digits == IF At(source, p, {"-"}) THEN p + 1 ELSE p
  IN  IF At(source, digits, {"0"})
      THEN readFraction(source, digits + 1)
      ELSE ThenDigits(source, digits, LAMBDA end : readFraction(source, end))

(* After the u of an escape: four hexadecimal digits.  An error leaves the *)
(* lexer behind the u.                                                     *)
readUnicodeEscape(source, p) ==
  /\ p + 3 <= Len(source)
  /\ \A q \in p..(p + 3) : source[q] \in Hex

readString(source, p) ==
  LET scan[q \in p..(Len(source) + 1)] ==
        CASE q > Len(source) -> SyntaxError(q)
          [] At(source, q, {"\n"}) -> SyntaxError(q)
          [] At(source, q, {"\""}) -> Lexeme("String", q + 1)
          [] At(source, q, {"\\"}) ->
               (CASE At(source, q + 1, {"u"}) ->
                       IF readUnicodeEscape(source, q + 2) THEN scan[q + 6]
                       ELSE SyntaxError(q + 2)
                  [] At(source, q + 1, Escapes) -> scan[q + 2]
                  [] OTHER -> SyntaxError(q + 1))
          [] OTHER -> scan[q + 1]
  IN  scan[p + 1]

IsTripleQuote(source, p) ==
  p + 2 <= Len(source) /\ \A q \in p..(p + 2) : source[q] = "\""

(* The text is kept as it stands: blockStringValue only strips indentation. *)
readBlockString(source, p) ==
  LET scan[q \in p..(Len(source) + 1)] ==
        CASE q > Len(source) -> SyntaxError(q)
          [] IsTripleQuote(source, q) -> Lexeme("BlockString", q + 3)
          [] At(source, q, {"\\"}) /\ IsTripleQuote(source, q + 1) -> scan[q + 4]
          [] OTHER -> scan[q + 1]
  IN  scan[p + 3]

(* The next token of the source, which is what is left of it.              *)
NextToken(source) ==
  LET p == skipIgnored(source)
  IN  CASE p > Len(source) -> Lexeme("EOF", p)
        [] At(source, p, Punctuators) -> Lexeme(source[p], p + 1)
        [] At(source, p, {"."}) ->
             IF At(source, p + 1, {"."}) /\ At(source, p + 2, {"."})
             THEN Lexeme("...", p + 3) ELSE SyntaxError(p)
        [] At(source, p, {"\""}) ->
             IF IsTripleQuote(source, p) THEN readBlockString(source, p)
             ELSE readString(source, p)
        [] At(source, p, NameStart) -> readName(source, p)
        [] At(source, p, Digits \cup {"-"}) -> readNumber(source, p)
        [] OTHER -> SyntaxError(p)
=============================================================================
