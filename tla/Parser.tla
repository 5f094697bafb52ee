------------------------------- MODULE Parser -------------------------------
(***************************************************************************)
(* The recursive descent parser (parser.go), one action per parse function *)
(* or loop.  The Go call stack is a stack of statements still to execute:  *)
(* entering a function replaces its call by its body, whose form depends   *)
(* on the current token alone.  A token is taken in one of two ways, which *)
(* differ in what a lexer's error does: expect returns it, and skip and    *)
(* the bare calls of advance drop it and leave the current token in place. *)
(* The tree that is built has the shape of the calls and is left out.      *)
(*                                                                         *)
(* The source is chosen while it is read: when the lexer reaches its end   *)
(* another lexeme may follow, up to MaxLexemes of them.                    *)
(***************************************************************************)
EXTENDS Lexer, SequencesExt

CONSTANTS
  Openings,    \* what a source may begin with
  Lexemes,     \* what it may go on with, each ended by a blank where it matters
  MaxLexemes,  \* bound: lexemes after the opening
  MaxCalls     \* bound: statements on the stack; a parser with more of them stops

ASSUME BoundsAssumption == MaxLexemes \in Nat /\ MaxCalls \in Nat

VARIABLES
  source,   \* what the lexer has not read
  written,  \* lexemes that were added to the opening
  ended,    \* no lexeme will follow
  cur,      \* p.cur: the current token
  err,      \* p.err is set: advance met an error
  calls,    \* the statements still to execute, the next one first
  outcome,  \* "parsing", "document" or "rejected"
  read      \* history: the tokens the lexer returned

vars == <<source, written, ended, cur, err, calls, outcome, read>>

(* Statements: call f (with its parameter isConst), expect a token of one  *)
(* of these kinds, or take a token and drop the lexer's error.             *)
Call(f, isConst) == <<"call", f, isConst>>
expect(kind) == <<"expect", kind, FALSE>>
advance == <<"advance", "", FALSE>>
reject == <<"reject", "", FALSE>>

(* A token as the parser tells them apart: keywords by value.              *)
Keyword == ("o" :> "on") @@ ("q" :> "query") @@ ("f" :> "fragment")
TokenOf(lexeme, text) ==
  IF lexeme.kind # "Name" THEN lexeme.kind
  ELSE IF Len(text) = 1 /\ text[1] \in DOMAIN Keyword THEN Keyword[text[1]]
  ELSE "Name"
Names == {"Name", "on", "query", "fragment"}
Strings == {"String", "BlockString"}
Kinds(kind) == IF kind = "Name" THEN Names ELSE {kind}

(* Parser.advance.  The next token becomes the current one; an error is     *)
(* recorded, the current token stays, and the caller returns the error     *)
(* when it looks at it (checked) and goes on as if nothing had been when   *)
(* it does not.                                                            *)
Advance(checked) ==
  \E more \in IF ended \/ skipIgnored(source) <= Len(source) \/ written = MaxLexemes
              THEN {<<>>} ELSE Lexemes \cup {<<>>} :
    LET text == source \o more
        start == skipIgnored(text)
        lexeme == NextToken(text)
        value == SubSeq(text, start, lexeme.next - 1)
    IN  /\ source' = SubSeq(text, lexeme.next, Len(text))
        /\ written' = IF more = <<>> THEN written ELSE written + 1
        /\ ended' = (start > Len(text))
        /\ IF lexeme.ok
           THEN /\ cur' = [kind |-> TokenOf(lexeme, value), value |-> value]
                /\ read' = Append(read, TokenOf(lexeme, value))
                /\ UNCHANGED err
           ELSE err' = TRUE /\ UNCHANGED <<cur, read>>
        /\ IF lexeme.ok \/ ~checked
           THEN calls' = Tail(calls) /\ UNCHANGED outcome
           ELSE outcome' = "rejected" /\ UNCHANGED calls

----------------------------------------------------------------------------
(* Parse reads the first token and parses a document.                      *)
Init ==
  /\ source \in Openings
  /\ written = 0
  /\ ended = FALSE
  /\ cur = [kind |-> "none", value |-> <<>>]
  /\ err = FALSE
  /\ calls = <<expect("none"), Call("parseDocument", FALSE)>>
  /\ outcome = "parsing"
  /\ read = <<>>

Active == outcome = "parsing" /\ Len(calls) <= MaxCalls /\ calls # <<>>
Unread == UNCHANGED <<source, written, ended, cur, err, read>>

(* parser.expect and expectKeyword.                                        *)
Expect ==
  /\ Active
  /\ Head(calls)[1] = "expect"
  /\ IF cur.kind \in Kinds(Head(calls)[2])
     THEN Advance(TRUE)
     ELSE outcome' = "rejected" /\ Unread /\ UNCHANGED calls

(* A bare advance, skip of a token that is there, and the three expects    *)
(* whose results are ignored (of a token that is there as well).           *)
Skip == Active /\ Head(calls) = advance /\ Advance(FALSE)

(* A syntax error that a function finds before it takes a token.           *)
Reject ==
  /\ Active
  /\ Head(calls) = reject
  /\ outcome' = "rejected"
  /\ Unread /\ UNCHANGED calls

(* parseDocument's loop has ended at the end of the source.                *)
Accept ==
  /\ outcome = "parsing"
  /\ calls = <<>>
  /\ outcome' = "document"
  /\ Unread /\ UNCHANGED calls

(* Entering f: its call is replaced by its body.  A parameter isConst that *)
(* a function hands on is the third component of its call.                 *)
Enter(f, body) ==
  /\ Active
  /\ Head(calls)[1] = "call" /\ Head(calls)[2] = f
  /\ calls' = body \o Tail(calls)
  /\ Unread /\ UNCHANGED outcome

isConst == Head(calls)[3]
IsName == cur.kind \in Names
Optional(kind, body) == IF cur.kind = kind THEN body ELSE <<>>

(* for !p.peek(close) && !p.peek(TokenEOF) { item }; p.expect(close)       *)
Loop(f, close, item) ==
  Enter(f, IF cur.kind \in {close, "EOF"} THEN <<expect(close)>>
           ELSE <<Call(item, isConst), Call(f, isConst)>>)

----------------------------------------------------------------------------
(* Documents and definitions.                                              *)
parseDocument ==
  Enter("parseDocument",
        IF cur.kind = "EOF" THEN <<reject>>
        ELSE <<Call("parseDefinition", FALSE), Call("definitions", FALSE)>>)

definitions ==
  Enter("definitions",
        IF cur.kind = "EOF" THEN <<>>
        ELSE <<Call("parseDefinition", FALSE), Call("definitions", FALSE)>>)

parseDefinition ==
  Enter("parseDefinition",
        CASE cur.kind = "{" -> <<Call("parseSelectionSet", FALSE)>>
          [] cur.kind = "query" -> <<advance, Call("operation", FALSE)>>
          [] cur.kind = "fragment" -> <<advance, Call("fragment", FALSE)>>
          [] OTHER -> <<reject>>)

(* parseFullOperationDefinition and parseFragmentDefinition after their    *)
(* keyword.                                                                *)
operation ==
  Enter("operation",
        (IF IsName THEN <<advance>> ELSE <<>>)
          \o <<Call("parseVariableDefinitions", FALSE), Call("parseDirectives", FALSE),
               Call("parseSelectionSet", FALSE)>>)

fragment ==
  Enter("fragment",
        IF IsName /\ cur.kind # "on"
        THEN <<advance, expect("on"), expect("Name"), Call("parseDirectives", FALSE),
               Call("parseSelectionSet", FALSE)>>
        ELSE <<reject>>)

----------------------------------------------------------------------------
(* Selections.                                                             *)
parseSelectionSet ==
  Enter("parseSelectionSet", <<expect("{"), Call("selections", FALSE)>>)

selections == Loop("selections", "}", "parseSelection")

parseSelection ==
  Enter("parseSelection",
        IF cur.kind = "..." THEN <<advance, Call("spread", FALSE)>>
        ELSE <<Call("parseField", FALSE)>>)

parseField ==
  Enter("parseField",
        <<expect("Name"), Call("alias", FALSE), Call("parseArguments", FALSE),
          Call("parseDirectives", FALSE), Call("subselection", FALSE)>>)

alias == Enter("alias", Optional(":", <<advance, expect("Name")>>))
subselection == Enter("subselection", Optional("{", <<Call("parseSelectionSet", FALSE)>>))

(* parseFragment after its spread token.                                   *)
spreadOfAnyName ==
  Enter("spread",
        IF IsName THEN <<advance, Call("parseDirectives", FALSE)>>
        ELSE <<Call("parseDirectives", FALSE), Call("parseSelectionSet", FALSE)>>)

spread ==
  Enter("spread",
        IF IsName /\ cur.kind # "on" THEN <<advance, Call("parseDirectives", FALSE)>>
        ELSE Optional("on", <<advance, expect("Name")>>)
               \o <<Call("parseDirectives", FALSE), Call("parseSelectionSet", FALSE)>>)

----------------------------------------------------------------------------
(* Arguments, directives and variable definitions.                         *)
parseArguments ==
  Enter("parseArguments", Optional("(", <<advance, Call("arguments", isConst)>>))

arguments == Loop("arguments", ")", "parseArgument")

parseArgument ==
  Enter("parseArgument", <<expect("Name"), expect(":"), Call("parseValue", isConst)>>)

parseDirectives ==
  Enter("parseDirectives",
        Optional("@", <<Call("parseDirective", isConst), Call("parseDirectives", isConst)>>))

parseDirective ==
  Enter("parseDirective", <<advance, expect("Name"), Call("parseArguments", isConst)>>)

parseVariableDefinitions ==
  Enter("parseVariableDefinitions", Optional("(", <<advance, Call("variables", FALSE)>>))

variables == Loop("variables", ")", "parseVariableDefinition")

parseVariableDefinition ==
  Enter("parseVariableDefinition",
        <<expect("$"), expect("Name"), expect(":"), Call("parseTypeReference", FALSE),
          Call("default", FALSE), Call("parseDirectives", TRUE)>>)

default == Enter("default", Optional("=", <<advance, Call("parseValue", TRUE)>>))

parseTypeReference ==
  Enter("parseTypeReference",
        (IF cur.kind = "["
         THEN <<advance, Call("parseTypeReference", FALSE), expect("]")>>
         ELSE <<expect("Name")>>) \o <<Call("bang", FALSE)>>)

bang == Enter("bang", Optional("!", <<advance>>))

----------------------------------------------------------------------------
(* Values.                                                                 *)
parseValue ==
  Enter("parseValue",
        CASE cur.kind = "$" -> IF isConst THEN <<reject>> ELSE <<advance, expect("Name")>>
          [] IsName \/ cur.kind \in {"Int", "Float"} \cup Strings -> <<advance>>
          [] cur.kind = "[" -> <<advance, Call("values", isConst)>>
          [] cur.kind = "{" -> <<advance, Call("objectFields", isConst)>>
          [] OTHER -> <<reject>>)

values == Loop("values", "]", "parseValue")
objectFields == Loop("objectFields", "}", "objectField")

objectField ==
  Enter("objectField", <<expect("Name"), expect(":"), Call("parseValue", isConst)>>)

----------------------------------------------------------------------------
ParseFunction ==
  \/ parseDocument \/ definitions \/ parseDefinition \/ operation \/ fragment
  \/ parseSelectionSet \/ selections \/ parseSelection \/ parseField \/ alias
  \/ subselection \/ spread
  \/ parseArguments \/ arguments \/ parseArgument \/ parseDirectives
  \/ parseDirective \/ parseVariableDefinitions \/ variables
  \/ parseVariableDefinition \/ default \/ parseTypeReference \/ bang
  \/ parseValue \/ values \/ objectFields \/ objectField

Next == Expect \/ Skip \/ Reject \/ Accept \/ ParseFunction

Spec == Init /\ [][Next]_vars

(* Parse is a sequential function: it goes on until it returns.            *)
FairSpec == Spec /\ WF_vars(Next)
=============================================================================
