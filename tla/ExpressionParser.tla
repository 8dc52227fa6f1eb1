-------------------------- MODULE ExpressionParser --------------------------
(***************************************************************************)
(* Parser::parseParsedExpression: an operator stack and an output queue    *)
(* (a shunting-yard), which calls itself for an index, an argument, an     *)
(* element of an array literal and the branches of a ternary.  A call of   *)
(* the C++ function is a frame here; the source text is any sequence of    *)
(* tokens of a dialect, well formed or not.                                *)
(*                                                                         *)
(* Tokens: "x" a variable, "s" a double-quoted string with a variable in   *)
(* it, "f(" an identifier directly followed by its opening parenthesis,    *)
(* "-" (prefix and infix), "*", "/", "==", "&&" (infix), "!" (prefix),     *)
(* "++" (prefix and postfix), the accessors "->" and "[", grouping, the    *)
(* ternary, and ";" for whatever ends the expression.                      *)
(***************************************************************************)
EXTENDS Integers, Sequences, SequencesExt, FiniteSets

CONSTANTS
    Dialects    \* a set of [words, length]: the tokens of a source text, and
                \* how many of them it has at most

Operators == {"-", "*", "/", "==", "&&", "!", "++"}
Infix == Operators \ {"!", "++"}
Leaves == {"x", "s"}
Words == Operators \cup Leaves \cup {"f(", "(", ")", "[", "]", ",", "->", "?", ":"}

ASSUME DialectsAssumption ==
    \A d \in Dialects : d.words \subseteq Words /\ d.length \in Nat \ {0}

VARIABLES
    text,       \* the tokens of the source text
    place,      \* current_token_index_
    frames,     \* the live calls of parseParsedExpression, outermost first
    result,     \* <<tree>> when the innermost call has left its loop
    status      \* "parsing", "parsed" or "syntax_error"

vars == <<text, place, frames, result, status>>

\* currentToken()
next == IF place <= Len(text) THEN text[place] ELSE ";"

-----------------------------------------------------------------------------
(* Parsed expressions: an operator and its arguments; a variable is known   *)
(* by the place of its token.                                              *)

Tree(op, args) == [op |-> op, args |-> args]
Variable(at) == [op |-> "x", at |-> at]
Literal(at) == [op |-> "s", at |-> at]

Prefix == {"u-", "u!", "u++"}
Unary == Prefix \cup {"p++"}

\* Binding strength; everything not listed falls through to -1.
Precedence(op) ==
    CASE op = "&&" -> 1
      [] op = "==" -> 5
      [] op = "-" -> 8
      [] op \in {"*", "/"} -> 9
      [] op \in {"u-", "u!"} -> 10
      [] op \in {"->", "[]"} -> 11
      [] OTHER -> -1

LeftAssociative(op) == op \notin {"u-", "u!"}

-----------------------------------------------------------------------------
(* A frame: operator_stack, output_queue, expect_unary, atStart; what the   *)
(* caller makes of the expression, and the expressions it already has.     *)

Frame(use, items) ==
    [ops |-> <<>>, out |-> <<>>, unary |-> TRUE, start |-> TRUE,
     bad |-> FALSE, use |-> use, items |-> items]

\* The closing token of parseExpressionList.
Closer(use) == IF use = "elements" THEN "]" ELSE ")"
Lists == {"call", "arguments", "elements"}

Untouched(f) == f.ops = <<>> /\ f.out = <<>> /\ f.unary

Back(s, n) == [i \in 1..Len(s) - n |-> s[i]]

\* Mutant: the operand popped first becomes the first argument.
ApplyTopSwapped(f) ==
    LET op == Last(f.ops)
        n == IF op \in Unary THEN 1 ELSE 2
    IN  IF f.bad THEN f
        ELSE IF op = "(" \/ Len(f.out) < n THEN [f EXCEPT !.bad = TRUE]
        ELSE [f EXCEPT !.ops = Front(@),
                       !.out = Append(Back(@, n),
                                      Tree(op, Reverse(SubSeq(@, Len(@) - n + 1, Len(@)))))]

\* applyStackOperator.
ApplyTop(f) ==
    LET op == Last(f.ops)
        n == IF op \in Unary THEN 1 ELSE 2
    IN  IF f.bad THEN f
        ELSE IF op = "(" \/ Len(f.out) < n THEN [f EXCEPT !.bad = TRUE]
        ELSE [f EXCEPT !.ops = Front(@),
                       !.out = Append(Back(@, n),
                                      Tree(op, SubSeq(@, Len(@) - n + 1, Len(@))))]

ApplyTopmost(f, n) == FoldLeft(LAMBDA g, i : ApplyTop(g), f, [i \in 1..n |-> i])

\* Mutant: an operator of the same strength stays on the stack.
YieldsToLooser(top, op) == top # "(" /\ Precedence(top) > Precedence(op)

\* The condition under which an operator on the stack yields to a new one.
Yields(top, op) ==
    /\ top # "("
    /\ \/ Precedence(top) > Precedence(op)
       \/ Precedence(top) = Precedence(op) /\ LeftAssociative(top)

\* applyHigherPrecedenceOperators.
ApplyHigher(f, op) ==
    LET stays == {i \in 1..Len(f.ops) : ~ Yields(f.ops[i], op)}
        kept == IF stays = {} THEN 0 ELSE CHOOSE i \in stays : \A j \in stays : j <= i
    IN  ApplyTopmost(f, Len(f.ops) - kept)

\* A postfix form takes the last expression of the output queue.
Postfixed(f, op, more) ==
    [f EXCEPT !.out = Append(Front(@), Tree(op, <<Last(@)>> \o more)),
              !.unary = FALSE, !.start = FALSE]

-----------------------------------------------------------------------------
\* After "->" an identifier is a name whatever follows it: "x" stands for it.
Texts == {s \in UNION {SeqOf(d.words, d.length) : d \in Dialects} :
            \A i \in 2..Len(s) : s[i] = "f(" => s[i - 1] # "->"}

Init ==
    /\ text \in Texts
    /\ place = 1
    /\ frames = <<Frame("statement", <<>>)>>
    /\ result = <<>>
    /\ status = "parsing"

Top == Last(frames)
Below == Front(frames)
Looping == status = "parsing" /\ result = <<>>
Returning == status = "parsing" /\ result # <<>>

\* reportError: an exception out of every call.
SyntaxError ==
    /\ status' = "syntax_error"
    /\ UNCHANGED <<text, place, frames, result>>

\* One round of the loop that leaves f and the calls around it.
ContinueWith(outer, f) ==
    IF f.bad THEN SyntaxError
    ELSE /\ frames' = Append(outer, f)
         /\ result' = <<>>
         /\ place' = place + 1
         /\ UNCHANGED <<text, status>>

Loop(f) == ContinueWith(Below, f)
Enter(f) == ContinueWith(frames, f)

Operand ==
    /\ Looping /\ next \in Leaves
    /\ Loop([Top EXCEPT !.out = Append(@, IF next = "s" THEN Literal(place) ELSE Variable(place)),
                        !.unary = FALSE, !.start = FALSE])

IdentifierCall ==
    /\ Looping /\ next = "f("
    /\ Enter(Frame("call", <<Variable(place)>>))

OpenBracket ==
    /\ Looping /\ next = "["
    /\ Enter(Frame(IF Top.start THEN "elements" ELSE "index", <<>>))

OpenParenthesis ==
    /\ Looping /\ next = "("
    /\ IF ~ Top.unary /\ Top.out # <<>>
       THEN Enter(Frame("arguments", <<>>))
       ELSE Loop([Top EXCEPT !.ops = Append(@, "("), !.unary = TRUE])

HasParenthesis(f) == \E i \in DOMAIN f.ops : f.ops[i] = "("

CloseParenthesis ==
    /\ Looping /\ next = ")" /\ HasParenthesis(Top)
    /\ LET open == CHOOSE i \in DOMAIN Top.ops :
                      Top.ops[i] = "(" /\ \A j \in i + 1..Len(Top.ops) : Top.ops[j] # "("
           f == ApplyTopmost(Top, Len(Top.ops) - open)
       IN  Loop([f EXCEPT !.ops = SubSeq(Top.ops, 1, open - 1), !.unary = FALSE])

Member ==
    /\ Looping /\ next = "->"
    /\ LET f == ApplyHigher(Top, "->")
       IN  Loop([f EXCEPT !.ops = Append(@, "->"), !.unary = TRUE])

\* The form an operator token takes: prefix, postfix or infix.
Form(token, unary) ==
    CASE token = "++" -> IF unary THEN "u++" ELSE "p++"
      [] token = "-" /\ unary -> "u-"
      [] token = "!" /\ unary -> "u!"
      [] OTHER -> token

Operator ==
    /\ Looping /\ next \in Operators
    /\ LET op == Form(next, Top.unary)
           f == ApplyHigher(Top, op)
       IN  Loop([f EXCEPT !.ops = Append(@, op), !.unary = TRUE])

\* Any other token ends the loop; what is left on the operator stack is applied.
LeaveLoop ==
    /\ Looping
    /\ \/ next \in {"]", ",", "?", ":", ";"}
       \/ next = ")" /\ ~ HasParenthesis(Top)
    /\ ~ (Top.use \in Lists /\ Untouched(Top) /\ next = Closer(Top.use))
    /\ LET f == ApplyTopmost(Top, Len(Top.ops))
       IN  IF f.bad \/ Len(f.out) # 1 THEN SyntaxError
           ELSE /\ result' = f.out
                /\ UNCHANGED <<text, place, frames, status>>

-----------------------------------------------------------------------------
(* The caller's side: result[1] is the expression it asked for.            *)

Caller == frames[Len(frames) - 1]
Outer == SubSeq(frames, 1, Len(frames) - 2)

Ternary ==
    /\ Returning /\ next = "?"
    /\ Enter(Frame("then", result))

ThenReturns ==
    /\ Returning /\ next # "?" /\ Top.use = "then"
    /\ IF next = ":" THEN ContinueWith(Below, Frame("else", Top.items \o result))
       ELSE SyntaxError

ElseReturns ==
    /\ Returning /\ next # "?" /\ Top.use = "else"
    /\ result' = <<Tree("?:", Top.items \o result)>>
    /\ frames' = Below
    /\ UNCHANGED <<text, place, status>>

IndexReturns ==
    /\ Returning /\ next # "?" /\ Top.use = "index"
    /\ LET f == ApplyHigher(Caller, "[]")
       IN  IF next # "]" \/ f.bad \/ f.out = <<>> THEN SyntaxError
           ELSE ContinueWith(Outer, Postfixed(f, "[]", result))

\* The end of parseExpressionList: the caller builds the call or the literal.
CloseList(items) ==
    CASE Top.use = "call" ->
           ContinueWith(Outer, [Caller EXCEPT !.out = Append(@, Tree("call", items)),
                                              !.unary = FALSE])
      [] Top.use = "elements" ->
           ContinueWith(Outer, [Caller EXCEPT !.out = Append(@, Tree("array", items)),
                                              !.unary = FALSE, !.start = FALSE])
      [] Top.use = "arguments" /\ Last(Caller.out).op \in {"x", "->"} ->
           ContinueWith(Outer, Postfixed(Caller, "call", items))
      [] OTHER -> SyntaxError

\* Mutant: a list goes on until its closing token comes.
ElementReturnsInList ==
    /\ Returning /\ next # "?" /\ Top.use \in Lists
    /\ \/ next = "," /\ ContinueWith(Below, Frame(Top.use, Top.items \o result))
       \/ next = Closer(Top.use) /\ CloseList(Top.items \o result)

ElementReturns ==
    /\ Returning /\ next # "?" /\ Top.use \in Lists
    /\ CASE next = "," -> ContinueWith(Below, Frame(Top.use, Top.items \o result))
         [] next = Closer(Top.use) -> CloseList(Top.items \o result)
         [] OTHER -> SyntaxError

\* No element at all, or a comma before the closing token.
EmptyList ==
    /\ Looping /\ Top.use \in Lists /\ Untouched(Top) /\ next = Closer(Top.use)
    /\ CloseList(Top.items)

StatementReturns ==
    /\ Returning /\ next # "?" /\ Top.use = "statement"
    /\ IF next # ";" THEN SyntaxError
       ELSE /\ status' = "parsed"
            /\ UNCHANGED <<text, place, frames, result>>

Next ==
    \/ Operand \/ IdentifierCall \/ OpenBracket \/ OpenParenthesis
    \/ CloseParenthesis \/ Member \/ Operator \/ LeaveLoop
    \/ Ternary \/ ThenReturns \/ ElseReturns \/ IndexReturns
    \/ ElementReturns \/ EmptyList \/ StatementReturns

Spec == Init /\ [][Next]_vars /\ WF_vars(Next)

-----------------------------------------------------------------------------
(* The reference: how the tokens i..j of s group when operators bind as in *)
(* C, written from the outside in - the loosest operator of the span is    *)
(* the root.  NoTree stands for a span that is no expression.              *)

NoTree == [op |-> "none", args |-> <<>>]

Join(op, args) == IF \E k \in DOMAIN args : args[k] = NoTree THEN NoTree ELSE Tree(op, args)

Openers == {"f(", "(", "["}
Closers == {")", "]"}

Count(s, i, j, set) == Cardinality({k \in i..j : s[k] \in set})

\* The places of the span outside every bracket it opens.
Surface(s, i, j) ==
    {k \in i..j : /\ s[k] \notin Openers \cup Closers
                  /\ Count(s, i, k, Openers) = Count(s, i, k, Closers)}

EndsOperand(s, i, k) ==
    \/ k >= i /\ s[k] \in Leaves \cup Closers
    \/ k > i /\ s[k] = "++" /\ s[k - 1] \in Leaves \cup Closers

\* The infix operators, the loosest first.
Levels == <<{"&&"}, {"=="}, {"-"}, {"*", "/"}>>

Least(set) == CHOOSE k \in set : \A l \in set : k <= l
Greatest(set) == CHOOSE k \in set : \A l \in set : l <= k

\* The opening bracket of the closing one at j, or 0.
Opener(s, i, j) ==
    LET balanced == {k \in i..j - 1 : /\ s[k] \in Openers
                                      /\ Count(s, k, j, Openers) = Count(s, k, j, Closers)}
    IN  IF balanced # {} /\ (s[j] = "]") = (s[Greatest(balanced)] = "[")
        THEN Greatest(balanced)
        ELSE 0

RECURSIVE Reference(_, _, _), ReferenceList(_, _, _, _), ReferencePostfix(_, _, _)

\* The expressions between commas, after those already in items; a comma may end them.
ReferenceList(s, i, j, items) ==
    LET commas == {k \in Surface(s, i, j) : s[k] = ","}
        end == IF commas = {} THEN j ELSE Least(commas) - 1
    IN  IF j < i THEN items
        ELSE ReferenceList(s, end + 2, j, Append(items, Reference(s, i, end)))

ReferencePostfix(s, i, j) ==
    LET open == Opener(s, i, j)
        inside == ReferenceList(s, open + 1, j - 1, <<>>)
        named == open > i /\ s[open - 1] = "x"
    IN  CASE s[j] = "s" -> IF i = j THEN Literal(j) ELSE NoTree
          [] s[j] = "x" -> IF i = j THEN Variable(j)
                           ELSE IF s[j - 1] = "->" /\ j - 2 >= i
                           THEN Join("->", <<Reference(s, i, j - 2), Variable(j)>>)
                           ELSE NoTree
          [] s[j] = "++" -> IF j > i THEN Join("p++", <<Reference(s, i, j - 1)>>) ELSE NoTree
          [] s[j] \in Closers /\ open # 0 ->
               IF s[open] = "[" THEN
                   IF open = i THEN Join("array", inside)
                   ELSE Join("[]", <<Reference(s, i, open - 1), Reference(s, open + 1, j - 1)>>)
               ELSE IF s[open] = "f(" THEN
                   IF open = i THEN Join("call", <<Variable(i)>> \o inside) ELSE NoTree
               ELSE IF open = i THEN Reference(s, i + 1, j - 1)
               ELSE IF named /\ open - 1 = i THEN Join("call", <<Variable(i)>> \o inside)
               ELSE IF named /\ s[open - 2] = "->" /\ open - 3 >= i
               THEN Join("->", <<Reference(s, i, open - 3),
                                 Join("call", <<Variable(open - 1)>> \o inside)>>)
               ELSE NoTree
          [] OTHER -> NoTree

Reference(s, i, j) ==
    LET surface == Surface(s, i, j)
        questions == {k \in surface : s[k] = "?"}
        q == Least(questions)
        colons == {k \in surface : /\ s[k] = ":" /\ k > q
                                   /\ Cardinality({l \in surface : s[l] = ":" /\ q < l /\ l <= k})
                                        = Cardinality({l \in questions : l < k})}
        infix == {k \in surface : s[k] \in Infix /\ EndsOperand(s, i, k - 1)}
        loosest == Least({l \in DOMAIN Levels : \E k \in infix : s[k] \in Levels[l]})
        root == Greatest({k \in infix : s[k] \in Levels[loosest]})
    IN  IF j < i THEN NoTree
        ELSE IF questions # {} THEN
            IF colons = {} THEN NoTree
            ELSE Join("?:", <<Reference(s, i, q - 1), Reference(s, q + 1, Least(colons) - 1),
                              Reference(s, Least(colons) + 1, j)>>)
        ELSE IF infix # {}
        THEN Join(s[root], <<Reference(s, i, root - 1), Reference(s, root + 1, j)>>)
        ELSE IF s[i] \in {"-", "!", "++"}
        THEN Join(Form(s[i], TRUE), <<Reference(s, i + 1, j)>>)
        ELSE ReferencePostfix(s, i, j)

Expected == Reference(text, 1, Len(text))

\* The operands of a tree, from left to right.
RECURSIVE Operands(_)
Operands(tree) ==
    IF tree.op \in Leaves THEN <<tree.at>>
    ELSE FoldLeft(LAMBDA seen, arg : seen \o Operands(arg), <<>>, tree.args)

-----------------------------------------------------------------------------
(* Three things the parser does not read as C does: increments next to     *)
(* other operators, a ternary in grouping parentheses, and a bracket where *)
(* atStart takes an index for an array literal or the other way round.     *)

IncrementAmongOperators ==
    /\ Count(text, 1, Len(text), {"++"}) > 0
    /\ Count(text, 1, Len(text), Operators) > 1

TernaryInGroup ==
    \E i, j \in DOMAIN text :
        /\ i < j /\ text[i] = "(" /\ text[j] = "?"
        /\ i = 1 \/ ~ EndsOperand(text, 1, i - 1)
        /\ Count(text, i, j, Openers) = Count(text, i, j, Closers) + 1

MistakenBracket ==
    \E i \in 2..Len(text) : text[i] = "[" /\ text[i - 1] \in Operators \cup {")"}

Gap == IncrementAmongOperators \/ TernaryInGroup \/ MistakenBracket

-----------------------------------------------------------------------------
TypeOK ==
    /\ text \in Seq(Words)
    /\ place \in 1..Len(text) + 1
    /\ \A i \in DOMAIN frames :
          /\ frames[i].use \in Lists \cup {"statement", "index", "then", "else"}
          /\ ~ frames[i].bad
          /\ (frames[i].use = "statement") = (i = 1)
    /\ Len(result) <= 1
    /\ status \in {"parsing", "parsed", "syntax_error"}

\* Every expression that groups one way by the rules of C is accepted, and grouped
\* that way, outside the three gaps: precedence, associativity, accessor chains, calls
\* on members, nested ternaries, and the recursion through arguments and indices.
ReadsAsCOutsideGaps ==
    status # "parsing" /\ ~ Gap /\ Expected # NoTree
        => status = "parsed" /\ result = <<Expected>>

\* Whatever is accepted, well formed or not ("1 2 +" is), every operand of the text is
\* in the tree exactly once, and evaluation meets them in the order of the text.
NoOperandLost ==
    status = "parsed" =>
        Operands(result[1]) = SelectSeq([i \in 1..Len(text) |-> i],
                                        LAMBDA i : text[i] \in Leaves \cup {"f("})

\* Every round of the loop consumes a token or returns: no text keeps the parser busy
\* for ever.
ParsingEnds == <>(status # "parsing")
=============================================================================
