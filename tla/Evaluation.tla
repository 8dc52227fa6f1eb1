----------------------------- MODULE Evaluation -----------------------------
(***************************************************************************)
(* The evaluation of a parsed expression: the nodes for operators, string  *)
(* interpolation, the ternary and calls.  Their recursion is a stack of    *)
(* what is left to do (todo) and one of the values waiting for their       *)
(* operator (held).  What a variable holds, what a function returns and    *)
(* whether either fails is arbitrary, and recorded in read.                *)
(*                                                                         *)
(* Integers are Width bits wide; floats and doubles are a kind without a   *)
(* value, so what they compare to is arbitrary; a string is the sequence   *)
(* of what was put together to make it.                                    *)
(***************************************************************************)
EXTENDS ExpressionParser

CONSTANTS
    Width,      \* bits of an int
    Readings    \* what a variable may hold and a function may return

IntMin == -(2 ^ (Width - 1))
IntMax == -IntMin - 1

Number(n) == [kind |-> "int", n |-> n]
Bool(b) == [kind |-> "bool", n |-> IF b THEN 1 ELSE 0]
Text(parts) == [kind |-> "string", parts |-> parts]
Letter == Text(<<[kind |-> "letter"]>>)
Real == [kind |-> "real"]
Null == [kind |-> "null"]
Error == [kind |-> "error"]     \* an exception
Killed == [kind |-> "killed"]   \* SIGFPE

True == Bool(TRUE)
False == Bool(FALSE)

Values == {Number(n) : n \in IntMin..IntMax} \cup {True, False, Real, Null}
              \cup {Letter, Text(<<>>)}

ASSUME WidthAssumption == Width \in Nat \ {0, 1}
ASSUME ReadingsAssumption == Readings \subseteq Values \cup {Error}

VARIABLES
    todo,       \* what is left to evaluate, the next last
    held,       \* the values of operands whose operator has not been applied
    read,       \* <<place, value>> of the variables read and functions called
    outcome     \* <<>>, or <<the value, Error or Killed>>

evaluation == <<todo, held, read, outcome>>
allVars == <<vars, evaluation>>

-----------------------------------------------------------------------------
(* The operators.  An operator has a set of outcomes.                      *)

Wrap(n) == ((n - IntMin) % 2 ^ Width) + IntMin

Absolute(n) == IF n < 0 THEN -n ELSE n

\* Mutant: rounds towards minus infinity.
FlooredQuotient(l, r) == IF r < 0 THEN (-l) \div (-r) ELSE l \div r

\* int division of C++.
Quotient(l, r) ==
    LET q == Absolute(l) \div Absolute(r) IN IF (l < 0) = (r < 0) THEN q ELSE -q

\* ValuePtr::toString, of a part of a string.
Parts(v) == IF v.kind = "string" THEN v.parts ELSE <<v>>

OnInts(op, l, r) ==
    CASE op = "+" -> {Number(Wrap(l + r))}
      [] op = "-" -> {Number(Wrap(l - r))}
      [] op = "*" -> {Number(Wrap(l * r))}
      [] op = "==" -> {Bool(l = r)}
      [] op = "/" /\ r = 0 -> {Error}
      [] op = "/" /\ l = IntMin /\ r = -1 -> {Killed}
      [] op = "/" /\ r # 0 /\ ~ (l = IntMin /\ r = -1) -> {Number(Quotient(l, r))}
      [] OTHER -> {Error}

OnReals(op) ==
    CASE op \in {"+", "-", "*", "/"} -> {Real}
      [] op = "==" -> {True, False}
      [] OTHER -> {Error}

OnStrings(op, l, r) ==
    CASE op = "+" -> {Text(l \o r)}
      [] op = "==" -> {Bool(l = r)}
      [] OTHER -> {Error}

OnBools(op, l, r) ==
    CASE op = "&&" -> {Bool(l = True /\ r = True)}
      [] op = "==" -> {Bool(l = r)}
      [] OTHER -> {Error}

Numeric == {"int", "real"}

\* BinaryExpressionNode.  A null operand makes any operator but == yield false.
Binary(op, l, r) ==
    LET kinds == {l.kind, r.kind}
    IN  CASE "null" \in kinds -> {Bool(op = "==" /\ l = r)}
          [] kinds = {"bool"} -> OnBools(op, l, r)
          [] kinds = {"int"} -> OnInts(op, l.n, r.n)
          [] kinds \subseteq Numeric /\ "real" \in kinds -> OnReals(op)
          [] kinds = {"string"} -> OnStrings(op, l.parts, r.parts)
          [] op = "+" /\ "string" \in kinds ->
               {Text(Parts(l) \o Parts(r))}
          [] OTHER -> {Error}

\* UnaryExpressionNode; "++" is the value plus one, and changes no variable.
OnOperand(op, v) ==
    CASE v.kind = "int" /\ op = "u-" -> {Number(Wrap(-v.n))}
      [] v.kind = "int" /\ op \in {"u++", "p++"} -> {Number(Wrap(v.n + 1))}
      [] v.kind = "real" /\ op # "u!" -> {Real}
      [] v.kind = "bool" /\ op = "u!" -> {Bool(v = False)}
      [] v.kind = "string" /\ op = "u-" -> {v}
      [] OTHER -> {Error}

-----------------------------------------------------------------------------
Evaluate(tree) == [do |-> "evaluate", tree |-> tree]
Apply(op) == [do |-> "apply", op |-> op]
Choose(branches) == [do |-> "choose", branches |-> branches]
Call(at, n) == [do |-> "call", at |-> at, n |-> n]

EvaluateAll(trees) == [i \in 1..Len(trees) |-> Evaluate(trees[i])]

Constant(v) == [op |-> "constant", value |-> v]

\* interpolate(): the literal and the variable are added to an empty string.
Interpolation(at) ==
    Tree("+", <<Tree("+", <<Constant(Text(<<>>)), Constant(Letter)>>), Variable(at)>>)

Binaries == Infix \cup {"+"}

InitEvaluation ==
    /\ Init
    /\ todo = <<>> /\ held = <<>> /\ read = <<>> /\ outcome = <<>>

Parse == Next /\ UNCHANGED evaluation

\* Accessors and array literals are evaluated elsewhere (Objects, Values).
Begin ==
    /\ status = "parsed" /\ todo = <<>> /\ outcome = <<>>
    /\ \A i \in DOMAIN text : text[i] \notin {"->", "["}
    /\ todo' = <<Evaluate(result[1])>>
    /\ UNCHANGED <<vars, held, read, outcome>>

task == Last(todo)
Evaluating(ops) == todo # <<>> /\ task.do = "evaluate" /\ task.tree.op \in ops

\* A node returns v, or throws, to those that wait for it; below are the other values.
Return(v, below) ==
    IF v \in {Error, Killed} \/ Len(todo) = 1
    THEN outcome' = <<v>> /\ todo' = <<>> /\ held' = <<>>
    ELSE outcome' = <<>> /\ todo' = Front(todo) /\ held' = Append(below, v)

EvaluateVariable ==
    /\ Evaluating({"x"})
    /\ \E v \in Readings :
          /\ read' = Append(read, <<task.tree.at, v>>)
          /\ Return(v, held)
    /\ UNCHANGED vars

EvaluateConstant ==
    /\ Evaluating({"constant"})
    /\ Return(task.tree.value, held)
    /\ UNCHANGED <<vars, read>>

\* Replaces the task by those of tasks, the first of them next.
Expand(tasks) ==
    /\ todo' = Front(todo) \o Reverse(tasks)
    /\ UNCHANGED <<vars, held, read, outcome>>

BuildInterpolation ==
    /\ Evaluating({"s"})
    /\ Expand(<<Evaluate(Interpolation(task.tree.at))>>)

\* Mutant: the right operand is evaluated first.
OperandTasksReversed(tree) == Reverse(EvaluateAll(tree.args)) \o <<Apply(tree.op)>>

\* Both operands, the left one first; "&&" is no exception.
OperandTasks(tree) == EvaluateAll(tree.args) \o <<Apply(tree.op)>>

EvaluateOperands ==
    /\ Evaluating(Unary \cup Binaries)
    /\ Expand(OperandTasks(task.tree))

EvaluateArguments ==
    /\ Evaluating({"call"})
    /\ LET tree == task.tree
       IN  Expand(EvaluateAll(Tail(tree.args)) \o <<Call(tree.args[1].at, Len(tree.args) - 1)>>)

EvaluateCondition ==
    /\ Evaluating({"?:"})
    /\ LET tree == task.tree
       IN  Expand(<<Evaluate(tree.args[1]), Choose(Tail(tree.args))>>)

ApplyOperator ==
    /\ todo # <<>> /\ task.do = "apply"
    /\ LET r == Last(held)
           l == held[Len(held) - 1]
       IN  IF task.op \in Unary
           THEN \E v \in OnOperand(task.op, r) : Return(v, Front(held))
           ELSE \E v \in Binary(task.op, l, r) : Return(v, Back(held, 2))
    /\ UNCHANGED <<vars, read>>

ChooseBranch ==
    /\ todo # <<>> /\ task.do = "choose"
    /\ LET condition == Last(held)
       IN  IF condition.kind # "bool" THEN Return(Error, <<>>)
           ELSE /\ todo' = Append(Front(todo),
                                  Evaluate(task.branches[IF condition = True THEN 1 ELSE 2]))
                /\ held' = Front(held)
                /\ UNCHANGED outcome
    /\ UNCHANGED <<vars, read>>

CallFunction ==
    /\ todo # <<>> /\ task.do = "call"
    /\ \E v \in Readings :
          /\ read' = Append(read, <<task.at, v>>)
          /\ Return(v, Back(held, task.n))
    /\ UNCHANGED vars

NextEvaluation ==
    \/ Parse \/ Begin \/ EvaluateVariable \/ EvaluateConstant \/ BuildInterpolation
    \/ EvaluateOperands \/ EvaluateArguments \/ EvaluateCondition
    \/ ApplyOperator \/ ChooseBranch \/ CallFunction

SpecEvaluation == InitEvaluation /\ [][NextEvaluation]_allVars /\ WF_allVars(NextEvaluation)

-----------------------------------------------------------------------------
(* The reference: what an expression grouped as in C means, given what was *)
(* read.  No meaning is the empty set.                                     *)

ReadAt(at) == {read[i][2] : i \in {i \in DOMAIN read : read[i][1] = at}} \ {Error}

\* The int n that is l op r, modulo the width for what overflows.
Solves(op, n, l, r) ==
    CASE op = "-" -> (n + r - l) % 2 ^ Width = 0
      [] op = "*" -> (n - l * r) % 2 ^ Width = 0
      [] op = "/" -> \E rest \in 1 - Absolute(r)..Absolute(r) - 1 : n * r + rest = l /\ rest * l >= 0

\* Two things C does not have: an operator other than == beside a null, and the minus of
\* a string.
NullOperand == {False}
MinusOfString(v) == {v}

Meant(op, l, r) ==
    LET kinds == {l.kind, r.kind}
        numbers == kinds \subseteq Numeric /\ kinds # {"int"}
    IN  CASE op = "==" /\ numbers -> {True, False}
          [] op = "==" /\ (l.kind = r.kind \/ "null" \in kinds) -> {Bool(l = r)}
          [] op = "&&" /\ kinds = {"bool"} -> {Bool({l, r} = {True})}
          [] op \in {"-", "*", "/"} /\ kinds = {"int"} ->
               {Number(n) : n \in {n \in IntMin..IntMax : Solves(op, n, l.n, r.n)}}
          [] op \in {"-", "*", "/"} /\ numbers -> {Real}
          [] op # "==" /\ "null" \in kinds -> NullOperand
          [] OTHER -> {}

MeantByOne(op, v) ==
    CASE v.kind = "int" /\ op = "u-" -> Meant("-", Number(0), v)
      [] v.kind = "int" /\ op \in {"u++", "p++"} -> Meant("-", v, Number(-1))
      [] v.kind = "real" /\ op # "u!" -> {Real}
      [] v.kind = "bool" /\ op = "u!" -> {True, False} \ {v}
      [] v.kind = "string" /\ op = "u-" -> MinusOfString(v)
      [] OTHER -> {}

RECURSIVE Meaning(_)
Meaning(tree) ==
    LET Of(i) == Meaning(tree.args[i])
    IN  CASE tree.op = "x" -> ReadAt(tree.at)
          [] tree.op = "s" -> {Text(Letter.parts \o Parts(v)) : v \in ReadAt(tree.at) \ {Null}}
                                 \cup UNION {NullOperand : v \in ReadAt(tree.at) \cap {Null}}
          [] tree.op = "call" ->
               IF \E i \in 2..Len(tree.args) : Of(i) = {} THEN {} ELSE ReadAt(tree.args[1].at)
          [] tree.op = "?:" ->
               UNION {Of(IF c = True THEN 2 ELSE 3) : c \in Of(1) \cap {True, False}}
          [] tree.op \in Unary -> UNION {MeantByOne(tree.op, v) : v \in Of(1)}
          [] tree.op \in Infix -> UNION {Meant(tree.op, l, r) : l \in Of(1), r \in Of(2)}

\* The orders in which the operands of a tree may be read: the arguments of a call before
\* the call, and one branch of a ternary.
RECURSIVE ReadingOrders(_)
ReadingOrders(tree) ==
    LET Then(before, arg) == {b \o a : b \in before, a \in ReadingOrders(arg)}
        InTurn(trees) == FoldLeft(Then, {<<>>}, trees)
    IN  CASE tree.op \in Leaves -> {<<tree.at>>}
          [] tree.op = "call" -> InTurn(Append(Tail(tree.args), tree.args[1]))
          [] tree.op = "?:" -> InTurn(<<tree.args[1], tree.args[2]>>)
                                   \cup InTurn(<<tree.args[1], tree.args[3]>>)
          [] OTHER -> InTurn(tree.args)

Failed == outcome # <<>> /\ outcome[1] \in {Error, Killed}

-----------------------------------------------------------------------------
\* From the text to the value: an expression has the value that C gives to it, its ints
\* wrapping (and false beside a null, the string for its minus); it fails if and only if
\* what it reads does, the kinds of its operands do not go together, or a division has no
\* result - also on the right of an && whose left operand is false.
EvaluatesAsC ==
    outcome # <<>> /\ ~ Gap /\ Expected # NoTree =>
        IF Meaning(Expected) = {} THEN Failed ELSE outcome[1] \in Meaning(Expected)

\* Variables are read and functions called in the order of the text, each at most once,
\* arguments before their function, of a ternary only the branch that is taken; what
\* fails ends it, and nothing is left out otherwise.
OperandsRunInOrder ==
    read # <<>> =>
        LET places == [i \in DOMAIN read |-> read[i][1]]
        IN  \E order \in ReadingOrders(result[1]) :
               IF outcome = <<>> \/ Failed THEN IsPrefix(places, order) ELSE places = order
=============================================================================
