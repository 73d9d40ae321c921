------------------------------ MODULE RuleLanguage ------------------------------
(***************************************************************************)
(* The expressions of rules, libs/dsl_parser.py: macro expansion, the      *)
(* tokenizer, the recursive-descent parser and the evaluator.  A text is a *)
(* sequence of lexemes: "x" and "y" are fields, "f" a function of numbers, *)
(* "%m%" the macro m and "?" a character that no token pattern knows.      *)
(* Operators of one level are alike, so that one stands for each.          *)
(***************************************************************************)
EXTENDS Integers, Sequences, SequencesExt

CONSTANTS
  Texts,    \* inputs: texts
  Bodies    \* inputs: what a macro may stand for

VARIABLES text, body

languageVars == <<text, body>>

LanguageInit == text \in Texts /\ body \in Bodies

Error == <<"error">>

Operators == <<{"or"}, {"and"}, {}, {">", "in"}, {"+"}, {"*"}>>

-----------------------------------------------------------------------------
(* Mutant of Expanded: the body takes the place of the name as it is.      *)
ExpandedBare(t) == FlattenSeq([i \in 1..Len(t) |-> IF t[i] = "%m%" THEN body ELSE <<t[i]>>])

(* expand_macros: the body in parentheses.                                 *)
Expanded(t) ==
  FlattenSeq([i \in 1..Len(t) |-> IF t[i] = "%m%" THEN <<"(">> \o body \o <<")">> ELSE <<t[i]>>])

(* tokenize searches for the next token: what is between two is passed     *)
(* over and only the end of the text is looked at.  A macro that is not    *)
(* defined stays, and is the field m between two unknown characters.       *)
Readable(t) == t = <<>> \/ t[Len(t)] \notin {"?", "%m%"}
Tokens(t) ==
  LET known == SelectSeq(t, LAMBDA lexeme : lexeme # "?")
  IN  [i \in 1..Len(known) |-> IF known[i] = "%m%" THEN "m" ELSE known[i]]

-----------------------------------------------------------------------------
(* The parser: a method per level, that takes the tokens from pos on and   *)
(* gives the node and the position after it.                               *)
At(tokens, pos) == IF pos \in 1..Len(tokens) THEN tokens[pos] ELSE "end"
Failed == [node |-> Error, pos |-> 0]

RECURSIVE Parsed(_, _, _), More(_, _, _), Arguments(_, _, _)

(* parse_call_expr and parse_atom.                                         *)
Operand(tokens, pos) ==
  LET first == At(tokens, pos)
      inner == Parsed(tokens, 1, pos + 1)
  IN  CASE first \in {"x", "y", "m", "0"} -> [node |-> <<first>>, pos |-> pos + 1]
        [] first = "(" -> IF inner.node # Error /\ At(tokens, inner.pos) = ")"
                          THEN [inner EXCEPT !.pos = @ + 1] ELSE Failed
        [] first = "f" -> IF At(tokens, pos + 1) # "(" THEN Failed
                          ELSE IF At(tokens, pos + 2) = ")" THEN [node |-> <<"f", <<>>>>, pos |-> pos + 3]
                          ELSE Arguments(tokens, <<>>, pos + 2)
        [] OTHER -> Failed

Arguments(tokens, sofar, pos) ==
  LET next == Parsed(tokens, 1, pos)
      args == Append(sofar, next.node)
  IN  CASE next.node = Error -> Failed
        [] At(tokens, next.pos) = "," -> Arguments(tokens, args, next.pos + 1)
        [] At(tokens, next.pos) = ")" -> [node |-> <<"f", args>>, pos |-> next.pos + 1]
        [] OTHER -> Failed

(* The loop of parse_expr, parse_and_expr, parse_add_expr, parse_mul_expr. *)
More(tokens, level, left) ==
  IF left.node = Error \/ At(tokens, left.pos) \notin Operators[level] THEN left
  ELSE LET right == Parsed(tokens, level + 1, left.pos + 1)
       IN  IF right.node = Error THEN Failed
           ELSE More(tokens, level,
                     [node |-> <<At(tokens, left.pos), left.node, right.node>>, pos |-> right.pos])

Parsed(tokens, level, pos) ==
  LET below == Parsed(tokens, level + 1, pos)
      negated == Parsed(tokens, 3, pos + 1)
      right == Parsed(tokens, 5, below.pos + 1)
  IN  CASE level \in {1, 2, 5, 6} -> More(tokens, level, below)
        [] level = 3 -> IF At(tokens, pos) # "not" THEN below
                        ELSE IF negated.node = Error THEN Failed
                        ELSE [negated EXCEPT !.node = <<"not", negated.node>>]
        [] level = 4 -> IF below.node = Error \/ At(tokens, below.pos) \notin Operators[4] THEN below
                        ELSE IF right.node = Error THEN Failed
                        ELSE [right EXCEPT !.node = <<At(tokens, below.pos), below.node, right.node>>]
        [] OTHER -> Operand(tokens, pos)

(* parse_dsl, with which validate_dsl tells whether a rule is accepted.    *)
Parse(t) ==
  LET tokens == Tokens(t)
      whole == Parsed(tokens, 1, 1)
  IN  IF Readable(t) /\ whole.node # Error /\ whole.pos = Len(tokens) + 1 THEN whole.node ELSE Error

-----------------------------------------------------------------------------
(* The evaluator.  A value is nothing (None), a number or a truth value.   *)
Nothing == [is |-> "none", v |-> 0]
Number(n) == [is |-> "number", v |-> n]
Truth(b) == [is |-> "truth", v |-> IF b THEN 1 ELSE 0]
Raised == [is |-> "raised", v |-> 0]
Crashed == [is |-> "crashed", v |-> 0]
Holds(value) == value.v # 0

(* An order with nothing is false, and so is `==`; only `!=` is true, which *)
(* no text here contains.                                                  *)
Compared(left, right) ==
  IF "none" \in {left.is, right.is} THEN Truth(FALSE) ELSE Truth(left.v >= right.v)

(* Arithmetic on anything but numbers is 0; a function raises.             *)
Calculated(op, left, right) ==
  CASE left.is # "number" \/ right.is # "number" -> Number(0)
    [] op = "+" -> Number(left.v + right.v)
    [] OTHER -> Number(left.v * right.v)

(* Both sides are evaluated before an operator is looked at.  Membership   *)
(* in what is not a list or a string is a TypeError.                       *)
RECURSIVE Value(_, _)
Value(node, fields) ==
  LET op == node[1]
      left == Value(node[2], fields)
      right == Value(node[3], fields)
      args == [i \in 1..Len(node[2]) |-> Value(node[2][i], fields)]
  IN  CASE op = "0" -> Number(0)
        [] op \in DOMAIN fields -> fields[op]
        [] op = "f" -> CASE Crashed \in ToSet(args) -> Crashed
                         [] Len(args) # 1 \/ Raised \in ToSet(args) -> Raised
                         [] args[1].is # "number" -> Raised
                         [] OTHER -> args[1]
        [] left \in {Raised, Crashed} -> left
        [] op = "not" -> Truth(~Holds(left))
        [] right \in {Raised, Crashed} -> right
        [] op = "and" -> Truth(Holds(left) /\ Holds(right))
        [] op = "or" -> Truth(Holds(left) \/ Holds(right))
        [] op = ">" -> Compared(left, right)
        [] op = "in" -> Crashed
        [] OTHER -> Calculated(op, left, right)

(* evaluate_rules catches the errors of the language: no match.            *)
Matches(node, fields) == Holds(Value(node, fields))

-----------------------------------------------------------------------------
(* The grammar at the head of the file: the trees of tokens i to j.        *)
RECURSIVE Trees(_, _, _, _), ArgumentTrees(_, _, _)
Trees(tokens, level, i, j) ==
  CASE i > j -> {}
    [] level \in {1, 2, 5, 6} ->
         Trees(tokens, level + 1, i, j) \cup
         UNION {{<<tokens[k], l, r>> : l \in Trees(tokens, level, i, k - 1),
                                       r \in Trees(tokens, level + 1, k + 1, j)} :
                  k \in {k \in i..j : tokens[k] \in Operators[level]}}
    [] level = 3 ->
         Trees(tokens, 4, i, j) \cup
         (IF tokens[i] = "not" THEN {<<"not", t>> : t \in Trees(tokens, 3, i + 1, j)} ELSE {})
    [] level = 4 ->
         Trees(tokens, 5, i, j) \cup
         UNION {{<<tokens[k], l, r>> : l \in Trees(tokens, 5, i, k - 1), r \in Trees(tokens, 5, k + 1, j)} :
                  k \in {k \in i..j : tokens[k] \in Operators[4]}}
    [] OTHER ->
         (IF i = j /\ tokens[i] \in {"x", "y", "m", "0"} THEN {<<tokens[i]>>} ELSE {})
         \cup (IF tokens[i] = "(" /\ tokens[j] = ")" THEN Trees(tokens, 1, i + 1, j - 1) ELSE {})
         \cup (IF tokens[i] = "f" /\ j > i + 1 /\ tokens[i + 1] = "(" /\ tokens[j] = ")"
               THEN {<<"f", args>> : args \in IF j = i + 2 THEN {<<>>} ELSE ArgumentTrees(tokens, i + 2, j - 1)}
               ELSE {})
ArgumentTrees(tokens, i, j) ==
  {<<t>> : t \in Trees(tokens, 1, i, j)} \cup
  UNION {{<<t>> \o rest : t \in Trees(tokens, 1, i, k - 1), rest \in ArgumentTrees(tokens, k + 1, j)} :
           k \in {k \in i..j : tokens[k] = ","}}

(* "Gramática suportada": the parser accepts what the grammar derives, and *)
(* groups it as the grammar does; the grammar gives a text one tree.       *)
ParserMatchesGrammar ==
  Readable(text) =>
    LET tokens == Tokens(text)
        trees == Trees(tokens, 1, 1, Len(tokens))
    IN  trees = IF Parse(text) = Error THEN {} ELSE {Parse(text)}

RECURSIVE Substituted(_, _)
Substituted(node, value) ==
  CASE node[1] = "m" -> value
    [] node[1] = "f" -> <<"f", [i \in 1..Len(node[2]) |-> Substituted(node[2][i], value)]>>
    [] Len(node) = 1 -> node
    [] OTHER -> [i \in 1..Len(node) |-> IF i = 1 THEN node[1] ELSE Substituted(node[i], value)]

(* "substitui %macro_name% por expressão": a macro is one operand, however *)
(* its body and its surroundings are built.                                *)
MacroIsOneOperand ==
  Parse(body) # Error /\ Parse(text) # Error =>
    Parse(Expanded(text)) = Substituted(Parse(text), Parse(body))

RECURSIVE Plain(_)
Plain(node) ==
  CASE node[1] \in {"and", "or"} -> Plain(node[2]) /\ Plain(node[3])
    [] node[1] = ">" -> Len(node[2]) = 1 /\ Len(node[3]) = 1
    [] OTHER -> Len(node) = 1

Contexts == [{"x", "y", "m"} -> {Nothing, Number(0), Number(1)}]

(* A feature that Redis does not have is nothing: a condition that is      *)
(* built of comparisons other than `!=`, of `and` and `or` matches without *)
(* it only if it does with any value of it.  Under `not` and in arithmetic *)
(* what is not there may make a rule match.                                *)
MissingNeverFires ==
  LET node == Parse(text)
  IN  node # Error =>
        (Plain(node) =>
          \A fields \in Contexts :
            Matches(node, fields) =>
              \A f \in DOMAIN fields : fields[f] = Nothing =>
                \A n \in {0, 1} : Matches(node, [fields EXCEPT ![f] = Number(n)]))

RECURSIVE Mentions(_, _)
Mentions(node, op) ==
  CASE node[1] = op -> TRUE
    [] Len(node) = 1 -> FALSE
    [] node[1] = "f" -> \E i \in 1..Len(node[2]) : Mentions(node[2][i], op)
    [] OTHER -> \E i \in 2..Len(node) : Mentions(node[i], op)

(* evaluate_rules goes on with the next rule after an error of one: the    *)
(* only error it does not catch, which costs the event all its rules,      *)
(* comes from a membership in something that is not there.                 *)
ErrorsStayInTheRule ==
  LET node == Parse(text)
  IN  node # Error => \A fields \in Contexts : Value(node, fields) = Crashed => Mentions(node, "in")

(* An expression means what the grammar says, with its macros and without  *)
(* the features that Redis does not have.                                  *)
LanguageSound == ParserMatchesGrammar /\ MacroIsOneOperand /\ MissingNeverFires /\ ErrorsStayInTheRule
=============================================================================
