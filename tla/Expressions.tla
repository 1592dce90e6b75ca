------------------------------- MODULE Expressions -------------------------------
(***************************************************************************)
(* The two readers of boolean expressions: the recursive descent of          *)
(* src/src/engine/flow.rs, and the evaluation of DSL matchers by splitting   *)
(* in src/src/engine/dsl/evaluator.rs.  A leaf (a call of a block, a          *)
(* comparison, a function of the response) is one token, Bad whatever the    *)
(* tokenizer of flows refuses.                                             *)
(***************************************************************************)
EXTENDS Integers, Sequences, SequencesExt, FiniteSetsExt

CONSTANTS
    Leaves,     \* the leaves of expressions
    TrueLeaves, \* those that hold
    Bad

ASSUME ExpressionsAssumption ==
    /\ TrueLeaves \subseteq Leaves
    /\ Leaves \cap {"&&", "||", "!", "(", ")", Bad} = {}

\* Token
Token == Leaves \cup {"&&", "||", "!", "(", ")", Bad}

(***************************************************************************)
(* FlowNode: a leaf, a negation, or an operator with two operands.           *)
(***************************************************************************)
FlowLeaf(x) == << "leaf", x >>
FlowNot(t) == << "!", t >>
FlowBinary(op, l, r) == << op, l, r >>
None == << >>

(***************************************************************************)
(* parse_flow.  Each level returns the node and how many tokens are left, or  *)
(* None.                                                                   *)
(***************************************************************************)
Peek(tokens) == IF tokens = << >> THEN "end" ELSE Head(tokens)
Parsed(node, rest) == [node |-> node, rest |-> rest]

RECURSIVE ParseOr(_), ParseAnd(_), ParseUnary(_), MoreOr(_), MoreAnd(_)

ParseAtom(tokens) ==
    CASE Peek(tokens) \in Leaves -> Parsed(FlowLeaf(Head(tokens)), Tail(tokens))
      [] Peek(tokens) = "(" ->
            LET inner == ParseOr(Tail(tokens))
            IN  IF inner # None /\ Peek(inner.rest) = ")"
                THEN Parsed(inner.node, Tail(inner.rest)) ELSE None
      [] OTHER -> None

ParseUnary(tokens) ==
    IF Peek(tokens) # "!" THEN ParseAtom(tokens)
    ELSE LET operand == ParseUnary(Tail(tokens))
         IN  IF operand = None THEN None ELSE Parsed(FlowNot(operand.node), operand.rest)

\* The loops of parse_and and parse_or: what is read so far is the left operand.
MoreAnd(left) ==
    IF left = None \/ Peek(left.rest) # "&&" THEN left
    ELSE LET right == ParseUnary(Tail(left.rest))
         IN  IF right = None THEN None
             ELSE MoreAnd(Parsed(FlowBinary("&&", left.node, right.node), right.rest))

ParseAnd(tokens) == MoreAnd(ParseUnary(tokens))

MoreOr(left) ==
    IF left = None \/ Peek(left.rest) # "||" THEN left
    ELSE LET right == ParseAnd(Tail(left.rest))
         IN  IF right = None THEN None
             ELSE MoreOr(Parsed(FlowBinary("||", left.node, right.node), right.rest))

ParseOr(tokens) == MoreOr(ParseAnd(tokens))

\* Nothing may be left.
ParseFlow(tokens) ==
    LET parsed == ParseOr(tokens)
    IN  IF parsed = None \/ parsed.rest # << >> THEN None ELSE parsed.node

(***************************************************************************)
(* evaluate_dsl.                                                           *)
(***************************************************************************)
Depth(tokens, i) ==
    Cardinality({j \in 1..i : tokens[j] = "("}) - Cardinality({j \in 1..i : tokens[j] = ")"})

\* Mutant of FindTopLevelOperator: also inside of parentheses.
FindAnyOperator(tokens, op) ==
    {i \in DOMAIN tokens : /\ tokens[i] = op
                           /\ \A j \in 1..(i - 1) : tokens[j] # op}

\* The first one outside of parentheses, if there is one.
FindTopLevelOperator(tokens, op) ==
    {i \in DOMAIN tokens :
        /\ tokens[i] = op /\ Depth(tokens, i) = 0
        /\ \A j \in 1..(i - 1) : tokens[j] = op => Depth(tokens, j) # 0}

\* The functions of the response and comparisons; what is no expression is false.
EvaluateLeaf(tokens) == Len(tokens) = 1 /\ Head(tokens) \in TrueLeaves

RECURSIVE EvaluateDsl(_)

\* First && anywhere, then ||, then ! of all that follows, then the parentheses
\* around everything.
EvaluateDsl(tokens) ==
    LET ands == FindTopLevelOperator(tokens, "&&")
        ors == FindTopLevelOperator(tokens, "||")
        before(i) == EvaluateDsl(SubSeq(tokens, 1, i - 1))
        after(i) == EvaluateDsl(SubSeq(tokens, i + 1, Len(tokens)))
    IN  CASE ands # {} -> LET i == Min(ands) IN before(i) /\ after(i)
          [] ands = {} /\ ors # {} -> LET i == Min(ors) IN before(i) \/ after(i)
          [] OTHER ->
                CASE Peek(tokens) = "!" -> ~after(1)
                  [] Peek(tokens) = "(" /\ Last(tokens) = ")" ->
                        EvaluateDsl(SubSeq(tokens, 2, Len(tokens) - 1))
                  [] OTHER -> EvaluateLeaf(tokens)

(***************************************************************************)
(* Properties: what expressions mean.  Rank says how tightly an operator     *)
(* binds; parentheses are put where that makes them necessary.               *)
(***************************************************************************)
RECURSIVE Holds(_), Rendered(_, _)

Holds(t) ==
    CASE t[1] = "leaf" -> t[2] \in TrueLeaves
      [] t[1] = "!" -> ~Holds(t[2])
      [] t[1] = "&&" -> Holds(t[2]) /\ Holds(t[3])
      [] t[1] = "||" -> Holds(t[2]) \/ Holds(t[3])

Rendered(t, rank) ==
    LET inside(u, least) == IF rank[u[1]] >= least THEN Rendered(u, rank)
                            ELSE << "(" >> \o Rendered(u, rank) \o << ")" >>
    IN  CASE t[1] = "leaf" -> << t[2] >>
          [] t[1] = "!" -> << "!" >> \o inside(t[2], rank["!"])
          [] OTHER -> inside(t[2], rank[t[1]]) \o << t[1] >> \o inside(t[3], rank[t[1]] + 1)

FlowRank == [op \in {"||", "&&", "!", "leaf"} |->
                CASE op = "||" -> 1 [] op = "&&" -> 2 [] op = "!" -> 3 [] OTHER -> 4]
\* In DSL matchers || binds tighter than &&, unlike in flows, and in nuclei itself.
DslRank == [FlowRank EXCEPT !["||"] = 2, !["&&"] = 1]

Unparenthesised(tokens) == SelectSeq(tokens, LAMBDA k : k \notin {"(", ")"})

\* A flow, written with no more parentheses than needed, is read as what was meant;
\* and what is accepted at all is the expression it says, neither a token of it
\* skipped nor one moved, and none that the tokenizer refuses.
FlowReads(tree) == ParseFlow(Rendered(tree, FlowRank)) = tree
AcceptedAsWritten(tokens) ==
    LET node == ParseFlow(tokens)
    IN  node # None => Unparenthesised(Rendered(node, FlowRank)) = Unparenthesised(tokens)

\* A DSL matcher is evaluated as what was meant, though it is taken apart at
\* operators found by counting parentheses.
DslReads(tree) == EvaluateDsl(Rendered(tree, DslRank)) = Holds(tree)
================================================================================
