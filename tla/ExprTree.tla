------------------------------ MODULE ExprTree ------------------------------
(***************************************************************************)
(* Indicator formulas (qe-signal, indicator/expr.rs): the expression tree, *)
(* the streaming interpreter that evaluates it one sample at a time, the   *)
(* repair that brings any tree inside the search's limits, the canonical   *)
(* form the content hash is taken over, and the S-expression that stores   *)
(* it.                                                                     *)
(*                                                                         *)
(* An optional value is <<>> or <<v>>.  A square root has no exact value:  *)
(* Std stands for its square and Zscore for z * |z|, both increasing in    *)
(* what the code returns.  A token of the text is a triple of numbers that *)
(* sorts the way the code's text does: constants, parentheses, periods and *)
(* then tags in alphabetical order.  Constants sort by value where the     *)
(* text sorts by digits; commutative ordering only needs a total order.    *)
(***************************************************************************)
EXTENDS Rationals, FiniteSets

CONSTANTS
  PeriodLattice,      \* the window periods of the search, ascending
  ConstGrid,          \* the constants of the search, ascending
  DefaultRankPeriod, MaxDepth, MaxNodes, MaxTotalLookback, MaxParseDepth,
  Trees,              \* trees handed to repair, canonical and the parser
  Formulas,           \* trees evaluated over a stream
  Samples,            \* bars, as a function of the field to a rational
  MaxStream           \* bound: samples observed in a stream

VARIABLES subject,    \* a tree repair and the parser are given
          formula,    \* the tree an indicator is compiled from
          node,       \* its compiled form, with the content of every window
          cached,     \* the value after the last sample
          seen        \* the samples since the indicator was built or reset
exprVars == <<subject, formula, node, cached, seen>>

Fields == <<"close", "high", "low", "volume", "typical">>
UnOps == <<"abs", "sign", "neg">>
BinOps == <<"add", "sub", "mul", "div">>
WinOps == <<"mean", "max", "min", "std", "mad", "delta", "lag", "rank", "zscore">>
Normalising(op) == op \in {"rank", "zscore"}

Input(f) == [k |-> "in", f |-> f]
Const(c) == [k |-> "const", c |-> c]
Unary(op, a) == [k |-> "un", op |-> op, a |-> a]
Binary(op, a, b) == [k |-> "bin", op |-> op, a |-> a, b |-> b]
Window(op, a, p) == [k |-> "win", op |-> op, a |-> a, p |-> p]
IsTerminal(e) == e.k \in {"in", "const"}
Children(e) == CASE IsTerminal(e) -> <<>>
                 [] e.k = "bin" -> <<e.a, e.b>>
                 [] OTHER -> <<e.a>>
WithChildren(e, cs) == CASE IsTerminal(e) -> e
                         [] e.k = "bin" -> [e EXCEPT !.a = cs[1], !.b = cs[2]]
                         [] OTHER -> [e EXCEPT !.a = cs[1]]
----------------------------------------------------------------------------
(* Size, depth and span. *)
Larger(x, y) == IF x < y THEN y ELSE x

RECURSIVE MaxLookback(_)
MaxLookback(e) ==
  CASE e.k = "in" -> 1
    [] e.k = "const" -> 0
    [] e.k = "un" -> MaxLookback(e.a)
    [] e.k = "bin" -> Larger(MaxLookback(e.a), MaxLookback(e.b))
    [] e.k = "win" -> Larger(e.p - 1, 0) + MaxLookback(e.a)

RECURSIVE CountNodes(_)
CountNodes(e) ==
  CASE IsTerminal(e) -> 1
    [] e.k = "bin" -> 1 + CountNodes(e.a) + CountNodes(e.b)
    [] OTHER -> 1 + CountNodes(e.a)

RECURSIVE TreeDepth(_)
TreeDepth(e) ==
  CASE IsTerminal(e) -> 1
    [] e.k = "bin" -> 1 + Larger(TreeDepth(e.a), TreeDepth(e.b))
    [] OTHER -> 1 + TreeDepth(e.a)

(* The node at a position of the pre-order walk, and the tree with that
   node replaced. *)
RECURSIVE NthNode(_, _)
NthNode(e, i) ==
  CASE i = 0 -> <<e>>
    [] i # 0 /\ IsTerminal(e) -> <<>>
    [] i # 0 /\ e.k = "bin" ->
         IF i <= CountNodes(e.a) THEN NthNode(e.a, i - 1)
                                 ELSE NthNode(e.b, i - 1 - CountNodes(e.a))
    [] OTHER -> NthNode(e.a, i - 1)

RECURSIVE PutNode(_, _, _)
PutNode(e, i, new) ==
  CASE i = 0 -> new
    [] i # 0 /\ IsTerminal(e) -> e
    [] i # 0 /\ e.k = "bin" ->
         IF i <= CountNodes(e.a)
           THEN [e EXCEPT !.a = PutNode(e.a, i - 1, new)]
           ELSE [e EXCEPT !.b = PutNode(e.b, i - 1 - CountNodes(e.a), new)]
    [] OTHER -> [e EXCEPT !.a = PutNode(e.a, i - 1, new)]
----------------------------------------------------------------------------
(* The interpreter.  A window node holds the last p values of its child. *)
RECURSIVE CompileNode(_)
CompileNode(e) ==
  LET cs == [i \in 1..Len(Children(e)) |-> CompileNode(Children(e)[i])]
      n == WithChildren(e, cs)
  IN  IF e.k = "win"
        THEN [k |-> "win", op |-> e.op, a |-> n.a, p |-> Larger(e.p, 1), roll |-> <<>>]
        ELSE n

PushRoll(roll, cap, v) == IF Len(roll) = cap THEN Append(Tail(roll), v)
                                             ELSE Append(roll, v)

FieldValue(f, s) ==
  IF f = "typical" THEN Over(SumQ(<<s["high"], s["low"], s["close"]>>), Whole(3)) ELSE s[f]

ApplyUnary(op, v) ==
  CASE op = "abs" -> AbsQ(v)
    [] op = "neg" -> Negate(v)
    [] op = "sign" -> Whole(IF v.n = 0 THEN 0 ELSE IF v.n > 0 THEN 1 ELSE -1)

ApplyBinary(op, x, y) ==
  CASE op = "add" -> Plus(x, y)
    [] op = "sub" -> Minus(x, y)
    [] op = "mul" -> Times(x, y)
    [] op = "div" -> IF y.n = 0 THEN Zero ELSE Over(x, y)

Extreme(op, roll) ==
  CHOOSE v \in {roll[i] : i \in 1..Len(roll)} :
    \A i \in 1..Len(roll) : IF op = "max" THEN ~Less(v, roll[i]) ELSE ~Less(roll[i], v)
Variance(roll) ==
  LET m == MeanQ(roll)
  IN  MeanQ([i \in 1..Len(roll) |-> Times(Minus(roll[i], m), Minus(roll[i], m))])
ZscoreClip == Whole(16)                        \* the square of the code's 4

Aggregate(op, roll) ==
  LET last == roll[Len(roll)]
      m == MeanQ(roll)
      d == Minus(last, m)
  IN  CASE op = "mean" -> m
        [] op \in {"max", "min"} -> Extreme(op, roll)
        [] op = "std" -> Variance(roll)
        [] op = "mad" -> MeanQ([i \in 1..Len(roll) |-> AbsQ(Minus(roll[i], m))])
        [] op = "delta" -> Minus(last, roll[1])
        [] op = "lag" -> roll[1]
        [] op = "rank" -> Frac(Cardinality({i \in 1..Len(roll) : Less(roll[i], last)}), Len(roll))
        [] op = "zscore" ->
             IF Variance(roll).n = 0 THEN Zero
             ELSE MaxQ(Negate(ZscoreClip),
                       MinQ(ZscoreClip, Over(Times(d, AbsQ(d)), Variance(roll))))

RECURSIVE Eval(_, _)
Eval(n, s) ==
  CASE n.k = "in" -> [node |-> n, val |-> <<FieldValue(n.f, s)>>]
    [] n.k = "const" -> [node |-> n, val |-> <<n.c>>]
    [] n.k = "un" ->
         LET a == Eval(n.a, s)
         IN  [node |-> [n EXCEPT !.a = a.node],
              val |-> IF a.val = <<>> THEN <<>> ELSE <<ApplyUnary(n.op, a.val[1])>>]
    [] n.k = "bin" ->
         LET a == Eval(n.a, s)
             b == Eval(n.b, s)
         IN  [node |-> [n EXCEPT !.a = a.node, !.b = b.node],
              val |-> IF a.val = <<>> \/ b.val = <<>> THEN <<>>
                      ELSE <<ApplyBinary(n.op, a.val[1], b.val[1])>>]
    [] n.k = "win" ->
         LET a == Eval(n.a, s)
             roll == IF a.val = <<>> THEN n.roll ELSE PushRoll(n.roll, n.p, a.val[1])
         IN  [node |-> [n EXCEPT !.a = a.node, !.roll = roll],
              val |-> IF Len(roll) = n.p THEN <<Aggregate(n.op, roll)>> ELSE <<>>]

(* mutant: a reset leaves the windows under a window as they are *)
ClearOuter(n) == IF n.k = "win" THEN [n EXCEPT !.roll = <<>>] ELSE n
RECURSIVE ClearNode(_)
ClearNode(n) ==
  CASE IsTerminal(n) -> n
    [] n.k = "bin" -> [n EXCEPT !.a = ClearNode(n.a), !.b = ClearNode(n.b)]
    [] n.k = "win" -> [n EXCEPT !.a = ClearNode(n.a), !.roll = <<>>]
    [] n.k = "un" -> [n EXCEPT !.a = ClearNode(n.a)]

RECURSIVE EvalFrom(_, _)
EvalFrom(n, s) == IF s = <<>> THEN <<>>
                  ELSE LET r == Eval(n, Head(s)) IN <<r.val>> \o EvalFrom(r.node, Tail(s))
EvalStream(e, s) == EvalFrom(CompileNode(e), s)
----------------------------------------------------------------------------
(* Repair. *)
Nearest(grid, Dist(_)) ==               \* the first grid point at the least distance
  grid[CHOOSE i \in 1..Len(grid) :
         /\ \A j \in 1..Len(grid) : ~Less(Dist(grid[j]), Dist(grid[i]))
         /\ \A j \in 1..(i - 1) : Less(Dist(grid[i]), Dist(grid[j]))]

SnapPeriod(p) == LET D(g) == Whole(Magnitude(p - g)) IN Nearest(PeriodLattice, D)
SnapConst(c) == LET D(g) == AbsQ(Minus(c, g)) IN Nearest(ConstGrid, D)

RECURSIVE SnapInPlace(_)
SnapInPlace(e) ==
  CASE e.k = "in" -> e
    [] e.k = "const" -> Const(SnapConst(e.c))
    [] e.k = "un" -> [e EXCEPT !.a = SnapInPlace(e.a)]
    [] e.k = "bin" -> [e EXCEPT !.a = SnapInPlace(e.a), !.b = SnapInPlace(e.b)]
    [] e.k = "win" -> [e EXCEPT !.a = SnapInPlace(e.a), !.p = SnapPeriod(e.p)]

(* One pruning: the first node, children before parents and left before
   right, whose children are all terminals becomes the close. *)
RECURSIVE Prune(_, _)
Prune(e, isRoot) ==
  LET down(x) == Prune(x, FALSE)
      here == IF ~isRoot /\ \A i \in 1..Len(Children(e)) : IsTerminal(Children(e)[i])
                THEN <<Input("close")>> ELSE <<>>
  IN  CASE IsTerminal(e) -> <<>>
        [] e.k = "bin" ->
             IF down(e.a) # <<>> THEN <<[e EXCEPT !.a = down(e.a)[1]]>>
             ELSE IF down(e.b) # <<>> THEN <<[e EXCEPT !.b = down(e.b)[1]]>> ELSE here
        [] OTHER -> IF down(e.a) # <<>> THEN <<[e EXCEPT !.a = down(e.a)[1]]>> ELSE here

Oversize(e) == \/ MaxLookback(e) > MaxTotalLookback
               \/ TreeDepth(e) > MaxDepth
               \/ CountNodes(e) > MaxNodes

RECURSIVE PruneToFit(_)
PruneToFit(e) == IF Oversize(e) /\ Prune(e, TRUE) # <<>>
                   THEN PruneToFit(Prune(e, TRUE)[1]) ELSE e

RootNormalised(e) == e.k = "win" /\ Normalising(e.op)
Repair(e) ==
  PruneToFit(SnapInPlace(IF RootNormalised(e) THEN e ELSE Window("rank", e, DefaultRankPeriod)))
----------------------------------------------------------------------------
(* Text. *)
Tags == <<"abs", "add", "close", "delta", "div", "high", "lag", "low", "mad", "max", "mean",
          "min", "mul", "neg", "rank", "sign", "std", "sub", "typical", "volume", "zscore">>
TagToken(t) == <<3, CHOOSE i \in 1..Len(Tags) : Tags[i] = t, 0>>
Open == <<1, 0, 0>>
Close == <<1, 1, 0>>
In(x, s) == \E i \in 1..Len(s) : s[i] = x

RECURSIVE WriteSexpr(_)
WriteSexpr(e) ==
  CASE e.k = "in" -> <<TagToken(e.f)>>
    [] e.k = "const" -> <<<<0, e.c.n, e.c.d>>>>
    [] e.k = "un" -> <<Open, TagToken(e.op)>> \o WriteSexpr(e.a) \o <<Close>>
    [] e.k = "bin" -> <<Open, TagToken(e.op)>> \o WriteSexpr(e.a) \o WriteSexpr(e.b) \o <<Close>>
    [] e.k = "win" -> <<Open, TagToken(e.op), <<2, e.p, 0>>>> \o WriteSexpr(e.a) \o <<Close>>

RECURSIVE Before(_, _)
Before(s, t) ==                             \* the order of two texts
  IF s = <<>> THEN t # <<>>
  ELSE /\ t # <<>>
       /\ LET x == Head(s)
              y == Head(t)
              i == CHOOSE j \in 1..3 : x[j] # y[j] /\ \A l \in 1..(j - 1) : x[l] = y[l]
          IN  IF x = y THEN Before(Tail(s), Tail(t)) ELSE x[i] < y[i]

(* The parser answers <<tree, position after it>>, or <<>> for an error. *)
RECURSIVE ParseNode(_, _, _)
ParseNode(toks, pos, depth) ==
  LET has(i) == i <= Len(toks)
      closed(r) == r # <<>> /\ has(r[2]) /\ toks[r[2]] = Close
      atom == IF toks[pos][1] = 0 THEN <<Const([n |-> toks[pos][2], d |-> toks[pos][3]]), pos + 1>>
              ELSE IF toks[pos][1] = 3 /\ In(Tags[toks[pos][2]], Fields)
                     THEN <<Input(Tags[toks[pos][2]]), pos + 1>> ELSE <<>>
      head == IF has(pos + 1) /\ toks[pos + 1][1] = 3 THEN Tags[toks[pos + 1][2]] ELSE ""
      one == ParseNode(toks, pos + 2, depth + 1)
      two == IF one = <<>> THEN <<>> ELSE ParseNode(toks, one[2], depth + 1)
      win == IF has(pos + 2) /\ toks[pos + 2][1] = 2
               THEN ParseNode(toks, pos + 3, depth + 1) ELSE <<>>
  IN  CASE depth > MaxParseDepth \/ ~has(pos) -> <<>>
        [] depth <= MaxParseDepth /\ has(pos) ->
           IF toks[pos] # Open THEN atom
           ELSE CASE In(head, UnOps) ->
                       IF closed(one) THEN <<Unary(head, one[1]), one[2] + 1>> ELSE <<>>
                  [] In(head, BinOps) ->
                       IF closed(two) THEN <<Binary(head, one[1], two[1]), two[2] + 1>> ELSE <<>>
                  [] In(head, WinOps) ->
                       IF closed(win) THEN <<Window(head, win[1], toks[pos + 2][2]), win[2] + 1>>
                                      ELSE <<>>
                  [] OTHER -> <<>>

ParseSexpr(toks) ==
  LET r == ParseNode(toks, 1, 0)
  IN  IF r # <<>> /\ r[2] = Len(toks) + 1 THEN <<r[1]>> ELSE <<>>
----------------------------------------------------------------------------
(* The canonical form. *)
FoldUnordered(op, a, b) ==
  IF a.k = "const" /\ b.k = "const" THEN Const(ApplyBinary(op, a.c, b.c)) ELSE Binary(op, a, b)
FoldBinary(op, a, b) ==
  IF op \in {"add", "mul"} /\ Before(WriteSexpr(b), WriteSexpr(a))
    THEN FoldUnordered(op, b, a) ELSE FoldUnordered(op, a, b)

RECURSIVE Fold(_)
Fold(e) ==
  CASE IsTerminal(e) -> e
    [] e.k = "un" -> LET a == Fold(e.a)
                     IN  IF a.k = "const" THEN Const(ApplyUnary(e.op, a.c)) ELSE Unary(e.op, a)
    [] e.k = "bin" -> FoldBinary(e.op, Fold(e.a), Fold(e.b))
    [] e.k = "win" -> [e EXCEPT !.a = Fold(e.a)]

PositiveConst(e) == e.k = "const" /\ e.c.n > 0

RECURSIVE StripMonotoneIncr(_)
StripMonotoneIncr(e) ==
  IF e.k # "bin" THEN e
  ELSE CASE e.op = "add" /\ e.a.k = "const" -> StripMonotoneIncr(e.b)
         [] e.op = "add" /\ e.a.k # "const" /\ e.b.k = "const" -> StripMonotoneIncr(e.a)
         [] e.op = "sub" /\ e.b.k = "const" -> StripMonotoneIncr(e.a)
         [] e.op = "mul" /\ PositiveConst(e.a) -> StripMonotoneIncr(e.b)
         [] e.op = "mul" /\ ~PositiveConst(e.a) /\ PositiveConst(e.b) -> StripMonotoneIncr(e.a)
         [] e.op = "div" /\ PositiveConst(e.b) -> StripMonotoneIncr(e.a)
         [] OTHER -> e

Canonical(e) ==
  LET f == Fold(e)
  IN  IF RootNormalised(f) THEN [f EXCEPT !.a = StripMonotoneIncr(f.a)] ELSE f
CanonicalHash(e) == WriteSexpr(Canonical(e))   \* SHA-256 of the text: equal iff the text is
----------------------------------------------------------------------------
(* The indicator as the catalogue drives it. *)
ExprInit ==
  /\ subject \in Trees
  /\ formula \in Formulas
  /\ node = CompileNode(formula)
  /\ cached = <<>>
  /\ seen = <<>>

Observe ==
  /\ Len(seen) < MaxStream
  /\ \E s \in Samples :
       LET r == Eval(node, s)
       IN  /\ node' = r.node
           /\ cached' = r.val
           /\ seen' = Append(seen, s)
  /\ UNCHANGED <<subject, formula>>

ResetIndicator ==
  /\ node' = ClearNode(node)
  /\ cached' = <<>>
  /\ seen' = <<>>
  /\ UNCHANGED <<subject, formula>>

ExprNext == Observe \/ ResetIndicator
----------------------------------------------------------------------------
(* What the value is, without any state: a window at sample t covers the
   child's values at the last p samples, and is defined once they all are. *)
RECURSIVE ValueAt(_, _, _)
ValueAt(e, s, t) ==
  CASE e.k = "in" -> <<FieldValue(e.f, s[t])>>
    [] e.k = "const" -> <<e.c>>
    [] e.k = "un" -> LET a == ValueAt(e.a, s, t)
                     IN  IF a = <<>> THEN <<>> ELSE <<ApplyUnary(e.op, a[1])>>
    [] e.k = "bin" -> LET a == ValueAt(e.a, s, t)
                          b == ValueAt(e.b, s, t)
                      IN  IF a = <<>> \/ b = <<>> THEN <<>> ELSE <<ApplyBinary(e.op, a[1], b[1])>>
    [] e.k = "win" ->
         LET p == Larger(e.p, 1)
             vs == [i \in 1..p |-> ValueAt(e.a, s, t - p + i)]
         IN  IF t < p \/ (\E i \in 1..p : vs[i] = <<>>) THEN <<>>
             ELSE <<Aggregate(e.op, [i \in 1..p |-> vs[i][1]])>>

(* A window over nothing but constants fills from the first sample on while
   its span counts no bar; every other tree has values from its span on. *)
RECURSIVE ReadsBars(_)
ReadsBars(e) == e.k = "in" \/ \E i \in 1..Len(Children(e)) : ReadsBars(Children(e)[i])
RECURSIVE WindowsReadBars(_)
WindowsReadBars(e) == /\ e.k = "win" => ReadsBars(e.a)
                      /\ \A i \in 1..Len(Children(e)) : WindowsReadBars(Children(e)[i])

\* The streaming interpreter, with its windows, resets and warm-up, gives
\* the value the windows define over the samples seen so far; a tree whose
\* windows read bars has one from max_lookback samples on, and that value
\* depends on the last max_lookback samples alone, which is what purge and
\* embargo are sized by.
StreamIsWindow ==
  seen # <<>> =>
    LET n == Len(seen)
        span == MaxLookback(formula)
    IN  /\ cached = ValueAt(formula, seen, n)
        /\ (WindowsReadBars(formula) /\ ReadsBars(formula)) =>
             /\ (cached # <<>>) <=> (n >= span)
             /\ n >= span => cached = ValueAt(formula, SubSeq(seen, n - span + 1, n), span)

OnGrid(e) == \A i \in 0..(CountNodes(e) - 1) :
               LET x == NthNode(e, i)[1]
               IN  /\ x.k = "win" => In(x.p, PeriodLattice)
                   /\ x.k = "const" => In(x.c, ConstGrid)

\* Repair takes any tree the search can build to one inside every limit, on
\* the grids and with a normalising root, and leaves such a tree alone.
RepairSound ==
  LET r == Repair(subject)
  IN  /\ MaxLookback(r) <= MaxTotalLookback /\ TreeDepth(r) <= MaxDepth /\ CountNodes(r) <= MaxNodes
      /\ OnGrid(r) /\ RootNormalised(r) /\ Repair(r) = r

\* The canonical form is canonical, its text parses back to it, and on a
\* stream it has exactly the values of the tree it stands for: two formulas
\* with one hash are one indicator.
CanonicalSound ==
  LET c == Canonical(formula)
  IN  /\ Canonical(c) = c
      /\ ParseSexpr(WriteSexpr(c)) = <<c>>
      /\ seen # <<>> => ValueAt(c, seen, Len(seen)) = cached

\* The parser accepts a text only if it is exactly what some tree is written
\* as: dropping, repeating or replacing a token is noticed or names another
\* tree.
ParserExact ==
  LET w == WriteSexpr(subject)
      without(i) == SubSeq(w, 1, i - 1) \o SubSeq(w, i + 1, Len(w))
      doubled(i) == SubSeq(w, 1, i) \o SubSeq(w, i, Len(w))
  IN  /\ ParseSexpr(w) = IF TreeDepth(subject) <= MaxParseDepth + 1 THEN <<subject>> ELSE <<>>
      /\ \A i \in 1..Len(w) : \A t \in {without(i), doubled(i)} :
           ParseSexpr(t) # <<>> => WriteSexpr(ParseSexpr(t)[1]) = t

\* What the formula language owes a stored formula: however it is streamed,
\* repaired, put in canonical form, written and read back (expr.rs), it is the
\* same function of its window.
FormulaSound == StreamIsWindow /\ RepairSound /\ CanonicalSound /\ ParserExact
=============================================================================
