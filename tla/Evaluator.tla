------------------------------- MODULE Evaluator -------------------------------
(***************************************************************************)
(* Evaluator expressions: their parser (ql/evaluator.py), and the two      *)
(* evaluators of engine/evalsql.py: SQL over one row for the filter (if:), *)
(* Python over a set for the statement if.                                 *)
(*                                                                         *)
(* Every value is a text.  Only its number and its shape matter: num is    *)
(* the number (in units of 1/Unit) that DuckDB's try_cast reads in it, py  *)
(* the one Python's float() reads, or NoNumber; text is "plain" for a      *)
(* finite number as the program writes it, else the text itself.           *)
(***************************************************************************)
EXTENDS Integers, Sequences, FiniteSets, FiniteSetsExt

CONSTANTS NaN, Inf, NegInf, NoNumber, Unit

(* A text that both read as the same number. *)
Value(num, text) == [num |-> num, py |-> num, text |-> text]
Plain(n) == Value(n, "plain")
Nan == Value(NaN, "nan")
Empty == Value(NoNumber, "")
Refused == Value(NoNumber, "refused")   \* an exception, not a value

Flag(b) == Plain(IF b THEN Unit ELSE 0)

(* The nodes of the syntax tree. *)
Lit(v) == [k |-> "lit", v |-> v]
Tag == [k |-> "tag"]
SetCount == [k |-> "count"]
Call(f, args) == [k |-> "call", f |-> f, args |-> args]
Agg(f, e) == [k |-> "agg", f |-> f, e |-> e]
Unary(op, e) == [k |-> "unary", op |-> op, e |-> e]
Bin(op, a, b) == [k |-> "bin", op |-> op, a |-> a, b |-> b]
Ternary(c, a, b) == [k |-> "ternary", c |-> c, a |-> a, b |-> b]

Aggregators == {"u", "min", "max", "sum"}
Arity == [f \in {"version", "count_members", "is_tag", "number", "is_number"} |->
            IF f \in {"number", "is_number"} THEN 1 ELSE 0]

(* The binary operators, lowest precedence first. *)
Levels == <<{"||"}, {"&&"}, {"==", "!="}, {"<", "<=", ">", ">="}, {"+", "-"}, {"*", "/"}>>
Comparisons == Levels[3] \cup Levels[4]

-----------------------------------------------------------------------------
(* The parser.  A token is a record with its type t, or its name; a        *)
(* literal has a value v; t["key"] and count(type) are one token each.  A  *)
(* parse is the tree and the tokens left, or Wrong.                        *)

Tok(t) == [t |-> t]
LitTok(v) == [t |-> "lit", v |-> v]

Parsed(e, rest) == [ok |-> TRUE, e |-> e, rest |-> rest]
Wrong == [ok |-> FALSE]
Sees(ts, types) == ts # << >> /\ Head(ts).t \in types

(* expect: the parse p, then a token. *)
Closed(p, t) == IF p.ok /\ Sees(p.rest, {t}) THEN Parsed(p.e, Tail(p.rest)) ELSE Wrong

RECURSIVE ParseTernary(_), ParseBinary(_, _), ParseMore(_, _), ParseUnary(_), ParsePrimary(_), ParseArgs(_)

ParseTernary(ts) ==
  LET c == ParseBinary(1, ts) IN
    IF ~c.ok \/ ~Sees(c.rest, {"?"}) THEN c
    ELSE LET a == Closed(ParseTernary(Tail(c.rest)), ":") IN
           IF ~a.ok THEN Wrong
           ELSE LET b == ParseTernary(a.rest) IN
                  IF b.ok THEN Parsed(Ternary(c.e, a.e, b.e), b.rest) ELSE Wrong

ParseBinary(level, ts) ==
  IF level > Len(Levels) THEN ParseUnary(ts) ELSE ParseMore(level, ParseBinary(level + 1, ts))

(* Mutant: the right operand takes the rest of its level. *)
ParseMoreRight(level, left) ==
  IF ~left.ok \/ ~Sees(left.rest, Levels[level]) THEN left
  ELSE LET right == ParseBinary(level, Tail(left.rest)) IN
         IF ~right.ok THEN Wrong ELSE Parsed(Bin(Head(left.rest).t, left.e, right.e), right.rest)

(* The while loop of a level. *)
ParseMore(level, left) ==
  IF ~left.ok \/ ~Sees(left.rest, Levels[level]) THEN left
  ELSE LET right == ParseBinary(level + 1, Tail(left.rest)) IN
         IF ~right.ok THEN Wrong
         ELSE ParseMore(level, Parsed(Bin(Head(left.rest).t, left.e, right.e), right.rest))

ParseUnary(ts) ==
  IF ~Sees(ts, {"!", "-"}) THEN ParsePrimary(ts)
  ELSE LET p == ParseUnary(Tail(ts)) IN
         IF p.ok THEN Parsed(Unary(Head(ts).t, p.e), p.rest) ELSE Wrong

(* The arguments of an element function, up to its closing bracket: at     *)
(* most one for the functions there are.                                   *)
ParseArgs(ts) ==
  IF Sees(ts, {")"}) THEN Parsed(<< >>, Tail(ts))
  ELSE LET p == Closed(ParseTernary(ts), ")") IN
         IF p.ok THEN Parsed(<<p.e>>, p.rest) ELSE Wrong

ParsePrimary(ts) ==
  CASE ts = << >> -> Wrong
    [] Sees(ts, {"lit"}) -> Parsed(Lit(Head(ts).v), Tail(ts))
    [] Sees(ts, {"("}) -> Closed(ParseTernary(Tail(ts)), ")")
    [] Sees(ts, {"tag"}) -> Parsed(Tag, Tail(ts))
    [] Sees(ts, {"count"}) -> Parsed(SetCount, Tail(ts))
    [] Sees(ts, Aggregators) /\ Sees(Tail(ts), {"("}) ->
         LET p == Closed(ParseTernary(Tail(Tail(ts))), ")") IN
           IF p.ok THEN Parsed(Agg(Head(ts).t, p.e), p.rest) ELSE Wrong
    [] Sees(ts, DOMAIN Arity) /\ Sees(Tail(ts), {"("}) ->
         LET p == ParseArgs(Tail(Tail(ts))) IN
           IF p.ok /\ Len(p.e) = Arity[Head(ts).t] THEN Parsed(Call(Head(ts).t, p.e), p.rest) ELSE Wrong
    [] OTHER -> Wrong

(* parse_program: nothing may be left. *)
Parse(ts) == LET p == ParseTernary(ts) IN IF p.ok /\ p.rest = << >> THEN p ELSE Wrong

-----------------------------------------------------------------------------
(* Floating-point numbers.  The order is DuckDB's, in which a NaN equals   *)
(* itself and is greater than any other number.                            *)

Beyond(x) == CASE x = NegInf -> -1 [] x = Inf -> 1 [] x = NaN -> 2 [] OTHER -> 0
IsInfinite(x) == x \in {Inf, NegInf}

Less(x, y) == IF Beyond(x) = 0 /\ Beyond(y) = 0 THEN x < y ELSE Beyond(x) < Beyond(y)

Compare(op, x, y) ==
  CASE op = "<" -> Less(x, y)
    [] op = "<=" -> ~Less(y, x)
    [] op = ">" -> Less(y, x)
    [] op = ">=" -> ~Less(x, y)
    [] op = "==" -> x = y
    [] op = "!=" -> x # y

Sign(x) == IF x = 0 THEN 0 ELSE IF Less(x, 0) THEN -1 ELSE 1

(* The infinity of a sign; of none, no number. *)
Infinite(sign) == IF sign > 0 THEN Inf ELSE IF sign < 0 THEN NegInf ELSE NaN

ArithFinite(op, x, y) ==
  CASE op = "+" -> x + y
    [] op = "-" -> x - y
    [] op = "*" -> (x * y) \div Unit
    [] op = "/" -> (x * Unit * Sign(y)) \div (y * Sign(y))

ArithInfinite(op, x, y) ==
  CASE op = "+" -> Infinite(Beyond(x) + Beyond(y))
    [] op = "-" -> Infinite(Beyond(x) - Beyond(y))
    [] op = "*" -> Infinite(Sign(x) * Sign(y))
    [] op = "/" -> IF ~IsInfinite(y) THEN Infinite(Sign(x) * Sign(y))
                   ELSE IF IsInfinite(x) THEN NaN ELSE 0

Arith(op, x, y) ==
  IF NaN \in {x, y} THEN NaN
  ELSE IF IsInfinite(x) \/ IsInfinite(y) THEN ArithInfinite(op, x, y) ELSE ArithFinite(op, x, y)

(* The order of texts, of which at least one is not a number: nothing,     *)
(* ASCII numbers, a word, digits that only Python reads.                   *)
Rank(v) == IF v = Empty THEN 0 ELSE IF v.num # NoNumber THEN 1 ELSE IF v.py = NoNumber THEN 2 ELSE 3
LexCompare(op, v, w) == Compare(op, Rank(v), Rank(w))

-----------------------------------------------------------------------------
(* evaluate in SQL: NoNumber as a number is NULL, which is formatted as    *)
(* "nan" and spreads through arithmetic.                                   *)

FormatSql(x) ==
  CASE x \in {NaN, NoNumber} -> Nan
    [] x = Inf -> Value(Inf, "inf")
    [] x = NegInf -> Value(NegInf, "-inf")
    [] OTHER -> Plain(x)

(* _truthy_sql: by the text, so "0.0" is true. *)
TruthySql(v) == v # Empty /\ v # Plain(0)

ArithSql(op, x, y) ==
  IF NoNumber \in {x, y} \/ (op = "/" /\ y = 0) THEN NoNumber ELSE Arith(op, x, y)

CompareSql(op, v, w) ==
  IF NoNumber \notin {v.num, w.num} THEN Compare(op, v.num, w.num) ELSE LexCompare(op, v, w)

BinarySql(op, v, w) ==
  CASE op \in Comparisons -> Flag(CompareSql(op, v, w))
    [] op = "&&" -> Flag(TruthySql(v) /\ TruthySql(w))
    [] op = "||" -> Flag(TruthySql(v) \/ TruthySql(w))
    [] OTHER -> FormatSql(ArithSql(op, v.num, w.num))

OrEmpty(v) == IF v = NoNumber THEN Empty ELSE v

RECURSIVE ElementValue(_, _)

(* _compile_element_call on a row: a column that may be missing, a count,  *)
(* and the functions of a value.                                           *)
CallSql(f, row, v) ==
  CASE f = "version" -> OrEmpty(row.version)
    [] f = "count_members" -> Plain(row.members)
    [] f = "is_tag" -> Flag(row.tag # NoNumber)
    [] f = "number" -> FormatSql(v.num)
    [] f = "is_number" -> Flag(v.num # NoNumber)

(* compile_element, run on a row: counts and aggregators are refused       *)
(* wherever they stand.                                                    *)
ElementValue(e, row) ==
  LET Of(es, v) == IF Refused \in {ElementValue(x, row) : x \in es} THEN Refused ELSE v IN
    CASE e.k = "lit" -> e.v
      [] e.k = "tag" -> OrEmpty(row.tag)
      [] e.k \in {"count", "agg"} -> Refused
      [] e.k = "call" ->
           Of({e.args[i] : i \in DOMAIN e.args},
              CallSql(e.f, row, IF e.args = << >> THEN Empty ELSE ElementValue(e.args[1], row)))
      [] e.k = "unary" /\ e.op = "!" -> Of({e.e}, Flag(~TruthySql(ElementValue(e.e, row))))
      [] e.k = "unary" /\ e.op = "-" ->
           Of({e.e}, FormatSql(ArithSql("-", 0, ElementValue(e.e, row).num)))
      [] e.k = "bin" ->
           Of({e.a, e.b}, BinarySql(e.op, ElementValue(e.a, row), ElementValue(e.b, row)))
      [] e.k = "ternary" ->
           Of({e.c, e.a, e.b}, IF TruthySql(ElementValue(e.c, row)) THEN ElementValue(e.a, row)
                                                                 ELSE ElementValue(e.b, row))

-----------------------------------------------------------------------------
(* evaluate in Python. *)

(* Mutant: a value is false when its number is zero. *)
TruthyNumber(v) == v # Empty /\ v.num # 0

(* truthy. *)
Truthy(v) == v # Empty /\ v # Plain(0)

PyNumber(v) == IF v.py = NoNumber THEN NaN ELSE v.py

(* _format_py_num: int(v) raises OverflowError for an infinity. *)
FormatPy(x) == IF x = NaN THEN Nan ELSE IF IsInfinite(x) THEN Refused ELSE Plain(x)

ArithPy(op, x, y) == IF op = "/" /\ y = 0 THEN NaN ELSE Arith(op, x, y)

(* A NaN differs from every number and compares with none. *)
CompareNumPy(op, x, y) == IF NaN \in {x, y} THEN op = "!=" ELSE Compare(op, x, y)

ComparePy(op, v, w) ==
  IF NoNumber \notin {v.py, w.py} THEN CompareNumPy(op, v.py, w.py) ELSE LexCompare(op, v, w)

(* eval_binop. *)
BinaryPy(op, v, w) ==
  CASE op \in Comparisons -> Flag(ComparePy(op, v, w))
    [] op = "&&" -> Flag(Truthy(v) /\ Truthy(w))
    [] op = "||" -> Flag(Truthy(v) \/ Truthy(w))
    [] OTHER -> FormatPy(ArithPy(op, PyNumber(v), PyNumber(w)))

(* The aggregators, computed by DuckDB: u is the one value that all rows   *)
(* have, min, max and sum take the rows that are numbers; sum is 0 without *)
(* them.                                                                   *)
Aggregated(f, e, rows) ==
  LET values == {ElementValue(e, r) : r \in rows}
      numbers == {v.num : v \in values} \ {NoNumber}
      summed == {r \in rows : ElementValue(e, r).num # NoNumber}
  IN CASE Refused \in values -> Refused
       [] f = "u" -> IF Cardinality(values) = 1 THEN CHOOSE v \in values : TRUE ELSE Empty
       [] f = "sum" ->
            FormatPy(MapThenFoldSet(LAMBDA x, y : Arith("+", x, y), 0,
                                    LAMBDA r : ElementValue(e, r).num,
                                    LAMBDA S : CHOOSE r \in S : TRUE, summed))
       [] numbers = {} -> Empty
       [] f = "min" -> FormatPy(CHOOSE x \in numbers : \A y \in numbers : ~Less(y, x))
       [] f = "max" -> FormatPy(CHOOSE x \in numbers : \A y \in numbers : ~Less(x, y))

RECURSIVE SetValue(_, _)

(* evaluate_set's eval_node: a tag or a call outside an aggregator is      *)
(* refused when it is reached.                                             *)
SetValue(e, rows) ==
  CASE e.k = "lit" -> e.v
    [] e.k \in {"tag", "call"} -> Refused
    [] e.k = "count" -> Plain(Unit * Cardinality(rows))
    [] e.k = "agg" -> Aggregated(e.f, e.e, rows)
    [] e.k = "unary" ->
         LET v == SetValue(e.e, rows) IN
           IF v = Refused THEN Refused
           ELSE IF e.op = "!" THEN Flag(~Truthy(v)) ELSE FormatPy(Arith("-", 0, PyNumber(v)))
    [] e.k = "bin" ->
         LET v == SetValue(e.a, rows)
             w == SetValue(e.b, rows)
         IN IF Refused \in {v, w} THEN Refused ELSE BinaryPy(e.op, v, w)
    [] e.k = "ternary" ->
         LET c == SetValue(e.c, rows) IN
           IF c = Refused THEN Refused ELSE SetValue(IF Truthy(c) THEN e.a ELSE e.b, rows)

-----------------------------------------------------------------------------
(* What they mean. *)

RECURSIVE Written(_, _), InSet(_, _), ValuesRead(_, _), Meets(_, _)

(* The tokens of an expression where one of a level is wanted: brackets    *)
(* only around what binds less tightly.                                    *)
Written(e, level) ==
  LET In(own, ts) == IF own < level THEN <<Tok("(")>> \o ts \o <<Tok(")")>> ELSE ts IN
    CASE e.k = "lit" -> <<LitTok(e.v)>>
      [] e.k \in {"tag", "count"} -> <<Tok(e.k)>>
      [] e.k = "agg" -> <<Tok(e.f), Tok("(")>> \o Written(e.e, 0) \o <<Tok(")")>>
      [] e.k = "call" -> <<Tok(e.f), Tok("(")>>
           \o (IF e.args = << >> THEN << >> ELSE Written(e.args[1], 0)) \o <<Tok(")")>>
      [] e.k = "unary" -> In(7, <<Tok(e.op)>> \o Written(e.e, 7))
      [] e.k = "bin" ->
           LET own == CHOOSE l \in DOMAIN Levels : e.op \in Levels[l] IN
             In(own, Written(e.a, own) \o <<Tok(e.op)>> \o Written(e.b, own + 1))
      [] e.k = "ternary" ->
           In(0, Written(e.c, 1) \o <<Tok("?")>> \o Written(e.a, 0) \o <<Tok(":")>> \o Written(e.b, 0))

(* Every expression is read back from the least brackets it needs: the     *)
(* levels bind as documented, operators of a level to the left, the        *)
(* ternary to the right; and what has a token too many is refused.         *)
IsReadBack(e) ==
  LET ts == Written(e, 0) IN
    /\ Parse(ts) = Parsed(e, << >>)
    /\ ~Parse(ts \o <<Tok(")")>>).ok /\ ~Parse(<<Tok("(")>> \o ts).ok

(* An expression over one element as it is asked of a set: what reads the  *)
(* element is wrapped in the aggregator f.                                 *)
InSet(f, e) ==
  CASE e.k \in {"tag", "call"} -> Agg(f, e)
    [] e.k = "unary" -> [e EXCEPT !.e = InSet(f, @)]
    [] e.k = "bin" -> [e EXCEPT !.a = InSet(f, @), !.b = InSet(f, @)]
    [] e.k = "ternary" -> [e EXCEPT !.c = InSet(f, @), !.a = InSet(f, @), !.b = InSet(f, @)]
    [] OTHER -> e

(* The values it reads there. *)
ValuesRead(e, row) ==
  CASE e.k \in {"tag", "call"} -> {ElementValue(e, row)}
    [] e.k = "unary" -> ValuesRead(e.e, row)
    [] e.k = "bin" -> ValuesRead(e.a, row) \cup ValuesRead(e.b, row)
    [] e.k = "ternary" -> ValuesRead(e.c, row) \cup ValuesRead(e.a, row) \cup ValuesRead(e.b, row)
    [] OTHER -> {}

(* The two evaluators differ on these operands: a comparison meets a NaN,  *)
(* arithmetic gives an infinity, or a number is wanted of a text that      *)
(* try_cast and float() read differently.                                  *)
Parts(op, operands, result) ==
  \/ op \in Comparisons /\ Nan \in operands
  \/ op \notin Comparisons /\ IsInfinite(result.num)
  \/ \E v \in operands : v.num # v.py

(* Something in e does. *)
Meets(e, row) ==
  CASE e.k \in {"lit", "tag", "count", "agg"} -> FALSE
    [] e.k = "call" -> \E i \in DOMAIN e.args : Meets(e.args[i], row)
    [] e.k = "unary" ->
         \/ Meets(e.e, row)
         \/ e.op = "-" /\ Parts("-", {ElementValue(e.e, row)}, ElementValue(e, row))
    [] e.k = "ternary" -> Meets(e.c, row) \/ Meets(e.a, row) \/ Meets(e.b, row)
    [] e.k = "bin" ->
         \/ Meets(e.a, row) \/ Meets(e.b, row)
         \/ /\ e.op \notin {"&&", "||"}
            /\ Parts(e.op, {ElementValue(e.a, row), ElementValue(e.b, row)}, ElementValue(e, row))

(* The filter (if:) and the statement if agree: an expression over one     *)
(* element has in SQL the value that it has in Python over any set of      *)
(* elements alike, wrapped in u, and in min and max where it reads numbers *)
(* as the program writes them.  They are not said to agree where a         *)
(* comparison meets a NaN, where a number computed is infinite (SQL writes *)
(* it, Python raises), and on numbers in texts that try_cast and float()   *)
(* read differently.                                                       *)
IsOneValue(e, row) ==
  LET v == ElementValue(e, row)
      plain == \A w \in ValuesRead(e, row) : w.text \in {"plain", "nan"}
  IN \A ids \in SUBSET {1, 2}, f \in {"u", "min", "max", "sum"} :
       /\ v # Refused /\ ~Meets(e, row) /\ ids # {}
       /\ f # "u" => plain
       /\ f = "sum" => Cardinality(ids) = 1
       => SetValue(InSet(f, e), {[row EXCEPT !.id = i] : i \in ids}) = v
=============================================================================
