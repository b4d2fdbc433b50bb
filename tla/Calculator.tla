----------------------------- MODULE Calculator -----------------------------
(***************************************************************************)
(* The calculator (calculator/service.py, tools.py): the evaluator of      *)
(* formulas, a parser by recursive descent over the tokens of the formula, *)
(* and the sums a specialist asks for by name.  Decimals are quotients of  *)
(* integers here, without the rounding to 28 digits; one of a denominator  *)
(* zero is a number the model does not work out, a root or an infinity. An *)
(* error is a result that is missing.                                      *)
(***************************************************************************)
EXTENDS Integers, Sequences, FiniteSets, Functions

CONSTANTS
    Literals,   \* the numbers in formulas, each with its value
    Hundred,    \* 100, and less in small instances
    Amounts,    \* the numbers sums are of
    MaxTokens   \* bound: the length of a formula

VARIABLES
    formula,    \* the tokens of a formula, as they are typed
    sum         \* a sum that was asked for, and what it came to

calculatorVars == <<formula, sum>>

\* _tokenize has read x and × as *, and brackets as parentheses.
Sign == {"+", "-", "*", "/", "^", "%", "(", ")"}
Token == DOMAIN Literals \cup Sign

ASSUME CalculatorAssumption ==
    /\ Literals \in [DOMAIN Literals -> Nat]
    /\ DOMAIN Literals \cap (Sign \cup {"none"}) = {}
    /\ Hundred \in Nat \ {0} /\ Amounts \subseteq Int

-----------------------------------------------------------------------------
(* Decimals *)

Number == [n : Int, d : Nat]
Quotient(n, d) == IF d < 0 THEN [n |-> - n, d |-> - d] ELSE [n |-> n, d |-> d]
Whole(n) == [n |-> n, d |-> 1]
Unknown == [n |-> 0, d |-> 0]

Add(x, y) == Quotient(x.n * y.d + y.n * x.d, x.d * y.d)
Minus(x) == [x EXCEPT !.n = - @]
Times(x, y) == IF 0 \in {x.d, y.d} THEN Unknown ELSE Quotient(x.n * y.n, x.d * y.d)
Over(x, y) ==
    IF y.d # 0 /\ y.n = 0 THEN {}
    ELSE IF 0 \in {x.d, y.d} THEN {Unknown} ELSE {Quotient(x.n * y.d, x.d * y.n)}
Same(x, y) == x.n * y.d = y.n * x.d /\ (x.d = 0 <=> y.d = 0)

Power(n, k) == LET power[i \in Nat] == IF i = 0 THEN 1 ELSE n * power[i - 1] IN power[k]

\* _decimal_power: exact for whole exponents, else in floating point, where a
\* negative base is an error; no power of zero but the positive ones is a number.
DecimalPower(x, y) ==
    IF 0 \in {x.d, y.d} THEN {Unknown}
    ELSE IF y.n % y.d = 0
    THEN LET k == y.n \div y.d
         IN  IF x.n = 0 THEN (IF k > 0 THEN {Whole(0)} ELSE IF k = 0 THEN {} ELSE {Unknown})
             ELSE IF k >= 0 THEN {Quotient(Power(x.n, k), Power(x.d, k))}
                            ELSE {Quotient(Power(x.d, - k), Power(x.n, - k))}
    ELSE IF x.n > 0 THEN {Unknown} ELSE IF x.n = 0 /\ y.n > 0 THEN {Whole(0)} ELSE {}

Apply(operator, x, y) ==
    CASE operator = "+" -> {Add(x, y)}
      [] operator = "-" -> {Add(x, Minus(y))}
      [] operator = "*" -> {Times(x, y)}
      [] operator = "/" -> Over(x, y)
      [] operator = "^" -> DecimalPower(x, y)
Both(operator, left, right) == UNION {Apply(operator, x, y) : x \in left, y \in right}

-----------------------------------------------------------------------------
(* _FormulaParser *)

\* A parse ends at a token, with the value so far.
Parse == [value : SUBSET Number, at : Nat]
Parsed(value, at) == [value |-> value, at |-> at]
Peek(t, at) == IF at > Len(t) THEN "none" ELSE t[at]

\* The methods call one another and themselves, and the loops go round, by way of
\* self, and each time with a token less: see Parser.
ParsePrimary(t, self, at) ==
    LET inner == self.expression[at + 1]
    IN  CASE Peek(t, at) = "(" ->
                IF inner.value # {} /\ Peek(t, inner.at) = ")"
                THEN [inner EXCEPT !.at = @ + 1] ELSE [inner EXCEPT !.value = {}]
          [] Peek(t, at) \in DOMAIN Literals ->
                Parsed({Whole(Literals[t[at]])}, at + 1)
          [] OTHER -> Parsed({}, at)

RestOfPostfix(t, self, left) ==
    IF left.value = {} \/ Peek(t, left.at) # "%" THEN left
    ELSE self.restOfPostfix[Parsed(Both("/", left.value, {Whole(Hundred)}), left.at + 1)]
ParsePostfix(t, self, at) == RestOfPostfix(t, self, ParsePrimary(t, self, at))

ParseUnary(t, self, at) ==
    IF Peek(t, at) # "-" THEN ParsePostfix(t, self, at)
    ELSE LET right == self.unary[at + 1]
         IN  Parsed({Minus(x) : x \in right.value}, right.at)

\* For mutation testing: powers from left to right.
PowerOfUnary(t, self, at) ==
    LET left == ParseUnary(t, self, at)
        right == self.unary[left.at + 1]
    IN  IF left.value = {} \/ Peek(t, left.at) # "^" THEN left
        ELSE Parsed(Both("^", left.value, right.value), right.at)

ParsePower(t, self, at) ==
    LET left == ParseUnary(t, self, at)
        right == self.power[left.at + 1]
    IN  IF left.value = {} \/ Peek(t, left.at) # "^" THEN left
        ELSE Parsed(Both("^", left.value, right.value), right.at)

RestOfTerm(t, self, left) ==
    LET right == ParsePower(t, self, left.at + 1)
    IN  IF left.value = {} \/ Peek(t, left.at) \notin {"*", "/"} THEN left
        ELSE self.restOfTerm[Parsed(Both(t[left.at], left.value, right.value), right.at)]
ParseTerm(t, self, at) == RestOfTerm(t, self, ParsePower(t, self, at))

RestOfExpression(t, self, left) ==
    LET right == ParseTerm(t, self, left.at + 1)
    IN  IF left.value = {} \/ Peek(t, left.at) \notin {"+", "-"} THEN left
        ELSE self.restOfExpression[Parsed(Both(t[left.at], left.value, right.value), right.at)]
ParseExpression(t, self, at) == RestOfExpression(t, self, ParseTerm(t, self, at))

Methods(t, self) ==
    [expression |-> [at \in Nat |-> ParseExpression(t, self, at)],
     power |-> [at \in Nat |-> ParsePower(t, self, at)],
     unary |-> [at \in Nat |-> ParseUnary(t, self, at)],
     restOfExpression |-> [left \in Parse |-> RestOfExpression(t, self, left)],
     restOfTerm |-> [left \in Parse |-> RestOfTerm(t, self, left)],
     restOfPostfix |-> [left \in Parse |-> RestOfPostfix(t, self, left)]]
Stuck ==
    LET Fails == [at \in Nat |-> Parsed({}, at)]
        Stops == [left \in Parse |-> left]
    IN  [expression |-> Fails, power |-> Fails, unary |-> Fails,
         restOfExpression |-> Stops, restOfTerm |-> Stops, restOfPostfix |-> Stops]

\* The parser whose calls go so many levels deep.
Parser(t) ==
    LET parser[depth \in Nat] ==
           IF depth = 0 THEN Stuck ELSE Methods(t, parser[depth - 1])
    IN  parser

\* evaluate: nothing may be left over.  No call goes deeper than there are tokens.
EvaluateFormula(t) ==
    LET r == Parser(t)[Len(t) + 1].expression[1] IN IF r.at <= Len(t) THEN {} ELSE r.value

-----------------------------------------------------------------------------
(* The sums with a name *)

Positive(xs) == \A x \in Range(xs) : x.n > 0
Percent(x) == Times(x, Whole(Hundred))

\* Operand by operand, from the first.
Sum(xs) ==
    LET total[i \in 0..Len(xs)] ==
           IF i = 0 THEN Whole(0) ELSE Add(total[i - 1], xs[i])
    IN  total[Len(xs)]
Product(xs) ==
    LET total[i \in 0..Len(xs)] ==
           IF i = 0 THEN Whole(1) ELSE Times(total[i - 1], xs[i])
    IN  total[Len(xs)]
SubtractOperands(xs) ==
    LET rest[i \in 1..Len(xs)] ==
           IF i = 1 THEN xs[1] ELSE Add(rest[i - 1], Minus(xs[i]))
    IN  IF Len(xs) < 2 THEN {} ELSE {rest[Len(xs)]}
DivideOperands(xs) ==
    LET rest[i \in 1..Len(xs)] ==
           IF i = 1 THEN {xs[1]} ELSE Both("/", rest[i - 1], {xs[i]})
    IN  IF Len(xs) < 2 THEN {} ELSE rest[Len(xs)]

QuantityFromBudgetAndPrice(budget, price) ==
    IF Positive(<<budget, price>>) THEN Over(budget, price) ELSE {}
NotionalFromQuantityAndPrice(quantity, price) ==
    IF Positive(<<price>>) THEN {Times(quantity, price)} ELSE {}
PositionWeight(position, portfolio) ==
    IF Positive(<<portfolio>>) THEN {Percent(x) : x \in Over(position, portfolio)} ELSE {}

\* For mutation testing: the share that is missing, of the portfolio.
DeltaOfShare(current, target, portfolio) ==
    {Times(x, portfolio) : x \in Over(Add(target, Minus(current)), Whole(Hundred))}

RebalanceDelta(current, target, portfolio) ==
    IF ~ Positive(<<portfolio>>) THEN {}
    ELSE {Add(Times(x, portfolio), Minus(current)) : x \in Over(target, Whole(Hundred))}

DirectionSign(direction) == Whole(IF direction = "SHORT" THEN -1 ELSE 1)
PnlAmount(entry, current, quantity, direction) ==
    IF ~ Positive(<<entry, current, quantity>>) THEN {}
    ELSE {Product(<<Add(current, Minus(entry)), quantity, DirectionSign(direction)>>)}
PnlPercent(entry, current, direction) ==
    IF ~ Positive(<<entry, current>>) THEN {}
    ELSE {Times(Percent(x), DirectionSign(direction)) :
             x \in Over(Add(current, Minus(entry)), entry)}

\* What is asked for by name, with the operands in the order of the tool.
Direction == {"LONG", "SHORT"}
Operation ==
    {"sum", "subtract", "multiply", "divide", "quantity_from_budget_and_price",
     "notional_from_quantity_and_price", "position_weight", "rebalance_delta",
     "pnl_amount", "pnl_percent"}

Calculation(operation, a, direction) ==
    CASE operation = "sum" -> {Sum(a)}
      [] operation = "subtract" -> SubtractOperands(a)
      [] operation = "multiply" -> {Product(a)}
      [] operation = "divide" -> DivideOperands(a)
      [] operation = "quantity_from_budget_and_price" ->
            QuantityFromBudgetAndPrice(a[1], a[2])
      [] operation = "notional_from_quantity_and_price" ->
            NotionalFromQuantityAndPrice(a[1], a[2])
      [] operation = "position_weight" -> PositionWeight(a[1], a[2])
      [] operation = "rebalance_delta" -> RebalanceDelta(a[1], a[2], a[3])
      [] operation = "pnl_amount" -> PnlAmount(a[1], a[2], a[3], direction)
      [] operation = "pnl_percent" -> PnlPercent(a[1], a[2], direction)

-----------------------------------------------------------------------------
NoSum == [operation |-> "none", of |-> <<>>, direction |-> "LONG", result |-> {}]

CalculatorInit == formula = <<>> /\ sum = NoSum

Depth(t, i) ==
    Cardinality({j \in 1..i : t[j] = "("}) - Cardinality({j \in 1..i : t[j] = ")"})

\* No token of the formula is out of place, though there may be some missing.
InPlace(t) ==
    \A i \in DOMAIN t :
       LET between == i > 1 /\ t[i - 1] \in DOMAIN Literals \cup {")", "%"}
       IN  /\ Depth(t, i) >= 0
           /\ t[i] = "-" \/ (between <=> t[i] \in {"+", "*", "/", "^", "%", ")"})

\* A person types on until a token is out of place.
TypeToken(token) ==
    /\ Len(formula) < MaxTokens /\ sum = NoSum /\ InPlace(formula)
    /\ formula' = Append(formula, token)
    /\ UNCHANGED sum

Calculate(operation, a, direction) ==
    /\ formula = <<>> /\ sum = NoSum
    /\ sum' = [operation |-> operation, of |-> a, direction |-> direction,
               result |-> Calculation(operation, a, direction)]
    /\ UNCHANGED formula

CalculatorNext ==
    \/ \E token \in Token : TypeToken(token)
    \/ \E operation \in Operation, n \in [1..3 -> Amounts], direction \in Direction :
          Calculate(operation, [i \in 1..3 |-> Whole(n[i])], direction)

-----------------------------------------------------------------------------
(* Properties *)

\* A reference: the ways a person may read tokens i to j of a formula.  What is read
\* is as tight as its loosest operator outside parentheses, a sum 1, a product 2, a
\* power 3, a sign 4, a percentage 5, and a number or parentheses 6; an operator is
\* for operands tighter than itself, or as tight on the one side where it may repeat.
Infix == {"+", "-", "*", "/", "^"}
Tightness(operator) ==
    CASE operator \in {"+", "-"} -> 1 [] operator \in {"*", "/"} -> 2 [] operator = "^" -> 3
LeftTightness(operator) == IF operator = "^" THEN 4 ELSE Tightness(operator)
RightTightness(operator) == IF operator = "^" THEN 3 ELSE Tightness(operator) + 1

\* What tokens i to j come to if they are to be so tight, by what fewer come to.
Readings(t, shorter, i, j, tight) ==
    LET Split(k) == Both(t[k], shorter[i][k - 1][LeftTightness(t[k])],
                               shorter[k + 1][j][RightTightness(t[k])])
    IN  CASE i > j -> {}
          [] i = j -> {Whole(Literals[x]) : x \in DOMAIN Literals \cap {t[i]}}
          [] i < j ->
                (IF t[i] = "(" /\ t[j] = ")" THEN shorter[i + 1][j - 1][1] ELSE {})
                \cup (IF t[j] = "%" /\ tight <= 5
                      THEN Both("/", shorter[i][j - 1][5], {Whole(Hundred)}) ELSE {})
                \cup (IF t[i] = "-" /\ tight <= 4
                      THEN {Minus(x) : x \in shorter[i + 1][j][4]} ELSE {})
                \cup UNION {Split(k) : k \in {k \in i..j : t[k] \in Infix
                                                         /\ tight <= Tightness(t[k])}}

\* What as many tokens come to at most, or the whole formula.
Meanings(t) ==
    LET meaning[length \in Nat] ==
           [i \in 1..(Len(t) + 1) |-> [j \in 0..Len(t) |-> [tight \in 1..6 |->
              IF length = 0 THEN {} ELSE Readings(t, meaning[length - 1], i, j, tight)]]]
    IN  meaning
Meaning(t) == Meanings(t)[Len(t)][1][Len(t)][1]

\* The parser takes every formula that can be read, and gives it the value it is
\* read with, of which there is one, and takes no other.
FormulasAgree == EvaluateFormula(formula) = Meaning(formula)

\* The sums agree with one another: the shares a budget buys cost it, the value a
\* rebalance adds makes the weight it was asked for, and what is gained is the same
\* in money and in percent of what was paid, and the loss of who had bet the other way.
SumsAgree ==
    \A r \in sum.result :
       LET a == sum.of
           Against(x, y) == \A v \in x : Same(v, y)
       IN  CASE sum.operation = "subtract" ->
                   Same(Sum(<<r>> \o Tail(a)), Head(a))
             [] sum.operation = "divide" ->
                   Same(Product(<<r>> \o Tail(a)), Head(a))
             [] sum.operation = "quantity_from_budget_and_price" ->
                   Against(NotionalFromQuantityAndPrice(r, a[2]), a[1])
             [] sum.operation = "rebalance_delta" ->
                   Against(PositionWeight(Add(a[1], r), a[3]), a[2])
             [] sum.operation = "pnl_amount" ->
                   /\ \A d \in Direction \ {sum.direction} :
                         Against(PnlAmount(a[1], a[2], a[3], d), Minus(r))
                   /\ \A p \in PnlPercent(a[1], a[2], sum.direction),
                         paid \in NotionalFromQuantityAndPrice(a[3], a[1]) :
                         Same(Times(p, paid), Percent(r))
             [] OTHER -> TRUE

\* What the calculator says can be checked: see FormulasAgree and SumsAgree.
CalculationsAgree == FormulasAgree /\ SumsAgree

CalculatorSpec == CalculatorInit /\ [][CalculatorNext]_calculatorVars

=============================================================================
