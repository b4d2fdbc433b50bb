--------------------------- MODULE CalculatorProofs ---------------------------
(***************************************************************************)
(* Proofs about the calculator, for formulas of any length over any        *)
(* numbers.  The parser by recursive descent agrees with the reference,    *)
(* which knows nothing of how a formula is taken apart: its calls never go *)
(* deeper than there are tokens (so the depth Parser is given is enough);  *)
(* what it returns has a reading, by induction on the depth; and whatever  *)
(* has a reading it returns, by induction on the length of what is read.   *)
(* The sums agree for any three amounts, and any value of the hundred.     *)
(***************************************************************************)
EXTENDS Calculator, FiniteSetTheorems, SequenceTheorems, WellFoundedInduction, TLAPS

(* Induction over the natural numbers, and functions defined by it *)

\* Of natural numbers, one is the least.
LEMMA LeastNatural ==
  ASSUME NEW S \in SUBSET Nat, S # {}
  PROVE  \E n \in S : \A m \in S : n <= m
<1>1. IsWellFoundedOn(OpToRel(<, Nat), Nat)
  BY NatLessThanWellFounded
<1> DEFINE R == OpToRel(<, Nat)
<1>2. \A x, y \in Nat : x < y => <<x, y>> \in R
  BY DEF OpToRel
<1> HIDE DEF R
<1>3. PICK n \in S : \A m \in S : ~ (<<m, n>> \in R)
  BY <1>1, WFMin DEF R
<1>4. \A m \in S : ~ (m < n)
  BY <1>2, <1>3
<1> QED BY <1>4

\* What holds of a number when it holds of all smaller ones holds of all.
LEMMA AllNaturals ==
  ASSUME NEW S \in SUBSET Nat,
         \A n \in Nat : (\A m \in Nat : m < n => m \in S) => n \in S
  PROVE  S = Nat
<1> SUFFICES ASSUME Nat \ S # {} PROVE FALSE
  OBVIOUS
<1>1. PICK n \in Nat \ S : \A m \in Nat \ S : n <= m
  BY LeastNatural
<1>2. \A m \in Nat : m < n => m \in S
  BY <1>1
<1> QED BY <1>1, <1>2

\* A step can be repeated any number of times.
LEMMA Iterates ==
  ASSUME NEW X, NEW zero \in X, NEW step \in [Nat -> [X -> X]]
  PROVE  \E f \in [Nat -> X] :
            f = [n \in Nat |-> IF n = 0 THEN zero ELSE step[n][f[n - 1]]]
<1> DEFINE Begins(k, f) ==
              /\ f \in [0..k -> X] /\ f[0] = zero
              /\ \A n \in 1..k : f[n] = step[n][f[n - 1]]
<1>1. \A k \in Nat : \E f \in [0..k -> X] : Begins(k, f)
  <2> DEFINE S == {k \in Nat : \E f \in [0..k -> X] : Begins(k, f)}
  <2>1. ASSUME NEW n \in Nat, \A m \in Nat : m < n => m \in S PROVE n \in S
    <3>1. CASE n = 0
      <4>1. Begins(0, [i \in 0..0 |-> zero])
        OBVIOUS
      <4> QED BY <3>1, <4>1
    <3>2. CASE n # 0
      <4>1. n - 1 \in S
        BY <2>1, <3>2
      <4>2. PICK g \in [0..(n - 1) -> X] : Begins(n - 1, g)
        BY <4>1
      <4> DEFINE h == [i \in 0..n |-> IF i = n THEN step[n][g[n - 1]] ELSE g[i]]
      <4>3. step[n][g[n - 1]] \in X
        <5>1. g[n - 1] \in X
          BY <4>2, <3>2
        <5> QED BY <5>1
      <4>4. h \in [0..n -> X]
        BY <4>2, <4>3
      <4>5. h[0] = zero
        BY <4>2, <3>2
      <4>6. \A i \in 1..n : h[i] = step[i][h[i - 1]]
        <5> TAKE i \in 1..n
        <5>1. h[i - 1] = g[i - 1] /\ i - 1 \in 0..n
          OBVIOUS
        <5>2. CASE i = n
          BY <5>1, <5>2
        <5>3. CASE i # n
          BY <5>1, <5>3, <4>2
        <5> QED BY <5>2, <5>3
      <4> QED BY <4>4, <4>5, <4>6
    <3> QED BY <3>1, <3>2
  <2> HIDE DEF S
  <2>2. S = Nat
    <3>1. S \subseteq Nat
      BY DEF S
    <3> QED BY <2>1, <3>1, AllNaturals
  <2> QED BY <2>2 DEF S
<1>2. \A k \in Nat, m \in Nat : k <= m => \A f \in [0..k -> X], g \in [0..m -> X] :
         Begins(k, f) /\ Begins(m, g) => f[k] = g[k]
  <2> HIDE DEF Begins
  <2> SUFFICES ASSUME NEW k \in Nat, NEW m \in Nat, k <= m,
                      NEW f \in [0..k -> X], NEW g \in [0..m -> X],
                      Begins(k, f), Begins(m, g)
               PROVE  f[k] = g[k]
    OBVIOUS
  <2> USE DEF Begins
  <2> DEFINE S == {n \in Nat : n <= k => f[n] = g[n]}
  <2>1. ASSUME NEW n \in Nat, \A i \in Nat : i < n => i \in S PROVE n \in S
    <3>1. CASE n = 0
      BY <3>1
    <3>2. CASE n # 0 /\ n <= k
      <4>1. n - 1 \in S
        BY <2>1, <3>2
      <4>2. f[n - 1] = g[n - 1] /\ n \in 1..k /\ n \in 1..m
        BY <3>2, <4>1
      <4>3. f[n] = step[n][f[n - 1]] /\ g[n] = step[n][g[n - 1]]
        BY <4>2
      <4> QED BY <4>2, <4>3
    <3> QED BY <3>1, <3>2
  <2> HIDE DEF S
  <2>2. S = Nat
    <3>1. S \subseteq Nat
      BY DEF S
    <3> QED BY <2>1, <3>1, AllNaturals
  <2>3. k \in S /\ k <= k
    BY <2>2
  <2> HIDE DEF Begins
  <2> QED BY <2>3 DEF S
<1> DEFINE Of(k) == CHOOSE f \in [0..k -> X] : Begins(k, f)
           F == [n \in Nat |-> Of(n)[n]]
<1>3. \A k \in Nat : Of(k) \in [0..k -> X] /\ Begins(k, Of(k))
  <2> HIDE DEF Begins
  <2> QED BY <1>1
<1>4. F \in [Nat -> X]
  <2>1. \A n \in Nat : Of(n)[n] \in X
    <3> HIDE DEF Of, Begins
    <3> TAKE n \in Nat
    <3>1. Of(n) \in [0..n -> X] /\ n \in 0..n
      BY <1>3
    <3> QED BY <3>1
  <2> HIDE DEF Of
  <2> QED BY <2>1
<1>5. \A n \in Nat : F[n] = IF n = 0 THEN zero ELSE step[n][F[n - 1]]
  <2> TAKE n \in Nat
  <2>1. Of(n) \in [0..n -> X] /\ Begins(n, Of(n)) /\ F[n] = Of(n)[n]
    BY <1>3
  <2>2. CASE n = 0
    BY <2>1, <2>2
  <2>3. CASE n # 0
    <3>1. n - 1 \in Nat /\ n - 1 <= n
      BY <2>3
    <3>2. Of(n - 1) \in [0..(n - 1) -> X] /\ Begins(n - 1, Of(n - 1))
          /\ F[n - 1] = Of(n - 1)[n - 1]
      BY <1>3, <3>1
    <3> HIDE DEF Of, F
    <3>3. Of(n - 1)[n - 1] = Of(n)[n - 1]
      <4> HIDE DEF Begins
      <4> QED BY <1>2, <2>1, <3>1, <3>2
    <3>4. Of(n)[n] = step[n][Of(n)[n - 1]]
      BY <2>1, <2>3
    <3> QED BY <2>1, <2>3, <3>2, <3>3, <3>4
  <2> QED BY <2>2, <2>3
<1> HIDE DEF F
<1>6. F = [n \in Nat |-> IF n = 0 THEN zero ELSE step[n][F[n - 1]]]
  <2>1. \A n \in Nat : F[n] = [i \in Nat |-> IF i = 0 THEN zero ELSE step[i][F[i - 1]]][n]
    BY <1>5
  <2>2. F = [n \in Nat |-> F[n]]
    BY <1>4
  <2> QED BY <2>1, <2>2
<1> QED BY <1>4, <1>6

-----------------------------------------------------------------------------
(* Decimals *)

\* A whole number is a number, and so is what an operator makes of two.
LEMMA QuotientIsNumber ==
  ASSUME NEW n \in Int, NEW d \in Int PROVE Quotient(n, d) \in Number
BY DEF Quotient, Number

\* A whole power of a whole number is whole.
LEMMA PowerIsInt ==
  ASSUME NEW n \in Int, NEW k \in Nat PROVE Power(n, k) \in Int
<1> DEFINE one == 1
           step == [i \in Nat |-> [x \in Int |-> n * x]]
           power == CHOOSE f : f = [i \in Nat |-> IF i = 0 THEN 1 ELSE n * f[i - 1]]
<1>1. step \in [Nat -> [Int -> Int]] /\ one \in Int
  OBVIOUS
<1>2. \A i \in Nat, x \in Int : step[i][x] = n * x
  OBVIOUS
<1> HIDE DEF step, one
<1>3. PICK f \in [Nat -> Int] : f = [i \in Nat |-> IF i = 0 THEN one ELSE step[i][f[i - 1]]]
  <2> DEFINE X == Int
  <2>1. step \in [Nat -> [X -> X]] /\ one \in X
    BY <1>1
  <2> HIDE DEF X
  <2>2. \E f \in [Nat -> X] : f = [i \in Nat |-> IF i = 0 THEN one ELSE step[i][f[i - 1]]]
    BY <2>1, Iterates
  <2> QED BY <2>2 DEF X
<1>4. f = [i \in Nat |-> IF i = 0 THEN 1 ELSE n * f[i - 1]]
  <2>1. \A i \in Nat : i # 0 => f[i - 1] \in Int
    OBVIOUS
  <2>2. \A i \in Nat : i # 0 => step[i][f[i - 1]] = n * f[i - 1]
    BY <1>2, <2>1
  <2> QED BY <1>3, <2>2 DEF one
<1>5. power = [i \in Nat |-> IF i = 0 THEN 1 ELSE n * power[i - 1]]
  BY <1>4
<1>6. power \in [Nat -> Int]
  <2> DEFINE S == {i \in Nat : power[i] \in Int}
  <2> HIDE DEF power
  <2>1. ASSUME NEW i \in Nat, \A m \in Nat : m < i => m \in S PROVE i \in S
    <3>1. power[i] = IF i = 0 THEN 1 ELSE n * power[i - 1]
      BY <1>5
    <3>2. i # 0 => i - 1 \in S
      BY <2>1
    <3> QED BY <3>1, <3>2
  <2> HIDE DEF S
  <2>2. S = Nat
    <3>1. S \subseteq Nat
      BY DEF S
    <3> QED BY <2>1, <3>1, AllNaturals
  <2>3. \A i \in Nat : power[i] \in Int
    BY <2>2 DEF S
  <2> QED BY <1>5, <2>3
<1>7. Power(n, k) = power[k]
  BY DEF Power
<1> HIDE DEF power
<1> QED BY <1>6, <1>7

\* Whatever the operator, there is at most one result, and it is a number.
LEMMA ApplyIsNumber ==
  ASSUME NEW operator \in Infix, NEW x \in Number, NEW y \in Number
  PROVE  /\ Apply(operator, x, y) \in SUBSET Number
         /\ \A z \in Apply(operator, x, y) : Apply(operator, x, y) = {z}
<1> USE DEF Infix
<1>1. x = [n |-> x.n, d |-> x.d] /\ x.n \in Int /\ x.d \in Nat
      /\ y = [n |-> y.n, d |-> y.d] /\ y.n \in Int /\ y.d \in Nat
  BY DEF Number
<1>2. Unknown \in Number /\ \A n \in Int : Whole(n) \in Number
  BY DEF Unknown, Whole, Number
<1>3. \A u \in Number : Add(x, u) \in Number
  <2> TAKE u \in Number
  <2>1. u.n \in Int /\ u.d \in Nat
    BY DEF Number
  <2>2. x.n * u.d + u.n * x.d \in Int /\ x.d * u.d \in Int
    BY <1>1, <2>1
  <2> QED BY <2>2, QuotientIsNumber DEF Add
<1>4. Minus(y) \in Number
  BY <1>1 DEF Minus, Number
<1>5. x.n * y.n \in Int /\ x.d * y.d \in Int /\ x.n * y.d \in Int /\ x.d * y.n \in Int
  BY <1>1
<1>6. CASE operator = "+"
  BY <1>3, <1>6 DEF Apply
<1>7. CASE operator = "-"
  BY <1>3, <1>4, <1>7 DEF Apply
<1>8. CASE operator = "*"
  BY <1>2, <1>5, <1>8, QuotientIsNumber DEF Apply, Times
<1>9. CASE operator = "/"
  BY <1>2, <1>5, <1>9, QuotientIsNumber DEF Apply, Over
<1>10. CASE operator = "^"
  <2>1. Apply(operator, x, y) = DecimalPower(x, y)
    BY <1>10 DEF Apply
  <2> DEFINE k == y.n \div y.d
  <2>2. ASSUME y.d # 0 PROVE k \in Int
    BY <1>1, <2>2
  <2>3. ASSUME k \in Int, k >= 0 PROVE Quotient(Power(x.n, k), Power(x.d, k)) \in Number
    BY <1>1, <2>3, PowerIsInt, QuotientIsNumber
  <2>4. ASSUME k \in Int, ~ (k >= 0)
        PROVE  Quotient(Power(x.d, - k), Power(x.n, - k)) \in Number
    <3> HIDE DEF k
    <3>1. - k \in Nat
      BY <2>4
    <3> QED BY <1>1, <3>1, PowerIsInt, QuotientIsNumber
  <2> DEFINE p == Quotient(Power(x.n, k), Power(x.d, k))
             q == Quotient(Power(x.d, - k), Power(x.n, - k))
  <2>5. DecimalPower(x, y) \in {{}, {Unknown}, {Whole(0)}, {p}, {q}}
    BY DEF DecimalPower
  <2>6. ASSUME DecimalPower(x, y) \notin {{}, {Unknown}, {Whole(0)}} PROVE y.d # 0
    BY <2>6 DEF DecimalPower
  <2>7. ASSUME DecimalPower(x, y) \notin {{}, {Unknown}, {Whole(0)}}
        PROVE  DecimalPower(x, y) = IF k >= 0 THEN {p} ELSE {q}
    BY <2>7 DEF DecimalPower
  <2> HIDE DEF k, p, q
  <2>8. Whole(0) \in Number
    BY <1>2
  <2> QED BY <1>2, <2>1, <2>2, <2>3, <2>4, <2>6, <2>7, <2>8 DEF p, q
<1> QED BY <1>6, <1>7, <1>8, <1>9, <1>10

\* So are the results of an operator on numbers that may be missing.
LEMMA BothAreNumbers ==
  ASSUME NEW operator \in Infix, NEW left \in SUBSET Number, NEW right \in SUBSET Number
  PROVE  Both(operator, left, right) \in SUBSET Number
BY ApplyIsNumber DEF Both

Just(x) == {x}

\* A result comes of one operand on either side, and those have no other.
LEMMA BothOfOne ==
  ASSUME NEW operator \in Infix, NEW left \in SUBSET Number, NEW right \in SUBSET Number,
         NEW z \in Both(operator, left, right)
  PROVE  \E x \in left, y \in right : Both(operator, Just(x), Just(y)) = Just(z)
<1>1. PICK x \in left, y \in right : z \in Apply(operator, x, y)
  BY DEF Both
<1>2. Apply(operator, x, y) = {z}
  BY <1>1, ApplyIsNumber
<1>3. Both(operator, {x}, {y}) = Apply(operator, x, y)
  BY DEF Both
<1> QED BY <1>2, <1>3 DEF Just

\* Nothing comes of an operand that is missing.
LEMMA BothOfNone ==
  ASSUME NEW operator, NEW side
  PROVE  Both(operator, {}, side) = {} /\ Both(operator, side, {}) = {}
BY DEF Both

\* More operands, more results.
LEMMA BothGrow ==
  ASSUME NEW operator, NEW left, NEW right, NEW a \in SUBSET left, NEW b \in SUBSET right
  PROVE  Both(operator, a, b) \subseteq Both(operator, left, right)
BY DEF Both

\* A sign makes numbers of numbers.
LEMMA MinusAreNumbers ==
  ASSUME NEW x \in Number PROVE Minus(x) \in Number
BY DEF Minus, Number

-----------------------------------------------------------------------------
(* The parser, by the levels its calls go deep *)

\* What the methods of a parser return, and that none goes back.
Returns(method) == method \in [Nat -> Parse] /\ \A at \in Nat : method[at].at >= at
Continues(loop) == loop \in [Parse -> Parse] /\ \A left \in Parse : loop[left].at >= left.at
Forward(self) ==
    /\ Returns(self.expression) /\ Returns(self.power) /\ Returns(self.unary)
    /\ Continues(self.restOfExpression) /\ Continues(self.restOfTerm)
    /\ Continues(self.restOfPostfix)

From(left, at) == left \in Parse /\ left.at >= at

\* Values and a token make a parse, and a parse is made of them.
LEMMA ParsedIsParse ==
  ASSUME NEW value \in SUBSET Number, NEW at \in Nat
  PROVE  /\ Parsed(value, at) \in Parse
         /\ Parsed(value, at).value = value /\ Parsed(value, at).at = at
BY DEF Parsed, Parse

LEMMA ParseIsParsed ==
  ASSUME NEW r \in Parse
  PROVE  r = Parsed(r.value, r.at) /\ r.value \in SUBSET Number /\ r.at \in Nat
BY DEF Parsed, Parse

\* What a percentage is divided by.
LEMMA HundredIsNumber == {Whole(Hundred)} \in SUBSET Number
BY CalculatorAssumption DEF Whole, Number

\* A percentage is one token further.
LEMMA PercentParse ==
  ASSUME NEW left \in Parse
  PROVE  LET next == Parsed(Both("/", left.value, {Whole(Hundred)}), left.at + 1)
         IN  next \in Parse /\ next.at = left.at + 1
<1>1. left.value \in SUBSET Number /\ left.at \in Nat
  BY ParseIsParsed
<1> DEFINE at == left.at + 1
           value == Both("/", left.value, {Whole(Hundred)})
<1>2. at \in Nat
  BY <1>1
<1>3. value \in SUBSET Number
  BY <1>1, HundredIsNumber, BothAreNumbers DEF Infix
<1> HIDE DEF at, value
<1>4. Parsed(value, at) \in Parse /\ Parsed(value, at).at = at
  BY <1>2, <1>3, ParsedIsParse
<1> QED BY <1>4 DEF at, value

\* No method goes back, given that none it calls does.
LEMMA PrimaryForward ==
  ASSUME NEW t, NEW self, Forward(self), NEW at \in Nat
  PROVE  From(ParsePrimary(t, self, at), at)
<1> DEFINE inner == self.expression[at + 1]
<1>1. inner \in Parse /\ inner.at >= at + 1
  BY DEF Forward, Returns
<1>2. CASE Peek(t, at) = "("
  <2>1. [inner EXCEPT !.at = @ + 1] \in Parse /\ [inner EXCEPT !.at = @ + 1].at >= at
    BY <1>1 DEF Parse
  <2>2. [inner EXCEPT !.value = {}] \in Parse /\ [inner EXCEPT !.value = {}].at >= at
    BY <1>1 DEF Parse
  <2>3. ParsePrimary(t, self, at) \in {[inner EXCEPT !.at = @ + 1], [inner EXCEPT !.value = {}]}
    <3>1. "(" \notin DOMAIN Literals
      BY CalculatorAssumption DEF Sign
    <3> HIDE DEF inner
    <3> QED BY <1>2, <3>1 DEF ParsePrimary, inner
  <2> HIDE DEF inner
  <2> QED BY <2>1, <2>2, <2>3 DEF From
<1>3. CASE Peek(t, at) # "(" /\ Peek(t, at) \in DOMAIN Literals
  <2>1. t[at] \in DOMAIN Literals
    BY <1>3, CalculatorAssumption DEF Peek
  <2>2. {Whole(Literals[t[at]])} \in SUBSET Number
    BY <2>1, CalculatorAssumption DEF Whole, Number
  <2>3. ParsePrimary(t, self, at) = Parsed({Whole(Literals[t[at]])}, at + 1)
    BY <1>3 DEF ParsePrimary
  <2> QED BY <2>2, <2>3, ParsedIsParse DEF From
<1>4. CASE Peek(t, at) # "(" /\ Peek(t, at) \notin DOMAIN Literals
  <2>1. ParsePrimary(t, self, at) = Parsed({}, at)
    BY <1>4 DEF ParsePrimary
  <2> QED BY <2>1, ParsedIsParse DEF From
<1> QED BY <1>2, <1>3, <1>4

LEMMA RestOfPostfixForward ==
  ASSUME NEW t, NEW self, Forward(self), NEW left \in Parse
  PROVE  From(RestOfPostfix(t, self, left), left.at)
<1> DEFINE next == Parsed(Both("/", left.value, {Whole(Hundred)}), left.at + 1)
<1>1. left.at \in Nat
  BY ParseIsParsed
<1>2. next \in Parse /\ next.at = left.at + 1
  BY PercentParse
<1> HIDE DEF next
<1>3. self.restOfPostfix[next] \in Parse /\ self.restOfPostfix[next].at >= next.at
  BY <1>2 DEF Forward, Continues
<1>4. RestOfPostfix(t, self, left) \in {left, self.restOfPostfix[next]}
  BY DEF RestOfPostfix, next
<1>5. self.restOfPostfix[next].at \in Nat
  BY <1>3, ParseIsParsed
<1> QED BY <1>1, <1>2, <1>3, <1>4, <1>5 DEF From

\* What starts further on is further on.
LEMMA FromAfter ==
  ASSUME NEW at \in Nat, NEW left \in Parse, NEW r, From(left, at), From(r, left.at)
  PROVE  From(r, at)
<1>1. left.at \in Nat /\ r.at \in Nat
  BY ParseIsParsed DEF From
<1> QED BY <1>1 DEF From

LEMMA PostfixForward ==
  ASSUME NEW t, NEW self, Forward(self), NEW at \in Nat
  PROVE  From(ParsePostfix(t, self, at), at)
<1>1. From(ParsePrimary(t, self, at), at)
  BY PrimaryForward
<1>2. From(RestOfPostfix(t, self, ParsePrimary(t, self, at)), ParsePrimary(t, self, at).at)
  BY <1>1, RestOfPostfixForward DEF From
<1> QED BY <1>1, <1>2, FromAfter DEF ParsePostfix, From

LEMMA UnaryForward ==
  ASSUME NEW t, NEW self, Forward(self), NEW at \in Nat
  PROVE  From(ParseUnary(t, self, at), at)
<1>1. CASE Peek(t, at) # "-"
  BY <1>1, PostfixForward DEF ParseUnary
<1>2. CASE Peek(t, at) = "-"
  <2> DEFINE right == self.unary[at + 1]
  <2>1. right \in Parse /\ right.at >= at + 1
    BY DEF Forward, Returns
  <2> HIDE DEF right
  <2>2. right.value \in SUBSET Number /\ right.at \in Nat
    BY <2>1, ParseIsParsed
  <2>3. {Minus(x) : x \in right.value} \in SUBSET Number
    BY <2>2, MinusAreNumbers
  <2>4. ParseUnary(t, self, at) = Parsed({Minus(x) : x \in right.value}, right.at)
    BY <1>2 DEF ParseUnary, right
  <2> QED BY <2>1, <2>2, <2>3, <2>4, ParsedIsParse DEF From
<1> QED BY <1>1, <1>2

\* Left and right of an operator, whichever it is.
LEMMA OperatorForward ==
  ASSUME NEW operator \in Infix, NEW left \in Parse, NEW right,
         From(right, left.at + 1)
  PROVE  /\ Parsed(Both(operator, left.value, right.value), right.at) \in Parse
         /\ From(Parsed(Both(operator, left.value, right.value), right.at), left.at + 1)
<1>1. left.value \in SUBSET Number /\ right.value \in SUBSET Number /\ right.at \in Nat
  BY ParseIsParsed DEF From
<1>2. Both(operator, left.value, right.value) \in SUBSET Number
  BY <1>1, BothAreNumbers
<1> QED BY <1>1, <1>2, ParsedIsParse DEF From

LEMMA PowerForward ==
  ASSUME NEW t, NEW self, Forward(self), NEW at \in Nat
  PROVE  From(ParsePower(t, self, at), at)
<1> DEFINE left == ParseUnary(t, self, at)
           right == self.power[left.at + 1]
           both == Parsed(Both("^", left.value, right.value), right.at)
<1>1. From(left, at) /\ left \in Parse /\ left.at \in Nat
  BY UnaryForward, ParseIsParsed DEF From
<1> HIDE DEF left
<1>2. From(right, left.at + 1)
  BY <1>1 DEF Forward, Returns, From
<1> HIDE DEF right
<1>3. From(both, left.at + 1)
  BY <1>1, <1>2, OperatorForward DEF Infix
<1>4. From(both, at)
  <2>1. both.at \in Nat
    BY <1>3, ParseIsParsed DEF From
  <2> QED BY <1>1, <1>3, <2>1 DEF From
<1>5. ParsePower(t, self, at) \in {left, both}
  BY DEF ParsePower, left, right
<1> HIDE DEF both
<1> QED BY <1>1, <1>4, <1>5

LEMMA RestOfTermForward ==
  ASSUME NEW t, NEW self, Forward(self), NEW left \in Parse
  PROVE  From(RestOfTerm(t, self, left), left.at)
<1> DEFINE right == ParsePower(t, self, left.at + 1)
           both == Parsed(Both(t[left.at], left.value, right.value), right.at)
<1>1. left.at \in Nat
  BY ParseIsParsed
<1>2. From(right, left.at + 1)
  BY <1>1, PowerForward
<1> HIDE DEF right
<1>3. CASE left.value = {} \/ Peek(t, left.at) \notin {"*", "/"}
  BY <1>1, <1>3 DEF RestOfTerm, From
<1>4. CASE left.value # {} /\ Peek(t, left.at) \in {"*", "/"}
  <2>1. t[left.at] \in Infix
    BY <1>4 DEF Peek, Infix
  <2>2. both \in Parse /\ From(both, left.at + 1) /\ both.at \in Nat
    BY <1>2, <2>1, OperatorForward, ParseIsParsed DEF From
  <2>3. RestOfTerm(t, self, left) = self.restOfTerm[both]
    BY <1>4 DEF RestOfTerm, right
  <2> HIDE DEF both
  <2>4. From(self.restOfTerm[both], both.at)
    BY <2>2 DEF Forward, Continues, From
  <2>5. self.restOfTerm[both].at \in Nat
    BY <2>4, ParseIsParsed DEF From
  <2> QED BY <1>1, <2>2, <2>3, <2>4, <2>5 DEF From
<1> QED BY <1>3, <1>4

LEMMA TermForward ==
  ASSUME NEW t, NEW self, Forward(self), NEW at \in Nat
  PROVE  From(ParseTerm(t, self, at), at)
<1>1. From(ParsePower(t, self, at), at)
  BY PowerForward
<1>2. From(RestOfTerm(t, self, ParsePower(t, self, at)), ParsePower(t, self, at).at)
  BY <1>1, RestOfTermForward DEF From
<1> QED BY <1>1, <1>2, FromAfter DEF ParseTerm, From

LEMMA RestOfExpressionForward ==
  ASSUME NEW t, NEW self, Forward(self), NEW left \in Parse
  PROVE  From(RestOfExpression(t, self, left), left.at)
<1> DEFINE right == ParseTerm(t, self, left.at + 1)
           both == Parsed(Both(t[left.at], left.value, right.value), right.at)
<1>1. left.at \in Nat
  BY ParseIsParsed
<1>2. From(right, left.at + 1)
  BY <1>1, TermForward
<1> HIDE DEF right
<1>3. CASE left.value = {} \/ Peek(t, left.at) \notin {"+", "-"}
  BY <1>1, <1>3 DEF RestOfExpression, From
<1>4. CASE left.value # {} /\ Peek(t, left.at) \in {"+", "-"}
  <2>1. t[left.at] \in Infix
    BY <1>4 DEF Peek, Infix
  <2>2. both \in Parse /\ From(both, left.at + 1) /\ both.at \in Nat
    BY <1>2, <2>1, OperatorForward, ParseIsParsed DEF From
  <2>3. RestOfExpression(t, self, left) = self.restOfExpression[both]
    BY <1>4 DEF RestOfExpression, right
  <2> HIDE DEF both
  <2>4. From(self.restOfExpression[both], both.at)
    BY <2>2 DEF Forward, Continues, From
  <2>5. self.restOfExpression[both].at \in Nat
    BY <2>4, ParseIsParsed DEF From
  <2> QED BY <1>1, <2>2, <2>3, <2>4, <2>5 DEF From
<1> QED BY <1>3, <1>4

LEMMA ExpressionForward ==
  ASSUME NEW t, NEW self, Forward(self), NEW at \in Nat
  PROVE  From(ParseExpression(t, self, at), at)
<1>1. From(ParseTerm(t, self, at), at)
  BY TermForward
<1>2. From(RestOfExpression(t, self, ParseTerm(t, self, at)), ParseTerm(t, self, at).at)
  BY <1>1, RestOfExpressionForward DEF From
<1> QED BY <1>1, <1>2, FromAfter DEF ParseExpression, From

LEMMA MethodsForward ==
  ASSUME NEW t, NEW self, Forward(self) PROVE Forward(Methods(t, self))
<1>1. Returns(Methods(t, self).expression)
  BY ExpressionForward DEF Methods, Returns, From
<1>2. Returns(Methods(t, self).power)
  BY PowerForward DEF Methods, Returns, From
<1>3. Returns(Methods(t, self).unary)
  BY UnaryForward DEF Methods, Returns, From
<1>4. Continues(Methods(t, self).restOfExpression)
  BY RestOfExpressionForward DEF Methods, Continues, From
<1>5. Continues(Methods(t, self).restOfTerm)
  BY RestOfTermForward DEF Methods, Continues, From
<1>6. Continues(Methods(t, self).restOfPostfix)
  BY RestOfPostfixForward DEF Methods, Continues, From
<1> QED BY <1>1, <1>2, <1>3, <1>4, <1>5, <1>6 DEF Forward

\* The parser that may make no call goes nowhere.
LEMMA StuckForward == Forward(Stuck)
<1>1. \A at \in Nat : Parsed({}, at) \in Parse /\ Parsed({}, at).at = at
  BY ParsedIsParse
<1>2. [at \in Nat |-> Parsed({}, at)] \in [Nat -> Parse]
      /\ \A at \in Nat : [i \in Nat |-> Parsed({}, i)][at].at >= at
  BY <1>1
<1>3. [left \in Parse |-> left] \in [Parse -> Parse]
      /\ \A left \in Parse : [r \in Parse |-> r][left].at >= left.at
  BY ParseIsParsed
<1> QED BY <1>2, <1>3 DEF Stuck, Forward, Returns, Continues

Parsing ==
    [expression : [Nat -> Parse], power : [Nat -> Parse], unary : [Nat -> Parse],
     restOfExpression : [Parse -> Parse], restOfTerm : [Parse -> Parse],
     restOfPostfix : [Parse -> Parse]]
Parsers == {self \in Parsing : Forward(self)}

\* There is a parser, and one level deeper it is what its methods make of it.
LEMMA ParserUnfolds ==
  ASSUME NEW t
  PROVE  /\ Parser(t)[0] = Stuck
         /\ \A n \in Nat : Parser(t)[n + 1] = Methods(t, Parser(t)[n])
<1> DEFINE step == [i \in Nat |-> [self \in Parsers |-> Methods(t, self)]]
           zero == Stuck
           parser == CHOOSE f : f = [n \in Nat |-> IF n = 0 THEN Stuck ELSE Methods(t, f[n - 1])]
<1>1. \A self \in Parsers : Methods(t, self) \in Parsers
  <2> TAKE self \in Parsers
  <2>1. Forward(Methods(t, self))
    BY MethodsForward DEF Parsers
  <2>2. Methods(t, self) \in Parsing
    BY <2>1 DEF Forward, Returns, Continues, Methods, Parsing
  <2> QED BY <2>1, <2>2 DEF Parsers
<1>2. zero \in Parsers
  BY StuckForward DEF Parsers, Parsing, Forward, Returns, Continues, Stuck
<1>3. step \in [Nat -> [Parsers -> Parsers]]
  BY <1>1
<1>4. \A i \in Nat, self \in Parsers : step[i][self] = Methods(t, self)
  OBVIOUS
<1> HIDE DEF step, zero
<1>5. PICK f \in [Nat -> Parsers] : f = [n \in Nat |-> IF n = 0 THEN zero ELSE step[n][f[n - 1]]]
  BY <1>2, <1>3, Iterates
<1>6. f = [n \in Nat |-> IF n = 0 THEN Stuck ELSE Methods(t, f[n - 1])]
  <2>1. \A n \in Nat : n # 0 => f[n - 1] \in Parsers
    OBVIOUS
  <2>2. \A n \in Nat : n # 0 => step[n][f[n - 1]] = Methods(t, f[n - 1])
    BY <1>4, <2>1
  <2> QED BY <1>5, <2>2 DEF zero
<1>7. parser = [n \in Nat |-> IF n = 0 THEN Stuck ELSE Methods(t, parser[n - 1])]
  BY <1>6
<1>8. Parser(t) = parser
  BY DEF Parser
<1> HIDE DEF parser
<1>9. parser[0] = Stuck /\ \A n \in Nat : parser[n + 1] = Methods(t, parser[n])
  BY <1>7
<1> QED BY <1>8, <1>9

\* No parser goes back, however deep it is.
LEMMA ParserForward ==
  ASSUME NEW t PROVE \A n \in Nat : Forward(Parser(t)[n])
<1> DEFINE S == {n \in Nat : Forward(Parser(t)[n])}
<1>1. ASSUME NEW n \in Nat, \A m \in Nat : m < n => m \in S PROVE n \in S
  <2>1. CASE n = 0
    BY <2>1, ParserUnfolds, StuckForward
  <2>2. CASE n # 0
    <3>1. n - 1 \in Nat /\ Forward(Parser(t)[n - 1])
      BY <1>1, <2>2
    <3>2. Parser(t)[(n - 1) + 1] = Methods(t, Parser(t)[n - 1])
      BY <3>1, ParserUnfolds
    <3> QED BY <3>1, <3>2, MethodsForward
  <2> QED BY <2>1, <2>2
<1> HIDE DEF S
<1>2. S = Nat
  <2>1. S \subseteq Nat
    BY DEF S
  <2> QED BY <1>1, <2>1, AllNaturals
<1> QED BY <1>2 DEF S

\* Two parsers that are the same from a token on.
Agree(one, other, at) ==
    /\ \A i \in Nat : i >= at =>
          /\ one.expression[i] = other.expression[i]
          /\ one.power[i] = other.power[i] /\ one.unary[i] = other.unary[i]
    /\ \A left \in Parse : left.at >= at =>
          /\ one.restOfExpression[left] = other.restOfExpression[left]
          /\ one.restOfTerm[left] = other.restOfTerm[left]
          /\ one.restOfPostfix[left] = other.restOfPostfix[left]

\* Two parsers that are the same from the next token on do the same at this one.
LEMMA AgreeHere ==
  ASSUME NEW t, NEW one, NEW other, Forward(one), Forward(other),
         NEW at \in Nat, Agree(one, other, at + 1)
  PROVE  Agree(Methods(t, one), Methods(t, other), at)
<1>1. ASSUME NEW i \in Nat, i >= at PROVE ParsePrimary(t, one, i) = ParsePrimary(t, other, i)
  <2>1. i + 1 \in Nat /\ i + 1 >= at + 1
    BY <1>1
  <2>2. one.expression[i + 1] = other.expression[i + 1]
    BY <2>1 DEF Agree
  <2> QED BY <2>2 DEF ParsePrimary
<1>2. ASSUME NEW left \in Parse, left.at >= at
      PROVE  RestOfPostfix(t, one, left) = RestOfPostfix(t, other, left)
  <2> DEFINE next == Parsed(Both("/", left.value, {Whole(Hundred)}), left.at + 1)
  <2>1. next \in Parse /\ next.at = left.at + 1
    BY PercentParse
  <2>a. left.at \in Nat
    BY ParseIsParsed
  <2> HIDE DEF next
  <2>b. next.at >= at + 1
    BY <1>2, <2>1, <2>a
  <2>2. one.restOfPostfix[next] = other.restOfPostfix[next]
    BY <2>1, <2>b DEF Agree
  <2> QED BY <2>2 DEF RestOfPostfix, next
<1>3. ASSUME NEW i \in Nat, i >= at PROVE ParsePostfix(t, one, i) = ParsePostfix(t, other, i)
  <2> DEFINE left == ParsePrimary(t, one, i)
  <2>1. left \in Parse /\ left.at >= i /\ left.at \in Nat
    BY PrimaryForward, ParseIsParsed DEF From
  <2>2. left = ParsePrimary(t, other, i)
    BY <1>1, <1>3
  <2> HIDE DEF left
  <2>3. RestOfPostfix(t, one, left) = RestOfPostfix(t, other, left)
    BY <1>2, <1>3, <2>1
  <2> QED BY <2>2, <2>3 DEF ParsePostfix, left
<1>4. ASSUME NEW i \in Nat, i >= at PROVE ParseUnary(t, one, i) = ParseUnary(t, other, i)
  <2>1. i + 1 \in Nat /\ i + 1 >= at + 1
    BY <1>4
  <2>2. one.unary[i + 1] = other.unary[i + 1]
    BY <2>1 DEF Agree
  <2> QED BY <1>3, <1>4, <2>2 DEF ParseUnary
<1>5. ASSUME NEW i \in Nat, i >= at PROVE ParsePower(t, one, i) = ParsePower(t, other, i)
  <2> DEFINE left == ParseUnary(t, one, i)
  <2>1. left \in Parse /\ left.at >= i /\ left.at \in Nat
    BY UnaryForward, ParseIsParsed DEF From
  <2>2. left = ParseUnary(t, other, i)
    BY <1>4, <1>5
  <2> HIDE DEF left
  <2>3. left.at + 1 \in Nat /\ left.at + 1 >= at + 1
    BY <1>5, <2>1
  <2>4. one.power[left.at + 1] = other.power[left.at + 1]
    BY <2>3 DEF Agree
  <2> QED BY <2>2, <2>4 DEF ParsePower, left
<1>6. ASSUME NEW left \in Parse, left.at >= at
      PROVE  RestOfTerm(t, one, left) = RestOfTerm(t, other, left)
  <2> DEFINE right == ParsePower(t, one, left.at + 1)
             both == Parsed(Both(t[left.at], left.value, right.value), right.at)
  <2>1. left.at \in Nat /\ left.at + 1 \in Nat /\ left.at + 1 >= at
    BY <1>6, ParseIsParsed
  <2>2. From(right, left.at + 1) /\ right = ParsePower(t, other, left.at + 1)
    BY <1>5, <2>1, PowerForward
  <2> HIDE DEF right
  <2>3. CASE left.value = {} \/ Peek(t, left.at) \notin {"*", "/"}
    BY <2>3 DEF RestOfTerm
  <2>4. CASE left.value # {} /\ Peek(t, left.at) \in {"*", "/"}
    <3>1. t[left.at] \in Infix
      BY <2>4 DEF Peek, Infix
    <3>2. both \in Parse /\ both.at >= left.at + 1 /\ both.at \in Nat
      BY <2>2, <3>1, OperatorForward, ParseIsParsed DEF From
    <3>3. RestOfTerm(t, one, left) = one.restOfTerm[both]
          /\ RestOfTerm(t, other, left) = other.restOfTerm[both]
      BY <2>2, <2>4 DEF RestOfTerm, right
    <3> HIDE DEF both
    <3>4. both.at >= at + 1
      BY <1>6, <2>1, <3>2
    <3> QED BY <3>2, <3>3, <3>4 DEF Agree
  <2> QED BY <2>3, <2>4
<1>7. ASSUME NEW i \in Nat, i >= at PROVE ParseTerm(t, one, i) = ParseTerm(t, other, i)
  <2> DEFINE left == ParsePower(t, one, i)
  <2>1. left \in Parse /\ left.at >= i /\ left.at \in Nat
    BY PowerForward, ParseIsParsed DEF From
  <2>2. left = ParsePower(t, other, i)
    BY <1>5, <1>7
  <2> HIDE DEF left
  <2>3. RestOfTerm(t, one, left) = RestOfTerm(t, other, left)
    BY <1>6, <1>7, <2>1
  <2> QED BY <2>2, <2>3 DEF ParseTerm, left
<1>8. ASSUME NEW left \in Parse, left.at >= at
      PROVE  RestOfExpression(t, one, left) = RestOfExpression(t, other, left)
  <2> DEFINE right == ParseTerm(t, one, left.at + 1)
             both == Parsed(Both(t[left.at], left.value, right.value), right.at)
  <2>1. left.at \in Nat /\ left.at + 1 \in Nat /\ left.at + 1 >= at
    BY <1>8, ParseIsParsed
  <2>2. From(right, left.at + 1) /\ right = ParseTerm(t, other, left.at + 1)
    BY <1>7, <2>1, TermForward
  <2> HIDE DEF right
  <2>3. CASE left.value = {} \/ Peek(t, left.at) \notin {"+", "-"}
    BY <2>3 DEF RestOfExpression
  <2>4. CASE left.value # {} /\ Peek(t, left.at) \in {"+", "-"}
    <3>1. t[left.at] \in Infix
      BY <2>4 DEF Peek, Infix
    <3>2. both \in Parse /\ both.at >= left.at + 1 /\ both.at \in Nat
      BY <2>2, <3>1, OperatorForward, ParseIsParsed DEF From
    <3>3. RestOfExpression(t, one, left) = one.restOfExpression[both]
          /\ RestOfExpression(t, other, left) = other.restOfExpression[both]
      BY <2>2, <2>4 DEF RestOfExpression, right
    <3> HIDE DEF both
    <3>4. both.at >= at + 1
      BY <1>8, <2>1, <3>2
    <3> QED BY <3>2, <3>3, <3>4 DEF Agree
  <2> QED BY <2>3, <2>4
<1>9. ASSUME NEW i \in Nat, i >= at
      PROVE  ParseExpression(t, one, i) = ParseExpression(t, other, i)
  <2> DEFINE left == ParseTerm(t, one, i)
  <2>1. left \in Parse /\ left.at >= i /\ left.at \in Nat
    BY TermForward, ParseIsParsed DEF From
  <2>2. left = ParseTerm(t, other, i)
    BY <1>7, <1>9
  <2> HIDE DEF left
  <2>3. RestOfExpression(t, one, left) = RestOfExpression(t, other, left)
    BY <1>8, <1>9, <2>1
  <2> QED BY <2>2, <2>3 DEF ParseExpression, left
<1> QED BY <1>2, <1>4, <1>5, <1>6, <1>8, <1>9 DEF Agree, Methods

\* Past the last token every parser does the same.
LEMMA AgreeAfterLast ==
  ASSUME NEW t, Len(t) \in Nat, NEW one, NEW other, Forward(one)
  PROVE  Agree(Methods(t, one), Methods(t, other), Len(t) + 1)
<1> DEFINE Past(i) == i >= Len(t) + 1
<1>1. \A i \in Nat : Past(i) => Peek(t, i) = "none"
  BY DEF Peek
<1>2. "none" \notin DOMAIN Literals
  BY CalculatorAssumption
<1>3. ASSUME NEW left \in Parse, Past(left.at), NEW self
      PROVE  /\ RestOfPostfix(t, self, left) = left /\ RestOfTerm(t, self, left) = left
             /\ RestOfExpression(t, self, left) = left
  <2>1. Peek(t, left.at) = "none"
    BY <1>1, <1>3, ParseIsParsed
  <2> QED BY <2>1 DEF RestOfPostfix, RestOfTerm, RestOfExpression
<1>4. ASSUME NEW i \in Nat, Past(i), NEW self
      PROVE  ParseExpression(t, self, i) = Parsed({}, i) /\ ParsePower(t, self, i) = Parsed({}, i)
             /\ ParseUnary(t, self, i) = Parsed({}, i)
  <2>1. Peek(t, i) = "none"
    BY <1>1, <1>4
  <2>2. ParsePrimary(t, self, i) = Parsed({}, i)
    BY <1>2, <2>1 DEF ParsePrimary
  <2>3. Parsed({}, i) \in Parse /\ Parsed({}, i).at = i /\ Parsed({}, i).value = {}
    BY ParsedIsParse
  <2>4. ParsePostfix(t, self, i) = Parsed({}, i)
    BY <2>2, <2>3 DEF ParsePostfix, RestOfPostfix
  <2>5. ParseUnary(t, self, i) = Parsed({}, i)
    BY <2>1, <2>4 DEF ParseUnary
  <2>6. ParsePower(t, self, i) = Parsed({}, i)
    BY <2>3, <2>5 DEF ParsePower
  <2>7. ParseTerm(t, self, i) = Parsed({}, i)
    BY <2>3, <2>6 DEF ParseTerm, RestOfTerm
  <2>8. ParseExpression(t, self, i) = Parsed({}, i)
    BY <2>3, <2>7 DEF ParseExpression, RestOfExpression
  <2> QED BY <2>5, <2>6, <2>8
<1> QED BY <1>3, <1>4 DEF Agree, Methods

\* As deep as there are tokens, one level more changes nothing.
LEMMA ParserIsDeepEnough ==
  ASSUME NEW t, Len(t) \in Nat
  PROVE  LET self == Parser(t)[Len(t) + 1] IN Agree(self, Methods(t, self), 1)
<1> DEFINE P == Parser(t)
           N == Len(t)
           S == {n \in Nat : n <= N => Agree(P[n + 1], P[n + 2], N + 1 - n)}
<1> HIDE DEF P
<1>1. \A n \in Nat : Forward(P[n]) /\ P[n + 1] = Methods(t, P[n])
  BY ParserForward, ParserUnfolds DEF P
<1>2. ASSUME NEW n \in Nat, \A m \in Nat : m < n => m \in S PROVE n \in S
  <2>1. CASE n = 0
    <3>1. P[1] = Methods(t, P[0]) /\ P[2] = Methods(t, P[1]) /\ Forward(P[0])
      <4>1. P[0 + 1] = Methods(t, P[0]) /\ P[1 + 1] = Methods(t, P[1])
        BY <1>1
      <4> QED BY <1>1, <4>1
    <3>2. Agree(P[1], P[2], N + 1)
      BY <3>1, AgreeAfterLast
    <3> QED BY <2>1, <3>2
  <2>2. CASE n # 0 /\ n <= N
    <3> DEFINE m == n - 1
               at == N + 1 - n
    <3>1. m \in Nat /\ m < n /\ m <= N /\ at \in Nat
      BY <2>2
    <3>7. m \in S
      BY <1>2, <3>1
    <3>2. m + 1 = n /\ m + 2 = n + 1 /\ N + 1 - m = at + 1
      BY <2>2
    <3>3. Agree(P[n], P[n + 1], at + 1)
      BY <3>1, <3>2, <3>7
    <3>4. P[n + 1] = Methods(t, P[n]) /\ P[(n + 1) + 1] = Methods(t, P[n + 1])
          /\ Forward(P[n]) /\ Forward(P[n + 1])
      <4>1. n + 1 \in Nat
        OBVIOUS
      <4> HIDE DEF m, at, S
      <4> QED BY <1>1, <4>1
    <3>5. Agree(Methods(t, P[n]), Methods(t, P[n + 1]), at)
      <4> HIDE DEF at
      <4> QED BY <3>1, <3>3, <3>4, AgreeHere
    <3>6. (n + 1) + 1 = n + 2
      OBVIOUS
    <3> QED BY <3>4, <3>5, <3>6
  <2> QED BY <2>1, <2>2
<1> HIDE DEF S
<1>3. S = Nat
  <2>1. S \subseteq Nat
    BY DEF S
  <2> QED BY <1>2, <2>1, AllNaturals
<1>4. Agree(P[N + 1], P[N + 2], 1)
  BY <1>3 DEF S
<1>5. P[(N + 1) + 1] = Methods(t, P[N + 1]) /\ (N + 1) + 1 = N + 2
  BY <1>1
<1> QED BY <1>4, <1>5 DEF P

-----------------------------------------------------------------------------
(* What a formula means, by the tokens it is made of *)

\* How tight the operators are, and their operands.
LEMMA TightnessOfInfix ==
  ASSUME NEW operator \in Infix
  PROVE  /\ Tightness(operator) \in 1..3 /\ LeftTightness(operator) \in 1..4
         /\ RightTightness(operator) \in 2..3
BY DEF Infix, Tightness, LeftTightness, RightTightness

\* The tokens to start and to end at.
StartsAt(t) == 1..(Len(t) + 1)
EndsAt(t) == 0..Len(t)

\* What is shorter comes to the same by one as by the other.
SameWithin(t, one, other, length) ==
    \A p \in StartsAt(t), q \in EndsAt(t), c \in 1..6 :
       q - p < length => one[p][q][c] = other[p][q][c]

\* What is read depends on nothing but what is shorter.
LEMMA ReadingsOfSame ==
  ASSUME NEW t, Len(t) \in Nat, NEW one, NEW other,
         NEW i \in StartsAt(t), NEW j \in EndsAt(t), NEW tight \in 1..6,
         SameWithin(t, one, other, j - i)
  PROVE  Readings(t, one, i, j, tight) = Readings(t, other, i, j, tight)
<1> DEFINE N == Len(t)
<1> USE DEF StartsAt, EndsAt, SameWithin
<1>1. CASE i >= j
  BY <1>1 DEF Readings
<1>2. CASE i < j
  <2>1. one[i + 1][j - 1][1] = other[i + 1][j - 1][1]
    BY <1>2
  <2>2. one[i][j - 1][5] = other[i][j - 1][5]
    <3>1. j - 1 \in 0..N /\ (j - 1) - i < j - i
      BY <1>2
    <3> QED BY <3>1
  <2>3. one[i + 1][j][4] = other[i + 1][j][4]
    BY <1>2
  <2> DEFINE Split(shorter, k) ==
                Both(t[k], shorter[i][k - 1][LeftTightness(t[k])],
                           shorter[k + 1][j][RightTightness(t[k])])
             K == {k \in i..j : t[k] \in Infix /\ tight <= Tightness(t[k])}
  <2>4. ASSUME NEW k \in K PROVE Split(one, k) = Split(other, k)
    <3>1. LeftTightness(t[k]) \in 1..6 /\ RightTightness(t[k]) \in 1..6
      BY TightnessOfInfix
    <3> DEFINE l == LeftTightness(t[k])
               r == RightTightness(t[k])
    <3> HIDE DEF l, r
    <3>2. l \in 1..6 /\ r \in 1..6
      BY <3>1 DEF l, r
    <3>a. k - 1 \in EndsAt(t) /\ k + 1 \in StartsAt(t)
          /\ (k - 1) - i < j - i /\ j - (k + 1) < j - i
      BY <1>2
    <3> HIDE DEF K, StartsAt, EndsAt
    <3>3. one[i][k - 1][l] = other[i][k - 1][l]
      BY <3>2, <3>a
    <3>4. one[k + 1][j][r] = other[k + 1][j][r]
      BY <3>2, <3>a
    <3> QED BY <3>3, <3>4 DEF l, r
  <2> DEFINE Total(a, b, c, d) ==
                (IF t[i] = "(" /\ t[j] = ")" THEN a ELSE {})
                \cup (IF t[j] = "%" /\ tight <= 5 THEN Both("/", b, {Whole(Hundred)}) ELSE {})
                \cup (IF t[i] = "-" /\ tight <= 4 THEN {Minus(x) : x \in c} ELSE {})
                \cup UNION d
             Of(shorter) ==
                Total(shorter[i + 1][j - 1][1], shorter[i][j - 1][5], shorter[i + 1][j][4],
                      {Split(shorter, k) : k \in K})
  <2>5. \A shorter : Readings(t, shorter, i, j, tight) = Of(shorter)
    <3>1. ~ (i > j) /\ i # j
      BY <1>2
    <3> QED BY <1>2, <3>1 DEF Readings
  <2> HIDE DEF K
  <2>6. {Split(one, k) : k \in K} = {Split(other, k) : k \in K}
    BY <2>4
  <2> HIDE DEF Split, Total
  <2>7. Of(one) = Of(other)
    BY <2>1, <2>2, <2>3, <2>6
  <2> HIDE DEF Of
  <2> QED BY <2>5, <2>7
<1> QED BY <1>1, <1>2

Spanned(N) == [1..(N + 1) -> [0..N -> [1..6 -> SUBSET Number]]]

\* What is read are numbers.
LEMMA ReadingsAreNumbers ==
  ASSUME NEW t, NEW N \in Nat, NEW shorter \in Spanned(N),
         NEW i \in 1..(N + 1), NEW j \in 0..N, NEW tight \in 1..6
  PROVE  Readings(t, shorter, i, j, tight) \in SUBSET Number
<1>1. CASE i > j
  BY <1>1 DEF Readings
<1>2. CASE i = j
  <2>1. \A x \in DOMAIN Literals : Whole(Literals[x]) \in Number
    BY CalculatorAssumption DEF Whole, Number
  <2>2. Readings(t, shorter, i, j, tight) =
           {Whole(Literals[x]) : x \in DOMAIN Literals \cap {t[i]}}
    BY <1>2 DEF Readings
  <2> QED BY <2>1, <2>2
<1>3. CASE i < j
  <2>1. \A p \in 1..(N + 1), q \in 0..N, c \in 1..6 : shorter[p][q][c] \in SUBSET Number
    BY DEF Spanned
  <2>2. shorter[i + 1][j - 1][1] \in SUBSET Number
    BY <1>3, <2>1
  <2>3. shorter[i][j - 1][5] \in SUBSET Number
    BY <1>3, <2>1
  <2>4. shorter[i + 1][j][4] \in SUBSET Number
    BY <1>3, <2>1
  <2>5. Both("/", shorter[i][j - 1][5], {Whole(Hundred)}) \in SUBSET Number
    BY <2>3, HundredIsNumber, BothAreNumbers DEF Infix
  <2>6. {Minus(x) : x \in shorter[i + 1][j][4]} \in SUBSET Number
    BY <2>4, MinusAreNumbers
  <2> DEFINE Split(k) ==
                Both(t[k], shorter[i][k - 1][LeftTightness(t[k])],
                           shorter[k + 1][j][RightTightness(t[k])])
             K == {k \in i..j : t[k] \in Infix /\ tight <= Tightness(t[k])}
  <2>7. ASSUME NEW k \in K PROVE Split(k) \in SUBSET Number
    <3> DEFINE l == LeftTightness(t[k])
               r == RightTightness(t[k])
    <3>1. l \in 1..6 /\ r \in 1..6
      BY TightnessOfInfix
    <3> HIDE DEF l, r
    <3>2. shorter[i][k - 1][l] \in SUBSET Number
      BY <1>3, <2>1, <3>1
    <3>3. shorter[k + 1][j][r] \in SUBSET Number
      BY <1>3, <2>1, <3>1
    <3> QED BY <3>2, <3>3, BothAreNumbers DEF l, r
  <2>8. Readings(t, shorter, i, j, tight) =
           (IF t[i] = "(" /\ t[j] = ")" THEN shorter[i + 1][j - 1][1] ELSE {})
           \cup (IF t[j] = "%" /\ tight <= 5
                 THEN Both("/", shorter[i][j - 1][5], {Whole(Hundred)}) ELSE {})
           \cup (IF t[i] = "-" /\ tight <= 4
                 THEN {Minus(x) : x \in shorter[i + 1][j][4]} ELSE {})
           \cup UNION {Split(k) : k \in K}
    <3>1. ~ (i > j) /\ i # j
      BY <1>3
    <3> QED BY <1>3, <3>1 DEF Readings
  <2> HIDE DEF K, Split
  <2>9. UNION {Split(k) : k \in K} \in SUBSET Number
    BY <2>7
  <2> QED BY <2>2, <2>5, <2>6, <2>8, <2>9
<1> QED BY <1>1, <1>2, <1>3

\* What tokens i to j come to, of a formula of N tokens, by what fewer come to.
Spans(t, N, n, shorter) ==
    [i \in 1..(N + 1) |-> [j \in 0..N |-> [tight \in 1..6 |->
       IF n = 0 THEN {} ELSE Readings(t, shorter, i, j, tight)]]]

\* There are the meanings of every length.
LEMMA MeaningsExist ==
  ASSUME NEW t, NEW N \in Nat
  PROVE  \E f : f = [n \in Nat |-> Spans(t, N, n, f[n - 1])]
<1> DEFINE X == Spanned(N)
           step == [n \in Nat |-> [shorter \in X |-> Spans(t, N, n, shorter)]]
           zero == Spans(t, N, 0, {})
<1>1. \A n \in Nat, shorter \in X : Spans(t, N, n, shorter) \in X
  BY ReadingsAreNumbers DEF Spanned, Spans
<1>2. zero \in X
  BY DEF Spanned, Spans
<1>3. \A x : Spans(t, N, 0, x) = zero
  BY DEF Spans
<1>4. step \in [Nat -> [X -> X]]
  <2> HIDE DEF X
  <2> QED BY <1>1
<1>5. \A n \in Nat, shorter \in X : step[n][shorter] = Spans(t, N, n, shorter)
  <2> HIDE DEF X
  <2> QED OBVIOUS
<1> HIDE DEF step, zero, X
<1>6. PICK f \in [Nat -> X] : f = [n \in Nat |-> IF n = 0 THEN zero ELSE step[n][f[n - 1]]]
  BY <1>2, <1>4, Iterates
<1>7. \A n \in Nat : f[n] = Spans(t, N, n, f[n - 1])
  <2> TAKE n \in Nat
  <2>1. n # 0 => f[n - 1] \in X
    OBVIOUS
  <2> QED BY <1>3, <1>5, <1>6, <2>1
<1>8. f = [n \in Nat |-> f[n]]
  OBVIOUS
<1>9. f = [n \in Nat |-> Spans(t, N, n, f[n - 1])]
  BY <1>7, <1>8
<1> QED BY <1>9

\* What no token comes to, and what as many as n + 1 come to by what n come to.
LEMMA MeaningsUnfold ==
  ASSUME NEW t, Len(t) \in Nat
  PROVE  \A k \in Nat : Meanings(t)[k] = Spans(t, Len(t), k, Meanings(t)[k - 1])
<1> DEFINE N == Len(t)
           meaning == CHOOSE f : f = [n \in Nat |-> Spans(t, N, n, f[n - 1])]
<1>1. meaning = [n \in Nat |-> Spans(t, N, n, meaning[n - 1])]
  BY MeaningsExist
<1>2. Meanings(t) = meaning
  BY DEF Meanings, Spans
<1> HIDE DEF meaning
<1>3. \A n \in Nat : meaning[n] = Spans(t, N, n, meaning[n - 1])
  BY <1>1
<1> QED BY <1>2, <1>3

\* Nothing is read of no tokens.
LEMMA NoneMeansNone ==
  ASSUME NEW t, Len(t) \in Nat, NEW i \in StartsAt(t), NEW j \in EndsAt(t), NEW tight \in 1..6
  PROVE  Meanings(t)[0][i][j][tight] = {}
<1>1. Meanings(t)[0] = Spans(t, Len(t), 0, Meanings(t)[0 - 1])
  BY MeaningsUnfold
<1>2. \A x : Spans(t, Len(t), 0, x)[i][j][tight] = {}
  BY DEF Spans, StartsAt, EndsAt
<1> QED BY <1>1, <1>2

\* What a stretch of tokens comes to, by what shorter ones come to.
LEMMA MoreMeanMore ==
  ASSUME NEW t, Len(t) \in Nat, NEW k \in Nat \ {0},
         NEW i \in StartsAt(t), NEW j \in EndsAt(t), NEW tight \in 1..6
  PROVE  Meanings(t)[k][i][j][tight] = Readings(t, Meanings(t)[k - 1], i, j, tight)
<1>1. Meanings(t)[k] = Spans(t, Len(t), k, Meanings(t)[k - 1])
  BY MeaningsUnfold
<1>2. \A x : Spans(t, Len(t), k, x)[i][j][tight] = Readings(t, x, i, j, tight)
  BY DEF Spans, StartsAt, EndsAt
<1> QED BY <1>1, <1>2

\* As many as there are, and more come to the same.
LEMMA MeaningsSettle ==
  ASSUME NEW t, Len(t) \in Nat,
         NEW i \in StartsAt(t), NEW j \in EndsAt(t), NEW tight \in 1..6
  PROVE  Meanings(t)[Len(t)][i][j][tight] = Readings(t, Meanings(t)[Len(t)], i, j, tight)
<1> DEFINE m == Meanings(t)
           Settled(n) == \A p \in StartsAt(t), q \in EndsAt(t), c \in 1..6 :
                            q - p + 1 <= n => m[n][p][q][c] = Readings(t, m[n], p, q, c)
           S == {n \in Nat : Settled(n)}
<1>1. \A p \in StartsAt(t), q \in EndsAt(t), c \in 1..6 : m[0][p][q][c] = {}
  BY NoneMeansNone
<1>2. \A p \in StartsAt(t), q \in EndsAt(t) : p \in Int /\ q \in Int
  BY DEF StartsAt, EndsAt
<1>3. j - i + 1 <= Len(t)
  BY DEF StartsAt, EndsAt
<1> HIDE DEF m
<1>4. ASSUME NEW n \in Nat, \A k \in Nat : k < n => k \in S PROVE n \in S
  <2> SUFFICES ASSUME NEW p \in StartsAt(t), NEW q \in EndsAt(t), NEW c \in 1..6, q - p + 1 <= n
               PROVE  m[n][p][q][c] = Readings(t, m[n], p, q, c)
    OBVIOUS
  <2>1. p \in Int /\ q \in Int
    BY <1>2
  <2>2. CASE n = 0
    <3>1. p > q /\ ~ (p = q) /\ ~ (p < q)
      BY <2>1, <2>2
    <3>2. Readings(t, m[n], p, q, c) = {}
      BY <3>1 DEF Readings
    <3>3. m[0][p][q][c] = {}
      BY <1>1
    <3> QED BY <2>2, <3>2, <3>3
  <2>3. CASE n # 0
    <3> DEFINE l == n - 1
    <3>1. l \in Nat /\ l < n /\ n = l + 1
      BY <2>3
    <3>2. Settled(l)
      BY <1>4, <3>1
    <3>a. \A u \in StartsAt(t), v \in EndsAt(t), d \in 1..6 :
             m[n][u][v][d] = Readings(t, m[l], u, v, d)
      <4> HIDE DEF S, Settled
      <4> QED BY <2>3, MoreMeanMore DEF m
    <3> HIDE DEF l, S
    <3>3. \A u \in StartsAt(t), v \in EndsAt(t), d \in 1..6 :
             v - u < q - p => m[l][u][v][d] = m[n][u][v][d]
      <4> TAKE u \in StartsAt(t), v \in EndsAt(t), d \in 1..6
      <4> HAVE v - u < q - p
      <4>1. u \in Int /\ v \in Int
        BY <1>2
      <4>2. v - u + 1 <= l
        BY <2>1, <3>1, <4>1
      <4>3. m[l][u][v][d] = Readings(t, m[l], u, v, d)
        BY <3>2, <4>2
      <4>4. m[n][u][v][d] = Readings(t, m[l], u, v, d)
        BY <3>a
      <4> QED BY <4>3, <4>4
    <3> DEFINE one == m[l]
               other == m[n]
    <3> HIDE DEF one, other, Settled
    <3>4. SameWithin(t, one, other, q - p)
      BY <3>3 DEF one, other, SameWithin
    <3> HIDE DEF m
    <3>5. Readings(t, one, p, q, c) = Readings(t, other, p, q, c)
      BY <3>4, ReadingsOfSame
    <3>6. m[n][p][q][c] = Readings(t, m[l], p, q, c)
      BY <3>a
    <3> QED BY <3>5, <3>6 DEF one, other
  <2> QED BY <2>2, <2>3
<1> HIDE DEF S
<1>5. S = Nat
  <2>1. S \subseteq Nat
    BY DEF S
  <2> HIDE DEF Settled
  <2> QED BY <1>4, <2>1, AllNaturals
<1>6. Settled(Len(t))
  BY <1>5 DEF S
<1> QED BY <1>3, <1>6 DEF m

\* What the tokens from i to the one before at come to.
Reads(t, i, at, tight) ==
    IF i \in Nat \ {0} /\ at \in Nat /\ i < at /\ at <= Len(t) + 1
    THEN Meanings(t)[Len(t)][i][at - 1][tight] ELSE {}

\* What is read, by what is read of fewer tokens.
LEMMA ReadsSettled ==
  ASSUME NEW t, Len(t) \in Nat, NEW i \in 1..(Len(t) + 1), NEW j \in 0..Len(t),
         NEW tight \in 1..6
  PROVE  /\ Meanings(t)[Len(t)][i][j][tight] = Reads(t, i, j + 1, tight)
         /\ Meanings(t)[Len(t)][i][j][tight] = Readings(t, Meanings(t)[Len(t)], i, j, tight)
<1>0. Meanings(t)[Len(t)][i][j][tight] = Readings(t, Meanings(t)[Len(t)], i, j, tight)
  BY MeaningsSettle DEF StartsAt, EndsAt
<1>1. CASE i <= j
  <2>1. i \in Nat \ {0} /\ j + 1 \in Nat /\ i < j + 1 /\ j + 1 <= Len(t) + 1 /\ (j + 1) - 1 = j
    BY <1>1
  <2>2. Reads(t, i, j + 1, tight) = Meanings(t)[Len(t)][i][j][tight]
    BY <2>1 DEF Reads
  <2> QED BY <1>0, <2>2
<1>2. CASE i > j
  <2>1. Reads(t, i, j + 1, tight) = {}
    BY <1>2 DEF Reads
  <2>2. Readings(t, Meanings(t)[Len(t)], i, j, tight) = {}
    BY <1>2 DEF Readings
  <2> QED BY <1>0, <2>1, <2>2
<1> QED BY <1>0, <1>1, <1>2

\* A number is read as itself.
LEMMA ReadsNumber ==
  ASSUME NEW t, Len(t) \in Nat, NEW i \in 1..Len(t), NEW tight \in 1..6
  PROVE  Reads(t, i, i + 1, tight) = {Whole(Literals[x]) : x \in DOMAIN Literals \cap {t[i]}}
<1>1. Reads(t, i, i + 1, tight) = Readings(t, Meanings(t)[Len(t)], i, i, tight)
  BY ReadsSettled
<1> QED BY <1>1 DEF Readings

\* By what they may start and end with, and by the operators among them.
OfParentheses(t, i, at) ==
    IF t[i] = "(" /\ t[at - 1] = ")" THEN Reads(t, i + 1, at - 1, 1) ELSE {}
OfPercent(t, i, at, tight) ==
    IF t[at - 1] = "%" /\ tight <= 5 THEN Both("/", Reads(t, i, at - 1, 5), {Whole(Hundred)}) ELSE {}
OfMinus(t, i, at, tight) ==
    IF t[i] = "-" /\ tight <= 4 THEN {Minus(x) : x \in Reads(t, i + 1, at, 4)} ELSE {}
OfInfix(t, i, at, k) ==
    Both(t[k], Reads(t, i, k, LeftTightness(t[k])), Reads(t, k + 1, at, RightTightness(t[k])))
Infixes(t, i, at, tight) == {k \in i..(at - 1) : t[k] \in Infix /\ tight <= Tightness(t[k])}

\* Of more than one token, what is read is one of the forms.
LEMMA ReadsMore ==
  ASSUME NEW t, Len(t) \in Nat, NEW i \in Nat \ {0}, NEW at \in Nat,
         i + 1 < at, at <= Len(t) + 1, NEW tight \in 1..6
  PROVE  Reads(t, i, at, tight) =
            OfParentheses(t, i, at) \cup OfPercent(t, i, at, tight) \cup OfMinus(t, i, at, tight)
            \cup UNION {OfInfix(t, i, at, k) : k \in Infixes(t, i, at, tight)}
<1> DEFINE N == Len(t)
           m == Meanings(t)[N]
           j == at - 1
           K == {k \in i..j : t[k] \in Infix /\ tight <= Tightness(t[k])}
           Total(a, b, c, d) ==
                (IF t[i] = "(" /\ t[j] = ")" THEN a ELSE {})
                \cup (IF t[j] = "%" /\ tight <= 5 THEN Both("/", b, {Whole(Hundred)}) ELSE {})
                \cup (IF t[i] = "-" /\ tight <= 4 THEN {Minus(x) : x \in c} ELSE {})
                \cup UNION d
           Split(k) == Both(t[k], m[i][k - 1][LeftTightness(t[k])],
                                  m[k + 1][j][RightTightness(t[k])])
           Part(k) == Both(t[k], Reads(t, i, k, LeftTightness(t[k])),
                                 Reads(t, k + 1, at, RightTightness(t[k])))
<1>1. i \in 1..(N + 1) /\ j \in 0..N /\ i < j /\ j + 1 = at
  OBVIOUS
<1>2. Reads(t, i, at, tight) = Readings(t, m, i, j, tight)
  BY <1>1, ReadsSettled
<1>3. Readings(t, m, i, j, tight) =
         Total(m[i + 1][j - 1][1], m[i][j - 1][5], m[i + 1][j][4], {Split(k) : k \in K})
  <2>1. ~ (i > j) /\ i # j
    BY <1>1
  <2> HIDE DEF j, m
  <2> QED BY <1>1, <2>1 DEF Readings
<1>4. m[i + 1][j - 1][1] = Reads(t, i + 1, j, 1)
  <2> DEFINE after == i + 1
             last == j - 1
  <2>1. after \in 1..(N + 1) /\ last \in 0..N /\ last + 1 = j /\ 1 \in 1..6
    BY <1>1
  <2> HIDE DEF after, last
  <2>2. m[after][last][1] = Reads(t, after, last + 1, 1)
    BY <2>1, ReadsSettled
  <2> QED BY <2>1, <2>2 DEF after, last
<1>5. m[i][j - 1][5] = Reads(t, i, j, 5)
  <2> DEFINE last == j - 1
  <2>1. i \in 1..(N + 1) /\ last \in 0..N /\ last + 1 = j /\ 5 \in 1..6
    BY <1>1
  <2> HIDE DEF last
  <2>2. m[i][last][5] = Reads(t, i, last + 1, 5)
    BY <2>1, ReadsSettled
  <2> QED BY <2>1, <2>2 DEF last
<1>6. m[i + 1][j][4] = Reads(t, i + 1, at, 4)
  <2>1. i + 1 \in 1..(N + 1) /\ j \in 0..N /\ j + 1 = at
    BY <1>1
  <2> QED BY <2>1, ReadsSettled
<1>7. ASSUME NEW k \in K PROVE Split(k) = Part(k)
  <2> DEFINE l == LeftTightness(t[k])
             r == RightTightness(t[k])
  <2>1. l \in 1..6 /\ r \in 1..6
    BY TightnessOfInfix
  <2> HIDE DEF l, r
  <2>2. i \in 1..(N + 1) /\ k - 1 \in 0..N /\ (k - 1) + 1 = k
        /\ k + 1 \in 1..(N + 1) /\ j \in 0..N /\ j + 1 = at
    BY <1>1
  <2> HIDE DEF K, Split, Part, Total
  <2>3. m[i][k - 1][l] = Reads(t, i, k, l)
    <3> DEFINE last == k - 1
    <3>1. i \in 1..(N + 1) /\ last \in 0..N /\ last + 1 = k
      BY <2>2
    <3> HIDE DEF last
    <3>2. m[i][last][l] = Reads(t, i, last + 1, l)
      BY <2>1, <3>1, ReadsSettled
    <3> QED BY <3>1, <3>2 DEF last
  <2>4. m[k + 1][j][r] = Reads(t, k + 1, at, r)
    <3> DEFINE u == k + 1
    <3>1. u \in 1..(Len(t) + 1) /\ j \in 0..Len(t) /\ j + 1 = at
      BY <2>2
    <3> HIDE DEF u, j
    <3>2. m[u][j][r] = Reads(t, u, j + 1, r)
      BY <2>1, <3>1, ReadsSettled
    <3> QED BY <3>1, <3>2 DEF u
  <2> HIDE DEF m, j
  <2> QED BY <2>3, <2>4 DEF l, r, Split, Part
<1>8. {Split(k) : k \in K} = {Part(k) : k \in K}
  <2> HIDE DEF K, Split, Part
  <2> QED BY <1>7
<1> HIDE DEF K, Split, Part, Total, m, j
<1>9. Reads(t, i, at, tight) =
         Total(Reads(t, i + 1, j, 1), Reads(t, i, j, 5), Reads(t, i + 1, at, 4),
               {Part(k) : k \in K})
  BY <1>2, <1>3, <1>4, <1>5, <1>6, <1>8
<1> QED BY <1>9 DEF Total, Part, K, j, OfParentheses, OfPercent, OfMinus, OfInfix, Infixes

\* What is read is within the formula.
LEMMA ReadsWithin ==
  ASSUME NEW t, NEW i, NEW at, NEW tight, Reads(t, i, at, tight) # {}
  PROVE  i \in Nat \ {0} /\ at \in Nat /\ i < at /\ at <= Len(t) + 1
BY DEF Reads

\* What is read is one of five things.
LEMMA ReadsCases ==
  ASSUME NEW t, Len(t) \in Nat, NEW i, NEW at, NEW tight \in 1..6, NEW v \in Reads(t, i, at, tight)
  PROVE  \/ at = i + 1 /\ t[i] \in DOMAIN Literals /\ v = Whole(Literals[t[i]])
         \/ t[i] = "(" /\ t[at - 1] = ")" /\ v \in Reads(t, i + 1, at - 1, 1)
         \/ tight <= 5 /\ t[at - 1] = "%" /\ v \in Both("/", Reads(t, i, at - 1, 5), {Whole(Hundred)})
         \/ tight <= 4 /\ t[i] = "-" /\ \E x \in Reads(t, i + 1, at, 4) : v = Minus(x)
         \/ \E k \in i..(at - 1) :
               /\ t[k] \in Infix /\ tight <= Tightness(t[k])
               /\ v \in OfInfix(t, i, at, k)
<1>1. i \in Nat \ {0} /\ at \in Nat /\ i < at /\ at <= Len(t) + 1
  BY ReadsWithin
<1>2. CASE at = i + 1
  <2>1. i \in 1..Len(t)
    BY <1>1, <1>2
  <2>2. v \in {Whole(Literals[x]) : x \in DOMAIN Literals \cap {t[i]}}
    BY <1>2, <2>1, ReadsNumber
  <2> QED BY <1>2, <2>2
<1>3. CASE i + 1 < at
  <2>1. \/ v \in OfParentheses(t, i, at) \/ v \in OfPercent(t, i, at, tight)
        \/ v \in OfMinus(t, i, at, tight)
        \/ v \in UNION {OfInfix(t, i, at, k) : k \in Infixes(t, i, at, tight)}
    BY <1>1, <1>3, ReadsMore
  <2>2. CASE v \in OfParentheses(t, i, at)
    BY <2>2 DEF OfParentheses
  <2>3. CASE v \in OfPercent(t, i, at, tight)
    BY <2>3 DEF OfPercent
  <2>4. CASE v \in OfMinus(t, i, at, tight)
    BY <2>4 DEF OfMinus
  <2>5. CASE v \in UNION {OfInfix(t, i, at, k) : k \in Infixes(t, i, at, tight)}
    <3>1. PICK k \in Infixes(t, i, at, tight) : v \in OfInfix(t, i, at, k)
      BY <2>5
    <3>2. k \in i..(at - 1) /\ t[k] \in Infix /\ tight <= Tightness(t[k])
      BY DEF Infixes
    <3> QED BY <3>1, <3>2
  <2> QED BY <2>1, <2>2, <2>3, <2>4, <2>5
<1>4. at = i + 1 \/ i + 1 < at
  BY <1>1
<1> QED BY <1>2, <1>3, <1>4

\* And each of the forms is read.
LEMMA ReadsParentheses ==
  ASSUME NEW t, Len(t) \in Nat, NEW i \in Nat \ {0}, NEW at \in Nat, at <= Len(t),
         NEW tight \in 1..6, t[i] = "(", t[at] = ")"
  PROVE  Reads(t, i + 1, at, 1) \subseteq Reads(t, i, at + 1, tight)
<1> SUFFICES ASSUME Reads(t, i + 1, at, 1) # {} PROVE Reads(t, i + 1, at, 1) \subseteq Reads(t, i, at + 1, tight)
  OBVIOUS
<1> DEFINE next == at + 1
<1>1. next \in Nat /\ i + 1 < next /\ next <= Len(t) + 1 /\ next - 1 = at
  BY ReadsWithin
<1> HIDE DEF next
<1>2. OfParentheses(t, i, next) \subseteq Reads(t, i, next, tight)
  BY <1>1, ReadsMore
<1>3. OfParentheses(t, i, next) = Reads(t, i + 1, at, 1)
  BY <1>1 DEF OfParentheses
<1> QED BY <1>2, <1>3 DEF next

LEMMA ReadsPercent ==
  ASSUME NEW t, Len(t) \in Nat, NEW i, NEW at, t[at] = "%", at <= Len(t),
         NEW tight \in 1..5
  PROVE  Both("/", Reads(t, i, at, 5), {Whole(Hundred)}) \subseteq Reads(t, i, at + 1, tight)
<1> SUFFICES ASSUME Reads(t, i, at, 5) # {}
             PROVE  Both("/", Reads(t, i, at, 5), {Whole(Hundred)}) \subseteq Reads(t, i, at + 1, tight)
  BY BothOfNone
<1> DEFINE next == at + 1
<1>0. i \in Nat \ {0} /\ at \in Nat /\ i < at
  BY ReadsWithin
<1>1. next \in Nat /\ i + 1 < next /\ next <= Len(t) + 1 /\ next - 1 = at
  BY <1>0
<1> HIDE DEF next
<1>2. OfPercent(t, i, next, tight) \subseteq Reads(t, i, next, tight)
  BY <1>0, <1>1, ReadsMore
<1>3. OfPercent(t, i, next, tight) = Both("/", Reads(t, i, at, 5), {Whole(Hundred)})
  BY <1>1 DEF OfPercent
<1> QED BY <1>2, <1>3 DEF next

LEMMA ReadsMinus ==
  ASSUME NEW t, Len(t) \in Nat, NEW i \in Nat \ {0}, NEW at, t[i] = "-", NEW tight \in 1..4
  PROVE  {Minus(x) : x \in Reads(t, i + 1, at, 4)} \subseteq Reads(t, i, at, tight)
<1> SUFFICES ASSUME Reads(t, i + 1, at, 4) # {}
             PROVE  {Minus(x) : x \in Reads(t, i + 1, at, 4)} \subseteq Reads(t, i, at, tight)
  OBVIOUS
<1>1. at \in Nat /\ i + 1 < at /\ at <= Len(t) + 1
  BY ReadsWithin
<1>2. OfMinus(t, i, at, tight) \subseteq Reads(t, i, at, tight)
  BY <1>1, ReadsMore
<1>3. OfMinus(t, i, at, tight) = {Minus(x) : x \in Reads(t, i + 1, at, 4)}
  BY DEF OfMinus
<1> QED BY <1>2, <1>3

LEMMA ReadsInfix ==
  ASSUME NEW t, Len(t) \in Nat, NEW i, NEW k \in Nat, NEW at, t[k] \in Infix,
         NEW tight \in 1..Tightness(t[k])
  PROVE  Both(t[k], Reads(t, i, k, LeftTightness(t[k])),
                    Reads(t, k + 1, at, RightTightness(t[k]))) \subseteq Reads(t, i, at, tight)
<1> DEFINE left == Reads(t, i, k, LeftTightness(t[k]))
           right == Reads(t, k + 1, at, RightTightness(t[k]))
<1> SUFFICES ASSUME left # {}, right # {} PROVE Both(t[k], left, right) \subseteq Reads(t, i, at, tight)
  BY BothOfNone
<1>1. i \in Nat \ {0} /\ i < k /\ at \in Nat /\ k + 1 < at /\ at <= Len(t) + 1
  BY ReadsWithin
<1>2. tight \in 1..6 /\ tight <= Tightness(t[k])
  BY TightnessOfInfix
<1>3. i + 1 < at /\ k \in i..(at - 1)
  BY <1>1
<1>4. UNION {OfInfix(t, i, at, l) : l \in Infixes(t, i, at, tight)} \subseteq Reads(t, i, at, tight)
  BY <1>1, <1>2, <1>3, ReadsMore
<1>5. k \in Infixes(t, i, at, tight)
  BY <1>2, <1>3 DEF Infixes
<1>6. OfInfix(t, i, at, k) \subseteq Reads(t, i, at, tight)
  BY <1>4, <1>5
<1> QED BY <1>6 DEF OfInfix

\* What is read as tight can be read as looser.
LEMMA ReadsLooser ==
  ASSUME NEW t, Len(t) \in Nat, NEW i, NEW at, NEW tight \in 1..6, NEW looser \in 1..tight
  PROVE  Reads(t, i, at, tight) \subseteq Reads(t, i, at, looser)
<1> SUFFICES ASSUME NEW v \in Reads(t, i, at, tight) PROVE v \in Reads(t, i, at, looser)
  OBVIOUS
<1>1. i \in Nat \ {0} /\ at \in Nat /\ i < at /\ at <= Len(t) + 1
  BY ReadsWithin
<1>2. looser \in 1..6 /\ looser <= tight
  OBVIOUS
<1>3. at - 1 \in Nat /\ at - 1 <= Len(t) /\ (at - 1) + 1 = at
  BY <1>1
<1>4. CASE at = i + 1 /\ t[i] \in DOMAIN Literals /\ v = Whole(Literals[t[i]])
  <2>1. i \in 1..Len(t)
    BY <1>1, <1>4
  <2>2. Reads(t, i, i + 1, looser) = {Whole(Literals[x]) : x \in DOMAIN Literals \cap {t[i]}}
    BY <1>2, <2>1, ReadsNumber
  <2> QED BY <1>4, <2>2
<1>5. CASE t[i] = "(" /\ t[at - 1] = ")" /\ v \in Reads(t, i + 1, at - 1, 1)
  <2> DEFINE l == at - 1
  <2> HIDE DEF l
  <2>1. v \in Reads(t, i, l + 1, looser)
    BY <1>1, <1>2, <1>3, <1>5, ReadsParentheses DEF l
  <2> QED BY <1>3, <2>1 DEF l
<1>6. CASE tight <= 5 /\ t[at - 1] = "%" /\ v \in Both("/", Reads(t, i, at - 1, 5), {Whole(Hundred)})
  <2> DEFINE l == at - 1
  <2>1. looser \in 1..5
    BY <1>2, <1>6
  <2> HIDE DEF l
  <2>2. v \in Reads(t, i, l + 1, looser)
    BY <1>3, <1>6, <2>1, ReadsPercent DEF l
  <2> QED BY <1>3, <2>2 DEF l
<1>7. CASE tight <= 4 /\ t[i] = "-" /\ \E x \in Reads(t, i + 1, at, 4) : v = Minus(x)
  <2>1. looser \in 1..4
    BY <1>2, <1>7
  <2> QED BY <1>1, <1>7, <2>1, ReadsMinus
<1>8. CASE \E k \in i..(at - 1) :
               /\ t[k] \in Infix /\ tight <= Tightness(t[k])
               /\ v \in OfInfix(t, i, at, k)
  <2>1. PICK k \in i..(at - 1) :
               /\ t[k] \in Infix /\ tight <= Tightness(t[k])
               /\ v \in OfInfix(t, i, at, k)
    BY <1>8
  <2>2. k \in Nat
    BY <1>1
  <2>3. Tightness(t[k]) \in Int
    BY <2>1, TightnessOfInfix
  <2>4. looser \in 1..Tightness(t[k])
    BY <1>2, <2>1, <2>3
  <2> QED BY <2>1, <2>2, <2>4, ReadsInfix DEF OfInfix
<1> QED BY <1>4, <1>5, <1>6, <1>7, <1>8, ReadsCases

-----------------------------------------------------------------------------
(* What the parser takes can be read *)

Sound(t, i, r, tight) == r.value \subseteq Reads(t, i, r.at, tight)
SoundLoop(t, loop, tight) ==
    \A i \in Nat \ {0}, left \in Parse :
       Sound(t, i, left, tight) => Sound(t, i, loop[left], tight)
SoundParser(t, self) ==
    /\ \A at \in Nat \ {0} :
          /\ Sound(t, at, self.expression[at], 1) /\ Sound(t, at, self.power[at], 3)
          /\ Sound(t, at, self.unary[at], 4)
    /\ SoundLoop(t, self.restOfExpression, 1) /\ SoundLoop(t, self.restOfTerm, 2)
    /\ SoundLoop(t, self.restOfPostfix, 5)

\* A token that is there is the one in the formula.
LEMMA PeekIsToken ==
  ASSUME NEW t, Len(t) \in Nat, NEW at \in Nat, Peek(t, at) \in Token
  PROVE  at <= Len(t) /\ t[at] = Peek(t, at)
<1>1. "none" \notin Token
  BY CalculatorAssumption DEF Token, Sign
<1> QED BY <1>1 DEF Peek

\* What each method returns can be read, given that of those it calls.
LEMMA SoundPrimary ==
  ASSUME NEW t, Len(t) \in Nat, NEW self, Forward(self), SoundParser(t, self),
         NEW at \in Nat \ {0}
  PROVE  Sound(t, at, ParsePrimary(t, self, at), 6)
<1> DEFINE inner == self.expression[at + 1]
           r == ParsePrimary(t, self, at)
<1>0. inner \in Parse /\ Sound(t, at + 1, inner, 1)
  BY DEF Forward, Returns, SoundParser
<1>1. inner.at \in Nat /\ inner = [value |-> inner.value, at |-> inner.at]
  BY <1>0 DEF Parse
<1> HIDE DEF inner
<1>2. "(" \notin DOMAIN Literals
  BY CalculatorAssumption DEF Sign
<1> SUFFICES ASSUME r.value # {} PROVE Sound(t, at, r, 6)
  BY DEF Sound
<1>3. CASE Peek(t, at) = "("
  <2>1. r = IF inner.value # {} /\ Peek(t, inner.at) = ")"
            THEN [inner EXCEPT !.at = @ + 1] ELSE [inner EXCEPT !.value = {}]
    BY <1>2, <1>3 DEF ParsePrimary, inner
  <2>2. inner.value # {} /\ Peek(t, inner.at) = ")" /\ r.value = inner.value
        /\ r.at = inner.at + 1
    BY <1>1, <2>1
  <2>3. at <= Len(t) /\ t[at] = "(" /\ inner.at <= Len(t) /\ t[inner.at] = ")"
    BY <1>1, <1>3, <2>2, PeekIsToken DEF Token, Sign
  <2>4. Reads(t, at + 1, inner.at, 1) \subseteq Reads(t, at, inner.at + 1, 6)
    BY <1>1, <2>3, ReadsParentheses
  <2> QED BY <1>0, <2>2, <2>4 DEF Sound
<1>4. CASE Peek(t, at) # "(" /\ Peek(t, at) \in DOMAIN Literals
  <2>1. r = Parsed({Whole(Literals[t[at]])}, at + 1)
    BY <1>4 DEF ParsePrimary
  <2>2. at <= Len(t) /\ t[at] = Peek(t, at)
    BY <1>4, PeekIsToken DEF Token
  <2>3. Reads(t, at, at + 1, 6) = {Whole(Literals[x]) : x \in DOMAIN Literals \cap {t[at]}}
    BY <2>2, ReadsNumber
  <2> QED BY <1>4, <2>1, <2>2, <2>3 DEF Sound, Parsed
<1>5. CASE Peek(t, at) # "(" /\ Peek(t, at) \notin DOMAIN Literals
  BY <1>5 DEF ParsePrimary, Parsed
<1> QED BY <1>3, <1>4, <1>5

LEMMA SoundRestOfPostfix ==
  ASSUME NEW t, Len(t) \in Nat, NEW self, Forward(self), SoundParser(t, self),
         NEW i \in Nat \ {0}, NEW left \in Parse, Sound(t, i, left, 5)
  PROVE  Sound(t, i, RestOfPostfix(t, self, left), 5)
<1>1. CASE left.value = {} \/ Peek(t, left.at) # "%"
  BY <1>1 DEF RestOfPostfix
<1>2. CASE left.value # {} /\ Peek(t, left.at) = "%"
  <2> DEFINE next == Parsed(Both("/", left.value, {Whole(Hundred)}), left.at + 1)
  <2>1. next \in Parse
    BY PercentParse
  <2>2. left.at \in Nat
    BY ParseIsParsed
  <2>3. left.at <= Len(t) /\ t[left.at] = "%"
    BY <1>2, <2>2, PeekIsToken DEF Token, Sign
  <2>4. Both("/", Reads(t, i, left.at, 5), {Whole(Hundred)}) \subseteq Reads(t, i, left.at + 1, 5)
    <3>1. 5 \in 1..5
      OBVIOUS
    <3> QED BY <2>3, <3>1, ReadsPercent
  <2>5. Both("/", left.value, {Whole(Hundred)})
           \subseteq Both("/", Reads(t, i, left.at, 5), {Whole(Hundred)})
    BY BothGrow DEF Sound
  <2>6. Sound(t, i, next, 5)
    BY <2>4, <2>5 DEF Sound, Parsed
  <2>7. RestOfPostfix(t, self, left) = self.restOfPostfix[next]
    BY <1>2 DEF RestOfPostfix
  <2> QED BY <2>1, <2>6, <2>7 DEF SoundParser, SoundLoop
<1> QED BY <1>1, <1>2

LEMMA SoundLooser ==
  ASSUME NEW t, Len(t) \in Nat, NEW i, NEW r, NEW tight \in 1..6, NEW looser \in 1..tight,
         Sound(t, i, r, tight)
  PROVE  Sound(t, i, r, looser)
BY ReadsLooser DEF Sound

LEMMA SoundUnary ==
  ASSUME NEW t, Len(t) \in Nat, NEW self, Forward(self), SoundParser(t, self),
         NEW at \in Nat \ {0}
  PROVE  Sound(t, at, ParseUnary(t, self, at), 4)
<1>1. CASE Peek(t, at) # "-"
  <2> DEFINE primary == ParsePrimary(t, self, at)
  <2>1. Sound(t, at, primary, 6) /\ primary \in Parse
    BY SoundPrimary, PrimaryForward DEF From
  <2>2. ParseUnary(t, self, at) = RestOfPostfix(t, self, primary)
    BY <1>1 DEF ParseUnary, ParsePostfix
  <2> HIDE DEF primary
  <2>3. Sound(t, at, primary, 5)
    BY <2>1, SoundLooser
  <2>4. Sound(t, at, RestOfPostfix(t, self, primary), 5)
    BY <2>1, <2>3, SoundRestOfPostfix
  <2> QED BY <2>2, <2>4, SoundLooser
<1>2. CASE Peek(t, at) = "-"
  <2> DEFINE right == self.unary[at + 1]
  <2>1. Sound(t, at + 1, right, 4)
    BY DEF SoundParser
  <2> HIDE DEF right
  <2>2. ParseUnary(t, self, at) = Parsed({Minus(x) : x \in right.value}, right.at)
    BY <1>2 DEF ParseUnary, right
  <2>3. t[at] = "-"
    BY <1>2, PeekIsToken DEF Token, Sign
  <2>4. {Minus(x) : x \in Reads(t, at + 1, right.at, 4)} \subseteq Reads(t, at, right.at, 4)
    BY <2>3, ReadsMinus
  <2> QED BY <2>1, <2>2, <2>4 DEF Sound, Parsed
<1> QED BY <1>1, <1>2

\* Two operands and the operator between them.
LEMMA SoundOperator ==
  ASSUME NEW t, Len(t) \in Nat, NEW i, NEW left, NEW right, left.at \in Nat,
         t[left.at] \in Infix, NEW tight \in 1..Tightness(t[left.at]),
         Sound(t, i, left, LeftTightness(t[left.at])),
         Sound(t, left.at + 1, right, RightTightness(t[left.at]))
  PROVE  Sound(t, i, Parsed(Both(t[left.at], left.value, right.value), right.at), tight)
<1> DEFINE operator == t[left.at]
           one == Reads(t, i, left.at, LeftTightness(operator))
           other == Reads(t, left.at + 1, right.at, RightTightness(operator))
<1>1. Both(operator, one, other) \subseteq Reads(t, i, right.at, tight)
  BY ReadsInfix
<1>2. left.value \subseteq one /\ right.value \subseteq other
  BY DEF Sound
<1> HIDE DEF one, other, operator
<1>3. Both(operator, left.value, right.value) \subseteq Both(operator, one, other)
  BY <1>2, BothGrow
<1> QED BY <1>1, <1>3 DEF Sound, Parsed, operator

LEMMA SoundPower ==
  ASSUME NEW t, Len(t) \in Nat, NEW self, Forward(self), SoundParser(t, self),
         NEW at \in Nat \ {0}
  PROVE  Sound(t, at, ParsePower(t, self, at), 3)
<1> DEFINE left == ParseUnary(t, self, at)
           right == self.power[left.at + 1]
<1>1. Sound(t, at, left, 4) /\ left.at \in Nat
  BY SoundUnary, UnaryForward, ParseIsParsed DEF From
<1>2. ParsePower(t, self, at) = IF left.value = {} \/ Peek(t, left.at) # "^" THEN left
                                ELSE Parsed(Both("^", left.value, right.value), right.at)
  BY DEF ParsePower
<1> HIDE DEF left
<1>3. Sound(t, left.at + 1, right, 3)
  BY <1>1 DEF SoundParser
<1> HIDE DEF right
<1>4. CASE left.value = {} \/ Peek(t, left.at) # "^"
  BY <1>1, <1>2, <1>4, SoundLooser
<1>5. CASE left.value # {} /\ Peek(t, left.at) = "^"
  <2>1. t[left.at] = "^"
    BY <1>1, <1>5, PeekIsToken DEF Token, Sign
  <2>2. t[left.at] \in Infix /\ 3 \in 1..Tightness(t[left.at])
        /\ LeftTightness(t[left.at]) = 4 /\ RightTightness(t[left.at]) = 3
    BY <2>1 DEF Infix, Tightness, LeftTightness, RightTightness
  <2>3. Sound(t, at, Parsed(Both(t[left.at], left.value, right.value), right.at), 3)
    BY <1>1, <1>3, <2>2, SoundOperator
  <2> QED BY <1>2, <1>5, <2>1, <2>3
<1> QED BY <1>4, <1>5

LEMMA SoundRestOfTerm ==
  ASSUME NEW t, Len(t) \in Nat, NEW self, Forward(self), SoundParser(t, self),
         NEW i \in Nat \ {0}, NEW left \in Parse, Sound(t, i, left, 2)
  PROVE  Sound(t, i, RestOfTerm(t, self, left), 2)
<1> DEFINE right == ParsePower(t, self, left.at + 1)
           next == Parsed(Both(t[left.at], left.value, right.value), right.at)
<1>1. left.at \in Nat
  BY ParseIsParsed
<1>2. From(right, left.at + 1) /\ Sound(t, left.at + 1, right, 3)
  BY <1>1, PowerForward, SoundPower
<1>3. RestOfTerm(t, self, left) =
         IF left.value = {} \/ Peek(t, left.at) \notin {"*", "/"} THEN left
         ELSE self.restOfTerm[next]
  BY DEF RestOfTerm
<1> HIDE DEF right
<1>4. CASE left.value # {} /\ Peek(t, left.at) \in {"*", "/"}
  <2>1. t[left.at] \in {"*", "/"}
    BY <1>1, <1>4, PeekIsToken DEF Token, Sign
  <2>2. t[left.at] \in Infix /\ 2 \in 1..Tightness(t[left.at])
        /\ LeftTightness(t[left.at]) = 2 /\ RightTightness(t[left.at]) = 3
    BY <2>1 DEF Infix, Tightness, LeftTightness, RightTightness
  <2>3. Sound(t, i, next, 2)
    BY <1>1, <1>2, <2>2, SoundOperator
  <2>4. next \in Parse
    BY <1>2, <2>2, OperatorForward
  <2> HIDE DEF next
  <2> QED BY <1>3, <1>4, <2>3, <2>4 DEF SoundParser, SoundLoop
<1> QED BY <1>3, <1>4

LEMMA SoundTerm ==
  ASSUME NEW t, Len(t) \in Nat, NEW self, Forward(self), SoundParser(t, self),
         NEW at \in Nat \ {0}
  PROVE  Sound(t, at, ParseTerm(t, self, at), 2)
<1> DEFINE power == ParsePower(t, self, at)
<1>1. Sound(t, at, power, 3) /\ power \in Parse
  BY SoundPower, PowerForward DEF From
<1> HIDE DEF power
<1>2. Sound(t, at, RestOfTerm(t, self, power), 2)
  BY <1>1, SoundLooser, SoundRestOfTerm
<1> QED BY <1>2 DEF ParseTerm, power

LEMMA SoundRestOfExpression ==
  ASSUME NEW t, Len(t) \in Nat, NEW self, Forward(self), SoundParser(t, self),
         NEW i \in Nat \ {0}, NEW left \in Parse, Sound(t, i, left, 1)
  PROVE  Sound(t, i, RestOfExpression(t, self, left), 1)
<1> DEFINE right == ParseTerm(t, self, left.at + 1)
           next == Parsed(Both(t[left.at], left.value, right.value), right.at)
<1>1. left.at \in Nat
  BY ParseIsParsed
<1>2. From(right, left.at + 1) /\ Sound(t, left.at + 1, right, 2)
  BY <1>1, TermForward, SoundTerm
<1>3. RestOfExpression(t, self, left) =
         IF left.value = {} \/ Peek(t, left.at) \notin {"+", "-"} THEN left
         ELSE self.restOfExpression[next]
  BY DEF RestOfExpression
<1> HIDE DEF right
<1>4. CASE left.value # {} /\ Peek(t, left.at) \in {"+", "-"}
  <2>1. t[left.at] \in {"+", "-"}
    BY <1>1, <1>4, PeekIsToken DEF Token, Sign
  <2>2. t[left.at] \in Infix /\ 1 \in 1..Tightness(t[left.at])
        /\ LeftTightness(t[left.at]) = 1 /\ RightTightness(t[left.at]) = 2
    BY <2>1 DEF Infix, Tightness, LeftTightness, RightTightness
  <2>3. Sound(t, i, next, 1)
    BY <1>1, <1>2, <2>2, SoundOperator
  <2>4. next \in Parse
    BY <1>2, <2>2, OperatorForward
  <2> HIDE DEF next
  <2> QED BY <1>3, <1>4, <2>3, <2>4 DEF SoundParser, SoundLoop
<1> QED BY <1>3, <1>4

LEMMA SoundExpression ==
  ASSUME NEW t, Len(t) \in Nat, NEW self, Forward(self), SoundParser(t, self),
         NEW at \in Nat \ {0}
  PROVE  Sound(t, at, ParseExpression(t, self, at), 1)
<1> DEFINE term == ParseTerm(t, self, at)
<1>1. Sound(t, at, term, 2) /\ term \in Parse
  BY SoundTerm, TermForward DEF From
<1> HIDE DEF term
<1>2. Sound(t, at, RestOfExpression(t, self, term), 1)
  BY <1>1, SoundLooser, SoundRestOfExpression
<1> QED BY <1>2 DEF ParseExpression, term

\* One level more is as sound.
LEMMA MethodsSound ==
  ASSUME NEW t, Len(t) \in Nat, NEW self, Forward(self), SoundParser(t, self)
  PROVE  SoundParser(t, Methods(t, self))
<1>1. \A at \in Nat \ {0} :
         /\ Sound(t, at, Methods(t, self).expression[at], 1)
         /\ Sound(t, at, Methods(t, self).power[at], 3)
         /\ Sound(t, at, Methods(t, self).unary[at], 4)
  BY SoundExpression, SoundPower, SoundUnary DEF Methods
<1>2. SoundLoop(t, Methods(t, self).restOfExpression, 1)
  BY SoundRestOfExpression DEF Methods, SoundLoop
<1>3. SoundLoop(t, Methods(t, self).restOfTerm, 2)
  BY SoundRestOfTerm DEF Methods, SoundLoop
<1>4. SoundLoop(t, Methods(t, self).restOfPostfix, 5)
  BY SoundRestOfPostfix DEF Methods, SoundLoop
<1> QED BY <1>1, <1>2, <1>3, <1>4 DEF SoundParser

\* What a parser returns can be read, however deep it is.
LEMMA ParserSound ==
  ASSUME NEW t, Len(t) \in Nat PROVE \A n \in Nat : SoundParser(t, Parser(t)[n])
<1> DEFINE S == {n \in Nat : SoundParser(t, Parser(t)[n])}
<1>1. ASSUME NEW n \in Nat, \A m \in Nat : m < n => m \in S PROVE n \in S
  <2>1. CASE n = 0
    <3>1. SoundParser(t, Stuck)
      BY DEF SoundParser, SoundLoop, Sound, Stuck, Parsed
    <3> QED BY <2>1, <3>1, ParserUnfolds
  <2>2. CASE n # 0
    <3>1. n - 1 \in Nat /\ SoundParser(t, Parser(t)[n - 1]) /\ Forward(Parser(t)[n - 1])
      BY <1>1, <2>2, ParserForward
    <3>2. Parser(t)[(n - 1) + 1] = Methods(t, Parser(t)[n - 1])
      BY <3>1, ParserUnfolds
    <3> QED BY <3>1, <3>2, MethodsSound
  <2> QED BY <2>1, <2>2
<1> HIDE DEF S
<1>2. S = Nat
  <2>1. S \in SUBSET Nat
    BY DEF S
  <2> QED BY <1>1, <2>1, AllNaturals
<1> QED BY <1>2 DEF S

-----------------------------------------------------------------------------
(* What can be read the parser takes *)

\* What is read of any tokens is a number.
LEMMA ReadsAreNumbers ==
  ASSUME NEW t, Len(t) \in Nat, NEW i, NEW at, NEW tight \in 1..6
  PROVE  Reads(t, i, at, tight) \subseteq Number
<1> DEFINE N == Len(t)
           S == {n \in Nat : Meanings(t)[n] \in Spanned(N)}
<1>1. ASSUME NEW n \in Nat, \A m \in Nat : m < n => m \in S PROVE n \in S
  <2>1. Meanings(t)[n] = Spans(t, N, n, Meanings(t)[n - 1])
    BY MeaningsUnfold
  <2>2. \A x : Spans(t, N, 0, x) \in Spanned(N)
    BY DEF Spans, Spanned
  <2>3. CASE n # 0
    <3>1. Meanings(t)[n - 1] \in Spanned(N)
      BY <1>1, <2>3
    <3>2. \A x \in Spanned(N) : Spans(t, N, n, x) \in Spanned(N)
      BY <2>3, ReadingsAreNumbers DEF Spans, Spanned
    <3> QED BY <2>1, <3>1, <3>2
  <2> QED BY <2>1, <2>2, <2>3
<1> HIDE DEF S
<1>2. S = Nat
  <2>1. S \in SUBSET Nat
    BY DEF S
  <2> QED BY <1>1, <2>1, AllNaturals
<1>3. Meanings(t)[N] \in Spanned(N)
  BY <1>2 DEF S
<1> SUFFICES ASSUME Reads(t, i, at, tight) # {} PROVE Reads(t, i, at, tight) \subseteq Number
  OBVIOUS
<1>4. i \in 1..(N + 1) /\ at - 1 \in 0..N
  BY ReadsWithin
<1>5. Meanings(t)[N][i][at - 1][tight] \in SUBSET Number
  BY <1>3, <1>4 DEF Spanned
<1> QED BY <1>5 DEF Reads

\* A parser that is as deep as it need be: one level more makes no difference.
Deep(t, self) == Forward(self) /\ Agree(self, Methods(t, self), 1)

\* In a parser deep enough the methods do as they say.
LEMMA DeepMethods ==
  ASSUME NEW t, NEW self, Deep(t, self)
  PROVE  /\ \A at \in Nat \ {0} :
               /\ self.expression[at] = ParseExpression(t, self, at)
               /\ self.power[at] = ParsePower(t, self, at)
               /\ self.unary[at] = ParseUnary(t, self, at)
         /\ \A left \in Parse : left.at >= 1 =>
               /\ self.restOfExpression[left] = RestOfExpression(t, self, left)
               /\ self.restOfTerm[left] = RestOfTerm(t, self, left)
               /\ self.restOfPostfix[left] = RestOfPostfix(t, self, left)
<1>1. ASSUME NEW at \in Nat \ {0}
      PROVE  /\ self.expression[at] = ParseExpression(t, self, at)
             /\ self.power[at] = ParsePower(t, self, at)
             /\ self.unary[at] = ParseUnary(t, self, at)
  <2>1. at \in Nat /\ at >= 1
    OBVIOUS
  <2> QED BY <2>1 DEF Deep, Agree, Methods
<1>2. ASSUME NEW left \in Parse, left.at >= 1
      PROVE  /\ self.restOfExpression[left] = RestOfExpression(t, self, left)
             /\ self.restOfTerm[left] = RestOfTerm(t, self, left)
             /\ self.restOfPostfix[left] = RestOfPostfix(t, self, left)
  BY <1>2 DEF Deep, Agree, Methods
<1> QED BY <1>1, <1>2

\* What can be read from i up to at is what each method takes of it, if the token
\* after it is none the method goes on with.  The loops may have come to it already.
TakesPrimary(t, self, i, at) ==
    \A v \in Reads(t, i, at, 6) :
       ParsePrimary(t, self, i) = Parsed({v}, at) /\ Peek(t, i) # "-"
TakesPostfix(t, self, i, at) ==
    \A v \in Reads(t, i, at, 5) :
       /\ Peek(t, i) # "-"
       /\ ParsePostfix(t, self, i) = RestOfPostfix(t, self, Parsed({v}, at))
TakesUnary(t, self, i, at) ==
    \A v \in Reads(t, i, at, 4) :
       Peek(t, at) # "%" => ParseUnary(t, self, i) = Parsed({v}, at)
TakesPower(t, self, i, at) ==
    \A v \in Reads(t, i, at, 3) :
       Peek(t, at) \notin {"%", "^"} => ParsePower(t, self, i) = Parsed({v}, at)
TakesTerm(t, self, i, at) ==
    \A v \in Reads(t, i, at, 2) :
       Peek(t, at) \notin {"%", "^"} =>
          ParseTerm(t, self, i) = RestOfTerm(t, self, Parsed({v}, at))
TakesExpression(t, self, i, at) ==
    \A v \in Reads(t, i, at, 1) :
       Peek(t, at) \notin {"%", "^", "*", "/"} =>
          ParseExpression(t, self, i) = RestOfExpression(t, self, Parsed({v}, at))
Takes(t, self, i, at) ==
    /\ TakesPrimary(t, self, i, at) /\ TakesPostfix(t, self, i, at)
    /\ TakesUnary(t, self, i, at) /\ TakesPower(t, self, i, at)
    /\ TakesTerm(t, self, i, at) /\ TakesExpression(t, self, i, at)
TakesShorter(t, self, n) ==
    \A i \in Nat \ {0}, at \in Nat : at - i < n => Takes(t, self, i, at)

\* Tokens of the formula are not past its end.
LEMMA PeekWithin ==
  ASSUME NEW t, Len(t) \in Nat, NEW at \in Nat, at <= Len(t)
  PROVE  Peek(t, at) = t[at]
BY DEF Peek

\* Past the parenthesis that closes.
LEMMA ParsedFurther ==
  ASSUME NEW value, NEW at
  PROVE  [Parsed(value, at) EXCEPT !.at = @ + 1] = Parsed(value, at + 1)
BY DEF Parsed

\* One value, and the token after it.
LEMMA ParsedOne ==
  ASSUME NEW v \in Number, NEW at \in Nat
  PROVE  /\ Parsed({v}, at) \in Parse /\ Parsed({v}, at).value = {v}
         /\ Parsed({v}, at).value # {} /\ Parsed({v}, at).at = at
BY DEF Parsed, Parse

\* Within what is read the tokens are those of the formula.
LEMMA ReadsTokens ==
  ASSUME NEW t, Len(t) \in Nat, NEW i, NEW at, NEW tight, NEW v \in Reads(t, i, at, tight)
  PROVE  /\ i \in Nat \ {0} /\ at \in Nat /\ i < at /\ at <= Len(t) + 1
         /\ at - 1 \in Nat \ {0} /\ at - 1 <= Len(t) /\ Peek(t, i) = t[i]
         /\ Peek(t, at - 1) = t[at - 1]
<1>1. i \in Nat \ {0} /\ at \in Nat /\ i < at /\ at <= Len(t) + 1
  BY ReadsWithin
<1>2. i <= Len(t) /\ at - 1 \in Nat \ {0} /\ at - 1 <= Len(t)
  BY <1>1
<1> QED BY <1>1, <1>2, PeekWithin

\* What can be read is taken, by each method, given that all that is shorter is.
LEMMA PrimaryIsTaken ==
  ASSUME NEW t, Len(t) \in Nat, NEW self, Deep(t, self),
         NEW i \in Nat \ {0}, NEW at \in Nat, TakesShorter(t, self, at - i)
  PROVE  TakesPrimary(t, self, i, at)
<1> SUFFICES ASSUME NEW v \in Reads(t, i, at, 6)
             PROVE  ParsePrimary(t, self, i) = Parsed({v}, at) /\ Peek(t, i) # "-"
  BY DEF TakesPrimary
<1>0. i < at /\ at - 1 \in Nat \ {0} /\ at - 1 <= Len(t) /\ Peek(t, i) = t[i]
      /\ Peek(t, at - 1) = t[at - 1]
  BY ReadsTokens
<1>1. {"(", "-"} \cap DOMAIN Literals = {}
  BY CalculatorAssumption DEF Sign
<1>2. CASE at = i + 1 /\ t[i] \in DOMAIN Literals /\ v = Whole(Literals[t[i]])
  BY <1>0, <1>1, <1>2 DEF ParsePrimary
<1>3. CASE t[i] = "(" /\ t[at - 1] = ")" /\ v \in Reads(t, i + 1, at - 1, 1)
  <2> DEFINE inner == self.expression[i + 1]
             last == at - 1
  <2>1. last \in Nat /\ last - (i + 1) < at - i /\ i + 1 \in Nat \ {0} /\ last + 1 = at
    BY <1>0
  <2>2. Peek(t, last) = ")" /\ v \in Reads(t, i + 1, last, 1)
    BY <1>0, <1>3
  <2>3. v \in Number
    <3>1. 1 \in 1..6
      OBVIOUS
    <3> QED BY <2>2, <3>1, ReadsAreNumbers
  <2> HIDE DEF last
  <2>4. TakesExpression(t, self, i + 1, last)
    BY <2>1 DEF TakesShorter, Takes
  <2>5. ParseExpression(t, self, i + 1) = RestOfExpression(t, self, Parsed({v}, last))
    BY <2>2, <2>4 DEF TakesExpression
  <2>6. RestOfExpression(t, self, Parsed({v}, last)) = Parsed({v}, last)
    BY <2>1, <2>2, <2>3, ParsedOne DEF RestOfExpression
  <2>7. inner = Parsed({v}, last)
    BY <2>1, <2>5, <2>6, DeepMethods
  <2>8. ParsePrimary(t, self, i) = IF inner.value # {} /\ Peek(t, inner.at) = ")"
                                   THEN [inner EXCEPT !.at = @ + 1] ELSE [inner EXCEPT !.value = {}]
    BY <1>0, <1>1, <1>3 DEF ParsePrimary
  <2> HIDE DEF inner
  <2>9. inner.value # {} /\ Peek(t, inner.at) = ")"
    BY <2>1, <2>2, <2>3, <2>7, ParsedOne
  <2>10. [inner EXCEPT !.at = @ + 1] = Parsed({v}, last + 1)
    BY <2>7, ParsedFurther
  <2> QED BY <1>0, <1>3, <2>1, <2>8, <2>9, <2>10
<1>4. 6 \in 1..6 /\ ~ (6 <= 5) /\ ~ (6 <= 4)
  OBVIOUS
<1>5. \A k : t[k] \in Infix => ~ (6 <= Tightness(t[k]))
  BY TightnessOfInfix
<1> QED BY <1>2, <1>3, <1>4, <1>5, ReadsCases

LEMMA PostfixIsTaken ==
  ASSUME NEW t, Len(t) \in Nat, NEW self, Deep(t, self),
         NEW i \in Nat \ {0}, NEW at \in Nat, TakesShorter(t, self, at - i)
  PROVE  TakesPostfix(t, self, i, at)
<1> SUFFICES ASSUME NEW v \in Reads(t, i, at, 5)
             PROVE  /\ Peek(t, i) # "-"
                    /\ ParsePostfix(t, self, i) = RestOfPostfix(t, self, Parsed({v}, at))
  BY DEF TakesPostfix
<1>0. i < at /\ at - 1 \in Nat \ {0} /\ at - 1 <= Len(t) /\ Peek(t, at - 1) = t[at - 1]
  BY ReadsTokens
<1>1. CASE v \in Reads(t, i, at, 6)
  <2>1. ParsePrimary(t, self, i) = Parsed({v}, at) /\ Peek(t, i) # "-"
    BY <1>1, PrimaryIsTaken DEF TakesPrimary
  <2> QED BY <2>1 DEF ParsePostfix
<1>2. CASE t[at - 1] = "%" /\ v \in Both("/", Reads(t, i, at - 1, 5), {Whole(Hundred)})
  <2> DEFINE last == at - 1
             left == Reads(t, i, last, 5)
  <2>1. last \in Nat \ {0} /\ last - i < at - i /\ last + 1 = at /\ Peek(t, last) = "%"
    BY <1>0, <1>2
  <2>2. left \in SUBSET Number
    <3>1. 5 \in 1..6
      OBVIOUS
    <3> QED BY <3>1, ReadsAreNumbers
  <2> HIDE DEF last
  <2>3. v \in Both("/", left, {Whole(Hundred)})
    BY <1>2 DEF last
  <2> HIDE DEF left
  <2>4. PICK x \in left : Both("/", {x}, {Whole(Hundred)}) = {v}
    <3>1. "/" \in Infix
      BY DEF Infix
    <3>2. PICK x \in left, y \in {Whole(Hundred)} : Both("/", Just(x), Just(y)) = Just(v)
      BY <2>2, <2>3, <3>1, HundredIsNumber, BothOfOne
    <3> QED BY <3>2 DEF Just
  <2>5. TakesPostfix(t, self, i, last)
    BY <2>1 DEF TakesShorter, Takes
  <2>6. /\ Peek(t, i) # "-"
        /\ ParsePostfix(t, self, i) = RestOfPostfix(t, self, Parsed({x}, last))
    BY <2>4, <2>5 DEF TakesPostfix, left
  <2>7. Parsed({x}, last) \in Parse /\ Parsed({x}, last).value = {x} /\ {x} # {}
        /\ Parsed({x}, last).at = last
    BY <2>1, <2>2, <2>4, ParsedOne
  <2>8. RestOfPostfix(t, self, Parsed({x}, last)) =
           self.restOfPostfix[Parsed(Both("/", {x}, {Whole(Hundred)}), last + 1)]
    BY <2>1, <2>7 DEF RestOfPostfix
  <2>9. Parsed({v}, at) \in Parse /\ Parsed({v}, at).at >= 1
    <3>1. 5 \in 1..6
      OBVIOUS
    <3>2. v \in Number
      BY <3>1, ReadsAreNumbers
    <3>3. Parsed({v}, at) \in Parse /\ Parsed({v}, at).at = at
      BY <3>2, ParsedOne
    <3>4. at >= 1
      BY <1>0
    <3> QED BY <3>3, <3>4
  <2>10. self.restOfPostfix[Parsed({v}, at)] = RestOfPostfix(t, self, Parsed({v}, at))
    BY <2>9, DeepMethods
  <2> QED BY <2>1, <2>4, <2>6, <2>8, <2>10
<1>3. 5 \in 1..6 /\ 6 \in 1..6 /\ ~ (5 <= 4)
  OBVIOUS
<1>4. \A k : t[k] \in Infix => ~ (5 <= Tightness(t[k]))
  BY TightnessOfInfix
<1>5. CASE at = i + 1 /\ t[i] \in DOMAIN Literals /\ v = Whole(Literals[t[i]])
  <2>1. i \in 1..Len(t)
    BY <1>0, <1>5
  <2>2. Reads(t, i, i + 1, 6) = {Whole(Literals[x]) : x \in DOMAIN Literals \cap {t[i]}}
    BY <1>3, <2>1, ReadsNumber
  <2>3. v \in Reads(t, i, at, 6)
    BY <1>5, <2>2
  <2> QED BY <1>1, <2>3
<1>6. CASE t[i] = "(" /\ t[at - 1] = ")" /\ v \in Reads(t, i + 1, at - 1, 1)
  <2> DEFINE last == at - 1
  <2>1. last \in Nat /\ last <= Len(t) /\ last + 1 = at
    BY <1>0
  <2>2. v \in Reads(t, i + 1, last, 1) /\ t[last] = ")" /\ t[i] = "("
    BY <1>6
  <2> HIDE DEF last
  <2>3. v \in Reads(t, i, last + 1, 6)
    BY <1>3, <2>1, <2>2, ReadsParentheses
  <2> QED BY <1>1, <2>1, <2>3
<1> QED BY <1>2, <1>3, <1>4, <1>5, <1>6, ReadsCases

\* Without an operator outside parentheses.
LEMMA ReadsTighter ==
  ASSUME NEW t, Len(t) \in Nat, NEW i, NEW at, NEW tight \in 1..5,
         NEW v \in Reads(t, i, at, tight)
  PROVE  \/ v \in Reads(t, i, at, 5)
         \/ tight <= 4 /\ t[i] = "-" /\ \E x \in Reads(t, i + 1, at, 4) : v = Minus(x)
         \/ \E k \in i..(at - 1) :
               /\ t[k] \in Infix /\ tight <= Tightness(t[k])
               /\ v \in OfInfix(t, i, at, k)
<1>0. i \in Nat \ {0} /\ at \in Nat /\ i < at /\ at <= Len(t) + 1
      /\ at - 1 \in Nat \ {0} /\ at - 1 <= Len(t)
  BY ReadsTokens
<1>1. 5 \in 1..6 /\ 5 \in 1..5 /\ tight \in 1..6
  OBVIOUS
<1> DEFINE last == at - 1
<1>2. last \in Nat \ {0} /\ last <= Len(t) /\ last + 1 = at
  BY <1>0
<1>3. CASE at = i + 1 /\ t[i] \in DOMAIN Literals /\ v = Whole(Literals[t[i]])
  <2>1. i \in 1..Len(t)
    BY <1>0, <1>3
  <2>2. Reads(t, i, i + 1, 5) = {Whole(Literals[x]) : x \in DOMAIN Literals \cap {t[i]}}
    BY <1>1, <2>1, ReadsNumber
  <2> QED BY <1>3, <2>2
<1>4. CASE t[i] = "(" /\ t[last] = ")" /\ v \in Reads(t, i + 1, last, 1)
  <2> HIDE DEF last
  <2>1. v \in Reads(t, i, last + 1, 5)
    BY <1>0, <1>1, <1>2, <1>4, ReadsParentheses
  <2> QED BY <1>2, <2>1
<1>5. CASE t[last] = "%" /\ v \in Both("/", Reads(t, i, last, 5), {Whole(Hundred)})
  <2> HIDE DEF last
  <2>1. v \in Reads(t, i, last + 1, 5)
    BY <1>1, <1>2, <1>5, ReadsPercent
  <2> QED BY <1>2, <2>1
<1> QED BY <1>1, <1>3, <1>4, <1>5, ReadsCases

LEMMA UnaryIsTaken ==
  ASSUME NEW t, Len(t) \in Nat, NEW self, Deep(t, self),
         NEW i \in Nat \ {0}, NEW at \in Nat, TakesShorter(t, self, at - i)
  PROVE  TakesUnary(t, self, i, at)
<1> SUFFICES ASSUME NEW v \in Reads(t, i, at, 4), Peek(t, at) # "%"
             PROVE  ParseUnary(t, self, i) = Parsed({v}, at)
  BY DEF TakesUnary
<1>0. i < at /\ Peek(t, i) = t[i]
  BY ReadsTokens
<1>1. 4 \in 1..6 /\ 4 \in 1..5
  OBVIOUS
<1>2. v \in Number
  BY <1>1, ReadsAreNumbers
<1>3. CASE v \in Reads(t, i, at, 5)
  <2>1. Peek(t, i) # "-" /\ ParsePostfix(t, self, i) = RestOfPostfix(t, self, Parsed({v}, at))
    BY <1>3, PostfixIsTaken DEF TakesPostfix
  <2>2. RestOfPostfix(t, self, Parsed({v}, at)) = Parsed({v}, at)
    BY <1>2, ParsedOne DEF RestOfPostfix
  <2> QED BY <2>1, <2>2 DEF ParseUnary
<1>4. CASE t[i] = "-" /\ \E x \in Reads(t, i + 1, at, 4) : v = Minus(x)
  <2>1. PICK x \in Reads(t, i + 1, at, 4) : v = Minus(x)
    BY <1>4
  <2> DEFINE right == self.unary[i + 1]
  <2>2. TakesUnary(t, self, i + 1, at)
    <3>1. i + 1 \in Nat \ {0} /\ at - (i + 1) < at - i
      OBVIOUS
    <3> QED BY <3>1 DEF TakesShorter, Takes
  <2>3. ParseUnary(t, self, i + 1) = Parsed({x}, at)
    BY <2>2 DEF TakesUnary
  <2>4. right = Parsed({x}, at)
    BY <2>3, DeepMethods
  <2>5. ParseUnary(t, self, i) = Parsed({Minus(y) : y \in right.value}, right.at)
    BY <1>0, <1>4 DEF ParseUnary
  <2> HIDE DEF right
  <2>6. right.value = {x} /\ right.at = at
    BY <2>4 DEF Parsed
  <2>7. {Minus(y) : y \in right.value} = {v}
    BY <2>1, <2>6
  <2> QED BY <2>5, <2>6, <2>7
<1>5. \A k : t[k] \in Infix => ~ (4 <= Tightness(t[k]))
  BY TightnessOfInfix
<1> QED BY <1>1, <1>3, <1>4, <1>5, ReadsTighter

\* Operands on either side of an operator.
Operands(t, i, at, k, v) ==
    \E x \in Reads(t, i, k, LeftTightness(t[k])),
       y \in Reads(t, k + 1, at, RightTightness(t[k])) :
       x \in Number /\ y \in Number /\ Both(t[k], Just(x), Just(y)) = Just(v)

LEMMA ReadsOperands ==
  ASSUME NEW t, Len(t) \in Nat, NEW i \in Nat \ {0}, NEW at \in Nat, NEW k \in i..(at - 1),
         t[k] \in Infix, NEW v \in OfInfix(t, i, at, k)
  PROVE  /\ k \in Nat \ {0} /\ k - i < at - i /\ at - (k + 1) < at - i
         /\ Peek(t, k) = t[k] /\ Operands(t, i, at, k, v)
<1> DEFINE left == Reads(t, i, k, LeftTightness(t[k]))
           right == Reads(t, k + 1, at, RightTightness(t[k]))
<1>1. LeftTightness(t[k]) \in 1..6 /\ RightTightness(t[k]) \in 1..6
  BY TightnessOfInfix
<1>2. left \in SUBSET Number /\ right \in SUBSET Number
  BY <1>1, ReadsAreNumbers
<1>3. left # {} /\ right # {}
  BY BothOfNone DEF OfInfix
<1>4. k \in Nat \ {0} /\ k <= Len(t)
  <2>1. i < k /\ k <= Len(t) + 1 /\ at <= Len(t) + 1
    BY <1>3, ReadsWithin
  <2> QED BY <2>1
<1>5. Peek(t, k) = t[k]
  BY <1>4, PeekWithin
<1>6. k - i < at - i /\ at - (k + 1) < at - i
  BY <1>4
<1>7. v \in Both(t[k], left, right)
  BY DEF OfInfix
<1> HIDE DEF left, right
<1>8. PICK x \in left, y \in right : Both(t[k], Just(x), Just(y)) = Just(v)
  BY <1>2, <1>7, BothOfOne
<1>9. x \in Number /\ y \in Number
  BY <1>2
<1> QED BY <1>4, <1>5, <1>6, <1>8, <1>9 DEF left, right, Operands

LEMMA PowerIsTaken ==
  ASSUME NEW t, Len(t) \in Nat, NEW self, Deep(t, self),
         NEW i \in Nat \ {0}, NEW at \in Nat, TakesShorter(t, self, at - i)
  PROVE  TakesPower(t, self, i, at)
<1> SUFFICES ASSUME NEW v \in Reads(t, i, at, 3), Peek(t, at) \notin {"%", "^"}
             PROVE  ParsePower(t, self, i) = Parsed({v}, at)
  BY DEF TakesPower
<1> DEFINE left == ParseUnary(t, self, i)
           right == self.power[left.at + 1]
<1>1. 3 \in 1..6 /\ 3 \in 1..5 /\ 4 \in 1..5 /\ 4 \in 1..6 /\ 4 \in 1..4
  OBVIOUS
<1>2. v \in Number
  BY <1>1, ReadsAreNumbers
<1>3. ParsePower(t, self, i) = IF left.value = {} \/ Peek(t, left.at) # "^" THEN left
                               ELSE Parsed(Both("^", left.value, right.value), right.at)
  BY DEF ParsePower
<1>4. CASE v \in Reads(t, i, at, 4)
  <2>1. left = Parsed({v}, at)
    BY <1>4, UnaryIsTaken DEF TakesUnary
  <2> HIDE DEF left
  <2>2. left.at = at
    BY <1>2, <2>1, ParsedOne
  <2> QED BY <1>3, <2>1, <2>2
<1>5. ASSUME NEW k \in i..(at - 1), t[k] \in Infix, 3 <= Tightness(t[k]),
             v \in OfInfix(t, i, at, k)
      PROVE  ParsePower(t, self, i) = Parsed({v}, at)
  <2>1. t[k] = "^" /\ LeftTightness(t[k]) = 4 /\ RightTightness(t[k]) = 3
    BY <1>5 DEF Infix, Tightness, LeftTightness, RightTightness
  <2>2. k \in Nat \ {0} /\ k - i < at - i /\ at - (k + 1) < at - i /\ Peek(t, k) = "^"
        /\ Operands(t, i, at, k, v)
    BY <1>5, <2>1, ReadsOperands
  <2>3. PICK x \in Reads(t, i, k, 4), y \in Reads(t, k + 1, at, 3) :
              x \in Number /\ y \in Number /\ Both(t[k], Just(x), Just(y)) = Just(v)
    <3>1. PICK x \in Reads(t, i, k, LeftTightness(t[k])),
               y \in Reads(t, k + 1, at, RightTightness(t[k])) :
              x \in Number /\ y \in Number /\ Both(t[k], Just(x), Just(y)) = Just(v)
      BY <2>2 DEF Operands
    <3>2. x \in Reads(t, i, k, 4) /\ y \in Reads(t, k + 1, at, 3)
      BY <2>1
    <3> QED BY <3>1, <3>2
  <2>4. left = Parsed({x}, k)
    <3>1. TakesUnary(t, self, i, k)
      BY <2>2 DEF TakesShorter, Takes
    <3>2. Peek(t, k) # "%"
      BY <2>2
    <3> QED BY <3>1, <3>2 DEF TakesUnary
  <2> HIDE DEF left
  <2>5. left.value = {x} /\ left.at = k
    BY <2>2, <2>3, <2>4, ParsedOne
  <2>6. right = Parsed({y}, at)
    <3>1. k + 1 \in Nat \ {0}
      BY <2>2
    <3>2. TakesPower(t, self, k + 1, at)
      BY <2>2, <3>1 DEF TakesShorter, Takes
    <3>3. ParsePower(t, self, k + 1) = Parsed({y}, at)
      BY <3>2 DEF TakesPower
    <3> QED BY <2>5, <3>1, <3>3, DeepMethods
  <2> HIDE DEF right
  <2>7. right.value = {y} /\ right.at = at
    BY <2>3, <2>6, ParsedOne
  <2>8. ParsePower(t, self, i) = Parsed(Both("^", left.value, right.value), right.at)
    BY <1>3, <2>2, <2>5
  <2>9. Both("^", {x}, {y}) = {v}
    BY <2>1, <2>3 DEF Just
  <2> QED BY <2>5, <2>7, <2>8, <2>9
<1>6. CASE t[i] = "-" /\ \E x \in Reads(t, i + 1, at, 4) : v = Minus(x)
  <2>1. v \in Reads(t, i, at, 4)
    BY <1>1, <1>6, ReadsMinus
  <2> QED BY <1>4, <2>1
<1>7. CASE v \in Reads(t, i, at, 5)
  <2>1. v \in Reads(t, i, at, 4)
    <3>1. 5 \in 1..6 /\ 4 \in 1..5
      OBVIOUS
    <3> QED BY <1>7, <3>1, ReadsLooser
  <2> QED BY <1>4, <2>1
<1> QED BY <1>1, <1>5, <1>6, <1>7, ReadsTighter

LEMMA TermIsTaken ==
  ASSUME NEW t, Len(t) \in Nat, NEW self, Deep(t, self),
         NEW i \in Nat \ {0}, NEW at \in Nat, TakesShorter(t, self, at - i)
  PROVE  TakesTerm(t, self, i, at)
<1> SUFFICES ASSUME NEW v \in Reads(t, i, at, 2), Peek(t, at) \notin {"%", "^"}
             PROVE  ParseTerm(t, self, i) = RestOfTerm(t, self, Parsed({v}, at))
  BY DEF TakesTerm
<1>1. 2 \in 1..6 /\ 2 \in 1..5 /\ 3 \in 1..6 /\ 3 \in 1..5 /\ 5 \in 1..6 /\ 3 \in 1..4
  OBVIOUS
<1>2. v \in Number
  BY <1>1, ReadsAreNumbers
<1>3. CASE v \in Reads(t, i, at, 3)
  <2>1. ParsePower(t, self, i) = Parsed({v}, at)
    BY <1>3, PowerIsTaken DEF TakesPower
  <2> QED BY <2>1 DEF ParseTerm
<1>4. ASSUME NEW k \in i..(at - 1), t[k] \in {"*", "/"},
             v \in OfInfix(t, i, at, k)
      PROVE  ParseTerm(t, self, i) = RestOfTerm(t, self, Parsed({v}, at))
  <2> DEFINE operator == t[k]
  <2>1. operator \in Infix /\ LeftTightness(operator) = 2 /\ RightTightness(operator) = 3
    BY <1>4 DEF Infix, Tightness, LeftTightness, RightTightness
  <2>2. k \in Nat \ {0} /\ k - i < at - i /\ at - (k + 1) < at - i /\ Peek(t, k) = operator
        /\ Operands(t, i, at, k, v)
    BY <1>4, <2>1, ReadsOperands
  <2>3. PICK x \in Reads(t, i, k, 2), y \in Reads(t, k + 1, at, 3) :
           x \in Number /\ y \in Number /\ Both(operator, Just(x), Just(y)) = Just(v)
    <3>1. PICK x \in Reads(t, i, k, LeftTightness(operator)),
               y \in Reads(t, k + 1, at, RightTightness(operator)) :
             x \in Number /\ y \in Number /\ Both(operator, Just(x), Just(y)) = Just(v)
      BY <2>2 DEF Operands
    <3>2. x \in Reads(t, i, k, 2) /\ y \in Reads(t, k + 1, at, 3)
      BY <2>1
    <3> QED BY <3>1, <3>2
  <2>4. Peek(t, k) \in {"*", "/"}
    BY <1>4, <2>2
  <2>5. ParseTerm(t, self, i) = RestOfTerm(t, self, Parsed({x}, k))
    <3>1. TakesTerm(t, self, i, k)
      BY <2>2 DEF TakesShorter, Takes
    <3>2. Peek(t, k) \notin {"%", "^"}
      BY <2>4
    <3> QED BY <3>1, <3>2 DEF TakesTerm
  <2>6. Parsed({x}, k) \in Parse /\ Parsed({x}, k).value = {x} /\ {x} # {}
        /\ Parsed({x}, k).at = k
    BY <2>2, <2>3, ParsedOne
  <2>7. ParsePower(t, self, k + 1) = Parsed({y}, at)
    <3>1. k + 1 \in Nat \ {0}
      BY <2>2
    <3>2. TakesPower(t, self, k + 1, at)
      BY <2>2, <3>1 DEF TakesShorter, Takes
    <3> QED BY <3>2 DEF TakesPower
  <2>8. Both(operator, {x}, {y}) = {v}
    BY <2>3 DEF Just
  <2>9. Parsed({y}, at).value = {y} /\ Parsed({y}, at).at = at
    BY <2>3, ParsedOne
  <2> HIDE DEF operator
  <2>10. RestOfTerm(t, self, Parsed({x}, k)) = self.restOfTerm[Parsed({v}, at)]
    BY <2>4, <2>6, <2>7, <2>8, <2>9 DEF RestOfTerm, operator
  <2>11. Parsed({v}, at) \in Parse /\ Parsed({v}, at).at = at
    BY <1>2, ParsedOne
  <2>12. at >= 1
    BY ReadsTokens
  <2>13. self.restOfTerm[Parsed({v}, at)] = RestOfTerm(t, self, Parsed({v}, at))
    BY <2>11, <2>12, DeepMethods
  <2> QED BY <2>5, <2>10, <2>13
<1>6. ASSUME NEW k \in i..(at - 1), t[k] \in Infix, 2 <= Tightness(t[k]),
             v \in OfInfix(t, i, at, k)
      PROVE  ParseTerm(t, self, i) =
                RestOfTerm(t, self, Parsed({v}, at))
  <2>1. CASE t[k] \in {"*", "/"}
    BY <1>4, <1>6, <2>1
  <2>2. CASE t[k] \notin {"*", "/"}
    <3>1. 3 \in 1..Tightness(t[k])
      BY <1>6, <2>2 DEF Infix, Tightness
    <3>2. Both(t[k], Reads(t, i, k, LeftTightness(t[k])),
                     Reads(t, k + 1, at, RightTightness(t[k]))) \subseteq Reads(t, i, at, 3)
      <4>1. k \in Nat
        BY <1>6, ReadsOperands
      <4> QED BY <1>6, <3>1, <4>1, ReadsInfix
    <3> QED BY <1>3, <1>6, <3>2 DEF OfInfix
  <2> QED BY <2>1, <2>2
<1>7. CASE v \in Reads(t, i, at, 5)
  <2>1. v \in Reads(t, i, at, 3)
    BY <1>1, <1>7, ReadsLooser
  <2> QED BY <1>3, <2>1
<1>8. CASE t[i] = "-" /\ \E x \in Reads(t, i + 1, at, 4) : v = Minus(x)
  <2>1. v \in Reads(t, i, at, 3)
    BY <1>1, <1>8, ReadsMinus
  <2> QED BY <1>3, <2>1
<1> QED BY <1>1, <1>6, <1>7, <1>8, ReadsTighter

LEMMA ExpressionIsTaken ==
  ASSUME NEW t, Len(t) \in Nat, NEW self, Deep(t, self),
         NEW i \in Nat \ {0}, NEW at \in Nat, TakesShorter(t, self, at - i)
  PROVE  TakesExpression(t, self, i, at)
<1> SUFFICES ASSUME NEW v \in Reads(t, i, at, 1), Peek(t, at) \notin {"%", "^", "*", "/"}
             PROVE  ParseExpression(t, self, i) = RestOfExpression(t, self, Parsed({v}, at))
  BY DEF TakesExpression
<1>1. 1 \in 1..6 /\ 1 \in 1..5 /\ 2 \in 1..6 /\ 2 \in 1..5 /\ 5 \in 1..6 /\ 2 \in 1..4
  OBVIOUS
<1>2. v \in Number
  BY <1>1, ReadsAreNumbers
<1>3. CASE v \in Reads(t, i, at, 2)
  <2>1. ParseTerm(t, self, i) = RestOfTerm(t, self, Parsed({v}, at))
    BY <1>3, TermIsTaken DEF TakesTerm
  <2>2. RestOfTerm(t, self, Parsed({v}, at)) = Parsed({v}, at)
    BY <1>2, ParsedOne DEF RestOfTerm
  <2> QED BY <2>1, <2>2 DEF ParseExpression
<1>4. ASSUME NEW k \in i..(at - 1), t[k] \in {"+", "-"},
             v \in OfInfix(t, i, at, k)
      PROVE  ParseExpression(t, self, i) = RestOfExpression(t, self, Parsed({v}, at))
  <2> DEFINE operator == t[k]
  <2>1. operator \in Infix /\ LeftTightness(operator) = 1 /\ RightTightness(operator) = 2
    BY <1>4 DEF Infix, Tightness, LeftTightness, RightTightness
  <2>2. k \in Nat \ {0} /\ k - i < at - i /\ at - (k + 1) < at - i /\ Peek(t, k) = operator
        /\ Operands(t, i, at, k, v)
    BY <1>4, <2>1, ReadsOperands
  <2>3. PICK x \in Reads(t, i, k, 1), y \in Reads(t, k + 1, at, 2) :
           x \in Number /\ y \in Number /\ Both(operator, Just(x), Just(y)) = Just(v)
    <3>1. PICK x \in Reads(t, i, k, LeftTightness(operator)),
               y \in Reads(t, k + 1, at, RightTightness(operator)) :
             x \in Number /\ y \in Number /\ Both(operator, Just(x), Just(y)) = Just(v)
      BY <2>2 DEF Operands
    <3>2. x \in Reads(t, i, k, 1) /\ y \in Reads(t, k + 1, at, 2)
      BY <2>1
    <3> QED BY <3>1, <3>2
  <2>4. Peek(t, k) \in {"+", "-"}
    BY <1>4, <2>2
  <2>5. ParseExpression(t, self, i) = RestOfExpression(t, self, Parsed({x}, k))
    <3>1. TakesExpression(t, self, i, k)
      BY <2>2 DEF TakesShorter, Takes
    <3>2. Peek(t, k) \notin {"%", "^", "*", "/"}
      BY <2>4
    <3> QED BY <3>1, <3>2 DEF TakesExpression
  <2>6. Parsed({x}, k) \in Parse /\ Parsed({x}, k).value = {x} /\ {x} # {}
        /\ Parsed({x}, k).at = k
    BY <2>2, <2>3, ParsedOne
  <2>7. ParseTerm(t, self, k + 1) = Parsed({y}, at)
    <3>1. k + 1 \in Nat \ {0}
      BY <2>2
    <3>2. TakesTerm(t, self, k + 1, at)
      BY <2>2, <3>1 DEF TakesShorter, Takes
    <3>3. ParseTerm(t, self, k + 1) = RestOfTerm(t, self, Parsed({y}, at))
      BY <3>2 DEF TakesTerm
    <3>4. RestOfTerm(t, self, Parsed({y}, at)) = Parsed({y}, at)
      BY <2>3, ParsedOne DEF RestOfTerm
    <3> QED BY <3>3, <3>4
  <2>8. Both(operator, {x}, {y}) = {v}
    BY <2>3 DEF Just
  <2>9. Parsed({y}, at).value = {y} /\ Parsed({y}, at).at = at
    BY <2>3, ParsedOne
  <2> HIDE DEF operator
  <2>10. RestOfExpression(t, self, Parsed({x}, k)) = self.restOfExpression[Parsed({v}, at)]
    BY <2>4, <2>6, <2>7, <2>8, <2>9 DEF RestOfExpression, operator
  <2>11. Parsed({v}, at) \in Parse /\ Parsed({v}, at).at = at
    BY <1>2, ParsedOne
  <2>12. at >= 1
    BY ReadsTokens
  <2>13. self.restOfExpression[Parsed({v}, at)] = RestOfExpression(t, self, Parsed({v}, at))
    BY <2>11, <2>12, DeepMethods
  <2> QED BY <2>5, <2>10, <2>13
<1>6. ASSUME NEW k \in i..(at - 1), t[k] \in Infix, 1 <= Tightness(t[k]),
             v \in OfInfix(t, i, at, k)
      PROVE  ParseExpression(t, self, i) =
                RestOfExpression(t, self, Parsed({v}, at))
  <2>1. CASE t[k] \in {"+", "-"}
    BY <1>4, <1>6, <2>1
  <2>2. CASE t[k] \notin {"+", "-"}
    <3>1. 2 \in 1..Tightness(t[k])
      BY <1>6, <2>2 DEF Infix, Tightness
    <3>2. Both(t[k], Reads(t, i, k, LeftTightness(t[k])),
                     Reads(t, k + 1, at, RightTightness(t[k]))) \subseteq Reads(t, i, at, 2)
      <4>1. k \in Nat
        BY <1>6, ReadsOperands
      <4> QED BY <1>6, <3>1, <4>1, ReadsInfix
    <3> QED BY <1>3, <1>6, <3>2 DEF OfInfix
  <2> QED BY <2>1, <2>2
<1>7. CASE v \in Reads(t, i, at, 5)
  <2>1. v \in Reads(t, i, at, 2)
    BY <1>1, <1>7, ReadsLooser
  <2> QED BY <1>3, <2>1
<1>8. CASE t[i] = "-" /\ \E x \in Reads(t, i + 1, at, 4) : v = Minus(x)
  <2>1. v \in Reads(t, i, at, 2)
    BY <1>1, <1>8, ReadsMinus
  <2> QED BY <1>3, <2>1
<1> QED BY <1>1, <1>6, <1>7, <1>8, ReadsTighter

\* What can be read is taken, by induction on its length.
LEMMA AllIsTaken ==
  ASSUME NEW t, Len(t) \in Nat, NEW self, Deep(t, self),
         NEW i \in Nat \ {0}, NEW at \in Nat
  PROVE  Takes(t, self, i, at)
<1> DEFINE S == {n \in Nat : TakesShorter(t, self, n)}
<1>1. ASSUME NEW n \in Nat, \A m \in Nat : m < n => m \in S PROVE n \in S
  <2> SUFFICES ASSUME NEW p \in Nat \ {0}, NEW q \in Nat, q - p < n
               PROVE  Takes(t, self, p, q)
    BY DEF TakesShorter
  <2>1. TakesShorter(t, self, q - p)
    <3>1. CASE q - p \in Nat
      BY <1>1, <3>1
    <3>2. CASE q - p \notin Nat
      <4> SUFFICES ASSUME NEW a \in Nat \ {0}, NEW b \in Nat, b - a < q - p
                   PROVE  Takes(t, self, a, b)
        BY DEF TakesShorter
      <4>1. b < a
        BY <3>2
      <4>2. \A tight : Reads(t, a, b, tight) = {}
        BY <4>1 DEF Reads
      <4> QED BY <4>2 DEF Takes, TakesPrimary, TakesPostfix, TakesUnary, TakesPower, TakesTerm,
                         TakesExpression
    <3> QED BY <3>1, <3>2
  <2> QED BY <2>1, PrimaryIsTaken, PostfixIsTaken, UnaryIsTaken, PowerIsTaken, TermIsTaken,
             ExpressionIsTaken DEF Takes
<1> HIDE DEF S
<1>2. S = Nat
  <2>1. S \in SUBSET Nat
    BY DEF S
  <2> QED BY <1>1, <2>1, AllNaturals
<1>3. PICK n \in Nat : at - i < n
  <2>1. at + 1 \in Nat /\ at - i < at + 1
    OBVIOUS
  <2> QED BY <2>1
<1>4. TakesShorter(t, self, n)
  BY <1>2 DEF S
<1> QED BY <1>3, <1>4 DEF TakesShorter

-----------------------------------------------------------------------------
\* A formula comes to what it is read as, whatever its length: the parser takes all
\* of it or nothing, and gives every operator the operands a person reads it with.
THEOREM ParserAgrees ==
  ASSUME NEW t, Len(t) \in Nat
  PROVE  EvaluateFormula(t) = Meaning(t)
<1> DEFINE N == Len(t)
           self == Parser(t)[N + 1]
           after == N + 1
           r == self.expression[1]
<1>1. Deep(t, self) /\ SoundParser(t, self)
  BY ParserForward, ParserSound, ParserIsDeepEnough DEF Deep
<1>2. EvaluateFormula(t) = IF r.at <= N THEN {} ELSE r.value
  BY DEF EvaluateFormula
<1>3. after \in Nat /\ after > N /\ after - 1 = N /\ 1 \in Nat \ {0} /\ 1 \in 1..6
  OBVIOUS
<1> HIDE DEF self, after
<1>4. Reads(t, 1, after, 1) = Meaning(t)
  <2>1. CASE N = 0
    <3>1. 1 \in StartsAt(t) /\ N \in EndsAt(t)
      BY DEF StartsAt, EndsAt
    <3>2. Meanings(t)[0][1][N][1] = {}
      BY <1>3, <3>1, NoneMeansNone
    <3>3. ~ (1 < after)
      BY <2>1 DEF after
    <3> QED BY <2>1, <3>2, <3>3 DEF Reads, Meaning
  <2>2. CASE N # 0
    <3>1. 1 < after /\ after <= N + 1
      BY <2>2 DEF after
    <3> QED BY <1>3, <3>1 DEF Reads, Meaning
  <2> QED BY <2>1, <2>2
<1>5. r = ParseExpression(t, self, 1) /\ r \in Parse
  BY <1>1, <1>3, DeepMethods DEF Deep, Forward, Returns
<1>6. ASSUME NEW v \in Reads(t, 1, after, 1) PROVE r = Parsed({v}, after)
  <2>1. Peek(t, after) = "none"
    BY <1>3 DEF Peek
  <2>2. TakesExpression(t, self, 1, after)
    BY <1>1, <1>3, AllIsTaken DEF Takes
  <2>3. r = RestOfExpression(t, self, Parsed({v}, after))
    BY <1>5, <2>1, <2>2 DEF TakesExpression
  <2>4. v \in Number
    BY <1>3, ReadsAreNumbers
  <2> QED BY <1>3, <2>1, <2>3, <2>4, ParsedOne DEF RestOfExpression
<1>7. CASE Reads(t, 1, after, 1) # {}
  <2>1. PICK v \in Reads(t, 1, after, 1) : TRUE
    BY <1>7
  <2>2. r = Parsed({v}, after)
    BY <1>6
  <2>3. v \in Number
    BY <1>3, ReadsAreNumbers
  <2>4. r.at = after /\ r.value = {v}
    <3>1. Parsed({v}, after).at = after /\ Parsed({v}, after).value = {v}
      BY <1>3, <2>3, ParsedOne
    <3> QED BY <2>2, <3>1
  <2>5. EvaluateFormula(t) = {v}
    BY <1>2, <1>3, <2>4
  <2>6. \A w \in Reads(t, 1, after, 1) : w = v
    <3> TAKE w \in Reads(t, 1, after, 1)
    <3>1. r = Parsed({w}, after)
      BY <1>6
    <3>2. {w} = {v}
      BY <2>4, <3>1 DEF Parsed
    <3> QED BY <3>2
  <2> QED BY <1>4, <2>5, <2>6
<1>8. CASE Reads(t, 1, after, 1) = {}
  <2>1. ASSUME ~ (r.at <= N) PROVE r.value = {}
    <3>1. r.value \subseteq Reads(t, 1, r.at, 1) /\ r.at \in Nat
      BY <1>1, <1>3, <1>5, ParseIsParsed DEF SoundParser, Sound
    <3> SUFFICES ASSUME r.value # {} PROVE FALSE
      OBVIOUS
    <3>2. r.at <= N + 1
      BY <3>1, ReadsWithin
    <3>3. r.at = after
      BY <2>1, <3>1, <3>2 DEF after
    <3> QED BY <1>8, <3>1, <3>3
  <2>2. EvaluateFormula(t) = {}
    BY <1>2, <2>1
  <2> QED BY <1>4, <1>8, <2>2
<1> QED BY <1>7, <1>8

-----------------------------------------------------------------------------
(* The sums of whole numbers *)

\* Whole numbers add and multiply as they do.
LEMMA Arithmetic ==
  ASSUME NEW x \in Int, NEW y \in Int
  PROVE  /\ Whole(x) \in Number /\ Whole(x).n = x /\ Whole(x).d = 1
         /\ Add(Whole(x), Whole(y)) = Whole(x + y) /\ Minus(Whole(x)) = Whole(- x)
         /\ Times(Whole(x), Whole(y)) = Whole(x * y)
<1>1. Whole(x) \in Number /\ Whole(x).n = x /\ Whole(x).d = 1
      /\ Whole(y).n = y /\ Whole(y).d = 1
  BY DEF Whole, Number
<1>2. x * 1 + y * 1 = x + y /\ 1 * 1 = 1 /\ x * y \in Int
  OBVIOUS
<1>3. Add(Whole(x), Whole(y)) = Quotient(x + y, 1)
  BY <1>1, <1>2 DEF Add
<1>4. Times(Whole(x), Whole(y)) = Quotient(x * y, 1)
  BY <1>1, <1>2 DEF Times
<1>5. Minus(Whole(x)) = Whole(- x)
  BY DEF Minus, Whole
<1> QED BY <1>1, <1>3, <1>4, <1>5 DEF Quotient, Whole

\* The sums of three operands, one after the other.
LEMMA SumOfThree ==
  ASSUME NEW x, NEW y, NEW z
  PROVE  Sum(<<x, y, z>>) = Add(Add(Add(Whole(0), x), y), z)
<1> DEFINE xs == <<x, y, z>>
           Step(f, i) == IF i = 0 THEN Whole(0) ELSE Add(f[i - 1], xs[i])
           total == CHOOSE f : f = [i \in 0..3 |-> Step(f, i)]
           one == Add(Whole(0), x)
           two == Add(one, y)
           three == Add(two, z)
           f == [i \in 0..3 |-> IF i = 0 THEN Whole(0) ELSE IF i = 1 THEN one
                                ELSE IF i = 2 THEN two ELSE three]
<1>1. Sum(xs) = total[3]
  BY DEF Sum
<1>2. f[0] = Whole(0) /\ f[1] = one /\ f[2] = two /\ f[3] = three
  OBVIOUS
<1>3. \A i \in 0..3 : f[i] = Step(f, i)
  <2> TAKE i \in 0..3
  <2>1. i = 0 \/ i = 1 \/ i = 2 \/ i = 3
    OBVIOUS
  <2> QED BY <1>2, <2>1
<1> HIDE DEF one, two, three
<1>4. f = [i \in 0..3 |-> Step(f, i)]
  BY <1>3
<1>5. total = [i \in 0..3 |-> Step(total, i)]
  BY <1>4
<1> HIDE DEF total, f
<1>6. total[0] = Step(total, 0) /\ total[1] = Step(total, 1) /\ total[2] = Step(total, 2)
      /\ total[3] = Step(total, 3)
  BY <1>5
<1> QED BY <1>1, <1>6 DEF one, two, three

LEMMA ProductOfThree ==
  ASSUME NEW x, NEW y, NEW z
  PROVE  Product(<<x, y, z>>) = Times(Times(Times(Whole(1), x), y), z)
<1> DEFINE xs == <<x, y, z>>
           Step(f, i) == IF i = 0 THEN Whole(1) ELSE Times(f[i - 1], xs[i])
           total == CHOOSE f : f = [i \in 0..3 |-> Step(f, i)]
           zero == Whole(1)
           one == Times(zero, x)
           two == Times(one, y)
           three == Times(two, z)
           f == [i \in 0..3 |-> IF i = 0 THEN zero ELSE IF i = 1 THEN one ELSE IF i = 2 THEN two ELSE three]
<1>1. Product(xs) = total[3]
  BY DEF Product
<1>2. f[0] = zero /\ f[1] = one /\ f[2] = two /\ f[3] = three
  OBVIOUS
<1>3. \A i \in 0..3 : f[i] = Step(f, i)
  <2> TAKE i \in 0..3
  <2>1. i = 0 \/ i = 1 \/ i = 2 \/ i = 3
    OBVIOUS
  <2> QED BY <1>2, <2>1
<1> HIDE DEF zero, one, two, three
<1>4. f = [i \in 0..3 |-> Step(f, i)]
  BY <1>3
<1>5. total = [i \in 0..3 |-> Step(total, i)]
  BY <1>4
<1> HIDE DEF total, f
<1>6. total[0] = Step(total, 0)
      /\ total[1] = Step(total, 1)
      /\ total[2] = Step(total, 2)
      /\ total[3] = Step(total, 3)
  BY <1>5
<1> QED BY <1>1, <1>6 DEF zero, one, two, three

LEMMA DifferenceOfThree ==
  ASSUME NEW x, NEW y, NEW z
  PROVE  SubtractOperands(<<x, y, z>>) = {Add(Add(x, Minus(y)), Minus(z))}
<1> DEFINE xs == <<x, y, z>>
           Step(f, i) == IF i = 1 THEN xs[1] ELSE Add(f[i - 1], Minus(xs[i]))
           rest == CHOOSE f : f = [i \in 1..3 |-> Step(f, i)]
           one == x
           two == Add(one, Minus(y))
           three == Add(two, Minus(z))
           f == [i \in 1..3 |-> IF i = 1 THEN one ELSE IF i = 2 THEN two ELSE three]
<1>1. SubtractOperands(xs) = {rest[3]}
  BY DEF SubtractOperands
<1>2. f[1] = one /\ f[2] = two /\ f[3] = three
  OBVIOUS
<1>3. \A i \in 1..3 : f[i] = Step(f, i)
  <2> TAKE i \in 1..3
  <2>1. i = 1 \/ i = 2 \/ i = 3
    OBVIOUS
  <2> QED BY <1>2, <2>1
<1> HIDE DEF one, two, three
<1>4. f = [i \in 1..3 |-> Step(f, i)]
  BY <1>3
<1>5. rest = [i \in 1..3 |-> Step(rest, i)]
  BY <1>4
<1> HIDE DEF rest, f
<1>6. rest[1] = Step(rest, 1)
      /\ rest[2] = Step(rest, 2)
      /\ rest[3] = Step(rest, 3)
  BY <1>5
<1> QED BY <1>1, <1>6 DEF one, two, three

LEMMA QuotientOfThree ==
  ASSUME NEW x, NEW y, NEW z
  PROVE  DivideOperands(<<x, y, z>>) = Both("/", Both("/", {x}, {y}), {z})
<1> DEFINE xs == <<x, y, z>>
           Step(f, i) == IF i = 1 THEN {xs[1]} ELSE Both("/", f[i - 1], {xs[i]})
           rest == CHOOSE f : f = [i \in 1..3 |-> Step(f, i)]
           one == {x}
           two == Both("/", one, {y})
           three == Both("/", two, {z})
           f == [i \in 1..3 |-> IF i = 1 THEN one ELSE IF i = 2 THEN two ELSE three]
<1>1. DivideOperands(xs) = rest[3]
  BY DEF DivideOperands
<1>2. f[1] = one /\ f[2] = two /\ f[3] = three
  OBVIOUS
<1>3. \A i \in 1..3 : f[i] = Step(f, i)
  <2>1. xs[1] = x /\ xs[2] = y /\ xs[3] = z
    OBVIOUS
  <2>2. f[1] = Step(f, 1)
    BY <1>2, <2>1
  <2>3. f[2] = Step(f, 2)
    BY <1>2, <2>1
  <2>4. f[3] = Step(f, 3)
    BY <1>2, <2>1
  <2> HIDE DEF f, Step
  <2>5. \A i \in 1..3 : i = 1 \/ i = 2 \/ i = 3
    OBVIOUS
  <2> QED BY <2>2, <2>3, <2>4, <2>5
<1> HIDE DEF one, two, three
<1>4. f = [i \in 1..3 |-> Step(f, i)]
  BY <1>3
<1>5. rest = [i \in 1..3 |-> Step(rest, i)]
  BY <1>4
<1> HIDE DEF rest, f
<1>6. rest[1] = Step(rest, 1)
      /\ rest[2] = Step(rest, 2)
      /\ rest[3] = Step(rest, 3)
  BY <1>5
<1> QED BY <1>1, <1>6 DEF one, two, three

LEMMA PositiveOperands ==
  ASSUME NEW x, NEW y, NEW z
  PROVE  /\ Positive(<<x>>) <=> x.n > 0
         /\ Positive(<<x, y>>) <=> x.n > 0 /\ y.n > 0
         /\ Positive(<<x, y, z>>) <=> x.n > 0 /\ y.n > 0 /\ z.n > 0
<1>1. Range(<<x>>) = {x}
  BY DEF Range
<1>2. Range(<<x, y>>) = {x, y}
  BY DEF Range
<1>3. Range(<<x, y, z>>) = {x, y, z}
  BY DEF Range
<1> QED BY <1>1, <1>2, <1>3 DEF Positive

LEMMA RestWithAnother ==
  ASSUME NEW r, NEW x, NEW y, NEW z
  PROVE  <<r>> \o Tail(<<x, y, z>>) = <<r, y, z>> /\ Head(<<x, y, z>>) = x
<1> DEFINE S == {r, x, y, z}
           xs == <<x, y, z>>
           rest == Tail(xs)
<1>1. xs \in Seq(S) /\ <<r>> \in Seq(S) /\ Len(xs) = 3 /\ Len(<<r>>) = 1
  OBVIOUS
<1>2. Head(xs) = x
  OBVIOUS
<1>3. rest \in Seq(S) /\ Len(rest) = 2 /\ rest[1] = y /\ rest[2] = z
  BY <1>1
<1> HIDE DEF xs, rest
<1> DEFINE all == <<r>> \o rest
<1>4. all \in Seq(S) /\ Len(all) = 3 /\ all[1] = r /\ all[2] = y /\ all[3] = z
  <2> DEFINE first == <<r>>
  <2>1. first \in Seq(S) /\ Len(first) = 1 /\ first[1] = r
    BY <1>1
  <2> HIDE DEF first, S
  <2>2. /\ first \o rest \in Seq(S) /\ Len(first \o rest) = Len(first) + Len(rest)
        /\ \A i \in 1..(Len(first) + Len(rest)) :
              (first \o rest)[i] = IF i <= Len(first) THEN first[i] ELSE rest[i - Len(first)]
    BY <1>3, <2>1, ConcatProperties
  <2>3. \A i \in 1..3 : (first \o rest)[i] = IF i <= 1 THEN first[i] ELSE rest[i - 1]
    BY <1>3, <2>1, <2>2
  <2>4. (first \o rest)[1] = first[1] /\ (first \o rest)[2] = rest[1]
        /\ (first \o rest)[3] = rest[2]
    <3> DEFINE both == first \o rest
    <3> HIDE DEF both
    <3>1. \A i \in 1..3 : both[i] = IF i <= 1 THEN first[i] ELSE rest[i - 1]
      BY <2>3 DEF both
    <3>2. both[1] = first[1]
      BY <3>1
    <3>3. both[2] = rest[2 - 1] /\ 2 - 1 = 1
      BY <3>1
    <3>4. both[3] = rest[3 - 1] /\ 3 - 1 = 2
      BY <3>1
    <3> QED BY <3>2, <3>3, <3>4 DEF both
  <2> QED BY <1>3, <2>1, <2>2, <2>4 DEF first
<1> HIDE DEF all
<1>5. all = <<r, y, z>>
  BY <1>4
<1> QED BY <1>2, <1>5 DEF all, rest, xs

\* The sums whose operands are whole: what each comes to, and what the others then say.
LEMMA SubtractionAgrees ==
  ASSUME NEW x \in Int, NEW y \in Int, NEW z \in Int,
         NEW r \in SubtractOperands(<<Whole(x), Whole(y), Whole(z)>>)
  PROVE  Same(Sum(<<r, Whole(y), Whole(z)>>), Whole(x))
<1>1. Minus(Whole(y)) = Whole(- y) /\ Minus(Whole(z)) = Whole(- z)
  BY Arithmetic
<1>2. Add(Whole(x), Whole(- y)) = Whole(x - y)
  <2>1. x + (- y) = x - y /\ - y \in Int
    OBVIOUS
  <2> QED BY <2>1, Arithmetic
<1>3. Add(Whole(x - y), Whole(- z)) = Whole(x - y - z)
  <2>1. (x - y) + (- z) = x - y - z /\ - z \in Int /\ x - y \in Int
    OBVIOUS
  <2> QED BY <2>1, Arithmetic
<1>4. r = Whole(x - y - z)
  BY <1>1, <1>2, <1>3, DifferenceOfThree
<1> DEFINE w == x - y - z
<1>5. w \in Int /\ 0 + w = w /\ w + y \in Int /\ (w + y) + z = x
  OBVIOUS
<1> HIDE DEF w
<1>6. Sum(<<r, Whole(y), Whole(z)>>) = Add(Add(Add(Whole(0), Whole(w)), Whole(y)), Whole(z))
  BY <1>4, SumOfThree DEF w
<1>7. Add(Whole(0), Whole(w)) = Whole(w) /\ Add(Whole(w), Whole(y)) = Whole(w + y)
      /\ Add(Whole(w + y), Whole(z)) = Whole(x)
  <2>1. Add(Whole(0), Whole(w)) = Whole(0 + w)
    BY <1>5, Arithmetic
  <2>2. Add(Whole(w), Whole(y)) = Whole(w + y)
    BY <1>5, Arithmetic
  <2>3. Add(Whole(w + y), Whole(z)) = Whole((w + y) + z)
    BY <1>5, Arithmetic
  <2> QED BY <1>5, <2>1, <2>2, <2>3
<1>8. Sum(<<r, Whole(y), Whole(z)>>) = Whole(x)
  BY <1>6, <1>7
<1>9. Whole(x).n = x /\ Whole(x).d = 1
  BY Arithmetic
<1> QED BY <1>8, <1>9 DEF Same

\* Division by a whole number: where there is a result that is not zero.
LEMMA OverWhole ==
  ASSUME NEW n \in Int, NEW d \in Nat \ {0}, NEW y \in Int, NEW r,
         r \in Over([n |-> n, d |-> d], Whole(y))
  PROVE  /\ y # 0 /\ r = Quotient(n, d * y) /\ r.n \in Int /\ r.d \in Nat \ {0}
         /\ r.n * y * d = n * r.d
<1>1. Whole(y).n = y /\ Whole(y).d = 1
  BY Arithmetic
<1>2. y # 0 /\ r = Quotient(n * 1, d * y)
  BY <1>1 DEF Over
<1>3. n * 1 = n /\ d * y \in Int /\ d * y # 0
  BY <1>2
<1>4. r = Quotient(n, d * y)
  BY <1>2, <1>3
<1>5. CASE d * y < 0
  <2>1. r.n = - n /\ r.d = - (d * y)
    BY <1>4, <1>5 DEF Quotient
  <2>2. (- n) * y * d = n * (- (d * y))
    OBVIOUS
  <2> QED BY <1>2, <1>3, <1>4, <1>5, <2>1, <2>2
<1>6. CASE ~ (d * y < 0)
  <2>1. r.n = n /\ r.d = d * y
    BY <1>4, <1>6 DEF Quotient
  <2>2. n * y * d = n * (d * y)
    OBVIOUS
  <2> QED BY <1>2, <1>3, <1>4, <1>6, <2>1, <2>2
<1> QED BY <1>5, <1>6

LEMMA TimesWhole ==
  ASSUME NEW n \in Int, NEW d \in Nat \ {0}, NEW y \in Int
  PROVE  /\ Times([n |-> n, d |-> d], Whole(y)) = [n |-> n * y, d |-> d]
         /\ Times(Whole(y), [n |-> n, d |-> d]) = [n |-> y * n, d |-> d]
<1>1. Whole(y).n = y /\ Whole(y).d = 1
  BY Arithmetic
<1>2. d * 1 = d /\ 1 * d = d /\ n * y \in Int /\ y * n \in Int
  OBVIOUS
<1>3. Times([n |-> n, d |-> d], Whole(y)) = Quotient(n * y, d)
  BY <1>1, <1>2 DEF Times
<1>4. Times(Whole(y), [n |-> n, d |-> d]) = Quotient(y * n, d)
  BY <1>1, <1>2 DEF Times
<1> QED BY <1>2, <1>3, <1>4 DEF Quotient

\* What was divided comes back by multiplying; by zero there is no result.
LEMMA DivisionAgrees ==
  ASSUME NEW x \in Int, NEW y \in Int, NEW z \in Int,
         NEW r \in DivideOperands(<<Whole(x), Whole(y), Whole(z)>>)
  PROVE  Same(Product(<<r, Whole(y), Whole(z)>>), Whole(x))
<1>1. PICK q \in Over(Whole(x), Whole(y)) : r \in Over(q, Whole(z))
  <2>1. r \in Both("/", Both("/", {Whole(x)}, {Whole(y)}), {Whole(z)})
    BY QuotientOfThree
  <2>2. \A u, v : Apply("/", u, v) = Over(u, v)
    BY DEF Apply
  <2> QED BY <2>1, <2>2 DEF Both
<1>2. q.n \in Int /\ q.d \in Nat \ {0} /\ q = [n |-> q.n, d |-> q.d] /\ q.n * y = x * q.d
  <2>1. q.n \in Int /\ q.d \in Nat \ {0} /\ q.n * y * 1 = x * q.d /\ q = Quotient(x, 1 * y)
    BY OverWhole DEF Whole
  <2>2. q = [n |-> q.n, d |-> q.d]
    BY <2>1 DEF Quotient
  <2>3. q.n * y * 1 = q.n * y
    BY <2>1
  <2> QED BY <2>1, <2>2, <2>3
<1>3. r.n \in Int /\ r.d \in Nat \ {0} /\ r = [n |-> r.n, d |-> r.d]
      /\ r.n * z * q.d = q.n * r.d
  <2>1. r.n \in Int /\ r.d \in Nat \ {0} /\ r.n * z * q.d = q.n * r.d /\ r = Quotient(q.n, q.d * z)
    BY <1>1, <1>2, OverWhole
  <2>2. r = [n |-> r.n, d |-> r.d]
    BY <2>1 DEF Quotient
  <2> QED BY <2>1, <2>2
<1> DEFINE n == r.n
           d == r.d
<1>4. n \in Int /\ d \in Nat \ {0} /\ r = [n |-> n, d |-> d] /\ n * z * q.d = q.n * d
      /\ q.n * y = x * q.d /\ q.n \in Int /\ q.d \in Nat \ {0}
  BY <1>2, <1>3
<1> HIDE DEF n, d
<1>5. Product(<<r, Whole(y), Whole(z)>>) = [n |-> n * y * z, d |-> d]
  <2>1. Times(Whole(1), r) = r
    <3>1. 1 * n = n
      BY <1>4
    <3>2. Times(Whole(1), [n |-> n, d |-> d]) = [n |-> 1 * n, d |-> d]
      BY <1>4, TimesWhole
    <3> QED BY <1>4, <3>1, <3>2
  <2>2. Times(r, Whole(y)) = [n |-> n * y, d |-> d]
    BY <1>4, TimesWhole
  <2>3. Times([n |-> n * y, d |-> d], Whole(z)) = [n |-> n * y * z, d |-> d]
    <3>1. n * y \in Int
      BY <1>4
    <3> QED BY <1>4, <3>1, TimesWhole
  <2> QED BY <2>1, <2>2, <2>3, ProductOfThree
<1>6. n * y * z = x * d
  <2> DEFINE qn == q.n
             qd == q.d
  <2>1. qn \in Int /\ qd \in Int /\ qd # 0 /\ n \in Int /\ d \in Int
        /\ n * z * qd = qn * d /\ qn * y = x * qd
    BY <1>4
  <2> HIDE DEF qn, qd
  <2>2. (n * y * z) * qd = (n * z * qd) * y
    BY <2>1
  <2>3. (qn * d) * y = (qn * y) * d
    BY <2>1
  <2>4. (x * qd) * d = (x * d) * qd
    BY <2>1
  <2>5. (n * y * z) * qd = (x * d) * qd
    BY <2>1, <2>2, <2>3, <2>4
  <2> DEFINE a == n * y * z
             b == x * d
  <2>6. a \in Int /\ b \in Int /\ a * qd = b * qd
    BY <2>1, <2>5
  <2> HIDE DEF a, b
  <2>7. a = b
    BY <2>1, <2>6
  <2> QED BY <2>7 DEF a, b
<1>7. Whole(x).n = x /\ Whole(x).d = 1
  BY Arithmetic
<1>8. (n * y * z) * 1 = x * d
  BY <1>4, <1>6
<1> QED BY <1>4, <1>5, <1>7, <1>8 DEF Same

\* By a positive one there is a result.
LEMMA OverPositive ==
  ASSUME NEW n \in Int, NEW d \in Nat \ {0}, NEW y \in Nat \ {0}
  PROVE  Over([n |-> n, d |-> d], Whole(y)) = {[n |-> n, d |-> d * y]}
<1>1. Whole(y).n = y /\ Whole(y).d = 1 /\ n * 1 = n
  BY Arithmetic
<1>2. d * y \in Nat
  OBVIOUS
<1>3. Over([n |-> n, d |-> d], Whole(y)) = {Quotient(n * 1, d * y)}
  BY <1>1 DEF Over
<1> QED BY <1>1, <1>2, <1>3 DEF Quotient

\* What a budget buys costs the budget.
LEMMA QuantityAgrees ==
  ASSUME NEW x \in Int, NEW y \in Int,
         NEW r \in QuantityFromBudgetAndPrice(Whole(x), Whole(y)),
         NEW v \in NotionalFromQuantityAndPrice(r, Whole(y))
  PROVE  Same(v, Whole(x))
<1>1. Whole(x) = [n |-> x, d |-> 1] /\ Whole(x).n = x /\ Whole(x).d = 1 /\ Whole(y).n = y
  BY Arithmetic DEF Whole
<1>2. y \in Nat \ {0} /\ r \in Over(Whole(x), Whole(y))
  <2>1. Positive(<<Whole(x), Whole(y)>>) /\ r \in Over(Whole(x), Whole(y))
    BY DEF QuantityFromBudgetAndPrice
  <2>2. Whole(y).n > 0
    BY <2>1, PositiveOperands
  <2>3. y > 0
    BY <1>1, <2>2
  <2> QED BY <2>1, <2>3
<1>3. r = [n |-> x, d |-> y]
  <2>1. 1 * y = y
    BY <1>2
  <2>2. Over([n |-> x, d |-> 1], Whole(y)) = {[n |-> x, d |-> 1 * y]}
    BY <1>2, OverPositive
  <2> QED BY <1>1, <1>2, <2>1, <2>2
<1>4. v = [n |-> x * y, d |-> y]
  <2>1. v = Times(r, Whole(y))
    BY DEF NotionalFromQuantityAndPrice
  <2> QED BY <1>2, <1>3, <2>1, TimesWhole
<1>5. (x * y) * 1 = x * y
  OBVIOUS
<1> QED BY <1>1, <1>2, <1>4, <1>5 DEF Same

\* What a rebalance adds makes the weight it was asked for.
LEMMA RebalanceAgrees ==
  ASSUME NEW c \in Int, NEW t \in Int, NEW p \in Int,
         NEW r \in RebalanceDelta(Whole(c), Whole(t), Whole(p)),
         NEW v \in PositionWeight(Add(Whole(c), r), Whole(p))
  PROVE  Same(v, Whole(t))
<1> DEFINE h == Hundred
<1>1. h \in Nat \ {0}
  BY CalculatorAssumption
<1> HIDE DEF h
<1>2. \A x \in Int : Whole(x) = [n |-> x, d |-> 1] /\ Whole(x).n = x /\ Whole(x).d = 1
  BY Arithmetic DEF Whole
<1>3. p \in Nat \ {0}
  <2>1. Positive(<<Whole(p)>>)
    BY DEF RebalanceDelta
  <2>2. Whole(p).n > 0
    BY <2>1, PositiveOperands
  <2>3. p > 0
    BY <1>2, <2>2
  <2> QED BY <2>3
<1> DEFINE gain == t * p + (- c) * h
<1>4. gain \in Int
  BY <1>1
<1>5. r = [n |-> gain, d |-> h]
  <2>1. PICK x \in Over(Whole(t), Whole(h)) : r = Add(Times(x, Whole(p)), Minus(Whole(c)))
    BY <1>2, <1>3, PositiveOperands DEF RebalanceDelta, h
  <2>2. x = [n |-> t, d |-> h]
    <3>1. Over([n |-> t, d |-> 1], Whole(h)) = {[n |-> t, d |-> 1 * h]}
      BY <1>1, OverPositive
    <3>2. 1 * h = h
      BY <1>1
    <3> QED BY <1>2, <2>1, <3>1, <3>2
  <2>3. Times(x, Whole(p)) = [n |-> t * p, d |-> h]
    BY <1>1, <2>2, TimesWhole
  <2>4. Minus(Whole(c)) = [n |-> - c, d |-> 1]
    BY DEF Minus, Whole
  <2>5. r = Quotient((t * p) * 1 + (- c) * h, h * 1)
    BY <2>1, <2>3, <2>4 DEF Add
  <2>6. (t * p) * 1 + (- c) * h = gain /\ h * 1 = h
    BY <1>1
  <2> QED BY <1>1, <1>4, <2>5, <2>6 DEF Quotient
<1>6. Add(Whole(c), r) = [n |-> t * p, d |-> h]
  <2>1. Add(Whole(c), r) = Quotient(c * h + gain * 1, 1 * h)
    BY <1>2, <1>5 DEF Add
  <2>2. c * h + gain * 1 = t * p /\ 1 * h = h /\ t * p \in Int
    BY <1>1, <1>4
  <2> QED BY <1>1, <2>1, <2>2 DEF Quotient
<1>7. PICK x \in Over([n |-> t * p, d |-> h], Whole(p)) : v = Times(x, Whole(h))
  BY <1>2, <1>3, <1>6, PositiveOperands DEF PositionWeight, Percent, h
<1>8. x = [n |-> t * p, d |-> h * p]
  <2>1. t * p \in Int
    OBVIOUS
  <2> QED BY <1>1, <1>3, <2>1, <1>7, OverPositive
<1>9. v = [n |-> (t * p) * h, d |-> h * p]
  <2>1. t * p \in Int /\ h * p \in Nat \ {0} /\ h \in Int
    BY <1>1, <1>3
  <2> QED BY <1>7, <1>8, <2>1, TimesWhole
<1>10. ((t * p) * h) * 1 = t * (h * p) /\ h * p # 0
  BY <1>1, <1>3
<1> QED BY <1>2, <1>9, <1>10 DEF Same

\* A gain is its percentage of what was paid, and a loss to who had bet the other way.
LEMMA PnlAgrees ==
  ASSUME NEW e \in Int, NEW c \in Int, NEW q \in Int, NEW direction \in Direction,
         NEW r \in PnlAmount(Whole(e), Whole(c), Whole(q), direction)
  PROVE  /\ \A other \in Direction \ {direction} :
               \A v \in PnlAmount(Whole(e), Whole(c), Whole(q), other) : Same(v, Minus(r))
         /\ \A p \in PnlPercent(Whole(e), Whole(c), direction),
               paid \in NotionalFromQuantityAndPrice(Whole(q), Whole(e)) :
               Same(Times(p, paid), Percent(r))
<1> DEFINE h == Hundred
           g == c - e
           Signed(d) == IF d = "SHORT" THEN -1 ELSE 1
           s == Signed(direction)
<1>1. h \in Nat \ {0}
  BY CalculatorAssumption
<1> HIDE DEF h
<1>2. \A x \in Int : Whole(x) = [n |-> x, d |-> 1] /\ Whole(x).n = x /\ Whole(x).d = 1
  BY Arithmetic DEF Whole
<1>3. g \in Int /\ Add(Whole(c), Minus(Whole(e))) = Whole(g)
  <2>1. Minus(Whole(e)) = Whole(- e) /\ - e \in Int
    BY Arithmetic
  <2>2. Add(Whole(c), Whole(- e)) = Whole(c + (- e))
    BY <2>1, Arithmetic
  <2>3. c + (- e) = g
    OBVIOUS
  <2> QED BY <2>1, <2>2, <2>3
<1>4. \A d : Signed(d) \in Int /\ DirectionSign(d) = Whole(Signed(d))
  BY DEF DirectionSign
<1>5. \A other \in Direction \ {direction} : Signed(other) = - s
  BY DEF Direction
<1> HIDE DEF g, Signed
<1>6. e \in Nat \ {0} /\ q \in Nat \ {0}
  <2>1. Positive(<<Whole(e), Whole(c), Whole(q)>>)
    BY DEF PnlAmount
  <2>2. Whole(e).n > 0 /\ Whole(q).n > 0
    BY <2>1, PositiveOperands
  <2>3. e > 0 /\ q > 0
    BY <1>2, <2>2
  <2> QED BY <2>3
<1>7. ASSUME NEW d, NEW v \in PnlAmount(Whole(e), Whole(c), Whole(q), d)
      PROVE  v = Whole(g * q * Signed(d))
  <2>1. v = Product(<<Whole(g), Whole(q), Whole(Signed(d))>>)
    BY <1>3, <1>4 DEF PnlAmount
  <2>2. Times(Whole(1), Whole(g)) = Whole(g)
    <3>1. Times(Whole(1), Whole(g)) = Whole(1 * g) /\ 1 * g = g
      BY <1>3, Arithmetic
    <3> QED BY <3>1
  <2>3. Times(Whole(g), Whole(q)) = Whole(g * q) /\ g * q \in Int
    BY <1>3, Arithmetic
  <2>4. Times(Whole(g * q), Whole(Signed(d))) = Whole(g * q * Signed(d))
    BY <1>4, <2>3, Arithmetic
  <2> QED BY <2>1, <2>2, <2>3, <2>4, ProductOfThree
<1>8. s \in Int /\ r = Whole(g * q * s) /\ g * q * s \in Int
  BY <1>3, <1>4, <1>7
<1>9. ASSUME NEW other \in Direction \ {direction},
             NEW v \in PnlAmount(Whole(e), Whole(c), Whole(q), other)
      PROVE  Same(v, Minus(r))
  <2>1. v = Whole(g * q * (- s))
    BY <1>5, <1>7
  <2>2. Minus(r) = Whole(- (g * q * s))
    BY <1>8, Arithmetic
  <2>3. g * q * (- s) = - (g * q * s) /\ - (g * q * s) \in Int
    BY <1>3, <1>8
  <2> QED BY <1>2, <2>1, <2>2, <2>3 DEF Same
<1>10. ASSUME NEW p \in PnlPercent(Whole(e), Whole(c), direction),
              NEW paid \in NotionalFromQuantityAndPrice(Whole(q), Whole(e))
       PROVE  Same(Times(p, paid), Percent(r))
  <2>1. paid = Whole(q * e) /\ q * e \in Int
    BY Arithmetic DEF NotionalFromQuantityAndPrice
  <2>2. PICK x \in Over(Whole(g), Whole(e)) : p = Times(Times(x, Whole(h)), Whole(s))
    BY <1>3, <1>4 DEF PnlPercent, Percent, h
  <2>3. x = [n |-> g, d |-> e]
    <3>1. Over([n |-> g, d |-> 1], Whole(e)) = {[n |-> g, d |-> 1 * e]} /\ 1 * e = e
      BY <1>3, <1>6, OverPositive
    <3> QED BY <1>2, <1>3, <2>2, <3>1
  <2>4. p = [n |-> g * h * s, d |-> e]
    <3>1. Times(x, Whole(h)) = [n |-> g * h, d |-> e] /\ g * h \in Int
      BY <1>1, <1>3, <1>6, <2>3, TimesWhole
    <3> QED BY <1>6, <1>8, <2>2, <3>1, TimesWhole
  <2>5. Times(p, paid) = [n |-> (g * h * s) * (q * e), d |-> e]
    <3>1. g * h * s \in Int
      BY <1>1, <1>3, <1>8
    <3> QED BY <1>6, <2>1, <2>4, <3>1, TimesWhole
  <2>6. Percent(r) = Whole((g * q * s) * h)
    BY <1>1, <1>8, Arithmetic DEF Percent, h
  <2>7. (g * h * s) * (q * e) = ((g * q * s) * h) * e /\ (g * q * s) * h \in Int
    BY <1>1, <1>3, <1>8
  <2>8. ((g * h * s) * (q * e)) * 1 = ((g * q * s) * h) * e
    BY <1>1, <1>3, <1>8
  <2> QED BY <1>2, <1>6, <2>5, <2>6, <2>7, <2>8 DEF Same
<1> QED BY <1>9, <1>10

\* What was asked for: a sum of three whole amounts, or nothing yet.
Asked(operation, n, direction) ==
    LET a == [i \in 1..3 |-> Whole(n[i])]
    IN  [operation |-> operation, of |-> a, direction |-> direction,
         result |-> Calculation(operation, a, direction)]
CalculatorInv ==
    /\ formula \in Seq(Token)
    /\ sum = NoSum \/ \E operation \in Operation, n \in [1..3 -> Amounts], direction \in Direction :
                         sum = Asked(operation, n, direction)

\* Every sum that can be asked for agrees with the others.
LEMMA SumAgrees ==
  ASSUME NEW operation \in Operation, NEW n \in [1..3 -> Amounts], NEW direction \in Direction,
         sum = Asked(operation, n, direction)
  PROVE  SumsAgree
<1> DEFINE a == <<Whole(n[1]), Whole(n[2]), Whole(n[3])>>
           x == n[1]
           y == n[2]
           z == n[3]
<1>1. x \in Int /\ y \in Int /\ z \in Int
  BY CalculatorAssumption
<1>2. sum.of = a
  <2>1. [i \in 1..3 |-> Whole(n[i])] = a
    OBVIOUS
  <2> QED BY <2>1 DEF Asked
<1>3. sum.operation = operation /\ sum.direction = direction
      /\ sum.result = Calculation(operation, a, direction)
  BY <1>2 DEF Asked
<1>4. a[1] = Whole(x) /\ a[2] = Whole(y) /\ a[3] = Whole(z) /\ a = <<Whole(x), Whole(y), Whole(z)>>
  OBVIOUS
<1> HIDE DEF a, x, y, z
<1>5. \A r : <<r>> \o Tail(a) = <<r, Whole(y), Whole(z)>> /\ Head(a) = Whole(x)
  BY <1>4, RestWithAnother
<1> SUFFICES ASSUME NEW r \in Calculation(operation, a, direction)
             PROVE  CASE operation = "subtract" -> Same(Sum(<<r>> \o Tail(a)), Head(a))
                      [] operation = "divide" -> Same(Product(<<r>> \o Tail(a)), Head(a))
                      [] operation = "quantity_from_budget_and_price" ->
                            \A v \in NotionalFromQuantityAndPrice(r, a[2]) : Same(v, a[1])
                      [] operation = "rebalance_delta" ->
                            \A v \in PositionWeight(Add(a[1], r), a[3]) : Same(v, a[2])
                      [] operation = "pnl_amount" ->
                            /\ \A d \in Direction \ {direction} :
                                  \A v \in PnlAmount(a[1], a[2], a[3], d) : Same(v, Minus(r))
                            /\ \A p \in PnlPercent(a[1], a[2], direction),
                                  paid \in NotionalFromQuantityAndPrice(a[3], a[1]) :
                                  Same(Times(p, paid), Percent(r))
                      [] OTHER -> TRUE
  BY <1>2, <1>3 DEF SumsAgree
<1>6. CASE operation = "subtract"
  <2>1. r \in SubtractOperands(a)
    BY <1>6 DEF Calculation
  <2>2. Same(Sum(<<r, Whole(y), Whole(z)>>), Whole(x))
    BY <1>1, <1>4, <2>1, SubtractionAgrees
  <2> QED BY <1>5, <1>6, <2>2
<1>7. CASE operation = "divide"
  <2>1. r \in DivideOperands(a)
    BY <1>7 DEF Calculation
  <2>2. Same(Product(<<r, Whole(y), Whole(z)>>), Whole(x))
    BY <1>1, <1>4, <2>1, DivisionAgrees
  <2> QED BY <1>5, <1>7, <2>2
<1>8. CASE operation = "quantity_from_budget_and_price"
  <2>1. r \in QuantityFromBudgetAndPrice(Whole(x), Whole(y))
    BY <1>4, <1>8 DEF Calculation
  <2>2. \A v \in NotionalFromQuantityAndPrice(r, Whole(y)) : Same(v, Whole(x))
    BY <1>1, <2>1, QuantityAgrees
  <2> QED BY <1>4, <1>8, <2>2
<1>9. CASE operation = "rebalance_delta"
  <2>1. r \in RebalanceDelta(Whole(x), Whole(y), Whole(z))
    BY <1>4, <1>9 DEF Calculation
  <2>2. \A v \in PositionWeight(Add(Whole(x), r), Whole(z)) : Same(v, Whole(y))
    BY <1>1, <2>1, RebalanceAgrees
  <2> QED BY <1>4, <1>9, <2>2
<1>10. CASE operation = "pnl_amount"
  <2>1. r \in PnlAmount(Whole(x), Whole(y), Whole(z), direction)
    BY <1>4, <1>10 DEF Calculation
  <2>2. /\ \A other \in Direction \ {direction} :
              \A v \in PnlAmount(Whole(x), Whole(y), Whole(z), other) : Same(v, Minus(r))
        /\ \A p \in PnlPercent(Whole(x), Whole(y), direction),
              paid \in NotionalFromQuantityAndPrice(Whole(z), Whole(x)) :
              Same(Times(p, paid), Percent(r))
    BY <1>1, <2>1, PnlAgrees
  <2> QED BY <1>4, <1>10, <2>2
<1> QED BY <1>6, <1>7, <1>8, <1>9, <1>10 DEF Operation

\* So what was asked for is always answered rightly.
LEMMA InvAgrees ==
  ASSUME CalculatorInv PROVE CalculationsAgree
<1>1. FormulasAgree
  <2>1. Len(formula) \in Nat
    BY DEF CalculatorInv
  <2> QED BY <2>1, ParserAgrees DEF FormulasAgree
<1>2. SumsAgree
  <2>1. CASE sum = NoSum
    BY <2>1 DEF NoSum, SumsAgree
  <2> QED BY <2>1, SumAgrees DEF CalculatorInv
<1> QED BY <1>1, <1>2 DEF CalculationsAgree

\* There is a formula being typed, or one sum asked for, at the start and after a step.
LEMMA CalculatorInitInv == CalculatorInit => CalculatorInv
BY DEF CalculatorInit, CalculatorInv

LEMMA CalculatorNextInv ==
  CalculatorInv /\ [CalculatorNext]_calculatorVars => CalculatorInv'
<1> SUFFICES ASSUME CalculatorInv, [CalculatorNext]_calculatorVars PROVE CalculatorInv'
  OBVIOUS
<1>1. ASSUME NEW token \in Token, TypeToken(token) PROVE CalculatorInv'
  <2>1. formula' \in Seq(Token) /\ sum' = sum
    BY <1>1 DEF TypeToken, CalculatorInv
  <2> QED BY <2>1 DEF CalculatorInv
<1>2. ASSUME NEW operation \in Operation, NEW n \in [1..3 -> Amounts], NEW direction \in Direction,
             Calculate(operation, [i \in 1..3 |-> Whole(n[i])], direction)
      PROVE  CalculatorInv'
  <2>1. formula' = formula /\ sum' = Asked(operation, n, direction)
    BY <1>2 DEF Calculate, Asked
  <2> QED BY <2>1 DEF CalculatorInv
<1>3. CASE UNCHANGED calculatorVars
  BY <1>3 DEF calculatorVars, CalculatorInv
<1> QED BY <1>1, <1>2, <1>3 DEF CalculatorNext

\* The calculator is right: of every formula it makes what it is read as, and its sums
\* agree with one another, for any numbers and formulas of any length.
THEOREM CalculationsAlwaysAgree == CalculatorSpec => []CalculationsAgree
<1>1. CalculatorInv => CalculationsAgree
  BY InvAgrees
<1> QED BY <1>1, CalculatorInitInv, CalculatorNextInv, PTL DEF CalculatorSpec

=============================================================================
