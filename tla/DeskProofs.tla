------------------------------ MODULE DeskProofs ------------------------------
(***************************************************************************)
(* Proofs about the desks of AgentTools, each of which is a specification  *)
(* of its own: the guideline document, the broker tools, the scheduler's   *)
(* tools, the adapters' runs, the memory of signals, the records of orders *)
(* at the brokers, the wizard and the start.                               *)
(***************************************************************************)
EXTENDS AgentTools, CalculatorProofs,
        FiniteSetTheorems, SequenceTheorems, TLAPS

(* The guideline document *)

GuidelineTypeOK ==
    /\ file \in File /\ temp \in File
    /\ writer \in Writer
    /\ change \in Document /\ known \in Document

\* What the writer's place in a change says of the two files.
SafelyWritten ==
    /\ Readable
    /\ Load \in {known, change}
    /\ writer \in {"changed", "writing", "written"} => Load = known
    /\ writer = "written" => temp = Holding(change)
    /\ writer = "replaced" => Load = change

GuidelineInv == GuidelineTypeOK /\ SafelyWritten

LEMMA EmptyIsDocument == BuildEmpty \in Document
<1>1. BuildEmpty \in [{} -> Node]
  BY DEF BuildEmpty
<1>2. {} \in SUBSET Nodes
  OBVIOUS
<1> QED BY <1>1, <1>2 DEF Document

LEMMA FilesDiffer ==
  \A d : Holding(d) # InPart /\ Holding(d).holds = d /\ NoFile # InPart
BY DEF Holding, InPart, NoFile

LEMMA LoadIsDocument ==
  ASSUME file \in File PROVE Load \in Document
BY EmptyIsDocument DEF File, Load, Holding, NoFile, InPart

LEMMA NewsAreDocuments ==
  ASSUME NEW d \in Document, NEW n \in Nodes, NEW content \in Contents
  PROVE  /\ [m \in DOMAIN d \cup {n} |->
                IF m = n THEN [status |-> "active", content |-> content] ELSE d[m]]
                \in Document
         /\ [d EXCEPT ![n].content = content] \in Document
<1>1. PICK S \in SUBSET Nodes : d \in [S -> Node]
  BY DEF Document
<1>2. DOMAIN d = S /\ \A m \in S : d[m] \in Node
  BY <1>1
<1>3. [m \in DOMAIN d \cup {n} |->
         IF m = n THEN [status |-> "active", content |-> content] ELSE d[m]]
        \in [S \cup {n} -> Node]
  BY <1>2 DEF Node, Status
<1>4. [d EXCEPT ![n].content = content] \in [S -> Node]
  BY <1>1, <1>2 DEF Node, Status
<1>5. S \cup {n} \in SUBSET Nodes
  OBVIOUS
<1> QED BY <1>3, <1>4, <1>5 DEF Document

LEMMA LossesAreDocuments ==
  ASSUME NEW d \in Document, NEW n \in Nodes
  PROVE  /\ [d EXCEPT ![n].status = "archived"] \in Document
         /\ Restrict(d, DOMAIN d \ {n}) \in Document
<1>1. PICK S \in SUBSET Nodes : d \in [S -> Node]
  BY DEF Document
<1>2. DOMAIN d = S /\ \A m \in S : d[m] \in Node
  BY <1>1
<1>3. [d EXCEPT ![n].status = "archived"] \in [S -> Node]
  BY <1>1, <1>2 DEF Node, Status
<1>4. Restrict(d, DOMAIN d \ {n}) \in [S \ {n} -> Node]
  BY <1>2 DEF Restrict
<1>5. S \ {n} \in SUBSET Nodes
  OBVIOUS
<1> QED BY <1>3, <1>4, <1>5 DEF Document

\* A change is begun on a document that has been read, and touches no file.
LEMMA BeginKeeps ==
  ASSUME GuidelineInv, NEW d \in Document, Begin(d) PROVE GuidelineInv'
<1>1. Load' = Load /\ Readable'
  BY DEF Begin, Load, Readable
<1> QED BY <1>1, LoadIsDocument DEF GuidelineInv, GuidelineTypeOK, SafelyWritten, Begin, Writer

LEMMA GuidelineStep ==
  ASSUME GuidelineInv, [GuidelineNext]_guidelineVars PROVE GuidelineInv'
<1>1. Load \in Document
  BY LoadIsDocument DEF GuidelineInv, GuidelineTypeOK
<1>2. ASSUME NEW n \in Nodes, NEW content \in Contents,
             CreateNode(n, content) \/ UpdateNode(n, content)
      PROVE  GuidelineInv'
  BY <1>1, <1>2, NewsAreDocuments, BeginKeeps DEF CreateNode, UpdateNode
<1>3. ASSUME NEW n \in Nodes, ArchiveNode(n) \/ DeleteNode(n) PROVE GuidelineInv'
  BY <1>1, <1>3, LossesAreDocuments, BeginKeeps DEF ArchiveNode, DeleteNode
<1>4. CASE OpenTemporary
  BY <1>4 DEF OpenTemporary, GuidelineInv, GuidelineTypeOK, SafelyWritten, File, Writer, Load, Readable
<1>5. CASE FillTemporary
  BY <1>5 DEF FillTemporary, GuidelineInv, GuidelineTypeOK, SafelyWritten, File, Writer, Load, Readable
<1>6. CASE Replace
  <2>1. file' = Holding(change) /\ Load' = change /\ Readable'
    BY <1>6, FilesDiffer DEF Replace, GuidelineInv, SafelyWritten, Load, Readable
  <2> QED BY <1>6, <2>1 DEF Replace, GuidelineInv, GuidelineTypeOK, SafelyWritten, File, Writer
<1>7. CASE Reply
  BY <1>7 DEF Reply, GuidelineInv, GuidelineTypeOK, SafelyWritten, Writer, Load, Readable
<1>8. CASE GuidelineCrash
  BY <1>8 DEF GuidelineCrash, GuidelineInv, GuidelineTypeOK, SafelyWritten, Writer, Load, Readable
<1>9. CASE UNCHANGED guidelineVars
  BY <1>9 DEF guidelineVars, GuidelineInv, GuidelineTypeOK, SafelyWritten, Load, Readable
<1> QED BY <1>2, <1>3, <1>4, <1>5, <1>6, <1>7, <1>8, <1>9 DEF GuidelineNext

\* Whoever reads the guidelines, at any moment of a change and after a crash at
\* any point of one, reads a whole document: the one the change started from or
\* the one it was to leave (FileBackedStructuredDocumentStore.save).
THEOREM GuidelinesAreSafe == GuidelineSpec => [](GuidelineTypeOK /\ GuidelinesSurvive)
<1>1. GuidelineInit => GuidelineInv
  BY EmptyIsDocument
     DEF GuidelineInit, GuidelineInv, GuidelineTypeOK, SafelyWritten, File, Writer, Load, Readable,
         NoFile, InPart
<1>2. GuidelineInv /\ [GuidelineNext]_guidelineVars => GuidelineInv'
  BY GuidelineStep
<1>3. GuidelineInv => GuidelineTypeOK /\ GuidelinesSurvive
  BY DEF GuidelineInv, SafelyWritten, GuidelinesSurvive
<1> QED BY <1>1, <1>2, <1>3, PTL DEF GuidelineSpec


-----------------------------------------------------------------------------
(* The broker tools: references *)

CancelAction ==
    [kind : {"cancel"}, interaction : Nat, ref : SUBSET Nat, order : Nat, done : BOOLEAN]
SubmitAction ==
    [kind : {"submit"}, request : Requests, instrument : Query \cup Instruments,
     side : Sides, quantity : Int, done : BOOLEAN]

OrderTypeOK ==
    /\ provider \in {"trading212", "alpaca"}
    /\ placed \in 0..MaxPlaced /\ pending \subseteq 1..placed
    /\ interaction \in Nat
    /\ references \in Seq(Nat)
    /\ shown \subseteq [interaction : Nat, ref : Nat, order : Nat]
    /\ offers \subseteq CancelAction \cup SubmitAction

\* The order an interaction's reference map has under a reference.
Refers(refs, n, order) == n \in DOMAIN refs /\ refs[n] = order

\* The map gives no order two numbers, and has all that its interaction was shown
\* and all that a cancellation of it was asked for by; those before it are of
\* earlier interactions.
Referred ==
    /\ IsInjective(references)
    /\ \A x \in shown :
          /\ x.interaction <= interaction
          /\ x.interaction = interaction => Refers(references, x.ref, x.order)
    /\ \A offer \in offers : offer.kind = "cancel" =>
          /\ offer.interaction <= interaction
          /\ offer.interaction = interaction =>
                \A n \in offer.ref : Refers(references, n, offer.order)

\* What is said of one action prepared.
AsAsked(offer) ==
    LET r == offer.request
    IN  /\ provider = "trading212" =>
             \A i \in Instruments \ {offer.instrument} :
                Score[r.query][i] >= MinScore =>
                   Score[r.query][i] + Margin <= Score[r.query][offer.instrument]
        /\ \A a \in r.amount, p \in r.limit :
             r.type \in LimitTypes =>
                offer.quantity * p <= a /\ a < (offer.quantity + 1) * p

OrderInv ==
    /\ OrderTypeOK /\ Referred /\ CancelsWhatWasShown
    /\ \A offer \in offers : offer.kind = "submit" => AsAsked(offer)

\* Registering orders adds references, each for an order that had none.
LEMMA RegisterAdds ==
  ASSUME NEW refs \in Seq(Nat), IsInjective(refs), NEW orders \in SUBSET Nat,
         IsFiniteSet(orders), NEW more \in Register(refs, orders)
  PROVE  /\ more \in Seq(Nat) /\ IsInjective(more)
         /\ \A n, order : Refers(refs, n, order) => Refers(more, n, order)
<1> DEFINE new == orders \ Range(refs)
<1>1. PICK k \in Nat : k = Cardinality(new)
  BY FS_Subset, FS_CardinalityType
<1>2. PICK f \in SetToSeqs(new) : more = refs \o f
  BY DEF Register
<1>3. f \in [1..k -> new] /\ \A i, j \in 1..k : i # j => f[i] # f[j]
  BY <1>1, <1>2 DEF SetToSeqs
<1>4. PICK l \in Nat : l = Len(refs) /\ DOMAIN refs = 1..l
  OBVIOUS
<1>5. /\ f \in Seq(Nat) /\ Len(f) = k /\ DOMAIN f = 1..k
      /\ \A i \in 1..k : f[i] \notin Range(refs)
  <2>1. \A i \in 1..k : f[i] \in Nat /\ f[i] \notin Range(refs)
    BY <1>3
  <2>2. f = [i \in 1..k |-> f[i]]
    BY <1>3
  <2> HIDE DEF new
  <2>3. f \in [1..k -> Nat]
    BY <2>1, <2>2
  <2> QED BY <2>1, <2>3
<1> HIDE DEF new
<1>6. more \in Seq(Nat) /\ DOMAIN more = 1..(l + k)
  <2>1. more \in Seq(Nat) /\ Len(more) = l + k
    BY <1>2, <1>4, <1>5, ConcatProperties
  <2> QED BY <2>1
<1>7. \A n \in 1..(l + k) : more[n] = IF n <= l THEN refs[n] ELSE f[n - l]
  BY <1>2, <1>4, <1>5, ConcatProperties
<1>8. ASSUME NEW a \in 1..(l + k), NEW b \in 1..(l + k), more[a] = more[b], a < b
      PROVE  FALSE
  <2>1. CASE b <= l
    BY <1>4, <1>7, <1>8, <2>1 DEF IsInjective
  <2>2. CASE a <= l /\ l < b
    <3>1. b - l \in 1..k /\ a \in DOMAIN refs
      BY <1>4, <2>2
    <3>2. more[b] = f[b - l] /\ more[a] \in Range(refs)
      BY <1>7, <2>2, <3>1 DEF Range
    <3> QED BY <1>5, <1>8, <3>1, <3>2
  <2>3. CASE l < a
    <3>1. a - l \in 1..k /\ b - l \in 1..k /\ a - l # b - l
      BY <1>8, <2>3
    <3> QED BY <1>3, <1>7, <1>8, <2>3, <3>1
  <2> QED BY <1>8, <2>1, <2>2, <2>3
<1>9. IsInjective(more)
  <2> SUFFICES ASSUME NEW a \in 1..(l + k), NEW b \in 1..(l + k), more[a] = more[b]
               PROVE  a = b
    BY <1>6 DEF IsInjective
  <2>1. a < b \/ b < a \/ a = b
    OBVIOUS
  <2> QED BY <1>8, <2>1
<1>10. ASSUME NEW n, NEW order, Refers(refs, n, order) PROVE Refers(more, n, order)
  <2>1. n \in 1..l /\ n \in 1..(l + k) /\ refs[n] = order
    BY <1>4, <1>10 DEF Refers
  <2> QED BY <1>6, <1>7, <2>1 DEF Refers
<1> QED BY <1>6, <1>9, <1>10

\* An injective map makes references and orders determine each other.
LEMMA ReferencesAgree ==
  ASSUME NEW refs \in Seq(Nat), IsInjective(refs), NEW n, NEW m, NEW x, NEW y,
         Refers(refs, n, x), Refers(refs, m, y)
  PROVE  n = m <=> x = y
BY DEF Refers, IsInjective


-----------------------------------------------------------------------------
(* The broker tools: which instrument, and how many *)

\* Of finite sets, one has no other of them within.
LEMMA LeastSubset ==
  ASSUME NEW T, \A x \in T : IsFiniteSet(x), T # {}
  PROVE  \E x \in T : \A y \in T : y \subseteq x => y = x
<1> DEFINE S == UNION T
<1>1. T \subseteq FiniteSubsetsOf(S)
  BY DEF FiniteSubsetsOf
<1>2. \E x \in T : \A y \in T : ~ (<<y, x>> \in StrictSubsetOrdering(S))
  BY <1>1, FS_StrictSubsetOrderingWellFounded, WFMin
<1>3. \A x, y \in T : y \subseteq x /\ y # x => <<y, x>> \in StrictSubsetOrdering(S)
  BY DEF StrictSubsetOrdering
<1> QED BY <1>2, <1>3

LEMMA OneOfIsIt ==
  ASSUME NEW S, NEW x \in Maybe(S), NEW v \in x, NEW default
  PROVE  OneOf(x, default) = v
BY DEF Maybe, OneOf

LEMMA OneOfTyped ==
  ASSUME NEW S, NEW x \in Maybe(S), NEW default \in S
  PROVE  OneOf(x, default) \in S
BY DEF Maybe, OneOf

\* An amount divided by a price, and rounded down.
LEMMA Affordable ==
  ASSUME NEW a \in Int, NEW p \in Nat, 0 < p
  PROVE  (a \div p) * p <= a /\ a < (a \div p + 1) * p
OBVIOUS

\* The candidates are in one order: no two are ahead of each other.
LEMMA BetterIsAnOrder ==
  ASSUME NEW q \in Query, RequestsAssumption
  PROVE  \A i, j, k \in Instruments :
               /\ ~ Better(q, i, i)
               /\ Better(q, i, j) /\ Better(q, j, k) => Better(q, i, k)
               /\ Better(q, i, j) => Score[q][j] <= Score[q][i]
<1>1. \A i \in Instruments : Score[q][i] \in Nat /\ i \in Nat
  BY DEF RequestsAssumption, Query
<1> QED BY <1>1 DEF Better

\* The instrument resolved has no rival, though the candidates are cut off first:
\* one that is cut off is behind one that is not.
LEMMA ResolvedHasNoRival ==
  ASSUME RequestsAssumption, NEW q \in Query, NEW limit \in Nat, 2 <= limit,
         NEW w \in Resolve(q, limit), NEW i \in Instruments, i # w, Score[q][i] >= MinScore
  PROVE  w \in Instruments /\ Score[q][i] + Margin <= Score[q][w]
<1> DEFINE C == RankCandidates(q)
           Seen == {j \in C : Cardinality(Ahead(q, j)) < limit}
           Line == {j \in C \ Seen : j = i \/ j \in Ahead(q, i)}
<1>1. /\ w \in Seen /\ i \in C /\ C \subseteq Instruments
      /\ \A j \in Seen \ {w} : Score[q][w] - Score[q][j] >= Margin
  BY DEF Resolve, RankCandidates
<1>2. /\ \A j \in Instruments : Score[q][j] \in Nat
      /\ Margin \in Nat /\ IsFiniteSet(C)
  <2>1. IsFiniteSet(Instruments)
    BY DEF RequestsAssumption
  <2> QED BY <1>1, <2>1, FS_Subset DEF RequestsAssumption, Query
<1>3. \A j \in C : Ahead(q, j) \in SUBSET C /\ IsFiniteSet(Ahead(q, j))
                   /\ Cardinality(Ahead(q, j)) \in Nat
  <2> SUFFICES ASSUME NEW j \in C
               PROVE  Ahead(q, j) \in SUBSET C /\ IsFiniteSet(Ahead(q, j))
                      /\ Cardinality(Ahead(q, j)) \in Nat
    OBVIOUS
  <2>1. Ahead(q, j) \in SUBSET C
    BY DEF Ahead
  <2> HIDE DEF C
  <2>2. IsFiniteSet(Ahead(q, j))
    BY <1>2, <2>1, FS_Subset
  <2> QED BY <2>1, <2>2, FS_CardinalityType
<1>4. CASE i \in Seen
  <2>1. w \in Instruments /\ i \in Seen \ {w}
    BY <1>1, <1>4
  <2> HIDE DEF C, Seen, Line
  <2>2. Score[q][w] - Score[q][i] >= Margin
    BY <1>1, <2>1
  <2>3. Score[q][w] \in Nat /\ Score[q][i] \in Nat /\ Margin \in Nat
    BY <1>2, <2>1
  <2> QED BY <2>1, <2>2, <2>3
<1>5. CASE i \notin Seen
  <2>1. PICK m \in Line : \A j \in Line : Ahead(q, j) \subseteq Ahead(q, m)
                                          => Ahead(q, j) = Ahead(q, m)
    <3> DEFINE T == {Ahead(q, j) : j \in Line}
    <3>1. i \in Line
      BY <1>1, <1>5
    <3>2. T # {} /\ \A x \in T : IsFiniteSet(x)
      BY <1>3, <3>1
    <3>3. \E x \in T : \A y \in T : y \subseteq x => y = x
      <4> HIDE DEF T
      <4> QED BY <3>2, LeastSubset
    <3>4. PICK m \in Line : \A y \in T : y \subseteq Ahead(q, m) => y = Ahead(q, m)
      BY <3>3
    <3>5. \A j \in Line : Ahead(q, j) \in T
      OBVIOUS
    <3> HIDE DEF T, Line
    <3> QED BY <3>4, <3>5
  <2>2. m \in C /\ m \notin Seen /\ Score[q][i] <= Score[q][m]
    <3>1. m \in C /\ m \notin Seen /\ (m = i \/ m \in Ahead(q, i))
      OBVIOUS
    <3>2. m \in Instruments /\ (m = i \/ Better(q, m, i))
      BY <1>1, <3>1 DEF Ahead
    <3>3. Better(q, m, i) => Score[q][i] <= Score[q][m]
      BY <3>2, BetterIsAnOrder
    <3> QED BY <1>2, <3>1, <3>2, <3>3
  <2>3. \A j \in Ahead(q, m) : j \in Seen
    <3> SUFFICES ASSUME NEW j \in Ahead(q, m), j \notin Seen PROVE FALSE
      OBVIOUS
    <3>1. j \in C /\ Better(q, j, m)
      BY DEF Ahead
    <3>2. j \in Line
      BY <1>1, <2>1, <3>1, BetterIsAnOrder DEF Ahead
    <3>3. Ahead(q, j) \subseteq Ahead(q, m)
      BY <1>1, <2>2, <3>1, BetterIsAnOrder DEF Ahead
    <3>4. j \notin Ahead(q, j)
      BY <1>1, <3>1, BetterIsAnOrder DEF Ahead
    <3> QED BY <2>1, <3>2, <3>3, <3>4
  <2>4. PICK j \in Ahead(q, m) : j # w
    <3> SUFFICES ASSUME Ahead(q, m) \subseteq {w} PROVE FALSE
      OBVIOUS
    <3>1. IsFiniteSet({w}) /\ Cardinality({w}) = 1
      BY FS_Singleton
    <3>2. Cardinality(Ahead(q, m)) <= 1
      BY <3>1, FS_Subset
    <3> QED BY <1>3, <2>2, <3>2
  <2>5. j \in C /\ Score[q][m] <= Score[q][j]
    BY <1>1, <2>2, BetterIsAnOrder DEF Ahead
  <2>6. Score[q][w] - Score[q][j] >= Margin
    BY <1>1, <2>3, <2>4
  <2>7. {w, i, j, m} \subseteq Instruments
    BY <1>1, <2>2, <2>5
  <2> HIDE DEF C, Seen, Line
  <2>8. {Score[q][w], Score[q][i], Score[q][j], Score[q][m], Margin} \subseteq Nat
    BY <1>2, <2>7
  <2>9. Score[q][i] + Margin <= Score[q][w]
    BY <2>2, <2>5, <2>6, <2>8
  <2> QED BY <2>7, <2>9
<1> QED BY <1>1, <1>4, <1>5


\* What an order's quantity is, when it was asked for as an amount at a limit.
LEMMA AmountsAreAffordable ==
  ASSUME RequestsAssumption, NEW r \in Requests, NEW offered, ~ SizeRefused(r, offered),
         NEW a \in r.amount, NEW p \in r.limit, r.type \in LimitTypes
  PROVE  /\ ResolveQuantity(r, offered) * p <= a
         /\ a < (ResolveQuantity(r, offered) + 1) * p
<1>1. r.amount \in Maybe(Int) /\ r.limit \in Maybe(Int) /\ a \in Int /\ p \in Int
  BY DEF RequestsAssumption, Request, Maybe
<1>2. ExplicitSizingPrice(r) = r.limit
  BY DEF ExplicitSizingPrice
<1>3. SizingPrice(r, offered) = p /\ OneOf(r.amount, 0) = a
  BY <1>1, <1>2, OneOfIsIt DEF SizingPrice
<1>4. r.amount # {} /\ r.quantity = {}
  BY DEF SizeRefused
<1>5. ~ (p <= 0)
  BY <1>3, <1>4 DEF SizeRefused
<1>6. ResolveQuantity(r, offered) = a \div p /\ p \in Nat /\ 0 < p
  BY <1>1, <1>3, <1>4, <1>5 DEF ResolveQuantity
<1> QED BY <1>1, <1>6, Affordable

\* What broker_prepare_order_action makes of a request.
LEMMA PreparedAsAsked ==
  ASSUME RequestsAssumption, provider \in {"trading212", "alpaca"}, NEW r \in Requests,
         NEW offered \in Quotes \cup {NoQuote},
         ~ SizeRefused(r, offered), NEW instrument \in InstrumentsFor(provider, r),
         NEW offer, offer = [kind |-> "submit", request |-> r, instrument |-> instrument,
                             side |-> r.side, quantity |-> ResolveQuantity(r, offered),
                             done |-> FALSE]
  PROVE  offer \in SubmitAction /\ AsAsked(offer)
<1>1. r \in Request /\ offered.price \in Int
  BY DEF RequestsAssumption, NoQuote
<1>2. instrument \in Query \cup Instruments
  BY <1>1 DEF InstrumentsFor, ResolveOrderInstrument, Resolve, RankCandidates, Request
<1>3. ResolveQuantity(r, offered) \in Int
  <2>1. CASE r.quantity # {}
    BY <1>1, <2>1, OneOfTyped DEF ResolveQuantity, Request
  <2>2. CASE r.quantity = {}
    <3>1. r.amount # {} /\ ~ (SizingPrice(r, offered) <= 0)
      BY <2>2 DEF SizeRefused
    <3>2. ExplicitSizingPrice(r) \in Maybe(Int)
      BY <1>1 DEF ExplicitSizingPrice, Request, Maybe
    <3>3. SizingPrice(r, offered) \in Int /\ OneOf(r.amount, 0) \in Int
      BY <1>1, <3>2, OneOfTyped DEF SizingPrice, Request
    <3> QED BY <2>2, <3>1, <3>3 DEF ResolveQuantity
  <2> QED BY <2>1, <2>2
<1>4. offer \in SubmitAction
  BY <1>1, <1>2, <1>3 DEF SubmitAction, Request
<1>5. ASSUME provider = "trading212", NEW i \in Instruments \ {instrument},
             Score[r.query][i] >= MinScore
      PROVE  Score[r.query][i] + Margin <= Score[r.query][instrument]
  <2>1. instrument \in Resolve(r.query, 8) /\ r.query \in Query
    BY <1>1, <1>5 DEF InstrumentsFor, ResolveOrderInstrument, Request
  <2>2. i \in Instruments /\ i # instrument
    OBVIOUS
  <2>3. Score[r.query][i] >= MinScore
    BY <1>5
  <2>4. \A q \in Query : \A x \in Resolve(q, 8) : \A j \in Instruments :
           j # x /\ Score[q][j] >= MinScore => Score[q][j] + Margin <= Score[q][x]
    BY RequestsAssumption, ResolvedHasNoRival
  <2> QED BY <2>1, <2>2, <2>3, <2>4
<1>6. ASSUME NEW a \in r.amount, NEW p \in r.limit, r.type \in LimitTypes
      PROVE  ResolveQuantity(r, offered) * p <= a /\ a < (ResolveQuantity(r, offered) + 1) * p
  BY <1>6, AmountsAreAffordable
<1> QED BY <1>4, <1>5, <1>6 DEF AsAsked

-----------------------------------------------------------------------------
(* The broker tools: every step keeps the invariant *)

LEMMA CancelsAgree ==
  ASSUME OrderTypeOK', Referred', CancelsWhatWasShown,
         NEW seen, NEW added, shown' = shown \cup seen, offers' = offers \cup added,
         interaction' = interaction,
         \A x \in seen : x.interaction = interaction,
         \A offer \in added : offer.interaction = interaction /\ offer.kind = "cancel"
  PROVE  CancelsWhatWasShown'
<1>1. ASSUME NEW x \in shown', NEW y \in shown', x.interaction = y.interaction
      PROVE  x.ref = y.ref <=> x.order = y.order
  <2>1. CASE x.interaction = interaction
    <3>1. /\ Refers(references', x.ref, x.order) /\ Refers(references', y.ref, y.order)
          /\ references' \in Seq(Nat) /\ IsInjective(references')
      BY <1>1, <2>1 DEF OrderTypeOK, Referred
    <3> QED BY <3>1, ReferencesAgree
  <2>2. CASE x.interaction # interaction
    BY <1>1, <2>2 DEF CancelsWhatWasShown
  <2> QED BY <2>1, <2>2
<1>2. ASSUME NEW offer \in offers', offer.kind = "cancel", NEW x \in shown',
             x.interaction = offer.interaction, x.ref \in offer.ref
      PROVE  x.order = offer.order
  <2>1. CASE x.interaction = interaction
    <3>1. Refers(references', x.ref, x.order) /\ Refers(references', x.ref, offer.order)
      BY <1>2, <2>1 DEF Referred
    <3> QED BY <3>1 DEF Refers
  <2>2. CASE x.interaction # interaction
    BY <1>2, <2>2 DEF CancelsWhatWasShown
  <2> QED BY <2>1, <2>2
<1> QED BY <1>1, <1>2 DEF CancelsWhatWasShown

\* A look at some orders: what is shown of them, and a cancellation prepared, are
\* under references the map has.
LEMMA LookKeeps ==
  ASSUME OrderInv, NEW orders \in SUBSET Nat, IsFiniteSet(orders),
         references' \in Register(references, orders),
         NEW targets, NEW added, shown' = shown \cup Shown(references', targets),
         offers' = offers \cup added,
         \A offer \in added :
            /\ offer \in CancelAction /\ offer.interaction = interaction
            /\ \A n \in offer.ref : Refers(references, n, offer.order),
         UNCHANGED <<provider, pending, placed, interaction>>
  PROVE  OrderInv'
<1> DEFINE seen == Shown(references', targets)
<1>1. /\ references' \in Seq(Nat) /\ IsInjective(references')
      /\ \A n, order : Refers(references, n, order) => Refers(references', n, order)
  BY RegisterAdds DEF OrderInv, OrderTypeOK, Referred
<1>2. \A x \in seen :
         /\ x \in [interaction : Nat, ref : Nat, order : Nat]
         /\ x.interaction = interaction /\ Refers(references', x.ref, x.order)
  BY <1>1 DEF Shown, Refers, OrderInv, OrderTypeOK
<1> HIDE DEF seen
<1>3. \A offer \in added : offer.kind = "cancel" /\ offer.interaction = interaction
  BY DEF CancelAction
<1>4. OrderTypeOK'
  BY <1>1, <1>2 DEF OrderInv, OrderTypeOK, seen
<1>5. Referred'
  <2>1. interaction \in Nat /\ interaction' = interaction
    BY DEF OrderInv, OrderTypeOK
  <2>2. \A x \in shown' :
           /\ x.interaction <= interaction
           /\ x.interaction = interaction => Refers(references', x.ref, x.order)
    BY <1>1, <1>2, <2>1 DEF OrderInv, Referred, seen
  <2>3. \A offer \in offers' : offer.kind = "cancel" =>
           /\ offer.interaction <= interaction
           /\ offer.interaction = interaction =>
                 \A n \in offer.ref : Refers(references', n, offer.order)
    BY <1>1, <1>3, <2>1 DEF OrderInv, Referred
  <2> QED BY <1>1, <2>1, <2>2, <2>3 DEF Referred
<1>6. CancelsWhatWasShown'
  BY <1>2, <1>3, <1>4, <1>5, CancelsAgree DEF OrderInv, seen
<1>7. \A offer \in offers' : offer.kind = "submit" => AsAsked(offer)'
  BY <1>3 DEF OrderInv, AsAsked
<1> QED BY <1>4, <1>5, <1>6, <1>7 DEF OrderInv


LEMMA PendingAreFinite ==
  ASSUME OrderTypeOK PROVE pending \in SUBSET Nat /\ IsFiniteSet(pending)
<1>1. placed \in Nat /\ pending \in SUBSET (1..placed)
  BY DEF OrderTypeOK
<1>2. IsFiniteSet(1..placed)
  BY <1>1, FS_Interval
<1>3. IsFiniteSet(pending)
  BY <1>1, <1>2, FS_Subset
<1> QED BY <1>1, <1>3

LEMMA LookAlone ==
  ASSUME OrderInv, NEW orders \in SUBSET Nat, IsFiniteSet(orders),
         references' \in Register(references, orders),
         NEW targets, shown' = shown \cup Shown(references', targets),
         UNCHANGED <<provider, pending, placed, interaction, offers>>
  PROVE  OrderInv'
<1> DEFINE added == {}
<1>1. /\ offers' = offers \cup added
      /\ \A offer \in added :
            /\ offer \in CancelAction /\ offer.interaction = interaction
            /\ \A n \in offer.ref : Refers(references, n, offer.order)
  OBVIOUS
<1> HIDE DEF added
<1> QED BY <1>1, LookKeeps

LEMMA NothingShown ==
  ASSUME NEW refs PROVE Shown(refs, {}) = {}
BY DEF Shown

\* broker_prepare_cancel_action, whichever way its target was given.
LEMMA CancelPrepared ==
  ASSUME OrderInv, NEW ref \in SUBSET Nat, NEW targets,
         \A order \in targets : order \in Nat /\ \A n \in ref : Refers(references, n, order),
         PrepareCancelAction(ref, targets)
  PROVE  OrderInv'
<1>1. /\ references' \in Register(references, pending)
      /\ UNCHANGED <<provider, pending, placed, interaction>>
  BY DEF PrepareCancelAction
<1>2. pending \in SUBSET Nat /\ IsFiniteSet(pending) /\ interaction \in Nat
  BY PendingAreFinite DEF OrderInv, OrderTypeOK
<1>3. CASE targets = {} /\ UNCHANGED <<offers, shown>>
  <2>1. shown' = shown \cup Shown(references', {}) /\ offers' = offers \cup {}
    BY <1>3, NothingShown
  <2> QED BY <1>1, <1>2, <2>1, LookKeeps
<1>4. ASSUME NEW order \in targets, offers' = offers \cup {CancelOffer(ref, order)},
             shown' = shown \cup Shown(references', {order})
      PROVE  OrderInv'
  <2> DEFINE added == {CancelOffer(ref, order)}
  <2>1. \A offer \in added :
           /\ offer \in CancelAction /\ offer.interaction = interaction
           /\ \A n \in offer.ref : Refers(references, n, offer.order)
    <3> DEFINE new == CancelOffer(ref, order)
    <3>1. order \in Nat /\ \A n \in ref : Refers(references, n, order)
      OBVIOUS
    <3>2. new \in CancelAction
      BY <1>2, <3>1 DEF CancelOffer, CancelAction
    <3>3. new.interaction = interaction /\ new.ref = ref /\ new.order = order
      BY DEF CancelOffer
    <3> HIDE DEF new
    <3> QED BY <3>1, <3>2, <3>3 DEF new
  <2>2. \A n, o : Refers(references, n, o) => Refers(references', n, o)
    BY <1>1, <1>2, RegisterAdds DEF OrderInv, OrderTypeOK, Referred
  <2>3. \A offer \in added :
           /\ offer \in CancelAction /\ offer.interaction = interaction
           /\ \A n \in offer.ref : Refers(references', n, offer.order)
    BY <2>1, <2>2
  <2>4. offers' = offers \cup added
    BY <1>4
  <2> HIDE DEF added
  <2> QED BY <1>1, <1>2, <1>4, <2>1, <2>4, LookKeeps
<1> QED BY <1>3, <1>4 DEF PrepareCancelAction

\* The orders at the broker come and go, and an action prepared is carried out.
LEMMA BrokerMoves ==
  ASSUME OrderInv, NEW doing \in SUBSET offers,
         offers' = (offers \ doing) \cup {[offer EXCEPT !.done = TRUE] : offer \in doing},
         placed' \in 0..MaxPlaced, pending' \subseteq 1..placed',
         UNCHANGED <<provider, interaction, references, shown>>
  PROVE  OrderInv'
<1>1. \A offer \in CancelAction \cup SubmitAction :
         /\ [offer EXCEPT !.done = TRUE] \in CancelAction \cup SubmitAction
         /\ [offer EXCEPT !.done = TRUE].kind = offer.kind
  BY DEF CancelAction, SubmitAction
<1>2. \A offer \in CancelAction :
         /\ [offer EXCEPT !.done = TRUE].interaction = offer.interaction
         /\ [offer EXCEPT !.done = TRUE].ref = offer.ref
         /\ [offer EXCEPT !.done = TRUE].order = offer.order
  BY DEF CancelAction
<1>3. \A offer \in SubmitAction :
         /\ [offer EXCEPT !.done = TRUE].request = offer.request
         /\ [offer EXCEPT !.done = TRUE].instrument = offer.instrument
         /\ [offer EXCEPT !.done = TRUE].quantity = offer.quantity
  BY DEF SubmitAction
<1>4. \A new \in offers' : \E offer \in offers :
         /\ new \in CancelAction \cup SubmitAction /\ new.kind = offer.kind
         /\ new.kind = "cancel" => /\ new.interaction = offer.interaction
                                   /\ new.ref = offer.ref /\ new.order = offer.order
         /\ new.kind = "submit" => /\ new.request = offer.request
                                   /\ new.instrument = offer.instrument
                                   /\ new.quantity = offer.quantity
  <2> SUFFICES ASSUME NEW new \in offers' PROVE
        \E offer \in offers :
         /\ new \in CancelAction \cup SubmitAction /\ new.kind = offer.kind
         /\ new.kind = "cancel" => /\ new.interaction = offer.interaction
                                   /\ new.ref = offer.ref /\ new.order = offer.order
         /\ new.kind = "submit" => /\ new.request = offer.request
                                   /\ new.instrument = offer.instrument
                                   /\ new.quantity = offer.quantity
    OBVIOUS
  <2>1. offers \subseteq CancelAction \cup SubmitAction
    BY DEF OrderInv, OrderTypeOK
  <2>2. CASE new \in offers
    BY <2>1, <2>2
  <2>3. ASSUME NEW offer \in doing, new = [offer EXCEPT !.done = TRUE]
        PROVE  \E o \in offers :
                 /\ new \in CancelAction \cup SubmitAction /\ new.kind = o.kind
                 /\ new.kind = "cancel" => /\ new.interaction = o.interaction
                                           /\ new.ref = o.ref /\ new.order = o.order
                 /\ new.kind = "submit" => /\ new.request = o.request
                                           /\ new.instrument = o.instrument
                                           /\ new.quantity = o.quantity
    <3>1. offer \in offers /\ offer \in CancelAction \cup SubmitAction
      BY <2>1
    <3>2. /\ offer \in CancelAction => offer.kind # "submit"
          /\ offer \in SubmitAction => offer.kind # "cancel"
      BY DEF CancelAction, SubmitAction
    <3> QED BY <1>1, <1>2, <1>3, <2>3, <3>1, <3>2
  <2> QED BY <2>2, <2>3
<1>5. OrderTypeOK'
  BY <1>4 DEF OrderInv, OrderTypeOK
<1>6. Referred'
  BY <1>4 DEF OrderInv, Referred
<1>7. CancelsWhatWasShown'
  BY <1>4 DEF OrderInv, CancelsWhatWasShown
<1>8. \A new \in offers' : new.kind = "submit" => AsAsked(new)'
  BY <1>4 DEF OrderInv, AsAsked
<1> QED BY <1>5, <1>6, <1>7, <1>8 DEF OrderInv


LEMMA OrderStep ==
  ASSUME RequestsAssumption, OrderInv, [OrderNext]_orderVars PROVE OrderInv'
<1>1. /\ pending \in SUBSET Nat /\ IsFiniteSet(pending) /\ placed \in 0..MaxPlaced
      /\ pending \subseteq 1..placed /\ MaxPlaced \in Nat /\ interaction \in Nat
  BY PendingAreFinite DEF OrderInv, OrderTypeOK, RequestsAssumption
<1>2. CASE NextInteraction
  <2>1. /\ interaction' = interaction + 1 /\ references' = <<>>
        /\ UNCHANGED <<provider, pending, placed, shown, offers>>
    BY <1>2 DEF NextInteraction
  <2>2. /\ \A x \in shown : x.interaction \in Nat /\ x.interaction <= interaction
        /\ \A offer \in offers : offer.kind = "cancel" =>
              offer.interaction \in Nat /\ offer.interaction <= interaction
    BY DEF OrderInv, OrderTypeOK, Referred, CancelAction, SubmitAction
  <2>3. /\ \A x \in shown : x.interaction <= interaction + 1 /\ x.interaction # interaction + 1
        /\ \A offer \in offers : offer.kind = "cancel" =>
              offer.interaction <= interaction + 1 /\ offer.interaction # interaction + 1
    BY <1>1, <2>2
  <2>4. OrderTypeOK'
    BY <1>1, <2>1 DEF OrderInv, OrderTypeOK
  <2>5. Referred'
    BY <2>1, <2>3 DEF Referred, IsInjective
  <2>6. CancelsWhatWasShown'
    BY <2>1 DEF OrderInv, CancelsWhatWasShown
  <2> QED BY <2>1, <2>4, <2>5, <2>6 DEF OrderInv, AsAsked
<1>3. CASE ListPendingOrders
  <2>1. /\ references' \in Register(references, pending)
        /\ shown' = shown \cup Shown(references', pending)
        /\ UNCHANGED <<provider, pending, placed, interaction, offers>>
    BY <1>3 DEF ListPendingOrders
  <2>2. pending \in SUBSET Nat /\ IsFiniteSet(pending)
    BY <1>1
  <2> QED BY <2>1, <2>2, LookAlone
<1>4. ASSUME NEW order \in 1..placed, GetOrder(order) PROVE OrderInv'
  <2>1. /\ references' \in Register(references, {order})
        /\ shown' = shown \cup Shown(references', {order})
        /\ UNCHANGED <<provider, pending, placed, interaction, offers>>
    BY <1>4 DEF GetOrder
  <2>2. {order} \in SUBSET Nat
    BY <1>1
  <2>3. IsFiniteSet({order})
    BY FS_Singleton
  <2> QED BY <2>1, <2>2, <2>3, LookAlone
<1>5. CASE PrepareCancel
  <2>1. ASSUME NEW ref \in 1..MaxPlaced, ref \in DOMAIN references,
               PrepareCancelAction({ref}, TargetsByRef(ref))
        PROVE  OrderInv'
    <3>1. \A order \in TargetsByRef(ref) :
             order \in Nat /\ \A n \in {ref} : Refers(references, n, order)
      BY <1>1 DEF TargetsByRef, Refers
    <3>2. {ref} \in SUBSET Nat
      BY <1>1
    <3> QED BY <2>1, <3>1, <3>2, CancelPrepared
  <2>2. ASSUME NEW targets \in SUBSET pending, PrepareCancelAction({}, targets)
        PROVE  OrderInv'
    <3>1. \A order \in targets : order \in Nat /\ \A n \in {} : Refers(references, n, order)
      BY <1>1
    <3>2. {} \in SUBSET Nat
      OBVIOUS
    <3> QED BY <2>2, <3>1, <3>2, CancelPrepared
  <2>3. \A order \in pending : {order} \in SUBSET pending
    OBVIOUS
  <2>4. \A selector : TargetsBySelector(selector) \in SUBSET pending
    BY DEF TargetsBySelector
  <2> QED BY <1>5, <2>1, <2>2, <2>3, <2>4 DEF PrepareCancel
<1>6. ASSUME NEW r \in Requests, PrepareOrderAction(r) PROVE OrderInv'
  <2>1. PICK offered \in Quotes \cup {NoQuote} :
           /\ ~ SizeRefused(r, offered)
           /\ \E instrument \in InstrumentsFor(provider, r) :
                 offers' = offers \cup
                    {[kind |-> "submit", request |-> r, instrument |-> instrument,
                      side |-> r.side, quantity |-> ResolveQuantity(r, offered),
                      done |-> FALSE]}
    BY <1>6 DEF PrepareOrderAction
  <2>2. PICK instrument \in InstrumentsFor(provider, r) :
           offers' = offers \cup
              {[kind |-> "submit", request |-> r, instrument |-> instrument,
                side |-> r.side, quantity |-> ResolveQuantity(r, offered),
                done |-> FALSE]}
    BY <2>1
  <2>3. PICK new : /\ offers' = offers \cup {new} /\ new.kind = "submit"
                   /\ new \in SubmitAction /\ AsAsked(new)
    BY <2>1, <2>2, PreparedAsAsked DEF OrderInv, OrderTypeOK
  <2>4. UNCHANGED <<provider, pending, placed, interaction, references, shown>>
    BY <1>6 DEF PrepareOrderAction
  <2>5. OrderTypeOK'
    BY <2>3, <2>4 DEF OrderInv, OrderTypeOK
  <2>6. Referred' /\ CancelsWhatWasShown'
    BY <2>3, <2>4 DEF OrderInv, Referred, CancelsWhatWasShown
  <2>7. \A offer \in offers' : offer.kind = "submit" => AsAsked(offer)'
    BY <2>3, <2>4 DEF OrderInv, AsAsked
  <2> QED BY <2>5, <2>6, <2>7 DEF OrderInv
<1>7. ASSUME NEW offer \in offers, offers' = Done(offer), placed' \in 0..MaxPlaced,
             pending' \subseteq 1..placed',
             UNCHANGED <<provider, interaction, references, shown>>
      PROVE  OrderInv'
  <2>1. {offer} \in SUBSET offers
    OBVIOUS
  <2>2. {[o EXCEPT !.done = TRUE] : o \in {offer}} = {[offer EXCEPT !.done = TRUE]}
    OBVIOUS
  <2>3. offers' = (offers \ {offer}) \cup {[o EXCEPT !.done = TRUE] : o \in {offer}}
    BY <1>7, <2>2 DEF Done
  <2> QED BY <1>7, <2>1, <2>3, BrokerMoves
<1>8. ASSUME NEW offer \in offers, CancelOrder(offer) \/ SubmitPreparedOrder(offer)
      PROVE  OrderInv'
  <2>1. CASE CancelOrder(offer)
    <3>1. placed' \in 0..MaxPlaced /\ pending' \subseteq 1..placed'
      BY <1>1, <2>1 DEF CancelOrder
    <3>2. /\ offers' = Done(offer)
          /\ UNCHANGED <<provider, interaction, references, shown>>
      BY <2>1 DEF CancelOrder
    <3> QED BY <1>7, <3>1, <3>2
  <2>2. CASE SubmitPreparedOrder(offer)
    <3>1. \/ UNCHANGED <<placed, pending>>
          \/ placed < MaxPlaced /\ placed' = placed + 1 /\ pending' = pending \cup {placed'}
      BY <2>2 DEF SubmitPreparedOrder
    <3>2. placed' \in 0..MaxPlaced /\ pending' \subseteq 1..placed'
      <4>1. CASE UNCHANGED <<placed, pending>>
        BY <1>1, <4>1
      <4>2. CASE /\ placed < MaxPlaced /\ placed' = placed + 1
                 /\ pending' = pending \cup {placed'}
        <5>1. PICK n \in 0..MaxPlaced : n = placed
          BY <1>1
        <5>2. n + 1 \in 0..MaxPlaced /\ \A o \in 1..n : o \in 1..(n + 1)
          BY <1>1, <4>2, <5>1
        <5>3. placed' = n + 1 /\ pending \subseteq 1..n /\ n + 1 \in 1..(n + 1)
          BY <1>1, <4>2, <5>1
        <5> QED BY <4>2, <5>2, <5>3
      <4> QED BY <3>1, <4>1, <4>2
    <3>3. /\ offers' = Done(offer)
          /\ UNCHANGED <<provider, interaction, references, shown>>
      BY <2>2 DEF SubmitPreparedOrder
    <3> QED BY <1>7, <3>2, <3>3
  <2> QED BY <1>8, <2>1, <2>2
<1>9. offers' = offers => offers' = (offers \ {}) \cup {[o EXCEPT !.done = TRUE] : o \in {}}
  OBVIOUS
<1>10. CASE OrderAppears
  <2>1. /\ placed' \in 0..MaxPlaced /\ pending' \subseteq 1..placed'
        /\ offers' = (offers \ {}) \cup {[o EXCEPT !.done = TRUE] : o \in {}}
        /\ UNCHANGED <<provider, interaction, references, shown>>
    BY <1>1, <1>9, <1>10 DEF OrderAppears
  <2> QED BY <2>1, BrokerMoves
<1>11. ASSUME NEW order \in pending, OrderLeaves(order) PROVE OrderInv'
  <2>1. /\ placed' \in 0..MaxPlaced /\ pending' \subseteq 1..placed'
        /\ offers' = (offers \ {}) \cup {[o EXCEPT !.done = TRUE] : o \in {}}
        /\ UNCHANGED <<provider, interaction, references, shown>>
    BY <1>1, <1>9, <1>11 DEF OrderLeaves
  <2> QED BY <2>1, BrokerMoves
<1>12. CASE UNCHANGED orderVars
  BY <1>12 DEF orderVars, OrderInv, OrderTypeOK, Referred, CancelsWhatWasShown, AsAsked
<1> QED BY <1>2, <1>3, <1>4, <1>5, <1>6, <1>8, <1>10, <1>11, <1>12 DEF OrderNext

LEMMA OrderStart ==
  ASSUME RequestsAssumption, OrderInit PROVE OrderInv
<1>1. MaxPlaced \in Nat \ {0} /\ placed \in 0..(MaxPlaced - 1) /\ pending = 1..placed
  BY DEF RequestsAssumption, OrderInit
<1>2. OrderTypeOK
  BY <1>1 DEF OrderInit, OrderTypeOK
<1> QED BY <1>2 DEF OrderInit, OrderInv, Referred, CancelsWhatWasShown, IsInjective

\* Within an interaction a public reference and an order determine each other,
\* however the orders come, go and are listed (BrokerReferenceMap), and a
\* cancellation asked for by a reference is for the order shown under it.
THEOREM CancellationsAreAsShown == OrderSpec => []CancelsWhatWasShown
<1>1. OrderInit => OrderInv
  BY OrderStart, RequestsAssumption
<1>2. OrderInv /\ [OrderNext]_orderVars => OrderInv'
  BY OrderStep, RequestsAssumption
<1>3. OrderInv => CancelsWhatWasShown
  BY DEF OrderInv
<1> QED BY <1>1, <1>2, <1>3, PTL DEF OrderSpec

\* An order prepared is for an instrument without a rival in the catalogue, though
\* the candidates are cut off at a limit (resolve_trading212_instrument), and one
\* asked for as an amount at a limit costs no more than that, and no share less
\* than it could (_resolve_notional_quantity).
THEOREM OrdersAreAsAsked == OrderSpec => [](OrderTypeOK /\ OffersAreAsAsked)
<1>1. OrderInit => OrderInv
  BY OrderStart, RequestsAssumption
<1>2. OrderInv /\ [OrderNext]_orderVars => OrderInv'
  BY OrderStep, RequestsAssumption
<1>3. OrderInv => OrderTypeOK /\ OffersAreAsAsked
  BY DEF OrderInv, OffersAreAsAsked, AsAsked
<1> QED BY <1>1, <1>2, <1>3, PTL DEF OrderSpec


-----------------------------------------------------------------------------
(* The scheduler's tools: what a creator lets pass, an adapter can run *)

\* The process is what its form was made into at some instant, and whatever was
\* proposed on behalf of it is within that form.
FiledAs(t) ==
    /\ form \in Forms /\ ~ CreatorRefuses(form, t)
    /\ entry = [status |-> entry.status, spec |-> SpecOf(form, t), next |-> entry.next]
    /\ entry.status # "absent"
Within(f, o) ==
    /\ o.ticker \in f.symbols \cup f.symbol
    /\ o.side \in f.sides /\ o.type \in f.types
    /\ o.extended => f.extended
    /\ Cardinality(o.quantity) + Cardinality(o.notional) = 1
    /\ \A q \in o.quantity : q > 0 /\ \E m \in f.quantity : q <= m
    /\ \A n \in o.notional : n > 0 /\ \E m \in f.notional : n <= m
    /\ o.notional # {} => o.currency = f.currency
ScheduleInv ==
    /\ entry # NoEntry => \E t : FiledAs(t)
    /\ entry = NoEntry => proposed = {}
    /\ ProposalsAreWithinForm

LEMMA FormsByTool ==
  ASSUME NEW f, IsForm(f)
  PROVE  /\ f.tool = "instrument_monitor" => f \in InstrumentForm
         /\ f.tool = "company_event_analyst" => f \in CompanyForm
         /\ f.tool = "market_regime_monitor" => f \in RegimeForm
         /\ f.tool = "market_signal_capture" => f \in CaptureForm
         /\ f.tool = "alpaca_news_monitor" => f \in NewsForm
         /\ f.tool = "trade_setup_monitor" => f \in SetupForm
         /\ f.tool \in {"instrument_monitor", "company_event_analyst",
                        "market_regime_monitor", "market_signal_capture",
                        "alpaca_news_monitor", "trade_setup_monitor"}
BY DEF IsForm, InstrumentForm, CompanyForm, RegimeForm, CaptureForm, NewsForm, SetupForm

\* A setup that may propose has the policy of its form.
LEMMA SetupSpec ==
  ASSUME NEW f, NEW t, f.tool = "trade_setup_monitor"
  PROVE  SpecOf(f, t) =
           [kind |-> f.tool, mode |-> "llm_assisted", schedule |-> Polling(f, DefaultPoll),
            completion |-> "complete_on_first_match", expires |-> ExpiresAt(f, t),
            target |-> [trigger |-> Trigger(f), propose |-> f.propose,
                        policy |-> IF f.propose THEN {OrderPolicy(f)} ELSE {},
                        chats |-> IF f.propose THEN f.chats ELSE {}]]
BY DEF SpecOf, Spec

LEMMA SpecKind ==
  ASSUME NEW f, NEW t, IsForm(f) PROVE SpecOf(f, t).kind = f.tool
<1>1. CASE f.tool = "company_event_analyst"
  <2>1. f.schedule = "one_shot" \/ f.schedule = "recurring"
    BY <1>1, FormsByTool DEF CompanyForm
  <2> QED BY <1>1, <2>1 DEF SpecOf, Spec
<1>2. CASE f.tool # "company_event_analyst"
  BY <1>2, FormsByTool DEF SpecOf, Spec
<1> QED BY <1>1, <1>2

\* What NotPositive says of a value is the same for a creator and an adapter.
LEMMA SetupRuns ==
  ASSUME NEW f \in SetupForm, NEW t, ~ CreatorRefuses(f, t)
  PROVE  ~ AdapterRefuses(SpecOf(f, t))
<1> DEFINE policy == OrderPolicy(f)
           target == [trigger |-> Trigger(f), propose |-> f.propose,
                      policy |-> IF f.propose THEN {policy} ELSE {},
                      chats |-> IF f.propose THEN f.chats ELSE {}]
<1>1. f.tool = "trade_setup_monitor" /\ ~ SetupRefused(f)
  BY DEF SetupForm, CreatorRefuses
<1>2. SpecOf(f, t).kind = "trade_setup_monitor" /\ SpecOf(f, t).mode = "llm_assisted"
      /\ SpecOf(f, t).schedule.type = "polling" /\ SpecOf(f, t).target = target
  BY <1>1, SetupSpec DEF Polling
<1>3. ~ TriggerIsInvalid(target.trigger)
  BY <1>1 DEF SetupRefused, TriggerRefused, TriggerIsInvalid, Trigger
<1>4. ASSUME f.propose PROVE ~ PolicyIsInvalid(policy) /\ target.chats # {}
                             /\ target.trigger.symbol \subseteq policy.symbols
  <2>1. ~ PolicyRefused(f) /\ f.symbol # {}
    BY <1>1, <1>4 DEF SetupRefused, TriggerRefused
  <2>2. policy.symbols # {} /\ policy.sides # {} /\ policy.types # {}
    BY <2>1 DEF OrderPolicy, PolicySymbols, PolicyRefused
  <2>3. /\ policy.quantity \cup policy.notional # {}
        /\ ~ NotPositive(policy.quantity) /\ ~ NotPositive(policy.notional)
        /\ policy.notional # {} => policy.currency # {}
    BY <2>1 DEF OrderPolicy, PolicyRefused, NotPositive
  <2>4. f.symbol \subseteq policy.symbols
    BY DEF OrderPolicy, PolicySymbols
  <2>5. f.chats # {}
    BY <2>1 DEF PolicyRefused
  <2> QED BY <1>4, <2>2, <2>3, <2>4, <2>5 DEF PolicyIsInvalid, Trigger
<1>5. ~ SetupIsInvalid(target)
  BY <1>3, <1>4 DEF SetupIsInvalid
<1> HIDE DEF target
<1> QED BY <1>2, <1>5 DEF AdapterRefuses, NotAsScheduled

LEMMA RegimeRuns ==
  ASSUME NEW f \in RegimeForm, NEW t, ~ CreatorRefuses(f, t)
  PROVE  ~ AdapterRefuses(SpecOf(f, t))
<1>1. f.tool = "market_regime_monitor" /\ ~ RegimeRefused(f)
  BY DEF RegimeForm, CreatorRefuses
<1>2. /\ SpecOf(f, t).kind = "market_regime_monitor" /\ SpecOf(f, t).mode = "llm_assisted"
      /\ SpecOf(f, t).schedule.type = "polling" /\ SpecOf(f, t).target = Thresholds(f)
  BY <1>1 DEF SpecOf, Spec, Polling
<1>3. /\ Thresholds(f).percent \cup Thresholds(f).drawdown # {}
      /\ \A n \in Thresholds(f).percent : ~ (n >= 0)
      /\ ~ NotPositive(Thresholds(f).drawdown)
  BY <1>1 DEF Thresholds, RegimeRefused, NotPositive
<1> QED BY <1>2, <1>3 DEF AdapterRefuses, NotAsScheduled, RegimeIsInvalid

LEMMA CompanyRuns ==
  ASSUME NEW f \in CompanyForm, NEW t, ~ CreatorRefuses(f, t)
  PROVE  ~ AdapterRefuses(SpecOf(f, t))
<1>1. f.tool = "company_event_analyst" /\ f.symbol # {}
      /\ (f.schedule = "one_shot" \/ f.schedule = "recurring")
  BY DEF CompanyForm, CreatorRefuses, CompanyRefused
<1>2. /\ SpecOf(f, t).kind = "company_event_analyst" /\ SpecOf(f, t).mode = "llm_assisted"
      /\ SpecOf(f, t).schedule.type = f.schedule /\ SpecOf(f, t).target.symbol = f.symbol
  BY <1>1 DEF SpecOf, Spec, OneShot, Recurring
<1> QED BY <1>1, <1>2 DEF AdapterRefuses, NotAsScheduled, CompanyIsInvalid

LEMMA CaptureRuns ==
  ASSUME NEW f \in CaptureForm, NEW t, ~ CreatorRefuses(f, t)
  PROVE  ~ AdapterRefuses(SpecOf(f, t))
<1>1. f.tool = "market_signal_capture" /\ ~ CaptureRefused(f)
      /\ (f.schedule = "polling" \/ f.schedule = "recurring")
  BY DEF CaptureForm, CreatorRefuses
<1>2. /\ SpecOf(f, t).kind = "market_signal_capture" /\ SpecOf(f, t).mode = "llm_assisted"
      /\ SpecOf(f, t).schedule.type = f.schedule
      /\ SpecOf(f, t).target = [scope |-> f.scope, signals |-> f.signals]
  BY <1>1 DEF SpecOf, Spec, Polling, Recurring
<1>3. f.scope # {} /\ f.signals \in 1..3
  BY <1>1 DEF CaptureRefused
<1> QED BY <1>1, <1>2, <1>3 DEF AdapterRefuses, NotAsScheduled, CaptureIsInvalid

LEMMA InstrumentRuns ==
  ASSUME NEW f \in InstrumentForm, NEW t, ~ CreatorRefuses(f, t)
  PROVE  ~ AdapterRefuses(SpecOf(f, t))
<1>1. f.tool = "instrument_monitor" /\ ~ TriggerRefused(f)
  BY DEF InstrumentForm, CreatorRefuses, InstrumentRefused
<1>2. SpecOf(f, t).kind = "instrument_monitor" /\ SpecOf(f, t).target = Trigger(f)
  BY <1>1 DEF SpecOf, Spec
<1>3. ~ TriggerIsInvalid(Trigger(f))
  BY <1>1 DEF TriggerRefused, TriggerIsInvalid, Trigger
<1> QED BY <1>2, <1>3 DEF AdapterRefuses

LEMMA NewsRuns ==
  ASSUME NEW f \in NewsForm, NEW t PROVE ~ AdapterRefuses(SpecOf(f, t))
<1>1. f.tool = "alpaca_news_monitor"
  BY DEF NewsForm
<1>2. SpecOf(f, t).kind = "alpaca_news_monitor" /\ SpecOf(f, t).mode = "llm_assisted"
  BY <1>1 DEF SpecOf, Spec
<1> QED BY <1>2 DEF AdapterRefuses

\* What a creator does not refuse, the adapter does not either.
LEMMA CreatedIsRunnable ==
  ASSUME NEW f, IsForm(f), NEW t, ~ CreatorRefuses(f, t)
  PROVE  ~ AdapterRefuses(SpecOf(f, t))
BY FormsByTool, SetupRuns, RegimeRuns, CompanyRuns, CaptureRuns, InstrumentRuns, NewsRuns

LEMMA MaybeSize ==
  ASSUME NEW S, NEW x \in Maybe(S)
  PROVE  \/ x = {} /\ Cardinality(x) = 0
         \/ x # {} /\ Cardinality(x) = 1
<1>1. CASE x = {}
  BY <1>1, FS_EmptySet
<1>2. CASE x # {}
  <2>1. PICK v \in x : TRUE
    BY <1>2
  <2>2. v \in S /\ x = {v}
    BY <2>1 DEF Maybe
  <2>3. Cardinality({v}) = 1
    BY FS_Singleton
  <2> QED BY <2>2, <2>3
<1> QED BY <1>1, <1>2

\* An order that the policy of a form lets pass is within that form.
LEMMA PolicyKeepsForm ==
  ASSUME NEW f \in SetupForm, ~ PolicyRefused(f),
         NEW o \in ProposedOrder, ~ PolicyRejects(OrderPolicy(f), o)
  PROVE  Within(f, o)
<1> DEFINE policy == OrderPolicy(f)
<1>1. /\ policy.symbols = f.symbols \cup f.symbol /\ policy.sides = f.sides
      /\ policy.types = f.types /\ policy.notional = f.notional
      /\ policy.currency = f.currency /\ policy.quantity = f.quantity
      /\ policy.extended = f.extended
  BY DEF OrderPolicy, PolicySymbols
<1>2. /\ o.quantity \in Maybe(Int) /\ o.notional \in Maybe(Int)
      /\ f.quantity \in Maybe(Int) /\ f.notional \in Maybe(Int)
      /\ o.extended \in BOOLEAN /\ f.extended \in BOOLEAN
  BY DEF ProposedOrder, SetupForm
<1> HIDE DEF policy
<1>3. /\ o.ticker \in policy.symbols /\ o.side \in policy.sides /\ o.type \in policy.types
      /\ ~ (o.extended /\ ~ policy.extended)
      /\ ~ ((o.quantity = {}) <=> (o.notional = {}))
  BY DEF PolicyRejects, policy
<1>4. /\ ~ NotPositive(o.quantity) /\ ~ NotPositive(o.notional)
      /\ ~ (o.quantity # {} /\ policy.quantity = {})
      /\ ~ (\E q \in o.quantity, m \in policy.quantity : q > m)
      /\ ~ (o.notional # {} /\ policy.notional = {})
      /\ ~ (\E n \in o.notional, m \in policy.notional : n > m)
      /\ ~ (o.notional # {} /\ policy.currency # {} /\ o.currency # policy.currency)
  BY DEF PolicyRejects, policy
<1>5. Cardinality(o.quantity) + Cardinality(o.notional) = 1
  <2>1. \/ o.quantity = {} /\ Cardinality(o.quantity) = 0
        \/ o.quantity # {} /\ Cardinality(o.quantity) = 1
    BY <1>2, MaybeSize
  <2>2. \/ o.notional = {} /\ Cardinality(o.notional) = 0
        \/ o.notional # {} /\ Cardinality(o.notional) = 1
    BY <1>2, MaybeSize
  <2> QED BY <2>1, <2>2, <1>3
<1>6. \A q \in o.quantity : q > 0 /\ \E m \in f.quantity : q <= m
  <2> TAKE q \in o.quantity
  <2>1. PICK m \in f.quantity : TRUE
    BY <1>1, <1>4
  <2>2. q \in Int /\ m \in Int
    BY <1>2, <2>1 DEF Maybe
  <2>3. ~ (q > m) /\ ~ (q <= 0)
    BY <1>1, <1>4, <2>1 DEF NotPositive
  <2> QED BY <2>1, <2>2, <2>3
<1>7. \A n \in o.notional : n > 0 /\ \E m \in f.notional : n <= m
  <2> TAKE n \in o.notional
  <2>1. PICK m \in f.notional : TRUE
    BY <1>1, <1>4
  <2>2. n \in Int /\ m \in Int
    BY <1>2, <2>1 DEF Maybe
  <2>3. ~ (n > m) /\ ~ (n <= 0)
    BY <1>1, <1>4, <2>1 DEF NotPositive
  <2> QED BY <2>1, <2>2, <2>3
<1>8. o.notional # {} => o.currency = f.currency
  <2>1. f.notional # {} => f.currency # {}
    BY DEF PolicyRefused
  <2> QED BY <2>1, <1>1, <1>4
<1> QED BY <1>1, <1>2, <1>3, <1>5, <1>6, <1>7, <1>8 DEF Within

\* What keeps form and specification keeps what is known of them.
LEMMA RowKeeps ==
  ASSUME ScheduleInv, entry # NoEntry, UNCHANGED <<form, proposed>>,
         entry' = [status |-> entry'.status, spec |-> entry.spec, next |-> entry'.next],
         entry'.status # "absent"
  PROVE  ScheduleInv'
<1>1. PICK t : FiledAs(t)
  BY DEF ScheduleInv
<1>2. entry.spec = SpecOf(form, t) /\ form' = form
  BY <1>1 DEF FiledAs
<1>3. FiledAs(t)'
  BY <1>1, <1>2 DEF FiledAs
<1>4. ProposalsAreWithinForm'
  BY DEF ScheduleInv, ProposalsAreWithinForm
<1>5. entry' # NoEntry
  BY DEF NoEntry
<1> QED BY <1>3, <1>4, <1>5 DEF ScheduleInv

LEMMA RowShape ==
  ASSUME NEW t, FiledAs(t)
  PROVE  /\ DOMAIN entry = {"status", "spec", "next"} /\ entry # NoEntry
         /\ entry = [status |-> entry.status, spec |-> entry.spec, next |-> entry.next]
         /\ entry.status # "absent"
BY DEF FiledAs, NoEntry

\* FileForm makes the row of an allowed form; nothing was proposed before.
LEMMA FileFormKeeps ==
  ASSUME ScheduleInv, FileForm PROVE ScheduleInv'
<1>1. PICK f \in Forms :
        /\ ~ CreatorRefuses(f, clock) /\ form' = f
        /\ entry' = [status |-> "active", spec |-> SpecOf(f, clock),
                     next |-> InitialNextRun(SpecOf(f, clock).schedule, clock)]
  BY DEF FileForm
<1>2. entry = NoEntry /\ proposed' = proposed /\ clock' = clock
  BY DEF FileForm
<1>3. proposed' = {}
  BY <1>2 DEF ScheduleInv
<1>4. FiledAs(clock)'
  BY <1>1, <1>2 DEF FiledAs
<1>5. entry' # NoEntry
  BY <1>1 DEF NoEntry
<1> QED BY <1>3, <1>4, <1>5 DEF ScheduleInv, ProposalsAreWithinForm

\* A recorded run leaves the specification alone.
LEMMA RecordedRow ==
  ASSUME NEW t, FiledAs(t), NEW matched,
         entry' = PutOff \/ entry' = Recorded(matched)
  PROVE  /\ entry' = [status |-> entry'.status, spec |-> entry.spec, next |-> entry'.next]
         /\ entry'.status # "absent"
<1>1. /\ entry = [status |-> entry.status, spec |-> entry.spec, next |-> entry.next]
      /\ entry.status # "absent"
  BY RowShape
<1> QED BY <1>1 DEF PutOff, Recorded

\* An order proposed is one the policy of the form lets pass.
LEMMA RunProposesKeeps ==
  ASSUME ScheduleInv, RunProposes PROVE ScheduleInv'
<1>1. entry # NoEntry
  BY DEF RunProposes, Active, NoEntry
<1>2. PICK t : FiledAs(t)
  BY <1>1 DEF ScheduleInv
<1>3. PICK o \in Orders : /\ \A policy \in entry.spec.target.policy : ~ PolicyRejects(policy, o)
                          /\ proposed' = {o}
  BY DEF RunProposes
<1>4. /\ form \in Forms /\ IsForm(form) /\ ~ CreatorRefuses(form, t)
      /\ entry.spec = SpecOf(form, t) /\ o \in ProposedOrder
  BY <1>2, FormsAssumption DEF FiledAs
<1>5. form.tool = "trade_setup_monitor" /\ entry.spec.target.propose
  BY <1>4, SpecKind DEF RunProposes, MayPropose
<1>6. form \in SetupForm
  BY <1>4, <1>5, FormsByTool
<1>7. entry.spec.target.propose = form.propose
      /\ entry.spec.target.policy = (IF form.propose THEN {OrderPolicy(form)} ELSE {})
  <2>1. entry.spec.target =
          [trigger |-> Trigger(form), propose |-> form.propose,
           policy |-> IF form.propose THEN {OrderPolicy(form)} ELSE {},
           chats |-> IF form.propose THEN form.chats ELSE {}]
    BY <1>4, <1>5, SetupSpec
  <2> QED BY <2>1
<1>8. ~ PolicyRejects(OrderPolicy(form), o)
  BY <1>3, <1>5, <1>7
<1>9. ~ PolicyRefused(form)
  BY <1>4, <1>5, <1>7 DEF CreatorRefuses, SetupRefused
<1>10. Within(form, o)
  BY <1>4, <1>6, <1>8, <1>9, PolicyKeepsForm
<1>11. form' = form
  BY DEF RunProposes
<1>12. ProposalsAreWithinForm'
  BY <1>3, <1>10, <1>11 DEF ProposalsAreWithinForm, Within
<1>13. /\ entry' = [status |-> entry'.status, spec |-> entry.spec, next |-> entry'.next]
       /\ entry'.status # "absent"
  BY <1>2, RecordedRow DEF RunProposes
<1>14. FiledAs(t)'
  BY <1>2, <1>11, <1>13 DEF FiledAs
<1>15. entry' # NoEntry
  BY <1>13 DEF NoEntry
<1> QED BY <1>12, <1>14, <1>15 DEF ScheduleInv

LEMMA ScheduleStep ==
  ASSUME ScheduleInv, [ScheduleNext]_scheduleVars PROVE ScheduleInv'
<1>1. CASE FileForm
  BY <1>1, FileFormKeeps
<1>2. CASE RunProposes
  BY <1>2, RunProposesKeeps
<1>3. CASE PauseProcess \/ ResumeProcess \/ ArchiveProcess \/ ExpireProcess
  <2>1. entry # NoEntry
    BY <1>3 DEF PauseProcess, ResumeProcess, ArchiveProcess, ExpireProcess, Active, NoEntry
  <2>2. PICK t : FiledAs(t)
    BY <2>1 DEF ScheduleInv
  <2>3. /\ entry = [status |-> entry.status, spec |-> entry.spec, next |-> entry.next]
        /\ entry.status # "absent"
    BY <2>2, RowShape
  <2>4. /\ entry' = [status |-> entry'.status, spec |-> entry.spec, next |-> entry'.next]
        /\ entry'.status # "absent"
    BY <1>3, <2>3 DEF PauseProcess, ResumeProcess, ArchiveProcess, ExpireProcess
  <2>5. UNCHANGED <<form, proposed>>
    BY <1>3 DEF PauseProcess, ResumeProcess, ArchiveProcess, ExpireProcess
  <2> QED BY <2>1, <2>4, <2>5, RowKeeps
<1>4. CASE RunDue
  <2>1. entry # NoEntry
    BY <1>4 DEF RunDue, Active, NoEntry
  <2>2. PICK t : FiledAs(t)
    BY <2>1 DEF ScheduleInv
  <2>3. \E matched : entry' = PutOff \/ entry' = Recorded(matched)
    BY <1>4 DEF RunDue
  <2>4. /\ entry' = [status |-> entry'.status, spec |-> entry.spec, next |-> entry'.next]
        /\ entry'.status # "absent"
    BY <2>2, <2>3, RecordedRow
  <2>5. UNCHANGED <<form, proposed>>
    BY <1>4 DEF RunDue
  <2> QED BY <2>1, <2>4, <2>5, RowKeeps
<1>5. CASE WatchNews
  <2>1. entry # NoEntry
    BY <1>5 DEF WatchNews, Active, NoEntry
  <2>2. PICK t : FiledAs(t)
    BY <2>1 DEF ScheduleInv
  <2>3. entry' = Recorded(FALSE) \/ entry' = [entry EXCEPT !.status = "expired"]
    BY <1>5 DEF WatchNews
  <2>4. /\ entry = [status |-> entry.status, spec |-> entry.spec, next |-> entry.next]
        /\ entry.status # "absent"
    BY <2>2, RowShape
  <2>5. /\ entry' = [status |-> entry'.status, spec |-> entry.spec, next |-> entry'.next]
        /\ entry'.status # "absent"
    <3>1. CASE entry' = Recorded(FALSE)
      BY <2>2, <3>1, RecordedRow
    <3>2. CASE entry' = [entry EXCEPT !.status = "expired"]
      BY <2>4, <3>2
    <3> QED BY <2>3, <3>1, <3>2
  <2>6. UNCHANGED <<form, proposed>>
    BY <1>5 DEF WatchNews
  <2> QED BY <2>1, <2>5, <2>6, RowKeeps
<1>6. CASE Ticking \/ UNCHANGED scheduleVars
  <2>1. UNCHANGED <<form, entry, proposed>>
    BY <1>6 DEF Ticking, scheduleVars
  <2>2. CASE entry = NoEntry
    BY <2>1, <2>2 DEF ScheduleInv, ProposalsAreWithinForm, NoEntry
  <2>3. CASE entry # NoEntry
    <3>1. PICK t : FiledAs(t)
      BY <2>3 DEF ScheduleInv
    <3>2. /\ entry = [status |-> entry.status, spec |-> entry.spec, next |-> entry.next]
          /\ entry.status # "absent"
      BY <3>1, RowShape
    <3> QED BY <2>1, <2>3, <3>2, RowKeeps
  <2> QED BY <2>2, <2>3
<1> QED BY <1>1, <1>2, <1>3, <1>4, <1>5, <1>6 DEF ScheduleNext

LEMMA ScheduleStart == ScheduleInit => ScheduleInv
BY DEF ScheduleInit, ScheduleInv, ProposalsAreWithinForm

\* Whatever form a model files, the process it makes is one its adapter can run,
\* at every moment of its life.
THEOREM FormsStayRunnable == ScheduleSpec => []FormsAreRunnable
<1>1. ScheduleInit => ScheduleInv
  BY ScheduleStart
<1>2. ScheduleInv /\ [ScheduleNext]_scheduleVars => ScheduleInv'
  BY ScheduleStep
<1>3. ScheduleInv => FormsAreRunnable
  <2> SUFFICES ASSUME ScheduleInv, entry # NoEntry PROVE ~ AdapterRefuses(entry.spec)
    BY DEF FormsAreRunnable
  <2>1. PICK t : FiledAs(t)
    BY DEF ScheduleInv
  <2>2. IsForm(form) /\ ~ CreatorRefuses(form, t) /\ entry.spec = SpecOf(form, t)
    BY <2>1, FormsAssumption DEF FiledAs
  <2> QED BY <2>2, CreatedIsRunnable
<1> QED BY <1>1, <1>2, <1>3, PTL DEF ScheduleSpec

\* Whatever order an analysis comes up with, one that reaches the broker is
\* within the form the process was made of.
THEOREM ProposalsStayWithinForm == ScheduleSpec => []ProposalsAreWithinForm
<1>1. ScheduleInit => ScheduleInv
  BY ScheduleStart
<1>2. ScheduleInv /\ [ScheduleNext]_scheduleVars => ScheduleInv'
  BY ScheduleStep
<1>3. ScheduleInv => ProposalsAreWithinForm
  BY DEF ScheduleInv
<1> QED BY <1>1, <1>2, <1>3, PTL DEF ScheduleSpec

-----------------------------------------------------------------------------
(* The calendar: when a local time comes, and which slot is the next *)

LEMMA DayIsPositive == Day \in Int /\ Day > 0
BY DayAssumption

LEMMA DaysInOrder ==
  ASSUME NEW d \in Int, NEW e \in Int, d <= e
  PROVE  d * Day <= e * Day
BY DayIsPositive

LEMMA DateBounds ==
  ASSUME NEW l \in Int
  PROVE  /\ DateOf(l) \in Int
         /\ DateOf(l) * Day <= l
         /\ l < (DateOf(l) + 1) * Day
BY DayIsPositive DEF DateOf

\* A date begins with its first unit.
LEMMA DateStarts ==
  ASSUME NEW l \in Int, NEW d \in Int
  PROVE  d * Day <= l <=> d <= DateOf(l)
<1> DEFINE e == DateOf(l)
<1>1. e \in Int /\ e * Day <= l /\ l < (e + 1) * Day
  BY DateBounds
<1> HIDE DEF e
<1>2. CASE d <= e
  <2>1. d * Day <= e * Day
    BY <1>1, <1>2, DaysInOrder
  <2>2. d * Day \in Int /\ e * Day \in Int
    BY <1>1, DayIsPositive
  <2> QED BY <1>1, <1>2, <2>1, <2>2 DEF e
<1>3. CASE ~ d <= e
  <2>1. e + 1 <= d
    BY <1>1, <1>3
  <2>2. (e + 1) * Day <= d * Day
    BY <1>1, <2>1, DaysInOrder
  <2>3. d * Day \in Int /\ (e + 1) * Day \in Int
    BY <1>1, DayIsPositive
  <2> QED BY <1>1, <1>3, <2>2, <2>3 DEF e
<1> QED BY <1>2, <1>3

LEMMA DateIs ==
  ASSUME NEW l \in Int, NEW d \in Int, d * Day <= l, l < (d + 1) * Day
  PROVE  DateOf(l) = d
<1>1. d <= DateOf(l) /\ ~ (d + 1 <= DateOf(l)) /\ DateOf(l) \in Int
  <2>1. (d + 1) * Day \in Int /\ d + 1 \in Int
    BY DayIsPositive
  <2> QED BY <2>1, DateStarts, DateBounds
<1> QED BY <1>1

LEMMA DatesInOrder ==
  ASSUME NEW l \in Int, NEW m \in Int, l <= m
  PROVE  DateOf(l) <= DateOf(m)
<1>1. DateOf(l) * Day <= l /\ DateOf(l) \in Int
  BY DateBounds
<1>2. DateOf(l) * Day \in Int
  BY <1>1, DayIsPositive
<1>3. DateOf(l) * Day <= m
  BY <1>1, <1>2
<1> QED BY <1>1, <1>3, DateStarts

LEMMA DateMoves ==
  ASSUME NEW l \in Int, NEW n \in Int
  PROVE  DateOf(l + n * Day) = DateOf(l) + n
<1> DEFINE d == DateOf(l)
<1>1. d \in Int /\ d * Day <= l /\ l < (d + 1) * Day
  BY DateBounds
<1> HIDE DEF d
<1>2. n * Day \in Int /\ d * Day \in Int /\ (d + 1) * Day \in Int
  BY <1>1, DayIsPositive
<1>3. (d + n) * Day = d * Day + n * Day /\ (d + n + 1) * Day = (d + 1) * Day + n * Day
  BY <1>1, DayIsPositive
<1>4. (d + n) * Day <= l + n * Day /\ l + n * Day < ((d + n) + 1) * Day
  BY <1>1, <1>2, <1>3
<1>5. l + n * Day \in Int /\ d + n \in Int
  BY <1>1, <1>2
<1> QED BY <1>4, <1>5, DateIs DEF d

LEMMA InstantType ==
  ASSUME NEW z \in TimeZone, NEW l \in Int, NEW t \in Int
  PROVE  Instant(z, l) \in Int /\ Local(z, t) \in Int
BY DEF TimeZone, Instant, Local

\* Apart from the time after a change, what is ahead on the clock is ahead.
LEMMA ClockIsRight ==
  ASSUME NEW z \in TimeZone, NEW t \in Int, ~ ClocksJustChanged(z, t), NEW l \in Int
  PROVE  Local(z, t) < l <=> t < Instant(z, l)
<1>1. z.before \in Int /\ z.after \in Int /\ z.change \in Int
  BY DEF TimeZone
<1>2. t < z.change \/ (z.change + (z.after - z.before) <= t
                       /\ z.change + (z.before - z.after) <= t /\ z.change <= t)
  BY <1>1 DEF ClocksJustChanged
<1> QED BY <1>1, <1>2 DEF Local, Instant

\* The same time of a later day comes later, whatever the clocks do between.
LEMMA LaterDaysComeLater ==
  ASSUME NEW z, KeepsDate(z), NEW l \in Int, NEW m \in Int, l + Day <= m
  PROVE  Instant(z, l) <= Instant(z, m)
<1>1. z.before \in Int /\ z.after \in Int /\ z.change \in Int
  BY DEF KeepsDate, TimeZone
<1>2. z.after - z.before <= Day /\ z.before - z.after <= Day
  <2> DEFINE d == DateOf(z.change + z.before)
  <2>1. /\ d * Day <= z.change + z.before /\ z.change + z.before < (d + 1) * Day
        /\ d * Day <= z.change + z.after /\ z.change + z.after < (d + 1) * Day
        /\ d \in Int
    <3>1. z.change + z.before \in Int /\ z.change + z.after \in Int
      BY <1>1
    <3> QED BY <3>1, DateBounds DEF KeepsDate
  <2> HIDE DEF d
  <2>2. (d + 1) * Day = d * Day + Day /\ d * Day \in Int
    BY <2>1, DayIsPositive
  <2> QED BY <1>1, <2>1, <2>2, DayIsPositive
<1> QED BY <1>1, <1>2, DayIsPositive DEF Instant

LEMMA LeastIsMin ==
  ASSUME NEW S \in SUBSET Int, NEW x \in S, \A y \in S : x <= y
  PROVE  Min(S) = x
<1> DEFINE m == CHOOSE y \in S : \A w \in S : y <= w
<1>1. m \in S /\ \A w \in S : m <= w
  OBVIOUS
<1>2. m <= x /\ x <= m /\ m \in Int /\ x \in Int
  BY <1>1
<1> QED BY <1>2 DEF Min

\* Every day of the week comes again within seven days.
LEMMA WeekComesRound ==
  ASSUME NEW d \in Int, NEW W \in SUBSET (0..6), W # {}
  PROVE  \E n \in 1..7 : Weekday(d + n) \in W
<1>1. PICK w \in 0..6 : w \in W
  OBVIOUS
<1>2. PICK r \in 0..6 : r = d % 7
  BY SMT
<1>3. \A n \in 1..7 : (d + n) % 7 = IF r + n < 7 THEN r + n
                                    ELSE IF r + n < 14 THEN r + n - 7 ELSE r + n - 14
  BY <1>2, SMT
<1>4. \E n \in 1..7 : (d + n) % 7 = w
  BY <1>1, <1>2, <1>3, SMT
<1> QED BY <1>1, <1>4 DEF Weekday

\* Of a few numbers, one comes first.
LEMMA OneIsFirst ==
  ASSUME NEW S, NEW k \in 0..7, k \in S
  PROVE  \E n \in 0..7 : n \in S /\ \A m \in 0..7 : m \in S => n <= m
<1>1. CASE 0 \in S
  BY <1>1
<1>2. CASE 0 \notin S /\ 1 \in S
  BY <1>2
<1>3. CASE 0 \notin S /\ 1 \notin S /\ 2 \in S
  BY <1>3
<1>4. CASE 0 \notin S /\ 1 \notin S /\ 2 \notin S /\ 3 \in S
  BY <1>4
<1>5. CASE 0 \notin S /\ 1 \notin S /\ 2 \notin S /\ 3 \notin S /\ 4 \in S
  BY <1>5
<1>6. CASE 0 \notin S /\ 1 \notin S /\ 2 \notin S /\ 3 \notin S /\ 4 \notin S /\ 5 \in S
  BY <1>6
<1>7. CASE 0 \notin S /\ 1 \notin S /\ 2 \notin S /\ 3 \notin S /\ 4 \notin S /\ 5 \notin S
           /\ 6 \in S
  BY <1>7
<1>8. CASE 0 \notin S /\ 1 \notin S /\ 2 \notin S /\ 3 \notin S /\ 4 \notin S /\ 5 \notin S
           /\ 6 \notin S
  BY <1>8
<1> QED BY <1>1, <1>2, <1>3, <1>4, <1>5, <1>6, <1>7, <1>8

\* Among the days from today on there is a first one on which the time is still
\* to come: it is at most seven days away.
LEMMA NextDayExists ==
  ASSUME NEW l \in Int, NEW time \in 0..(Day - 1), NEW W \in SUBSET (0..6), W # {}
  PROVE  \E n \in 0..7 :
            /\ Weekday(DateOf(l) + n) \in W
            /\ l < (DateOf(l) + n) * Day + time
            /\ \A m \in Int : /\ Weekday(DateOf(l) + m) \in W
                              /\ l < (DateOf(l) + m) * Day + time
                              => n <= m
<1> DEFINE d == DateOf(l)
           S == {n \in Int : Weekday(d + n) \in W /\ l < (d + n) * Day + time}
<1>1. d \in Int /\ d * Day <= l /\ l < (d + 1) * Day /\ time \in Int
  BY DateBounds, DayIsPositive
<1> HIDE DEF d
<1>2. PICK k \in 1..7 : Weekday(d + k) \in W
  BY <1>1, WeekComesRound
<1>3. (d + 1) * Day <= (d + k) * Day
  BY <1>1, DaysInOrder
<1>4. (d + 1) * Day \in Int /\ (d + k) * Day \in Int
  BY <1>1, DayIsPositive
<1>5. k \in S
  BY <1>1, <1>2, <1>3, <1>4, DayIsPositive
<1>6. PICK n \in 0..7 : n \in S /\ \A m \in 0..7 : m \in S => n <= m
  <2> HIDE DEF S
  <2> QED BY <1>5, OneIsFirst
<1>7. ASSUME NEW m \in Int, m \in S PROVE n <= m
  <2>1. CASE m < 0
    <3>1. (d + m + 1) * Day <= d * Day
      BY <1>1, <2>1, DaysInOrder
    <3>2. (d + m + 1) * Day = (d + m) * Day + Day /\ (d + m) * Day \in Int /\ d * Day \in Int
      BY <1>1, DayIsPositive
    <3>3. l < (d + m) * Day + time
      BY <1>7
    <3> QED BY <1>1, <3>1, <3>2, <3>3, DayIsPositive
  <2>2. CASE m \in 0..7
    BY <1>6, <1>7, <2>2
  <2>3. CASE m > 7
    BY <2>3
  <2> QED BY <2>1, <2>2, <2>3
<1> QED BY <1>6, <1>7 DEF d

\* The slot the code chooses is the first of all to come, but in the time after
\* a change of the clocks.
LEMMA NextSlotIsFirst ==
  ASSUME NEW z, KeepsDate(z), NEW t \in Int, ~ ClocksJustChanged(z, t),
         NEW time \in 0..(Day - 1), NEW W \in SUBSET (0..6), W # {}
  PROVE  NextRecurringAfter(z, time, W, t) = FirstSlotAfter(z, time, W, t)
<1> DEFINE l == Local(z, t)
           today == DateOf(l)
           At(d) == d * Day + time
<1>1. /\ z \in TimeZone /\ l \in Int /\ today \in Int /\ time \in Int /\ Day \in Int /\ Day > 0
      /\ z.before \in Int /\ z.after \in Int /\ z.change \in Int
      /\ -Day <= z.before /\ z.before <= Day /\ -Day <= z.after /\ z.after <= Day
  BY InstantType, DateBounds, DayIsPositive DEF KeepsDate, TimeZone
<1>2. \A d \in Int : At(d) \in Int /\ Instant(z, At(d)) \in Int
  <2> TAKE d \in Int
  <2>1. At(d) \in Int
    BY <1>1
  <2> HIDE DEF At
  <2> QED BY <1>1, <2>1, InstantType
<1>3. \A d \in Int : l < At(d) <=> t < Instant(z, At(d))
  <2> TAKE d \in Int
  <2> QED BY <1>1, <1>2, ClockIsRight
<1>4. PICK n \in 0..7 :
         /\ Weekday(today + n) \in W /\ l < At(today + n)
         /\ \A m \in Int : Weekday(today + m) \in W /\ l < At(today + m) => n <= m
  BY <1>1, NextDayExists
<1> DEFINE first == today + n
<1>5. first \in Int /\ At(first) \in Int /\ At(first) = (today + n) * Day + time
  BY <1>1, <1>2
<1>6. \A d \in Int : Weekday(d) \in W /\ l < At(d) => first <= d
  <2> SUFFICES ASSUME NEW d \in Int, Weekday(d) \in W, l < At(d) PROVE first <= d
    OBVIOUS
  <2>1. today + (d - today) = d /\ d - today \in Int
    BY <1>1
  <2>2. n <= d - today
    BY <1>4, <2>1
  <2> QED BY <1>1, <2>2
<1>7. \A d \in Int : first < d => At(first) + Day <= At(d)
  <2> SUFFICES ASSUME NEW d \in Int, first < d PROVE At(first) + Day <= At(d)
    OBVIOUS
  <2>1. (first + 1) * Day <= d * Day
    BY <1>5, DaysInOrder
  <2>2. (first + 1) * Day = first * Day + Day /\ first * Day \in Int /\ d * Day \in Int
    BY <1>1, <1>5
  <2> QED BY <1>1, <2>1, <2>2
<1> HIDE DEF first
<1>8. NextRecurringAfter(z, time, W, t) = Instant(z, At(first))
  <2> DEFINE candidates == {(today + offset) * Day + time :
                               offset \in {k \in 0..14 : Weekday(today + k) \in W}}
             ahead == {c \in candidates : c > l}
  <2>1. ahead \subseteq Int
    BY <1>1
  <2>2. At(first) \in ahead
    <3>1. n \in {k \in 0..14 : Weekday(today + k) \in W}
      BY <1>4
    <3>2. At(first) \in candidates
      BY <1>5, <3>1
    <3> HIDE DEF candidates
    <3> QED BY <1>1, <1>4, <1>5, <3>2 DEF first
  <2>3. \A c \in ahead : At(first) <= c
    <3> SUFFICES ASSUME NEW c \in ahead PROVE At(first) <= c
      OBVIOUS
    <3>1. PICK k \in 0..14 : Weekday(today + k) \in W /\ c = At(today + k)
      OBVIOUS
    <3>2. c > l /\ c \in Int /\ today + k \in Int
      BY <1>1, <2>1
    <3>3. l < At(today + k)
      BY <1>1, <3>1, <3>2
    <3>4. first <= today + k
      BY <1>6, <3>1, <3>2, <3>3
    <3>5. CASE first = today + k
      BY <1>2, <1>5, <3>1, <3>5
    <3>6. CASE first < today + k
      <4> HIDE DEF At
      <4>1. At(first) + Day <= At(today + k)
        BY <1>7, <3>2, <3>6
      <4> QED BY <1>1, <1>5, <3>1, <3>2, <4>1
    <3> QED BY <1>5, <3>2, <3>4, <3>5, <3>6
  <2>4. NextRecurringAfter(z, time, W, t) = Instant(z, Min(ahead))
    BY DEF NextRecurringAfter
  <2>5. Min(ahead) = At(first)
    <3> HIDE DEF ahead, At
    <3> QED BY <2>1, <2>2, <2>3, LeastIsMin
  <2> HIDE DEF ahead, At
  <2> QED BY <2>4, <2>5
<1>9. FirstSlotAfter(z, time, W, t) = Instant(z, At(first))
  <2> DEFINE dates == DateOf(t - 2 * Day)..DateOf(t + 10 * Day)
             slots == {Instant(z, At(d)) : d \in {e \in dates : Weekday(e) \in W}}
             ahead == {s \in slots : s > t}
  <2>1. first \in dates
    <3>1. DateOf(t - 2 * Day) = DateOf(t) - 2 /\ DateOf(t + 10 * Day) = DateOf(t) + 10
      <4>1. t - 2 * Day = t + (-2) * Day /\ DateOf(t) \in Int
        BY <1>1, DateBounds
      <4>2. DateOf(t + (-2) * Day) = DateOf(t) + (-2) /\ DateOf(t + 10 * Day) = DateOf(t) + 10
        BY DateMoves
      <4> QED BY <4>1, <4>2
    <3>2. DateOf(t) - 1 <= today /\ today <= DateOf(t) + 1
      <4>1. t + (-1) * Day <= l /\ l <= t + 1 * Day
        BY <1>1 DEF Local
      <4>2. t + (-1) * Day \in Int /\ t + 1 * Day \in Int
        BY <1>1
      <4>3. DateOf(t + (-1) * Day) <= today /\ today <= DateOf(t + 1 * Day)
        BY <1>1, <4>1, <4>2, DatesInOrder
      <4>4. DateOf(t + (-1) * Day) = DateOf(t) + (-1) /\ DateOf(t + 1 * Day) = DateOf(t) + 1
        BY DateMoves
      <4> QED BY <4>3, <4>4, DateBounds
    <3>3. DateOf(t) \in Int
      BY DateBounds
    <3> HIDE DEF today
    <3> QED BY <1>1, <1>4, <3>1, <3>2, <3>3 DEF first
  <2>2. dates \subseteq Int
    OBVIOUS
  <2>3. ahead \subseteq Int
    <3> HIDE DEF dates, At
    <3> QED BY <1>2, <2>2
  <2>4. Instant(z, At(first)) \in ahead
    <3>1. Instant(z, At(first)) > t
      <4>1. l < At(first)
        BY <1>4 DEF first
      <4> HIDE DEF At, l
      <4> QED BY <1>2, <1>3, <1>5, <4>1
    <3>2. Weekday(first) \in W
      BY <1>4 DEF first
    <3> HIDE DEF dates, At
    <3> QED BY <2>1, <3>1, <3>2
  <2>5. \A s \in ahead : Instant(z, At(first)) <= s
    <3> SUFFICES ASSUME NEW s \in ahead PROVE Instant(z, At(first)) <= s
      OBVIOUS
    <3> HIDE DEF At
    <3>1. PICK d \in dates : Weekday(d) \in W /\ s = Instant(z, At(d)) /\ s > t
      OBVIOUS
    <3>2. d \in Int /\ At(d) \in Int /\ s \in Int
      BY <1>2, <2>2, <3>1
    <3>3. l < At(d)
      BY <1>3, <3>1, <3>2
    <3>4. first <= d
      BY <1>6, <3>1, <3>2, <3>3
    <3>5. CASE first = d
      BY <1>2, <3>1, <3>2, <3>5
    <3>6. CASE first < d
      BY <1>5, <1>7, <3>1, <3>2, <3>6, LaterDaysComeLater
    <3> QED BY <1>5, <3>2, <3>4, <3>5, <3>6
  <2>6. FirstSlotAfter(z, time, W, t) = Min(ahead)
    BY DEF FirstSlotAfter, Slots
  <2>7. Min(ahead) = Instant(z, At(first))
    <3> HIDE DEF ahead, At
    <3> QED BY <2>3, <2>4, <2>5, LeastIsMin
  <2> QED BY <2>6, <2>7
<1> QED BY <1>8, <1>9

\* A date ends where the next begins, and it is not over yet.
LEMMA EndOfDayIsNear ==
  ASSUME NEW z, KeepsDate(z), NEW t \in Int
  PROVE  LastsItsDay(z, t, EndOfDay(z, t))
<1> DEFINE d == DateOf(Local(z, t))
           last == (d + 1) * Day - 1
           i == Instant(z, last)
           c == DateOf(z.change + z.before)
<1>1. /\ z \in TimeZone /\ z.before \in Int /\ z.after \in Int /\ z.change \in Int
      /\ Local(z, t) \in Int
  BY InstantType DEF KeepsDate, TimeZone
<1>2. d \in Int /\ d * Day <= Local(z, t) /\ Local(z, t) < (d + 1) * Day
  BY <1>1, DateBounds
<1>3. /\ c \in Int
      /\ c * Day <= z.change + z.before /\ z.change + z.before < (c + 1) * Day
      /\ c * Day <= z.change + z.after /\ z.change + z.after < (c + 1) * Day
  <2>1. z.change + z.before \in Int /\ z.change + z.after \in Int
    BY <1>1
  <2> QED BY <2>1, DateBounds DEF KeepsDate
<1>4. EndOfDay(z, t) = i + 1
  BY DEF EndOfDay
<1> HIDE DEF d, c
<1>5. /\ last \in Int /\ last = d * Day + Day - 1 /\ d * Day \in Int /\ c * Day \in Int
      /\ (d + 1) * Day = last + 1 /\ (c + 1) * Day = c * Day + Day
      /\ (d + 2) * Day = last + 1 + Day
  BY <1>2, <1>3, DayIsPositive
\* The last unit of a day is before all that a change skips or repeats, or after.
<1>6. \/ last < z.change + z.before /\ last < z.change + z.after
      \/ z.change + z.before <= last /\ z.change + z.after <= last
  <2>1. CASE d < c
    <3>1. (d + 1) * Day <= c * Day
      BY <1>2, <1>3, <2>1, DaysInOrder
    <3> HIDE DEF last
    <3> QED BY <1>1, <1>3, <1>5, <3>1
  <2>2. CASE c <= d
    <3>1. (c + 1) * Day <= (d + 1) * Day
      BY <1>2, <1>3, <2>2, DaysInOrder
    <3>2. (c + 1) * Day <= last + 1 /\ (c + 1) * Day \in Int /\ last \in Int
      BY <1>5, <3>1, DayIsPositive
    <3> HIDE DEF last
    <3> QED BY <1>1, <1>3, <3>2
  <2> QED BY <1>2, <1>3, <2>1, <2>2
<1> HIDE DEF last
<1>7. i \in Int /\ Local(z, i) = last
  BY <1>1, <1>5, <1>6 DEF Local, Instant
<1>8. t <= i
  BY <1>1, <1>2, <1>5, <1>6 DEF Local, Instant
<1>9. DateOf(Local(z, i)) = d
  BY <1>2, <1>5, <1>7, DateIs, DayIsPositive
<1>10. last + 1 <= Local(z, i + 1) /\ Local(z, i + 1) < last + 1 + Day
       /\ Local(z, i + 1) \in Int
  BY <1>1, <1>3, <1>5, <1>6, DayIsPositive DEF Local, Instant
<1>11. DateOf(Local(z, i + 1)) = d + 1
  <2>1. d + 1 \in Int /\ (d + 1) + 1 = d + 2
    BY <1>2
  <2> QED BY <1>5, <1>10, <2>1, DateIs
<1> HIDE DEF i
<1>12. (i + 1) - 1 = i /\ t < i + 1
  BY <1>7, <1>8
<1>13. DateOf(Local(z, (i + 1) - 1)) = d /\ DateOf(Local(z, i + 1)) = d + 1
  BY <1>9, <1>11, <1>12, Zenon
<1>14. d = DateOf(Local(z, t))
  BY DEF d
<1> QED BY <1>4, <1>12, <1>13, <1>14, Zenon DEF LastsItsDay

\* The weekdays of a schedule the service has taken.
LEMMA AcceptedSchedule ==
  ASSUME NEW s, s.type = "recurring", ~ ScheduleRefused(s)
  PROVE  /\ s.time \in 0..(Day - 1) /\ s.zone \in DOMAIN Zones
         /\ AllowedWeekdays(s.frequency, s.days) \in SUBSET (0..6)
         /\ AllowedWeekdays(s.frequency, s.days) # {}
<1>1. /\ s.frequency \in Frequency /\ s.time \in 0..(Day - 1) /\ s.zone \in DOMAIN Zones
      /\ s.frequency = "weekly" => s.days # {}
      /\ s.days \subseteq 0..6
  BY DEF ScheduleRefused
<1>2. CASE s.frequency = "daily"
  BY <1>1, <1>2 DEF AllowedWeekdays
<1>3. CASE s.frequency = "weekdays"
  BY <1>1, <1>3 DEF AllowedWeekdays
<1>4. CASE s.frequency = "weekly"
  BY <1>1, <1>4 DEF AllowedWeekdays
<1> QED BY <1>1, <1>2, <1>3, <1>4 DEF Frequency

ZonesKeepDates == \A name \in DOMAIN Zones : KeepsDate(Zones[name])

\* What is next of a process just made, resumed or put off.
SlotIsKept(s, next, t) ==
    s.type = "recurring"
       => ClocksJustChanged(Zones[s.zone], t) \/ next = {NextSlot(s, t)}

LEMMA SlotsAreKept ==
  ASSUME ZonesKeepDates, NEW s, ~ ScheduleRefused(s), NEW t \in Int
  PROVE  SlotIsKept(s, InitialNextRun(s, t), t) /\ SlotIsKept(s, NextRunAfter(s, t), t)
<1> SUFFICES ASSUME s.type = "recurring", ~ ClocksJustChanged(Zones[s.zone], t)
             PROVE  /\ InitialNextRun(s, t) = {NextSlot(s, t)}
                    /\ NextRunAfter(s, t) = {NextSlot(s, t)}
  BY DEF SlotIsKept
<1>1. KeepsDate(Zones[s.zone])
  BY AcceptedSchedule DEF ZonesKeepDates
<1>2. NextRecurring(s, t) = NextSlot(s, t)
  BY <1>1, AcceptedSchedule, NextSlotIsFirst DEF NextRecurring, NextSlot
<1>3. InitialNextRun(s, t) = {NextRecurring(s, t)}
  BY DEF InitialNextRun
<1>4. NextRunAfter(s, t) = {NextRecurring(s, t)}
  BY DEF NextRunAfter
<1> QED BY <1>2, <1>3, <1>4

\* A form that may have an expiry and has none is good for its local day.
LEMMA ExpiryIsKept ==
  ASSUME ZonesKeepDates, NEW f \in Forms, "expires" \in DOMAIN f, f.expires = {},
         NEW t \in Int, NEW e \in SpecOf(f, t).expires
  PROVE  LastsItsDay(ZoneOf(f), t, e)
<1>1. IsForm(f)
  BY FormsAssumption
<1>2. f.tool \in {"instrument_monitor", "market_regime_monitor", "trade_setup_monitor"}
  BY <1>1, FormsByTool DEF CompanyForm, CaptureForm, NewsForm
<1>3. SpecOf(f, t).expires = ExpiresAt(f, t)
  BY <1>2 DEF SpecOf, Spec
<1>4. e = EndOfDay(ZoneOf(f), t)
  BY <1>3 DEF ExpiresAt
<1>5. ZoneName(f) \in DOMAIN Zones
  <2>1. DefaultZone \in DOMAIN Zones
    BY FormsAssumption
  <2> QED BY <2>1, Zenon DEF ZoneName, ZoneRefused
<1>6. KeepsDate(ZoneOf(f))
  BY <1>5 DEF ZoneOf, ZonesKeepDates
<1> QED BY <1>4, <1>6, EndOfDayIsNear

\* The service has taken the schedule of whatever is stored.
CalendarInv ==
    /\ ScheduleInv
    /\ clock \in Int
    /\ entry # NoEntry => ~ ScheduleRefused(entry.spec.schedule)

\* A step leaves a process as it is, not active, or put off to its next run.
LEMMA ScheduleOutcome ==
  ASSUME CalendarInv, ScheduleNext
  PROVE  /\ clock' \in Int
         /\ \/ UNCHANGED <<form, entry>>
            \/ /\ form' \in Forms /\ clock' = clock
               /\ entry' = [status |-> "active", spec |-> SpecOf(form', clock),
                            next |-> InitialNextRun(SpecOf(form', clock).schedule, clock)]
               /\ ~ ScheduleRefused(SpecOf(form', clock).schedule)
            \/ /\ form' = form /\ clock' = clock
               /\ entry # NoEntry /\ entry'.spec = entry.spec
               /\ \/ entry'.status # "active"
                  \/ entry'.next = InitialNextRun(entry.spec.schedule, clock)
                  \/ entry'.next = NextRunAfter(entry.spec.schedule, clock)
<1>1. CASE FileForm
  BY <1>1 DEF FileForm, CalendarInv
<1>2. CASE Ticking
  BY <1>2 DEF Ticking, CalendarInv
<1>3. CASE ~ FileForm /\ ~ Ticking
  <2>1. entry # NoEntry /\ clock' = clock /\ form' = form
    <3>1. CASE PauseProcess \/ ResumeProcess \/ ArchiveProcess
      BY <3>1 DEF PauseProcess, ResumeProcess, ArchiveProcess, NoEntry
    <3>2. CASE RunDue \/ RunProposes \/ WatchNews \/ ExpireProcess
      <4>1. entry # NoEntry
        <5>1. Active
          BY <3>2 DEF RunDue, RunProposes, WatchNews, ExpireProcess
        <5> QED BY <5>1 DEF Active, NoEntry
      <4>2. clock' = clock /\ form' = form
        BY <3>2 DEF RunDue, RunProposes, WatchNews, ExpireProcess
      <4> QED BY <4>1, <4>2
    <3> QED BY <1>3, <3>1, <3>2 DEF ScheduleNext
  <2>2. PICK t : FiledAs(t)
    BY <2>1 DEF CalendarInv, ScheduleInv
  <2>3. DOMAIN entry = {"status", "spec", "next"}
        /\ entry = [status |-> entry.status, spec |-> entry.spec, next |-> entry.next]
    BY <2>2, RowShape
  <2>4. CASE PauseProcess \/ ResumeProcess \/ ArchiveProcess \/ ExpireProcess
    BY <2>1, <2>3, <2>4 DEF PauseProcess, ResumeProcess, ArchiveProcess, ExpireProcess,
                            CalendarInv
  <2>5. CASE RunDue \/ RunProposes \/ WatchNews
    <3>1. \/ entry' = PutOff
          \/ \E matched : entry' = Recorded(matched)
          \/ entry' = [entry EXCEPT !.status = "expired"]
      BY <2>5 DEF RunDue, RunProposes, WatchNews
    <3>2. \/ entry' = PutOff
          \/ entry' = [entry EXCEPT !.status = "completed", !.next = {}]
          \/ entry' = [entry EXCEPT !.status = "expired"]
      BY <3>1 DEF Recorded
    <3> QED BY <2>1, <2>3, <3>2 DEF PutOff, CalendarInv
  <2> QED BY <1>3, <2>4, <2>5 DEF ScheduleNext
<1> QED BY <1>1, <1>2, <1>3

LEMMA CalendarStep ==
  ASSUME CalendarInv, [ScheduleNext]_scheduleVars PROVE CalendarInv'
<1>1. ScheduleInv'
  BY ScheduleStep DEF CalendarInv
<1>2. CASE UNCHANGED scheduleVars
  BY <1>1, <1>2 DEF CalendarInv, scheduleVars, NoEntry
<1>3. CASE ScheduleNext
  BY <1>1, <1>3, ScheduleOutcome DEF CalendarInv, NoEntry
<1> QED BY <1>2, <1>3

\* In time zones whose clocks are never set over midnight, a recurring process is
\* always put off to the first of its calendar times to come, but in the time after
\* a change of the clocks, and what has no expiry lasts its local day.
THEOREM CalendarStaysKept ==
  ASSUME ZonesKeepDates PROVE ScheduleSpec => CalendarIsKept
<1>1. ScheduleInit => CalendarInv
  BY ScheduleStart, FormsAssumption DEF ScheduleInit, CalendarInv
<1>2. CalendarInv /\ [ScheduleNext]_scheduleVars => CalendarInv'
  BY CalendarStep
<1>3. ASSUME CalendarInv, ScheduleNext, entry' # entry, entry'.status = "active"
      PROVE  SlotIsKept(entry'.spec.schedule, entry'.next, clock)
  <2>1. clock \in Int
    BY <1>3 DEF CalendarInv
  <2>2. CASE entry'.spec = entry.spec /\ entry # NoEntry
    BY <1>3, <2>1, <2>2, ScheduleOutcome, SlotsAreKept DEF CalendarInv
  <2>3. CASE /\ entry' = [status |-> "active", spec |-> SpecOf(form', clock),
                          next |-> InitialNextRun(SpecOf(form', clock).schedule, clock)]
             /\ ~ ScheduleRefused(SpecOf(form', clock).schedule)
    BY <2>1, <2>3, SlotsAreKept
  <2> QED BY <1>3, <2>2, <2>3, ScheduleOutcome
<1>4. ASSUME CalendarInv, ScheduleNext, form' # form,
             "expires" \in DOMAIN form', form'.expires = {}
      PROVE  \A t \in entry'.spec.expires : LastsItsDay(ZoneOf(form'), clock, t)
  <2>1. clock \in Int
    BY <1>4 DEF CalendarInv
  <2>2. form' \in Forms /\ entry'.spec = SpecOf(form', clock)
    BY <1>4, ScheduleOutcome
  <2> QED BY <1>4, <2>1, <2>2, ExpiryIsKept
<1>5. ASSUME CalendarInv, [ScheduleNext]_scheduleVars
      PROVE  [/\ entry' # entry /\ entry'.status = "active"
                   => LET schedule == entry'.spec.schedule
                      IN  schedule.type = "recurring"
                            => \/ ClocksJustChanged(Zones[schedule.zone], clock)
                               \/ entry'.next = {NextSlot(schedule, clock)}
              /\ form' # form /\ "expires" \in DOMAIN form' /\ form'.expires = {}
                   => \A t \in entry'.spec.expires : LastsItsDay(ZoneOf(form'), clock, t)
             ]_scheduleVars
  BY <1>3, <1>4, <1>5 DEF SlotIsKept
<1> QED BY <1>1, <1>2, <1>5, PTL DEF ScheduleSpec, CalendarIsKept


-----------------------------------------------------------------------------
(* The adapters' runs: a verdict rests on what was read *)

Watching ==
    job.kind.adapter \in {"instrument_monitor", "market_regime_monitor", "trade_setup_monitor"}
Met == \E c \in job.watches : \E q \in quote : \E x \in q.price : Meets(c, x, q.change)
AllTold == \A c \in job.watches : CanBeTold(c)
CaptureFrom == {"search", "community", "disclosure", "market_data"}

\* What was read, and where a run may be, given what it has read.
RunTyped ==
    /\ job \in Jobs
    /\ quote = {} \/ \E s \in Snapshots : quote = {s}
    /\ points = {} \/ points \in Histories
    /\ Adapts("market_signal_capture") => left \in Seq(CaptureFrom) /\ got \subseteq CaptureFrom
RunInv ==
    /\ RunTyped
    /\ phase \in {"history", "judge"} => \E s \in Snapshots : quote = {s} /\ s.price # {}
    /\ phase \in {"quote", "history", "judge"} => Watching
    /\ phase \in {"policy", "propose"} => Adapts("trade_setup_monitor") /\ job.kind.propose
    /\ phase = "write" => Adapts("market_signal_capture")
    /\ phase = "context" => Adapts("company_event_analyst")
    /\ phase # "answered" => answer = {}
    /\ phase \in {"gather", "ask", "analyse", "policy", "propose"} /\ Watching => Met
    /\ answer = {Matched} /\ Watching => Met
    /\ answer = {NoMatch} /\ Watching => Met \/ AllTold
    /\ phase \in {"ask", "analyse", "write"} /\ Adapts("market_signal_capture")
          => got \cap {"search", "community", "disclosure"} # {}
    /\ answer \subseteq AnswersOf(job.kind)

LEMMA LeastNumber ==
  ASSUME NEW S, S \subseteq Int, IsFiniteSet(S), S # {}
  PROVE  Min(S) \in S /\ \A y \in S : Min(S) <= y
<1> DEFINE T == {{y \in S : y <= x} : x \in S}
<1>1. \A t \in T : IsFiniteSet(t)
  <2> SUFFICES ASSUME NEW x \in S PROVE IsFiniteSet({y \in S : y <= x})
    OBVIOUS
  <2> QED BY FS_Subset
<1>2. T # {}
  OBVIOUS
<1>3. PICK t \in T : \A u \in T : u \subseteq t => u = t
  <2> HIDE DEF T
  <2> QED BY <1>1, <1>2, LeastSubset
<1>4. PICK x \in S : t = {y \in S : y <= x}
  BY <1>3
<1>5. \A y \in S : x <= y
  <2> SUFFICES ASSUME NEW y \in S, ~ (x <= y) PROVE FALSE
    OBVIOUS
  <2>1. x \in Int /\ y \in Int
    OBVIOUS
  <2>2. {z \in S : z <= y} \subseteq t
    <3>1. ASSUME NEW z \in S, z <= y PROVE z <= x
      <4>1. z \in Int
        OBVIOUS
      <4> QED BY <2>1, <3>1, <4>1
    <3> QED BY <1>4, <3>1
  <2>3. {z \in S : z <= y} = t
    <3>1. {z \in S : z <= y} \in T
      OBVIOUS
    <3> HIDE DEF T
    <3> QED BY <1>3, <2>2, <3>1
  <2>4. x \in t /\ x \notin {z \in S : z <= y}
    BY <1>4, <2>1
  <2> QED BY <2>3, <2>4
<1> QED BY <1>5 DEF Min

LEMMA GreatestNumber ==
  ASSUME NEW S, S \subseteq Int, IsFiniteSet(S), S # {}
  PROVE  Max(S) \in S /\ \A y \in S : y <= Max(S)
<1> DEFINE T == {{y \in S : x <= y} : x \in S}
<1>1. \A t \in T : IsFiniteSet(t)
  <2> SUFFICES ASSUME NEW x \in S PROVE IsFiniteSet({y \in S : x <= y})
    OBVIOUS
  <2> QED BY FS_Subset
<1>2. T # {}
  OBVIOUS
<1>3. PICK t \in T : \A u \in T : u \subseteq t => u = t
  <2> HIDE DEF T
  <2> QED BY <1>1, <1>2, LeastSubset
<1>4. PICK x \in S : t = {y \in S : x <= y}
  BY <1>3
<1>5. \A y \in S : y <= x
  <2> SUFFICES ASSUME NEW y \in S, ~ (y <= x) PROVE FALSE
    OBVIOUS
  <2>1. x \in Int /\ y \in Int
    OBVIOUS
  <2>2. {z \in S : y <= z} \subseteq t
    <3>1. ASSUME NEW z \in S, y <= z PROVE x <= z
      <4>1. z \in Int
        OBVIOUS
      <4> QED BY <2>1, <3>1, <4>1
    <3> QED BY <1>4, <3>1
  <2>3. {z \in S : y <= z} = t
    <3>1. {z \in S : y <= z} \in T
      OBVIOUS
    <3> HIDE DEF T
    <3> QED BY <1>3, <2>2, <3>1
  <2>4. x \in t /\ x \notin {z \in S : y <= z}
    BY <1>4, <2>1
  <2> QED BY <2>3, <2>4
<1>6. \A y \in S : x >= y
  BY <1>5
<1>7. PICK m \in S : m = Max(S) /\ \A y \in S : m >= y
  BY <1>6 DEF Max
<1> QED BY <1>7

LEMMA HistoryIsFinite ==
  ASSUME RunTyped
  PROVE  /\ Lows(points) \subseteq Int /\ IsFiniteSet(Lows(points))
         /\ Highs(points) \subseteq Int /\ IsFiniteSet(Highs(points))
<1>1. IsFiniteSet(points) /\ points \subseteq [low : Maybe(Int), high : Maybe(Int)]
  BY FS_EmptySet, DataAreNumbers DEF RunTyped
<1>2. \A x \in Maybe(Int) : x \subseteq Int /\ IsFiniteSet(x)
  <2> TAKE x \in Maybe(Int)
  <2>1. x = {} \/ \E v \in Int : x = {v}
    BY DEF Maybe
  <2> QED BY <2>1, FS_EmptySet, FS_Singleton
<1>3. IsFiniteSet({p.low : p \in points}) /\ IsFiniteSet({p.high : p \in points})
  <2> DEFINE low == [p \in points |-> p.low]
             high == [p \in points |-> p.high]
  <2>1. low \in Surjection(points, {p.low : p \in points})
    BY DEF Surjection
  <2>2. high \in Surjection(points, {p.high : p \in points})
    BY DEF Surjection
  <2>3. IsFiniteSet({p.low : p \in points})
    BY <1>1, <2>1, FS_Surjection
  <2>4. IsFiniteSet({p.high : p \in points})
    BY <1>1, <2>2, FS_Surjection
  <2> QED BY <2>3, <2>4
<1>4. \A T \in {p.low : p \in points} : IsFiniteSet(T) /\ T \subseteq Int
  BY <1>1, <1>2
<1>5. \A T \in {p.high : p \in points} : IsFiniteSet(T) /\ T \subseteq Int
  BY <1>1, <1>2
<1>6. IsFiniteSet(UNION {p.low : p \in points}) /\ UNION {p.low : p \in points} \subseteq Int
  BY <1>3, <1>4, FS_UNION
<1>7. IsFiniteSet(UNION {p.high : p \in points}) /\ UNION {p.high : p \in points} \subseteq Int
  BY <1>3, <1>5, FS_UNION
<1> QED BY <1>6, <1>7 DEF Lows, Highs

\* A condition judged true is met by what was read, and one judged either way had
\* the number it takes.
LEMMA JudgedIsMet ==
  ASSUME RunTyped, NEW s \in Snapshots, quote = {s}, s.price # {}, NEW c \in job.watches
  PROVE  /\ Judged(c) = {TRUE} => \E q \in quote : \E x \in q.price : Meets(c, x, q.change)
         /\ Judged(c) # {} => CanBeTold(c)
<1>1. PICK x : x \in Int /\ s.price = {x}
  <2>1. s.price \in Maybe(Int)
    BY DataAreNumbers
  <2> QED BY <2>1 DEF Maybe
<1>2. c \in [on : Watched, value : Int]
  BY JobsAreJobs DEF RunTyped, Job
<1>3. s.change \in Maybe(Int)
  BY DataAreNumbers
<1> DEFINE prices == UNION {q.price : q \in quote}
           moves == UNION {q.change : q \in quote}
           Verdict(p, m) ==
              CASE c.on \in OnPrice -> JudgedOnPrice(c, p)
                [] c.on \in OnChange -> JudgedOnChange(c, m)
                [] c.on \in OnHistory -> JudgedOnHistory(c, p)
                [] OTHER -> JudgedOnDrawdown(c, p)
<1>4. Judged(c) = Verdict({x}, s.change)
  <2>1. Judged(c) = Verdict(prices, moves)
    BY DEF Judged
  <2>2. prices = {x} /\ moves = s.change
    BY <1>1
  <2> HIDE DEF prices, moves
  <2> QED BY <2>1, <2>2
<1>5. (\E q \in quote : \E y \in q.price : Meets(c, y, q.change)) <=> Meets(c, x, s.change)
  BY <1>1
<1>6. SUFFICES /\ Judged(c) = {TRUE} => Meets(c, x, s.change)
               /\ Judged(c) # {} => CanBeTold(c)
  BY <1>5
<1>7. CASE c.on \in OnPrice
  <2>1. Judged(c) = JudgedOnPrice(c, {x})
    BY <1>4, <1>7 DEF OnChange, OnPrice, OnHistory
  <2>2. Judged(c) = {TRUE} => (IF c.on = "below_price" THEN x <= c.value ELSE x >= c.value)
    <3>1. CASE c.on = "below_price"
      <4>1. Judged(c) = {y <= c.value : y \in {x}}
        BY <2>1, <3>1 DEF JudgedOnPrice
      <4> QED BY <3>1, <4>1
    <3>2. CASE c.on # "below_price"
      <4>1. Judged(c) = {y >= c.value : y \in {x}}
        BY <2>1, <3>2 DEF JudgedOnPrice
      <4> QED BY <3>2, <4>1
    <3> QED BY <3>1, <3>2
  <2>3. Judged(c) = {TRUE} => Meets(c, x, s.change)
    BY <1>7, <2>2 DEF Meets, OnPrice
  <2>4. CanBeTold(c)
    BY <1>7 DEF CanBeTold, OnPrice
  <2> QED BY <2>3, <2>4
<1>8. CASE c.on \in OnChange
  <2>1. Judged(c) = JudgedOnChange(c, s.change)
    BY <1>4, <1>8 DEF OnChange, OnPrice, OnHistory
  <2>2. ASSUME Judged(c) = {TRUE}
        PROVE \E y \in s.change :
                 IF c.on = "percent_change_below" THEN y <= c.value ELSE y >= c.value
    <3>1. CASE c.on = "percent_change_below"
      <4>1. Judged(c) = {y <= c.value : y \in s.change}
        BY <2>1, <3>1 DEF JudgedOnChange
      <4> QED BY <2>2, <3>1, <4>1
    <3>2. CASE c.on # "percent_change_below"
      <4>1. Judged(c) = {y >= c.value : y \in s.change}
        BY <2>1, <3>2 DEF JudgedOnChange
      <4> QED BY <2>2, <3>2, <4>1
    <3> QED BY <3>1, <3>2
  <2>3. Judged(c) = {TRUE} => Meets(c, x, s.change)
    BY <1>8, <2>2 DEF Meets, OnChange
  <2>4. ASSUME Judged(c) # {} PROVE CanBeTold(c)
    <3>1. s.change # {}
      BY <2>1, <2>4 DEF JudgedOnChange
    <3> QED BY <1>8, <3>1 DEF CanBeTold, OnChange
  <2> QED BY <2>3, <2>4
<1>9. CASE c.on = "period_low_breakdown"
  <2>1. Judged(c) = JudgedOnHistory(c, {x})
    BY <1>4, <1>9 DEF OnChange, OnPrice, OnHistory
  <2>2. CASE Lows(points) = {}
    BY <1>9, <2>1, <2>2 DEF JudgedOnHistory
  <2>3. CASE Lows(points) # {}
    <3>1. JudgedOnHistory(c, {x}) = {x <= Min(Lows(points))}
      BY <1>9, <2>3 DEF JudgedOnHistory
    <3>2. Judged(c) = {TRUE} => x <= Min(Lows(points))
      BY <2>1, <3>1
    <3>3. /\ Lows(points) \subseteq Int /\ Min(Lows(points)) \in Lows(points)
          /\ \A y \in Lows(points) : Min(Lows(points)) <= y
      BY <2>3, HistoryIsFinite, LeastNumber
    <3>4. Judged(c) = {TRUE} => \A y \in Lows(points) : x <= y
      BY <1>1, <3>2, <3>3
    <3> QED BY <1>9, <2>3, <3>4 DEF Meets, CanBeTold
  <2> QED BY <2>2, <2>3
<1>10. CASE c.on = "period_high_breakout"
  <2>1. Judged(c) = JudgedOnHistory(c, {x})
    BY <1>4, <1>10 DEF OnChange, OnPrice, OnHistory
  <2>2. CASE Highs(points) = {}
    BY <1>10, <2>1, <2>2 DEF JudgedOnHistory
  <2>3. CASE Highs(points) # {}
    <3>1. JudgedOnHistory(c, {x}) = {x >= Max(Highs(points))}
      BY <1>10, <2>3 DEF JudgedOnHistory
    <3>2. Judged(c) = {TRUE} => x >= Max(Highs(points))
      BY <2>1, <3>1
    <3>3. /\ Highs(points) \subseteq Int /\ Max(Highs(points)) \in Highs(points)
          /\ \A y \in Highs(points) : y <= Max(Highs(points))
      BY <2>3, HistoryIsFinite, GreatestNumber
    <3>4. Judged(c) = {TRUE} => \A y \in Highs(points) : x >= y
      BY <1>1, <3>2, <3>3
    <3> QED BY <1>10, <2>3, <3>4 DEF Meets, CanBeTold
  <2> QED BY <2>2, <2>3
<1>11. CASE c.on = "drawdown_from_high_pct"
  <2> DEFINE H == PositiveHighs(points)
             high == Max(PositiveHighs(points))
  <2>1. Judged(c) = JudgedOnDrawdown(c, {x})
    BY <1>4, <1>11 DEF OnChange, OnPrice, OnHistory
  <2>2. CASE H = {}
    BY <2>1, <2>2 DEF JudgedOnDrawdown
  <2>3. CASE H # {}
    <3>1. JudgedOnDrawdown(c, {x}) = {(high - x) * 100 >= c.value * high}
      BY <2>3 DEF JudgedOnDrawdown
    <3>2. Judged(c) = {TRUE} => (high - x) * 100 >= c.value * high
      BY <2>1, <3>1
    <3>3. H \subseteq Highs(points) /\ H \subseteq Int /\ IsFiniteSet(H)
      <4>1. /\ Highs(points) \subseteq Int /\ IsFiniteSet(Highs(points))
            /\ H \in SUBSET Highs(points)
        BY HistoryIsFinite DEF PositiveHighs
      <4> QED BY <4>1, FS_Subset
    <3>4. high \in H
      BY <2>3, <3>3, GreatestNumber
    <3>5. high \in Highs(points) /\ high > 0 /\ high \in Int
      BY <3>3, <3>4 DEF PositiveHighs
    <3>6. c.value \in Int
      BY <1>2
    <3>7. ASSUME (high - x) * 100 >= c.value * high
          PROVE  100 * x <= (100 - c.value) * high
      <4>1. PICK h \in Int : h = high
        BY <3>5
      <4>2. PICK v \in Int : v = c.value
        BY <3>6
      <4>3. (h - x) * 100 >= v * h
        BY <3>7, <4>1, <4>2
      <4> HIDE DEF high
      <4>4. 100 * x <= (100 - v) * h
        BY <1>1, <4>3
      <4> QED BY <4>1, <4>2, <4>4
    <3>8. Judged(c) = {TRUE} => Meets(c, x, s.change)
      BY <1>11, <3>2, <3>5, <3>7 DEF Meets
    <3>9. CanBeTold(c)
      BY <1>11, <3>5 DEF CanBeTold
    <3> QED BY <3>8, <3>9
  <2> QED BY <2>2, <2>3
<1> QED BY <1>2, <1>7, <1>8, <1>9, <1>10, <1>11 DEF Watched, OnPrice, OnChange, OnHistory

LEMMA JudgementsStay ==
  ASSUME UNCHANGED <<job, quote, points>>
  PROVE  /\ Met' <=> Met
         /\ AllTold' <=> AllTold
         /\ Watching' <=> Watching
<1>1. Lows(points)' = Lows(points) /\ Highs(points)' = Highs(points)
  BY DEF Lows, Highs
<1>2. \A c, x, m : Meets(c, x, m)' <=> Meets(c, x, m)
  BY <1>1 DEF Meets
<1>3. \A c : CanBeTold(c)' <=> CanBeTold(c)
  BY <1>1 DEF CanBeTold
<1> QED BY <1>2, <1>3 DEF Met, AllTold, Watching

LEMMA SomeAnswers ==
  ASSUME RunTyped
  PROVE  /\ {Failed, Skipped} \subseteq AnswersOf(job.kind)
         /\ Watching => NoMatch \in AnswersOf(job.kind)
         /\ Adapts("instrument_monitor") \/ Adapts("market_regime_monitor")
               \/ Adapts("company_event_analyst") => Matched \in AnswersOf(job.kind)
         /\ Adapts("trade_setup_monitor") =>
               \A ordered \in BOOLEAN : job.kind.propose \in BOOLEAN
                  /\ Answer("completed", ~ job.kind.propose /\ ordered, Text(job.kind))
                        \in AnswersOf(job.kind)
<1>1. job.kind \in Kind
  BY JobsAreJobs DEF RunTyped, Job
<1>2. AnswersOf(job.kind) =
        CASE Adapts("instrument_monitor") -> InstrumentAnswers(job.kind)
          [] Adapts("market_regime_monitor") -> MarketRegimeAnswers(job.kind)
          [] Adapts("company_event_analyst") -> CompanyEventAnswers(job.kind)
          [] Adapts("trade_setup_monitor") -> TradeSetupAnswers(job.kind)
          [] Adapts("market_signal_capture") -> CaptureAnswers
  BY DEF AnswersOf, Adapts
<1>3. job.kind.adapter \in {"instrument_monitor", "market_regime_monitor",
                            "company_event_analyst", "trade_setup_monitor",
                            "market_signal_capture"} /\ job.kind.propose \in BOOLEAN
  BY <1>1 DEF Kind
<1>4. {Failed, Skipped} \subseteq AnswersOf(job.kind)
  BY <1>2, <1>3 DEF Adapts, InstrumentAnswers, MarketRegimeAnswers, CompanyEventAnswers,
     TradeSetupAnswers, CaptureAnswers
<1>5. Watching => NoMatch \in AnswersOf(job.kind)
  BY <1>2 DEF Watching, Adapts, InstrumentAnswers, MarketRegimeAnswers, TradeSetupAnswers
<1>6. Adapts("instrument_monitor") \/ Adapts("market_regime_monitor")
        \/ Adapts("company_event_analyst") => Matched \in AnswersOf(job.kind)
  BY <1>2 DEF Adapts, InstrumentAnswers, MarketRegimeAnswers, CompanyEventAnswers, Matched
<1>7. ASSUME Adapts("trade_setup_monitor"), NEW ordered \in BOOLEAN
      PROVE  Answer("completed", ~ job.kind.propose /\ ordered, Text(job.kind))
                \in AnswersOf(job.kind)
  <2>1. AnswersOf(job.kind) = TradeSetupAnswers(job.kind)
    BY <1>2, <1>7 DEF Adapts
  <2>2. CASE ~ job.kind.propose /\ ordered
    <3>1. (~ job.kind.propose /\ ordered) = TRUE
      BY <2>2
    <3>2. Answer("completed", TRUE, Text(job.kind)) \in AnswersOf(job.kind)
      BY <2>1, <2>2 DEF TradeSetupAnswers
    <3> QED BY <3>1, <3>2
  <2>3. CASE ~ (~ job.kind.propose /\ ordered)
    <3>1. (~ job.kind.propose /\ ordered) = FALSE
      BY <2>3
    <3>2. Answer("completed", FALSE, Text(job.kind)) \in AnswersOf(job.kind)
      BY <2>1 DEF TradeSetupAnswers
    <3> QED BY <3>1, <3>2
  <2> QED BY <2>2, <2>3
<1> QED BY <1>3, <1>4, <1>5, <1>6, <1>7

\* A run that ends answers what its adapter may, and what it has read.
LEMMA RunEnds ==
  ASSUME NEW r, RunTyped', UNCHANGED job, phase' = "answered", answer' = {r},
         r \in AnswersOf(job.kind), r = Matched /\ Watching => Met',
         r = NoMatch /\ Watching => Met' \/ AllTold'
  PROVE  RunInv'
<1>1. Matched' = Matched /\ (Watching' <=> Watching) /\ AnswersOf(job.kind)' = AnswersOf(job.kind)
  BY DEF Matched, Watching
<1>2. (answer = {Matched})' => r = Matched
  BY <1>1
<1>3. (answer = {NoMatch})' => r = NoMatch
  OBVIOUS
<1> QED BY <1>1, <1>2, <1>3 DEF RunInv

LEMMA FailuresEnd ==
  ASSUME NEW r \in {Failed, Skipped}, RunTyped, RunTyped', UNCHANGED job,
         phase' = "answered", answer' = {r}
  PROVE  RunInv'
<1>1. r # Matched /\ r # NoMatch
  BY DEF Failed, Skipped, NoMatch, Matched, Answer
<1>2. r \in AnswersOf(job.kind)
  BY SomeAnswers
<1> QED BY <1>1, <1>2, RunEnds

LEMMA RunFrame ==
  ASSUME RunTyped, UNCHANGED <<job, quote, points, left, got>> PROVE RunTyped'
BY DEF RunTyped, Adapts

\* A run goes on with its sources, if what it was to see has been seen.
LEMMA GathersKeeps ==
  ASSUME RunInv, Gathers, Watching => Met, UNCHANGED <<job, quote, points, got>>,
         phase # "answered"
  PROVE  RunInv'
<1>1. phase' = "gather" /\ answer' = {} /\ left' = SourcesInOrder
  BY DEF Gathers, Goes, RunInv
<1>2. RunTyped'
  <2>1. Adapts("market_signal_capture") => SourcesInOrder = CaptureSources
    BY DEF SourcesInOrder, Adapts
  <2>2. CaptureSources \in Seq(CaptureFrom)
    BY DEF CaptureSources, CaptureFrom
  <2> QED BY <1>1, <2>1, <2>2 DEF RunInv, RunTyped, Adapts
<1>3. (Met' <=> Met) /\ (Watching' <=> Watching)
  BY JudgementsStay
<1>4. answer' # {Matched'} /\ answer' # {NoMatch'}
  BY <1>1
<1> QED BY <1>1, <1>2, <1>3, <1>4 DEF RunInv

LEMMA BeginRunKeeps ==
  ASSUME RunInv, BeginRun PROVE RunInv'
<1>1. RunTyped /\ phase = "begin" /\ answer = {}
  BY DEF RunInv, BeginRun
<1>2. UNCHANGED <<job, missing, quote, points, got>>
  BY DEF BeginRun
<1>3. job.kind.adapter \in {"instrument_monitor", "market_regime_monitor",
                            "company_event_analyst", "trade_setup_monitor",
                            "market_signal_capture"}
  BY <1>1, JobsAreJobs DEF RunTyped, Job, Kind
<1>4. CASE (Answers(Failed) \/ Answers(Skipped)) /\ UNCHANGED left
  <2>1. RunTyped'
    BY <1>1, <1>2, <1>4, RunFrame
  <2>2. \E r \in {Failed, Skipped} : phase' = "answered" /\ answer' = {r}
    BY <1>4 DEF Answers
  <2> QED BY <1>1, <1>2, <2>1, <2>2, FailuresEnd
<1>5. CASE Goes("quote") /\ UNCHANGED left /\ Watching
  <2>1. RunTyped'
    BY <1>1, <1>2, <1>5, RunFrame
  <2>2. phase' = "quote" /\ answer' = {} /\ (Watching' <=> Watching)
    BY <1>1, <1>2, <1>5 DEF Goes, Watching
  <2>3. answer' # {Matched'} /\ answer' # {NoMatch'}
    BY <2>2
  <2> QED BY <1>2, <1>5, <2>1, <2>2, <2>3 DEF RunInv
<1>6. CASE Gathers /\ ~ Watching
  BY <1>1, <1>2, <1>6, GathersKeeps
<1>7. \/ (Answers(Failed) \/ Answers(Skipped)) /\ UNCHANGED left
      \/ Goes("quote") /\ UNCHANGED left /\ Watching
      \/ Gathers /\ ~ Watching
  <2>1. CASE Adapts("company_event_analyst")
    BY <2>1 DEF BeginRun, Adapts, Watching
  <2>2. CASE Adapts("market_signal_capture")
    BY <2>2 DEF BeginRun, Adapts, Watching
  <2>3. CASE Watching
    BY <2>3 DEF BeginRun, Adapts, Watching
  <2> QED BY <1>3, <2>1, <2>2, <2>3 DEF Adapts, Watching
<1> QED BY <1>4, <1>5, <1>6, <1>7

LEMMA ReadQuoteKeeps ==
  ASSUME RunInv, ReadQuote PROVE RunInv'
<1>1. RunTyped /\ phase = "quote" /\ answer = {} /\ Watching
  BY DEF RunInv, ReadQuote
<1>2. UNCHANGED <<job, missing, points, left, got>>
  BY DEF ReadQuote
<1>3. PICK q \in {{}} \cup {{s} : s \in Snapshots} :
        /\ quote' = q
        /\ IF \A x \in q : x.price = {} THEN Answers(Skipped)
           ELSE Goes("history") \/ Goes("judge")
  BY DEF ReadQuote
<1>4. RunTyped'
  BY <1>1, <1>2, <1>3 DEF RunTyped, Adapts
<1>5. CASE \A x \in q : x.price = {}
  <2>1. phase' = "answered" /\ answer' = {Skipped}
    BY <1>3, <1>5 DEF Answers
  <2> QED BY <1>1, <1>2, <1>4, <2>1, FailuresEnd
<1>6. CASE ~ \A x \in q : x.price = {}
  <2>1. phase' \in {"history", "judge"} /\ answer' = {}
    BY <1>1, <1>3, <1>6 DEF Goes
  <2>2. \E s \in Snapshots : quote' = {s} /\ s.price # {}
    BY <1>3, <1>6
  <2>3. Watching'
    BY <1>1, <1>2 DEF Watching
  <2>4. answer' # {Matched'} /\ answer' # {NoMatch'}
    BY <2>1
  <2> QED BY <1>4, <2>1, <2>2, <2>3, <2>4 DEF RunInv
<1> QED BY <1>5, <1>6

LEMMA ReadHistoryKeeps ==
  ASSUME RunInv, ReadHistory PROVE RunInv'
<1>1. RunTyped /\ phase = "history" /\ answer = {} /\ Watching
      /\ \E s \in Snapshots : quote = {s} /\ s.price # {}
  BY DEF RunInv, ReadHistory
<1>2. UNCHANGED <<job, missing, quote, left, got>> /\ points' \in {{}} \cup Histories
      /\ phase' = "judge" /\ answer' = {}
  BY <1>1 DEF ReadHistory, Goes
<1>3. RunTyped' /\ Watching'
  BY <1>1, <1>2 DEF RunTyped, Adapts, Watching
<1>4. answer' # {Matched'} /\ answer' # {NoMatch'}
  BY <1>2
<1> QED BY <1>1, <1>2, <1>3, <1>4 DEF RunInv

LEMMA JudgeTriggerKeeps ==
  ASSUME RunInv, JudgeTrigger PROVE RunInv'
<1>1. RunTyped /\ phase = "judge" /\ answer = {} /\ Watching
  BY DEF RunInv, JudgeTrigger
<1>2. PICK s \in Snapshots : quote = {s} /\ s.price # {}
  BY <1>1 DEF RunInv
<1>3. UNCHANGED <<job, missing, quote, points, got>>
  BY DEF JudgeTrigger
<1>4. (Met' <=> Met) /\ (AllTold' <=> AllTold)
  BY <1>3, JudgementsStay
<1>5. CASE \E c \in job.watches : Judged(c) = {TRUE}
  <2>1. Met
    BY <1>1, <1>2, <1>5, JudgedIsMet DEF Met
  <2>2. \/ Answers(Matched) /\ UNCHANGED left /\ Adapts("instrument_monitor")
        \/ Answers(Skipped) /\ UNCHANGED left
        \/ Gathers
    BY <1>5 DEF JudgeTrigger, GoesOn
  <2>3. CASE Gathers
    BY <1>1, <1>3, <2>1, <2>3, GathersKeeps
  <2>4. CASE Answers(Skipped) /\ UNCHANGED left
    <3>1. RunTyped' /\ phase' = "answered" /\ answer' = {Skipped}
      BY <1>1, <1>3, <2>4, RunFrame DEF Answers
    <3> QED BY <1>1, <1>3, <3>1, FailuresEnd
  <2>5. CASE Answers(Matched) /\ UNCHANGED left /\ Adapts("instrument_monitor")
    <3>1. RunTyped' /\ phase' = "answered" /\ answer' = {Matched}
      BY <1>1, <1>3, <2>5, RunFrame DEF Answers
    <3>2. Matched \in AnswersOf(job.kind)
      BY <1>1, <2>5, SomeAnswers
    <3> QED BY <1>3, <1>4, <2>1, <3>1, <3>2, RunEnds
  <2> QED BY <2>2, <2>3, <2>4, <2>5
<1>6. CASE ~ \E c \in job.watches : Judged(c) = {TRUE}
  <2>1. UNCHANGED left
        /\ Answers(IF \E c \in job.watches : Judged(c) = {} THEN Skipped ELSE NoMatch)
    BY <1>6 DEF JudgeTrigger
  <2>2. RunTyped'
    BY <1>1, <1>3, <2>1, RunFrame
  <2>3. CASE \E c \in job.watches : Judged(c) = {}
    <3>1. phase' = "answered" /\ answer' = {Skipped}
      BY <2>1, <2>3 DEF Answers
    <3> QED BY <1>1, <1>3, <2>2, <3>1, FailuresEnd
  <2>4. CASE ~ \E c \in job.watches : Judged(c) = {}
    <3>1. phase' = "answered" /\ answer' = {NoMatch}
      BY <2>1, <2>4 DEF Answers
    <3>2. AllTold
      BY <1>1, <1>2, <2>4, JudgedIsMet DEF AllTold
    <3>3. NoMatch # Matched /\ NoMatch \in AnswersOf(job.kind)
      BY <1>1, SomeAnswers DEF NoMatch, Matched, Answer
    <3> QED BY <1>3, <1>4, <2>2, <3>1, <3>2, <3>3, RunEnds
  <2> QED BY <2>3, <2>4
<1> QED BY <1>5, <1>6

\* A run goes on to what it may do next.
LEMMA RunMoves ==
  ASSUME RunInv, phase # "answered", UNCHANGED <<job, quote, points, left, got, answer>>,
         phase' \in {"context", "ask", "analyse", "policy", "propose", "write"},
         phase' \in {"policy", "propose"} => Adapts("trade_setup_monitor") /\ job.kind.propose,
         phase' = "write" => Adapts("market_signal_capture"),
         phase' = "context" => Adapts("company_event_analyst"),
         Watching => Met,
         phase' \in {"ask", "analyse", "write"} /\ Adapts("market_signal_capture")
            => got \cap {"search", "community", "disclosure"} # {}
  PROVE  RunInv'
<1>1. RunTyped'
  BY RunFrame DEF RunInv
<1>2. (Met' <=> Met) /\ (Watching' <=> Watching)
  BY JudgementsStay
<1>3. answer' = {} /\ answer' # {Matched'} /\ answer' # {NoMatch'}
  BY DEF RunInv
<1> QED BY <1>1, <1>2, <1>3 DEF RunInv, Adapts

LEMMA GatherSourceKeeps ==
  ASSUME RunInv, GatherSource PROVE RunInv'
<1>1. RunTyped /\ phase = "gather" /\ answer = {} /\ left # <<>>
      /\ UNCHANGED <<job, missing, phase, quote, points, answer>>
      /\ left' = Tail(left) /\ (got' = got \/ got' = got \cup {Head(left)})
  BY DEF RunInv, GatherSource
<1>2. ASSUME Adapts("market_signal_capture")
      PROVE  left' \in Seq(CaptureFrom) /\ got' \subseteq CaptureFrom
  <2>1. left \in Seq(CaptureFrom) /\ got \subseteq CaptureFrom
    BY <1>1, <1>2 DEF RunTyped
  <2> QED BY <1>1, <2>1, HeadTailProperties
<1>3. RunTyped'
  BY <1>1, <1>2 DEF RunTyped, Adapts
<1>4. (Met' <=> Met) /\ (Watching' <=> Watching)
  BY <1>1, JudgementsStay
<1>5. answer' # {Matched'} /\ answer' # {NoMatch'}
  BY <1>1
<1> QED BY <1>1, <1>3, <1>4, <1>5 DEF RunInv

LEMMA EndGatheringKeeps ==
  ASSUME RunInv, EndGathering PROVE RunInv'
<1>1. RunTyped /\ phase = "gather" /\ (Watching => Met)
      /\ UNCHANGED <<job, missing, quote, points, left, got>>
  BY DEF RunInv, EndGathering
<1>2. CASE Adapts("market_signal_capture") /\ got \subseteq {"market_data"}
  <2>1. RunTyped' /\ phase' = "answered" /\ answer' = {Skipped}
    BY <1>1, <1>2, RunFrame DEF EndGathering, Answers
  <2> QED BY <1>1, <2>1, FailuresEnd
<1>3. CASE ~ (Adapts("market_signal_capture") /\ got \subseteq {"market_data"})
  <2>1. UNCHANGED answer
        /\ phase' \in {"ask", "context"}
        /\ (phase' = "context" => Adapts("company_event_analyst"))
    BY <1>3 DEF EndGathering, Goes
  <2>2. Adapts("market_signal_capture") => got \cap {"search", "community", "disclosure"} # {}
    BY <1>1, <1>3 DEF RunTyped, CaptureFrom
  <2> QED BY <1>1, <2>1, <2>2, RunMoves
<1> QED BY <1>2, <1>3

LEMMA AskAnalystKeeps ==
  ASSUME RunInv, AskAnalyst PROVE RunInv'
<1>1. RunTyped /\ phase \in {"context", "ask"}
      /\ UNCHANGED <<job, missing, quote, points, left, got>>
  BY DEF RunInv, AskAnalyst
<1>2. CASE Answers(Failed)
  <2>1. RunTyped' /\ phase' = "answered" /\ answer' = {Failed}
    BY <1>1, <1>2, RunFrame DEF Answers
  <2> QED BY <1>1, <2>1, FailuresEnd
<1>3. CASE phase = "context" /\ Goes("ask")
  <2>1. Adapts("company_event_analyst")
    BY <1>3 DEF RunInv
  <2>2. ~ Adapts("market_signal_capture") /\ ~ Watching
    BY <2>1 DEF Adapts, Watching
  <2> QED BY <1>1, <1>3, <2>2, RunMoves DEF Goes
<1>4. CASE phase = "ask" /\ Goes("analyse")
  BY <1>1, <1>4, RunMoves DEF Goes, RunInv
<1> QED BY <1>2, <1>3, <1>4 DEF AskAnalyst

LEMMA AnalysisKeeps ==
  ASSUME RunInv, AnalyseEvent \/ AnalyseRegime \/ AnalyseCapture \/ AnalyseSetup
  PROVE  RunInv'
<1>1. RunTyped /\ phase = "analyse" /\ (Watching => Met)
      /\ UNCHANGED <<job, missing, quote, points, left, got>>
  BY DEF RunInv, AnalyseEvent, AnalyseRegime, AnalyseCapture, AnalyseSetup
<1>2. Met' <=> Met
  BY <1>1, JudgementsStay
<1>3. CASE Answers(Failed)
  <2>1. RunTyped' /\ phase' = "answered" /\ answer' = {Failed}
    BY <1>1, <1>3, RunFrame DEF Answers
  <2> QED BY <1>1, <2>1, FailuresEnd
<1>4. CASE Answers(Matched)
           /\ (Adapts("company_event_analyst") \/ Adapts("market_regime_monitor"))
  <2>1. RunTyped' /\ phase' = "answered" /\ answer' = {Matched}
    BY <1>1, <1>4, RunFrame DEF Answers
  <2>2. Matched \in AnswersOf(job.kind)
    BY <1>1, <1>4, SomeAnswers
  <2> QED BY <1>1, <1>2, <2>1, <2>2, RunEnds
<1>5. CASE Goes("write") /\ Adapts("market_signal_capture")
  <2>1. got \cap {"search", "community", "disclosure"} # {}
    BY <1>1, <1>5 DEF RunInv
  <2> QED BY <1>1, <1>5, <2>1, RunMoves DEF Goes
<1>6. CASE Goes("policy") /\ Adapts("trade_setup_monitor") /\ job.kind.propose
  <2>1. ~ Adapts("market_signal_capture")
    BY <1>6 DEF Adapts
  <2> QED BY <1>1, <1>6, <2>1, RunMoves DEF Goes
<1>7. CASE /\ Adapts("trade_setup_monitor")
           /\ \E ordered \in BOOLEAN :
                 Answers(Answer("completed", ~ job.kind.propose /\ ordered, Text(job.kind)))
  <2>1. PICK ordered \in BOOLEAN :
           Answers(Answer("completed", ~ job.kind.propose /\ ordered, Text(job.kind)))
    BY <1>7
  <2> DEFINE r == Answer("completed", ~ job.kind.propose /\ ordered, Text(job.kind))
  <2>2. RunTyped' /\ phase' = "answered" /\ answer' = {r}
    BY <1>1, <2>1, RunFrame DEF Answers
  <2>3. r \in AnswersOf(job.kind) /\ Watching
    BY <1>1, <1>7, SomeAnswers DEF Watching, Adapts
  <2> HIDE DEF r
  <2> QED BY <1>1, <1>2, <2>2, <2>3, RunEnds
<1>8. ASSUME AnalyseSetup
      PROVE  \/ Answers(Failed)
             \/ Goes("policy") /\ job.kind.propose
             \/ \E ordered \in BOOLEAN :
                 Answers(Answer("completed", ~ job.kind.propose /\ ordered, Text(job.kind)))
  <2>1. \/ Answers(Failed)
        \/ Goes("policy") /\ job.kind.propose
        \/ \E quality \in {"reject", "other"}, order \in BOOLEAN :
              Answers(Answer("completed", ~ job.kind.propose /\ (order \/ quality # "reject"),
                             Text(job.kind)))
    BY <1>8 DEF AnalyseSetup
  <2>2. ASSUME NEW quality \in {"reject", "other"}, NEW order \in BOOLEAN
        PROVE  (order \/ quality # "reject") \in BOOLEAN
    OBVIOUS
  <2> QED BY <2>1, <2>2
<1>9. AnalyseSetup => Adapts("trade_setup_monitor")
  BY DEF AnalyseSetup
<1>10. AnalyseEvent => Answers(Failed) \/ (Answers(Matched) /\ Adapts("company_event_analyst"))
  BY DEF AnalyseEvent
<1>11. AnalyseRegime => Answers(Failed) \/ (Answers(Matched) /\ Adapts("market_regime_monitor"))
  BY DEF AnalyseRegime
<1>12. AnalyseCapture => Answers(Failed) \/ (Goes("write") /\ Adapts("market_signal_capture"))
  BY DEF AnalyseCapture
<1> QED BY <1>3, <1>4, <1>5, <1>6, <1>7, <1>8, <1>9, <1>10, <1>11, <1>12

LEMMA PrepareProposalKeeps ==
  ASSUME RunInv, PrepareProposal PROVE RunInv'
<1>1. RunTyped /\ phase = "policy" /\ Adapts("trade_setup_monitor") /\ job.kind.propose
      /\ UNCHANGED <<job, missing, quote, points, left, got>>
  BY DEF RunInv, PrepareProposal
<1>2. Watching /\ ~ Adapts("market_signal_capture")
  BY <1>1 DEF Watching, Adapts
<1>3. Met /\ (Met' <=> Met)
  BY <1>1, <1>2, JudgementsStay DEF RunInv
<1>4. CASE Answers(NoMatch)
  <2>1. RunTyped' /\ phase' = "answered" /\ answer' = {NoMatch}
    BY <1>1, <1>4, RunFrame DEF Answers
  <2>2. NoMatch \in AnswersOf(job.kind)
    BY <1>1, <1>2, SomeAnswers
  <2> QED BY <1>1, <1>3, <2>1, <2>2, RunEnds
<1>5. CASE Answers(Skipped)
  <2>1. RunTyped' /\ phase' = "answered" /\ answer' = {Skipped}
    BY <1>1, <1>5, RunFrame DEF Answers
  <2> QED BY <1>1, <2>1, FailuresEnd
<1>6. CASE Goes("propose")
  BY <1>1, <1>2, <1>3, <1>6, RunMoves DEF Goes
<1> QED BY <1>4, <1>5, <1>6 DEF PrepareProposal

LEMMA RunStands ==
  ASSUME RunInv, UNCHANGED runVars PROVE RunInv'
<1>1. UNCHANGED <<job, missing, phase, quote, points, left, got, answer>>
  BY DEF runVars
<1>2. RunTyped'
  BY <1>1, RunFrame DEF RunInv
<1>3. (Met' <=> Met) /\ (AllTold' <=> AllTold) /\ (Watching' <=> Watching)
  BY <1>1, JudgementsStay
<1>4. Matched' = Matched /\ AnswersOf(job.kind)' = AnswersOf(job.kind)
  BY <1>1 DEF Matched
<1> QED BY <1>1, <1>2, <1>3, <1>4 DEF RunInv, Adapts

\* A watching process that spends a model, matches or proposes has read data on
\* which one of its conditions holds, one that answers "no match" could judge
\* them all, and none answers or writes what its kind may not.
THEOREM VerdictsRestOnData == RunSpec => []VerdictsAreSound
<1>1. RunInit => RunInv
  <2> SUFFICES ASSUME RunInit PROVE RunInv
    OBVIOUS
  <2>1. RunTyped
    BY DEF RunInit, RunTyped
  <2>2. phase = "begin" /\ answer = {} /\ answer # {Matched} /\ answer # {NoMatch}
    BY DEF RunInit
  <2> QED BY <2>1, <2>2 DEF RunInv
<1>2. RunInv /\ [RunNext]_runVars => RunInv'
  BY BeginRunKeeps, ReadQuoteKeeps, ReadHistoryKeeps, JudgeTriggerKeeps, GatherSourceKeeps,
     EndGatheringKeeps, AskAnalystKeeps, AnalysisKeeps, PrepareProposalKeeps, RunStands
     DEF RunNext
<1>3. RunInv => VerdictsAreSound
  <2> SUFFICES ASSUME RunInv PROVE VerdictsAreSound
    OBVIOUS
  <2>1. job.watches # {} => Watching
    BY JobsAreJobs DEF RunInv, RunTyped, Job, Kind, Watching
  <2> QED BY <2>1 DEF RunInv, VerdictsAreSound, Met, AllTold
<1> QED BY <1>1, <1>2, <1>3, PTL DEF RunSpec

-----------------------------------------------------------------------------
(* The memory of signals: what a search may leave out *)

StoredRow ==
    [title : {n.title : n \in SignalNotes},
     topics : {[t \in Topics |-> n[t]] : n \in SignalNotes},
     nature : {n.nature : n \in SignalNotes}, end : SUBSET Int, ahead : SUBSET Int,
     status : {"active", "archived"}, updated : Int]
MemoryTypeOK ==
    /\ memory \in Seq(StoredRow) /\ hour \in Int
    /\ \A i \in Stored : memory[i].end # {} => memory[i].ahead # {}
SignalInv == MemoryTypeOK /\ SignalsAreFound

InUtc(i) == memory[i].ahead \subseteq {0}
LeftOut(q, i, others, rows) == CrowdedOut(i, others) \/ Outranked(i, q, rows)

LEMMA MinOfTwo ==
  ASSUME NEW a \in Int, NEW b \in Int PROVE Min({a, b}) \in {a, b}
<1>1. \E x \in {a, b} : \A y \in {a, b} : x <= y
  OBVIOUS
<1> QED BY <1>1 DEF Min

LEMMA MaxOfTwo ==
  ASSUME NEW a \in Int, NEW b \in Int PROVE Max({a, b}) \in {a, b}
<1>1. \E x \in {a, b} : \A y \in {a, b} : x >= y
  OBVIOUS
<1> QED BY <1>1 DEF Max

\* What is not among the first n is behind all of n.
LEMMA FirstLeaveOut ==
  ASSUME NEW S, IsFiniteSet(S), NEW n \in Int, NEW ord, NEW T \in First(S, n, ord)
  PROVE  /\ T \subseteq S
         /\ \A i \in S \ T : Cardinality(T) = n /\ \A j \in T : <<i, j>> \notin ord
<1>1. /\ T \subseteq S /\ Cardinality(T) = Min({n, Cardinality(S)})
      /\ ((S \ T) \X T) \cap ord = {}
  BY DEF First
<1>2. Cardinality(S) \in Int
  BY FS_CardinalityType
<1>3. Cardinality(T) = n \/ Cardinality(T) = Cardinality(S)
  BY <1>1, <1>2, MinOfTwo
<1>4. Cardinality(T) = Cardinality(S) => S = T
  BY <1>1, FS_Subset
<1> QED BY <1>1, <1>3, <1>4

LEMMA LimitIsNumber ==
  ASSUME NEW q, SignalQuery(q) PROVE Limit(q) \in Int
<1>1. q.limit \in Int /\ MostShown \in Int /\ UsuallyShown \in Int
  BY SearchesAreWellFormed DEF SignalQuery
<1>2. Min({MostShown, q.limit}) \in Int
  BY <1>1, MinOfTwo
<1>3. Max({1, Min({MostShown, q.limit})}) \in Int
  <2>1. \A m \in Int : Max({1, m}) \in {1, m}
    BY MaxOfTwo
  <2> QED BY <1>2, <2>1
<1> QED BY <1>1, <1>3 DEF Limit

LEMMA StoredIsFinite ==
  ASSUME MemoryTypeOK
  PROVE  IsFiniteSet(Stored) /\ Stored = 1..Len(memory) /\ Len(memory) \in Nat
<1>1. Stored = 1..Len(memory) /\ Len(memory) \in Nat
  BY DEF MemoryTypeOK, Stored
<1> QED BY <1>1, FS_Interval

\* A search shows what was meant, and leaves out of that only what is crowded out
\* or outranked.
LEMMA SearchIsSound ==
  ASSUME MemoryTypeOK, NEW q, SignalQuery(q), NEW rows \in Results(q)
  PROVE  /\ rows \subseteq Stored
         /\ \A i \in rows : InUtc(i) => Meant(q, i)
         /\ \A i \in Stored \ rows :
               InUtc(i) /\ Meant(q, i) => LeftOut(q, i, Stored, rows)
<1> DEFINE better == {p \in Stored \X Stored :
                        \/ Rank(q, p[1]) > Rank(q, p[2])
                        \/ Rank(q, p[1]) = Rank(q, p[2]) /\ p \in Newer}
<1>1. PICK window \in Candidates(q) :
         rows \in First({i \in window : Matches(q, i)}, Limit(q), better)
  BY DEF Results
<1> DEFINE M == {i \in window : Matches(q, i)}
<1>2. Visible(q) \subseteq Stored /\ IsFiniteSet(Visible(q))
  <2>1. Visible(q) \in SUBSET Stored
    BY DEF Visible
  <2> QED BY <2>1, StoredIsFinite, FS_Subset
<1>3. MemoryWindow \in Int
  BY SearchesAreWellFormed
<1>4. /\ window \subseteq Visible(q)
      /\ \A i \in Visible(q) \ window :
            Cardinality(window) = MemoryWindow /\ \A j \in window : <<i, j>> \notin Newer
  BY <1>1, <1>2, <1>3, FirstLeaveOut DEF Candidates
<1>5. IsFiniteSet(window) /\ IsFiniteSet(M)
  <2>1. window \in SUBSET Visible(q) /\ M \in SUBSET Visible(q)
    BY <1>4
  <2>2. IsFiniteSet(window)
    BY <1>2, <2>1, FS_Subset
  <2>3. IsFiniteSet(M)
    <3> HIDE DEF M
    <3> QED BY <1>2, <2>1, FS_Subset
  <2> QED BY <2>2, <2>3
<1>6. /\ rows \subseteq M
      /\ \A i \in M \ rows : Cardinality(rows) = Limit(q) /\ \A j \in rows : <<i, j>> \notin better
  <2> HIDE DEF better
  <2>1. Limit(q) \in Int
    BY LimitIsNumber
  <2> QED BY <1>1, <1>5, <2>1, FirstLeaveOut
<1>7. \A i \in Stored :
         /\ memory[i].end \subseteq Int /\ memory[i].status \in {"active", "archived"}
         /\ memory[i].end # {} => memory[i].ahead # {}
  <2>1. \A i \in Stored : memory[i] \in StoredRow
    BY DEF MemoryTypeOK, Stored
  <2> QED BY <2>1 DEF MemoryTypeOK, StoredRow
<1>8. hour \in Int
  BY DEF MemoryTypeOK
<1>9. ASSUME NEW i \in rows, InUtc(i) PROVE Meant(q, i)
  <2>1. i \in M /\ i \in Visible(q) /\ i \in Stored /\ Matches(q, i)
    BY <1>2, <1>4, <1>6
  <2>2. (\A t \in Topics : q[t] = {}) \/ \E t \in Topics : q[t] \cap memory[i].topics[t] # {}
    BY <2>1 DEF Matches, MatchedTopics
  <2>3. q.nature = {} \/ memory[i].nature \in q.nature
    BY <2>1 DEF Matches
  <2>4. memory[i].status = "archived" => ~ q.active
    BY <2>1 DEF Visible
  <2>5. ASSUME NEW e \in memory[i].end, NEW o \in memory[i].ahead, e - o <= hour
        PROVE  q.expired
    <3>1. o = 0 /\ e \in Int
      BY <1>7, <1>9, <2>1 DEF InUtc
    <3>2. ~ (e > hour)
      BY <1>8, <2>5, <3>1
    <3> QED BY <2>1, <3>2 DEF Visible
  <2> QED BY <2>2, <2>3, <2>4, <2>5 DEF Meant
<1>10. ASSUME NEW i \in Stored \ rows, InUtc(i), Meant(q, i)
       PROVE  LeftOut(q, i, Stored, rows)
  <2>1. i \in Visible(q)
    <3>1. q.active => memory[i].status = "active"
      BY <1>7, <1>10 DEF Meant
    <3>2. ASSUME ~ q.expired, NEW e \in memory[i].end PROVE e > hour
      <4>1. 0 \in memory[i].ahead
        BY <1>7, <1>10 DEF InUtc
      <4>2. ~ (e - 0 <= hour)
        BY <1>10, <3>2, <4>1 DEF Meant
      <4>3. e \in Int
        BY <1>7
      <4> QED BY <1>8, <4>2, <4>3
    <3> QED BY <3>1, <3>2 DEF Visible
  <2>2. CASE i \notin window
    <3> DEFINE notOlder == {j \in Stored \ {i} : <<i, j>> \notin Newer}
    <3>1. Cardinality(window) = MemoryWindow /\ \A j \in window : <<i, j>> \notin Newer
      BY <1>4, <2>1, <2>2
    <3>2. window \subseteq notOlder
      BY <1>2, <1>4, <2>2, <3>1
    <3>3. IsFiniteSet(notOlder)
      <4>1. notOlder \in SUBSET Stored
        OBVIOUS
      <4> HIDE DEF notOlder
      <4> QED BY <4>1, StoredIsFinite, FS_Subset
    <3>4. Cardinality(window) <= Cardinality(notOlder) /\ Cardinality(notOlder) \in Int
      <4> HIDE DEF notOlder
      <4> QED BY <3>2, <3>3, FS_Subset, FS_CardinalityType
    <3>5. Cardinality(notOlder) >= MemoryWindow
      <4> HIDE DEF notOlder
      <4> QED BY <1>3, <3>1, <3>4
    <3> QED BY <3>5 DEF LeftOut, CrowdedOut
  <2>3. CASE i \in window
    <3>1. Matches(q, i)
      BY <1>10 DEF Meant, Matches, MatchedTopics
    <3>2. Cardinality(rows) = Limit(q) /\ \A j \in rows : <<i, j>> \notin better
      BY <1>6, <1>10, <2>3, <3>1
    <3>3. ASSUME NEW j \in rows
          PROVE  Rank(q, j) > Rank(q, i) \/ (Rank(q, j) = Rank(q, i) /\ <<i, j>> \notin Newer)
      <4>1. j \in Stored
        BY <1>2, <1>4, <1>6
      <4>2. ~ (Rank(q, i) > Rank(q, j) \/ (Rank(q, i) = Rank(q, j) /\ <<i, j>> \in Newer))
        BY <3>2, <4>1
      <4>3. Rank(q, i) \in Int /\ Rank(q, j) \in Int
        BY DEF Rank
      <4> QED BY <4>2, <4>3
    <3> QED BY <3>2, <3>3 DEF LeftOut, Outranked
  <2> QED BY <2>2, <2>3
<1> QED BY <1>2, <1>4, <1>6, <1>9, <1>10

LEMMA RowIsStored ==
  ASSUME NEW n \in SignalNotes, hour \in Int
  PROVE  Row(n) \in StoredRow /\ (Row(n).end # {} => Row(n).ahead # {})
<1>1. n.end \subseteq [wall : Int, offset : Int]
  BY SearchesAreWellFormed DEF SignalNote
<1>2. {e.wall : e \in n.end} \subseteq Int /\ {e.offset : e \in n.end} \subseteq Int
  BY <1>1
<1>3. {e.wall : e \in n.end} # {} => {e.offset : e \in n.end} # {}
  OBVIOUS
<1> QED BY <1>2, <1>3 DEF Row, StoredRow

\* A row more makes no difference to those there are.
LEMMA RowMore ==
  ASSUME MemoryTypeOK, NEW n \in SignalNotes, memory' = Append(memory, Row(n)), hour' = hour
  PROVE  /\ MemoryTypeOK' /\ Stored' = Stored \cup {Len(memory) + 1}
         /\ Len(memory) + 1 \notin Stored
         /\ memory'[Len(memory) + 1] = Row(n)
         /\ \A i \in Stored : memory'[i] = memory[i]
<1>1. memory \in Seq(StoredRow) /\ hour \in Int /\ Row(n) \in StoredRow
      /\ (Row(n).end # {} => Row(n).ahead # {})
  BY RowIsStored DEF MemoryTypeOK
<1>2. /\ memory' \in Seq(StoredRow) /\ Len(memory') = Len(memory) + 1
      /\ \A i \in 1..Len(memory) : memory'[i] = memory[i]
      /\ memory'[Len(memory) + 1] = Row(n)
  BY <1>1, AppendProperties
<1>3. Len(memory) \in Nat /\ Stored = 1..Len(memory)
  BY StoredIsFinite
<1>4. Stored' = 1..Len(memory')
  BY <1>2 DEF Stored
<1>5. Stored' = Stored \cup {Len(memory) + 1} /\ Len(memory) + 1 \notin Stored
  <2>1. PICK l \in Nat : l = Len(memory)
    BY <1>3
  <2>2. 1..(l + 1) = (1..l) \cup {l + 1} /\ l + 1 \notin 1..l
    OBVIOUS
  <2> QED BY <1>2, <1>3, <1>4, <2>1, <2>2
<1>6. MemoryTypeOK'
  BY <1>1, <1>2, <1>3, <1>5 DEF MemoryTypeOK
<1> QED BY <1>2, <1>3, <1>5, <1>6

\* What a search is about, and what it leaves out, is the same while its rows are.
LEMMA SearchStays ==
  ASSUME MemoryTypeOK, NEW before, before = Stored, before \subseteq Stored',
         \A i \in before : memory'[i] = memory[i],
         UNCHANGED hour, NEW q, NEW rows, rows \subseteq before, NEW i \in before
  PROVE  /\ InUtc(i)' <=> InUtc(i)
         /\ Meant(q, i)' <=> Meant(q, i)
         /\ LeftOut(q, i, before, rows)' <=> LeftOut(q, i, before, rows)
<1>1. memory'[i] = memory[i]
  OBVIOUS
<1>2. \A j \in before : Rank(q, j)' = Rank(q, j)
  BY DEF Rank, MatchedTopics
<1>3. \A j \in before : (<<i, j>> \in Newer)' <=> <<i, j>> \in Newer
  BY DEF Newer
<1>4. InUtc(i)' <=> InUtc(i)
  BY <1>1 DEF InUtc
<1>5. Meant(q, i)' <=> Meant(q, i)
  BY <1>1 DEF Meant
<1>6. CrowdedOut(i, before)' <=> CrowdedOut(i, before)
  <2>1. {j \in before \ {i} : <<i, j>> \notin Newer}'
           = {j \in before \ {i} : <<i, j>> \notin Newer}
    BY <1>3
  <2> QED BY <2>1 DEF CrowdedOut
<1>7. Outranked(i, q, rows)' <=> Outranked(i, q, rows)
  <2>1. \A j \in rows : Rank(q, j)' = Rank(q, j) /\ ((<<i, j>> \in Newer)' <=> <<i, j>> \in Newer)
    BY <1>2, <1>3
  <2>2. Rank(q, i)' = Rank(q, i)
    BY <1>2
  <2> QED BY <2>1, <2>2 DEF Outranked, Limit
<1> QED BY <1>4, <1>5, <1>6, <1>7 DEF LeftOut

\* What a search reports of the rows there were is what it found.
LEMMA SearchReports ==
  ASSUME MemoryTypeOK, NEW q, SignalQuery(q), NEW rows \in Results(q), UNCHANGED hour,
         NEW by, NEW added,
         found' = [by |-> by, query |-> q, shown |-> rows, added |-> added],
         Stored' \ added = Stored, \A i \in Stored : memory'[i] = memory[i],
         \A i \in Stored, j \in added : memory'[i].title = memory'[j].title => i \notin rows
  PROVE  SignalsAreFound'
<1>1. PICK before : before = Stored
  OBVIOUS
<1>2. /\ rows \subseteq before
      /\ \A i \in rows : InUtc(i) => Meant(q, i)
      /\ \A i \in before \ rows :
            InUtc(i) /\ Meant(q, i) => LeftOut(q, i, before, rows)
  BY <1>1, SearchIsSound
<1>3. before \subseteq Stored' /\ Stored' \ added = before /\ \A i \in before : memory'[i] = memory[i]
  BY <1>1
<1>4. \A i \in before : /\ InUtc(i)' <=> InUtc(i)
                        /\ Meant(q, i)' <=> Meant(q, i)
                        /\ LeftOut(q, i, before, rows)' <=> LeftOut(q, i, before, rows)
  BY <1>1, <1>2, <1>3, SearchStays
<1>5. /\ found'.query = q /\ found'.shown = rows /\ found'.added = added
  OBVIOUS
<1>6. \A i \in before : InUtc(i)' <=> memory'[i].ahead \subseteq {0}
  BY DEF InUtc
<1>7. \A i \in rows : InUtc(i)' => Meant(q, i)'
  BY <1>2, <1>4
<1>8. \A i \in before \ rows :
         InUtc(i)' /\ Meant(q, i)' => CrowdedOut(i, before)' \/ Outranked(i, q, rows)'
  BY <1>2, <1>4 DEF LeftOut
<1>9. \A i \in before, j \in added : memory'[i].title = memory'[j].title => i \notin rows
  BY <1>1
<1>10. /\ \A i \in rows \cap {k \in before : memory'[k].ahead \subseteq {0}} : Meant(q, i)'
       /\ \A i \in {k \in before : memory'[k].ahead \subseteq {0}} \ rows :
             Meant(q, i)' => CrowdedOut(i, before)' \/ Outranked(i, q, rows)'
       /\ \A i \in {k \in before : memory'[k].ahead \subseteq {0}}, j \in added :
             Meant(q, i)' /\ memory'[i].title = memory'[j].title
                => CrowdedOut(i, before)' \/ Outranked(i, q, rows)'
  BY <1>6, <1>7, <1>8, <1>9
<1>11. (Stored \ found.added)' = before
  BY <1>3, <1>5
<1> QED BY <1>5, <1>10, <1>11 DEF SignalsAreFound

LEMMA NothingIsReported ==
  ASSUME found' = NothingFound PROVE SignalsAreFound'
BY DEF NothingFound, SignalsAreFound

LEMMA SignalStep ==
  ASSUME SignalInv, [SignalNext]_signalVars PROVE SignalInv'
<1>1. MemoryTypeOK /\ memory \in Seq(StoredRow) /\ hour \in Int
  BY DEF SignalInv, MemoryTypeOK
<1>2. CASE \E n \in SignalNotes : CreateSignal(n)
  <2>1. PICK n \in SignalNotes : CreateSignal(n)
    BY <1>2
  <2>2. MemoryTypeOK'
    BY <1>1, <2>1, RowMore DEF CreateSignal
  <2>3. SignalsAreFound'
    BY <2>1, NothingIsReported DEF CreateSignal
  <2> QED BY <2>2, <2>3 DEF SignalInv
<1>3. CASE \E n \in SignalNotes : CaptureSignal(n)
  <2>1. PICK n \in SignalNotes : CaptureSignal(n)
    BY <1>3
  <2> DEFINE q == CaptureQuery(n)
  <2>2. PICK rows \in Results(q) :
          LET recorded == \E i \in rows : memory[i].title = n.title
          IN  /\ memory' = IF recorded THEN memory ELSE Append(memory, Row(n))
              /\ found' = [by |-> "capture", query |-> q, shown |-> rows,
                           added |-> IF recorded THEN {} ELSE {Len(memory) + 1}]
    BY <2>1 DEF CaptureSignal
  <2>3. UNCHANGED hour
    BY <2>1 DEF CaptureSignal
  <2>4. SignalQuery(q)
    BY SearchesAreWellFormed DEF CaptureQuery, SignalQuery, Topics
  <2> HIDE DEF q
  <2>5. CASE \E i \in rows : memory[i].title = n.title
    <3>1. /\ memory' = memory
          /\ found' = [by |-> "capture", query |-> q, shown |-> rows, added |-> {}]
      BY <2>2, <2>5
    <3>2. MemoryTypeOK' /\ Stored' = Stored
      BY <1>1, <2>3, <3>1 DEF MemoryTypeOK, Stored
    <3>3. SignalsAreFound'
      BY <1>1, <2>3, <2>4, <3>1, <3>2, SearchReports
    <3> QED BY <3>2, <3>3 DEF SignalInv
  <2>6. CASE ~ \E i \in rows : memory[i].title = n.title
    <3>1. PICK last : last = Len(memory) + 1
      OBVIOUS
    <3>2. /\ memory' = Append(memory, Row(n))
          /\ found' = [by |-> "capture", query |-> q, shown |-> rows, added |-> {last}]
      BY <2>2, <2>6, <3>1
    <3>3. /\ MemoryTypeOK' /\ Stored' = Stored \cup {last} /\ last \notin Stored
          /\ memory'[last] = Row(n) /\ \A i \in Stored : memory'[i] = memory[i]
      BY <1>1, <2>3, <3>1, <3>2, RowMore
    <3>4. memory'[last].title = n.title
      BY <3>3 DEF Row
    <3>5. Stored' \ {last} = Stored
      BY <3>3
    <3>6. \A i \in Stored, j \in {last} :
             memory'[i].title = memory'[j].title => i \notin rows
      BY <2>6, <3>3, <3>4
    <3>7. SignalsAreFound'
      BY <1>1, <2>3, <2>4, <3>2, <3>3, <3>5, <3>6, SearchReports
    <3> QED BY <3>3, <3>7 DEF SignalInv
  <2> QED BY <2>5, <2>6
<1>4. CASE \E i \in Stored : ArchiveSignal(i)
  <2>1. PICK k \in Stored : ArchiveSignal(k)
    BY <1>4
  <2>2. memory' = [memory EXCEPT ![k] = Archived(k)] /\ hour' = hour /\ found' = NothingFound
    BY <2>1 DEF ArchiveSignal
  <2>3. Stored = 1..Len(memory) /\ Len(memory) \in Nat
    BY <1>1, StoredIsFinite
  <2>4. memory[k] \in StoredRow
    BY <1>1, <2>3
  <2>5. Archived(k) \in StoredRow /\ Archived(k).end = memory[k].end
        /\ Archived(k).ahead = memory[k].ahead
    BY <1>1, <2>4 DEF Archived, StoredRow
  <2>6. memory' \in Seq(StoredRow) /\ Stored' = Stored
    BY <1>1, <2>2, <2>3, <2>5, ExceptSeq DEF Stored
  <2>7. ASSUME NEW i \in Stored, memory'[i].end # {} PROVE memory'[i].ahead # {}
    <3>1. memory'[i] = IF i = k THEN Archived(k) ELSE memory[i]
      BY <2>2 DEF Stored
    <3>2. memory'[i].end = memory[i].end /\ memory'[i].ahead = memory[i].ahead
      BY <2>5, <3>1
    <3> QED BY <1>1, <2>7, <3>2 DEF MemoryTypeOK
  <2>8. MemoryTypeOK'
    BY <1>1, <2>2, <2>6, <2>7 DEF MemoryTypeOK
  <2> QED BY <2>2, <2>8, NothingIsReported DEF SignalInv
<1>5. CASE \E q \in Searches : SearchSignal(q)
  <2>1. PICK q \in Searches : SearchSignal(q)
    BY <1>5
  <2>2. PICK rows \in Results(q) :
           found' = [by |-> "agent", query |-> q, shown |-> rows, added |-> {}]
    BY <2>1 DEF SearchSignal
  <2>3. UNCHANGED <<memory, hour>>
    BY <2>1 DEF SearchSignal
  <2>4. MemoryTypeOK' /\ Stored' = Stored
    BY <1>1, <2>3 DEF MemoryTypeOK, Stored
  <2>5. SignalQuery(q)
    BY SearchesAreWellFormed
  <2>6. SignalsAreFound'
    BY <1>1, <2>2, <2>3, <2>4, <2>5, SearchReports
  <2> QED BY <2>4, <2>6 DEF SignalInv
<1>6. CASE HourPasses
  <2>1. MemoryTypeOK'
    BY <1>1, <1>6 DEF HourPasses, MemoryTypeOK, Stored
  <2>2. SignalsAreFound'
    BY <1>6, NothingIsReported DEF HourPasses
  <2> QED BY <2>1, <2>2 DEF SignalInv
<1>7. CASE UNCHANGED signalVars
  <2>1. UNCHANGED <<memory, hour, found>>
    BY <1>7 DEF signalVars
  <2>2. MemoryTypeOK'
    BY <1>1, <2>1 DEF MemoryTypeOK, Stored
  <2>3. /\ Stored' = Stored /\ Newer' = Newer
        /\ \A q, i : Rank(q, i)' = Rank(q, i) /\ (Meant(q, i)' <=> Meant(q, i))
    BY <2>1 DEF Stored, Newer, Rank, MatchedTopics, Meant
  <2>4. \A q, i, others, rows :
           /\ CrowdedOut(i, others)' <=> CrowdedOut(i, others)
           /\ Outranked(i, q, rows)' <=> Outranked(i, q, rows)
    BY <2>3 DEF CrowdedOut, Outranked, Limit
  <2>5. SignalsAreFound'
    BY <2>1, <2>3, <2>4 DEF SignalInv, SignalsAreFound
  <2> QED BY <2>2, <2>5 DEF SignalInv
<1> QED BY <1>2, <1>3, <1>4, <1>5, <1>6, <1>7 DEF SignalNext

\* A search of the memory shows only what was meant, and all of it that a full
\* window or a full answer does not leave out; and the capture adds no signal that
\* there is one of, but for the same two reasons.
THEOREM SignalsStayFound == SignalSpec => []SignalsAreFound
<1>1. SignalInit => SignalInv
  BY DEF SignalInit, SignalInv, MemoryTypeOK, SignalsAreFound, NothingFound, Stored
<1>2. SignalInv /\ [SignalNext]_signalVars => SignalInv'
  BY SignalStep
<1>3. SignalInv => SignalsAreFound
  BY DEF SignalInv
<1> QED BY <1>1, <1>2, <1>3, PTL DEF SignalSpec

-----------------------------------------------------------------------------
(* The brokers' words: an order is known again *)

Conclusions == {"filled", "rejected", "partially_filled", "cancelled"}

\* What is at the broker, its own order first, and what a pass has seen of it.
OrderAtBroker ==
    [bid : Bids, by : {"program", "person"}, value : BOOLEAN, reported : BOOLEAN,
     fresh : BOOLEAN, open : BOOLEAN, status : Trading212Status \cup AlpacaStatus]
RecordTypeOK ==
    /\ provider \in {"trading212", "alpaca"} /\ action \in [bid : Bids, kept : BOOLEAN]
    /\ book \in Seq(OrderAtBroker) /\ Len(book) \in {1, 2}
    /\ \A o \in DOMAIN book : book[o].status \in StatusAt /\ (o # 1 => book[o].reported)
    /\ book[1].bid = action.bid /\ book[1].by = "program"
    /\ book[1].fresh /\ ~ book[1].value /\ (provider = "alpaca" => book[1].reported)
    /\ listed = {} \/ \E seen \in SUBSET DOMAIN book : listed = {seen}
RecordInv == RecordTypeOK /\ OwnOrderIsTold

LEMMA PairSize ==
  ASSUME NEW S, S \subseteq {1, 2} PROVE Cardinality(S) = 1 <=> S = {1} \/ S = {2}
<1>1. IsFiniteSet({1, 2})
  <2>1. IsFiniteSet({1} \cup {2})
    BY FS_Singleton, FS_Union
  <2> QED BY <2>1
<1>2. IsFiniteSet(S)
  BY <1>1, FS_Subset
<1>3. Cardinality(S) = 1 <=> \E x : S = {x}
  BY <1>2, FS_Singleton
<1> QED BY <1>3

LEMMA HistoryTells ==
  ASSUME NEW status
  PROVE  /\ R!FromHistory(status).outcome \in Conclusions => R!FromHistory(status).outcome = status
         /\ status \in Conclusions => R!FromHistory(status).outcome = status
<1>1. CASE status \in {"filled", "partially_filled"}
  BY <1>1 DEF R!FromHistory, R!Resolution
<1>2. CASE status = "cancelled"
  BY <1>2 DEF R!FromHistory, R!Resolution
<1>3. CASE status = "rejected"
  BY <1>3 DEF R!FromHistory, R!Resolution
<1>4. CASE status = "pending"
  BY <1>4 DEF R!FromHistory, R!Resolution, R!Pending, Conclusions
<1>5. CASE status \notin {"filled", "partially_filled", "cancelled", "rejected", "pending"}
  BY <1>5 DEF R!FromHistory, R!Resolution, R!Unresolved, Conclusions
<1> QED BY <1>1, <1>2, <1>3, <1>4, <1>5

\* What is concluded of an action by its order's id, or by what is alike.
Concluded(ref, pend, hist, likely, status) ==
    R!ResolveSubmit(ref, pend, hist, likely, status).outcome
OfTwo(S) == S \subseteq {1, 2}
Single(S, T) == Cardinality(S \cap T) = 1
Sole(x, S, T) == S \cap T = {x}

LEMMA ResolvedBy ==
  ASSUME NEW ref, NEW pend, NEW hist, NEW likely, NEW status, OfTwo(hist)
  PROVE  LET res == Concluded(ref, pend, hist, likely, status) IN
         /\ ref \in pend => res = "pending"
         /\ ref \in hist \ pend =>
               /\ res \in Conclusions => res = status[ref]
               /\ status[ref] \in Conclusions => res = status[ref]
         /\ ref \notin pend \cup hist =>
               /\ Single(pend, likely) => res = "pending"
               /\ ~ Single(pend, likely) /\ res \in Conclusions =>
                     \E o \in hist : Sole(o, hist, likely) /\ status[o] = res
               /\ \A o : ~ Single(pend, likely) /\ Sole(o, hist, likely)
                            /\ status[o] \in Conclusions => res = status[o]
<1> DEFINE Only(S) == CHOOSE o \in S : TRUE
           LP == pend \cap likely
           LH == hist \cap likely
           resolved == R!ResolveSubmit(ref, pend, hist, likely, status)
<1>0. resolved =
        CASE ref \in pend -> R!Pending
          [] ref \in hist \ pend -> R!FromHistory(status[ref])
          [] ref \notin pend \cup hist ->
                CASE Cardinality(LP) = 1 -> R!Pending
                  [] Cardinality(LP) # 1 /\ Cardinality(LH) = 1
                        -> R!FromHistory(status[Only(LH)])
                  [] OTHER -> R!Unresolved
  BY DEF R!ResolveSubmit
<1> SUFFICES ASSUME NEW res, res = Concluded(ref, pend, hist, likely, status)
    PROVE
         /\ ref \in pend => res = "pending"
         /\ ref \in hist \ pend =>
               /\ res \in Conclusions => res = status[ref]
               /\ status[ref] \in Conclusions => res = status[ref]
         /\ ref \notin pend \cup hist =>
               /\ Single(pend, likely) => res = "pending"
               /\ ~ Single(pend, likely) /\ res \in Conclusions =>
                     \E o \in hist : Sole(o, hist, likely) /\ status[o] = res
               /\ \A o : ~ Single(pend, likely) /\ Sole(o, hist, likely)
                            /\ status[o] \in Conclusions => res = status[o]
  OBVIOUS
<1>a. /\ Cardinality(pend \cap likely) = Cardinality(LP)
      /\ Cardinality(hist \cap likely) = Cardinality(LH)
  OBVIOUS
<1>1. CASE ref \in pend
  BY <1>1 DEF R!ResolveSubmit, R!Pending, R!Resolution, Conclusions, Concluded
<1>2. CASE ref \in hist \ pend
  <2>1. R!ResolveSubmit(ref, pend, hist, likely, status) = R!FromHistory(status[ref])
    BY <1>2 DEF R!ResolveSubmit
  <2>2. res = R!FromHistory(status[ref]).outcome
    BY <2>1 DEF Concluded
  <2> QED BY <1>2, <2>2, HistoryTells
<1>3. CASE ref \notin pend \cup hist /\ Cardinality(pend \cap likely) = 1
  <2>1. R!ResolveSubmit(ref, pend, hist, likely, status) = R!Pending
    <3> HIDE DEF LP, LH, Only, resolved
    <3>1. resolved = R!Pending
      BY <1>0, <1>a, <1>3
    <3> QED BY <3>1 DEF resolved
  <2>2. res = "pending"
    BY <2>1 DEF R!Pending, R!Resolution, Concluded
  <2> QED BY <1>3, <2>2 DEF Conclusions, Single
<1>4. CASE ref \notin pend \cup hist /\ Cardinality(pend \cap likely) # 1
           /\ Cardinality(hist \cap likely) = 1
  <2>1. R!ResolveSubmit(ref, pend, hist, likely, status) = R!FromHistory(status[Only(LH)])
    <3> HIDE DEF LP, LH, Only, resolved
    <3>1. resolved = R!FromHistory(status[Only(LH)])
      BY <1>0, <1>a, <1>4
    <3> QED BY <3>1 DEF resolved
  <2>2. PICK o \in hist : hist \cap likely = {o}
    <3>1. hist \cap likely \subseteq {1, 2}
      BY DEF OfTwo
    <3>2. hist \cap likely = {1} \/ hist \cap likely = {2}
      BY <1>4, <3>1, PairSize
    <3> QED BY <3>2
  <2>3. Only(LH) = o
    BY <2>2
  <2>4. res = R!FromHistory(status[o]).outcome
    BY <2>1, <2>3 DEF Concluded
  <2>5. \A p : hist \cap likely = {p} => p = o
    BY <2>2
  <2>6. (res \in Conclusions => res = status[o]) /\ (status[o] \in Conclusions => res = status[o])
    BY <2>4, HistoryTells
  <2> QED BY <1>4, <2>2, <2>5, <2>6 DEF Single, Sole
<1>5. CASE ref \notin pend \cup hist /\ Cardinality(pend \cap likely) # 1
           /\ Cardinality(hist \cap likely) # 1
  <2>1. R!ResolveSubmit(ref, pend, hist, likely, status) = R!Unresolved
    <3> HIDE DEF LP, LH, Only, resolved
    <3>1. resolved = R!Unresolved
      BY <1>0, <1>a, <1>5
    <3> QED BY <3>1 DEF resolved
  <2>2. res = "unresolved"
    BY <2>1 DEF R!Unresolved, R!Resolution, Concluded
  <2>3. \A o : hist \cap likely # {o}
    BY <1>5, FS_Singleton
  <2> QED BY <1>5, <2>2, <2>3 DEF Conclusions, Single, Sole
<1> QED BY <1>1, <1>2, <1>3, <1>4, <1>5 DEF Single

\* A status counts for what it means, in the words of either broker.
LEMMA GroupsAreApart ==
  ASSUME NEW S, NEW w, S \subseteq {w}
  PROVE  /\ \A g \in Conclusions : Group(S) = g <=> S \cap Grouped[g] # {}
<1> DEFINE G == {g \in DOMAIN Grouped : S \cap Grouped[g] # {}}
<1>1. DOMAIN Grouped = {"filled", "partially_filled", "cancelled", "rejected", "pending"}
  BY DEF Grouped
<1>2. /\ Grouped["filled"] = {"FILLED"} /\ Grouped["partially_filled"] = {"PARTIALLY_FILLED"}
      /\ Grouped["cancelled"] = {"CANCELLED", "REPLACED"} /\ Grouped["rejected"] = {"REJECTED"}
      /\ Grouped["pending"] = ActiveRemoteStatuses
  BY DEF Grouped
<1>3. \A g, h \in DOMAIN Grouped : g # h => Grouped[g] \cap Grouped[h] = {}
  BY <1>1, <1>2 DEF ActiveRemoteStatuses
<1>4. \A g, h \in G : g = h
  BY <1>3
<1>5. Group(S) = OneOf(G, "expired")
  BY DEF Group
<1>6. Conclusions \subseteq DOMAIN Grouped /\ "expired" \notin Conclusions
  BY <1>1 DEF Conclusions
<1>7. ASSUME NEW g \in Conclusions PROVE Group(S) = g <=> g \in G
  <2> HIDE DEF G
  <2>1. CASE G = {}
    BY <1>5, <1>6, <2>1 DEF OneOf
  <2>2. CASE G # {}
    BY <1>4, <1>5, <2>2 DEF OneOf
  <2> QED BY <2>1, <2>2
<1> QED BY <1>6, <1>7

\* What Alpaca's words for an end are mapped to, and nothing else is.
LEMMA WordsAreMapped ==
  ASSUME NEW st
  PROVE  LET has(w) == st \in DOMAIN MappedStatus /\ MappedStatus[st] = w
         IN  /\ has("FILLED") <=> st = "filled"
             /\ has("PARTIALLY_FILLED") <=> st = "partially_filled"
             /\ has("CANCELLED") <=> st = "canceled"
             /\ has("REPLACED") <=> st = "replaced"
             /\ has("REJECTED") <=> st = "rejected"
<1>1. DOMAIN MappedStatus =
        {"accepted", "accepted_for_bidding", "new", "pending_new", "filled",
         "partially_filled", "done_for_day", "canceled", "expired", "replaced",
         "pending_cancel", "pending_replace", "pending_review", "stopped", "rejected",
         "suspended", "calculated"}
  BY DEF MappedStatus
<1>2. /\ MappedStatus["filled"] = "FILLED" /\ MappedStatus["canceled"] = "CANCELLED"
      /\ MappedStatus["partially_filled"] = "PARTIALLY_FILLED"
      /\ MappedStatus["replaced"] = "REPLACED" /\ MappedStatus["rejected"] = "REJECTED"
  BY DEF MappedStatus
<1>3. \A x \in DOMAIN MappedStatus \ {"filled", "partially_filled", "canceled", "replaced", "rejected"} :
         MappedStatus[x] \notin {"FILLED", "PARTIALLY_FILLED", "CANCELLED", "REPLACED", "REJECTED"}
  BY <1>1 DEF MappedStatus
<1> QED BY <1>1, <1>2, <1>3

LEMMA StatusTells ==
  ASSUME provider \in {"trading212", "alpaca"}, NEW o, o.status \in StatusAt, NEW x \in Conclusions
  PROVE  Group(BrokerOrder(o).status) = x <=> o.status \in Means[x]
<1> DEFINE S == BrokerOrder(o).status
           st == o.status
<1>1. CASE provider = "alpaca"
  <2>1. S = MapOrderStatus(st) /\ st \in AlpacaStatus
    BY <1>1 DEF BrokerOrder, FromAlpaca, StatusAt
  <2>2. S \subseteq {MappedStatus[st]}
    BY <2>1 DEF MapOrderStatus
  <2>3. /\ "FILLED" \in S <=> st = "filled"
        /\ "PARTIALLY_FILLED" \in S <=> st = "partially_filled"
        /\ "CANCELLED" \in S <=> st = "canceled"
        /\ "REPLACED" \in S <=> st = "replaced"
        /\ "REJECTED" \in S <=> st = "rejected"
    <3>1. \A w : w \in S <=> st \in DOMAIN MappedStatus /\ MappedStatus[st] = w
      BY <2>1 DEF MapOrderStatus
    <3>2. st \in AlpacaStatus
      BY <2>1
    <3> HIDE DEF S, st
    <3> QED BY <3>1, <3>2, WordsAreMapped
  <2>4. Group(S) = x <=> S \cap Grouped[x] # {}
    BY <2>2, GroupsAreApart
  <2>5. S \cap Grouped[x] # {} <=> st \in Means[x]
    <3> HIDE DEF S, st
    <3>1. CASE x = "filled"
      BY <2>1, <2>3, <3>1 DEF Grouped, Means, AlpacaStatus
    <3>2. CASE x = "partially_filled"
      BY <2>1, <2>3, <3>2 DEF Grouped, Means, AlpacaStatus
    <3>3. CASE x = "cancelled"
      BY <2>1, <2>3, <3>3 DEF Grouped, Means, AlpacaStatus
    <3>4. CASE x = "rejected"
      BY <2>1, <2>3, <3>4 DEF Grouped, Means, AlpacaStatus
    <3> QED BY <3>1, <3>2, <3>3, <3>4 DEF Conclusions
  <2> QED BY <2>4, <2>5
<1>2. CASE provider # "alpaca"
  <2>1. S = {st} /\ st \in Trading212Status
    BY <1>2 DEF BrokerOrder, FromTrading212, StatusAt
  <2>2. Group(S) = x <=> S \cap Grouped[x] # {}
    BY <2>1, GroupsAreApart
  <2>3. S \cap Grouped[x] # {} <=> st \in Means[x]
    <3> HIDE DEF S, st
    <3>1. CASE x = "filled"
      BY <2>1, <3>1 DEF Grouped, Means, Trading212Status
    <3>2. CASE x = "partially_filled"
      BY <2>1, <3>2 DEF Grouped, Means, Trading212Status
    <3>3. CASE x = "cancelled"
      BY <2>1, <3>3 DEF Grouped, Means, Trading212Status
    <3>4. CASE x = "rejected"
      BY <2>1, <3>4 DEF Grouped, Means, Trading212Status
    <3> QED BY <3>1, <3>2, <3>3, <3>4 DEF Conclusions
  <2> QED BY <2>2, <2>3
<1> QED BY <1>1, <1>2

\* What an order says of itself comes back as it was sent.
LEMMA AlpacaWordsComeBack ==
  /\ \A t \in OrderTypes : Mapped(AlpacaOrderType, AlpacaOrderType[t]) = {t}
  /\ \A d \in Sides : Mapped(AlpacaSide, AlpacaSide[d]) = {d}
<1>1. \A t \in OrderTypes : Mapped(AlpacaOrderType, AlpacaOrderType[t]) = {t}
  BY DEF Mapped, AlpacaOrderType, OrderTypes
<1>2. \A d \in Sides : Mapped(AlpacaSide, AlpacaSide[d]) = {d}
  BY DEF Mapped, AlpacaSide, Sides
<1> QED BY <1>1, <1>2

LEMMA BidsAreTyped ==
  ASSUME NEW b \in Bids
  PROVE  /\ b.side \in Sides /\ b.type \in OrderTypes /\ b.quantity \in Nat /\ b.quantity > 0
         /\ Signed(b) \in Int /\ Size(Signed(b)) = b.quantity
         /\ b.type \in LimitTypes <=> LimitOf(b) # {}
         /\ b.type \in StopTypes <=> StopOf(b) # {}
<1>1. b.side \in Sides /\ b.type \in OrderTypes /\ b.quantity \in Nat /\ b.quantity > 0
      /\ ~ PriceMissing(b)
  BY BidsAssumption
<1>2. Signed(b) \in Int /\ Size(Signed(b)) = b.quantity
  BY <1>1 DEF Signed, Size
<1>3. (b.type \in LimitTypes <=> LimitOf(b) # {}) /\ (b.type \in StopTypes <=> StopOf(b) # {})
  BY <1>1 DEF LimitOf, StopOf, PriceMissing
<1> QED BY <1>1, <1>2, <1>3

\* Its own order matches the action where it is told with its side.
LEMMA OwnMatches ==
  ASSUME RecordTypeOK, book[1].reported
  PROVE  OrderMatchesAction(PreparedOrder(action.bid), book[1])
<1> DEFINE b == action.bid
           order == BrokerOrder(book[1])
           prepared == PreparedOrder(b)
<1>1. /\ b \in Bids /\ book[1].bid = b /\ book[1].by = "program" /\ book[1].fresh
      /\ ~ book[1].value
  BY DEF RecordTypeOK
<1>2. /\ b.side \in Sides /\ b.type \in OrderTypes /\ Size(Signed(b)) = b.quantity
      /\ b.quantity \in Nat
  BY <1>1, BidsAreTyped
<1>3. /\ prepared.ticker = b.ticker /\ prepared.type = b.type /\ prepared.side = b.side
      /\ prepared.signed = Signed(b) /\ prepared.limit = LimitOf(b) /\ prepared.stop = StopOf(b)
      /\ prepared.client = IF provider = "alpaca" THEN {ClientId(b, "program")} ELSE {}
  BY DEF PreparedOrder
<1>4. CASE provider = "alpaca"
  <2>1. /\ order.ticker = b.ticker /\ order.type = {b.type} /\ order.side = {b.side}
        /\ order.quantity = {b.quantity} /\ order.limit = LimitOf(b) /\ order.stop = StopOf(b)
        /\ order.client = {ClientId(b, "program")}
    BY <1>1, <1>2, <1>4, AlpacaWordsComeBack DEF BrokerOrder, FromAlpaca, AlpacaPayload
  <2>2. Size(b.quantity) = b.quantity
    BY <1>2 DEF Size
  <2> HIDE DEF b, order, prepared
  <2>3. SameSize(order, prepared)
    BY <1>2, <1>3, <2>1, <2>2 DEF SameSize
  <2> QED BY <1>1, <1>3, <1>4, <2>1, <2>3 DEF OrderMatchesAction, Unlike, b, order, prepared
<1>5. CASE provider # "alpaca"
  <2>1. /\ order.ticker = b.ticker /\ order.type = {b.type} /\ order.side = {b.side}
        /\ order.quantity = {Signed(b)} /\ order.limit = LimitOf(b) /\ order.stop = StopOf(b)
        /\ order.client = {}
    BY <1>1, <1>5 DEF BrokerOrder, FromTrading212, Trading212Payload
  <2>2. SameSize(order, prepared)
    BY <1>3, <2>1 DEF SameSize
  <2> HIDE DEF b, order, prepared
  <2> QED BY <1>1, <1>3, <1>5, <2>1, <2>2 DEF OrderMatchesAction, Unlike, b, order, prepared
<1> QED BY <1>4, <1>5

\* What matches the action is as good as its own, as far as the broker tells.
LEMMA MatchesAreAlike ==
  ASSUME RecordTypeOK, NEW o \in DOMAIN book, o # 1,
         OrderMatchesAction(PreparedOrder(action.bid), book[o])
  PROVE  Alike(o)
<1> DEFINE a == action.bid
           b == book[o].bid
           order == BrokerOrder(book[o])
           prepared == PreparedOrder(a)
<1>0. book \in Seq(OrderAtBroker) /\ book[o].reported /\ action \in [bid : Bids, kept : BOOLEAN]
  BY DEF RecordTypeOK
<1>1. a \in Bids /\ b \in Bids /\ book[o].reported /\ book[o] \in OrderAtBroker
  <2>1. book[o] \in OrderAtBroker
    BY <1>0
  <2> QED BY <1>0, <2>1 DEF OrderAtBroker
<1>2. /\ b.side \in Sides /\ b.type \in OrderTypes /\ b.quantity \in Nat
      /\ Size(Signed(b)) = b.quantity /\ (b.type \in LimitTypes <=> LimitOf(b) # {})
      /\ b.type \in StopTypes <=> StopOf(b) # {}
  BY <1>1, BidsAreTyped
<1>3. /\ Size(Signed(a)) = a.quantity /\ (a.type \in LimitTypes <=> LimitOf(a) # {})
      /\ a.type \in StopTypes <=> StopOf(a) # {}
  BY <1>1, BidsAreTyped
<1>4. /\ prepared.ticker = a.ticker /\ prepared.type = a.type /\ prepared.side = a.side
      /\ prepared.signed = Signed(a) /\ prepared.limit = LimitOf(a) /\ prepared.stop = StopOf(a)
      /\ prepared.client = IF provider = "alpaca" THEN {ClientId(a, "program")} ELSE {}
  BY DEF PreparedOrder
<1>5. /\ order.ticker = prepared.ticker /\ order.type = {prepared.type}
      /\ order.side = {prepared.side} /\ SameSize(order, prepared)
      /\ ~ Unlike(order.client, prepared.client) /\ ~ Unlike(order.limit, prepared.limit)
      /\ ~ Unlike(order.stop, prepared.stop) /\ book[o].fresh
  BY DEF OrderMatchesAction
<1>6. CASE provider = "alpaca"
  <2>1. order.client = {ClientId(b, book[o].by)} /\ prepared.client = {ClientId(a, "program")}
    BY <1>4, <1>6 DEF BrokerOrder, FromAlpaca
  <2>2. ClientId(b, book[o].by) = ClientId(a, "program")
    <3> HIDE DEF order, prepared
    <3> QED BY <1>5, <2>1 DEF Unlike
  <2>3. AlpacaPayload(b) = AlpacaPayload(a) /\ book[o].by = "program"
    BY <2>2 DEF ClientId
  <2> QED BY <1>5, <1>6, <2>3 DEF Alike
<1>7. CASE provider # "alpaca"
  <2>1. /\ order.ticker = b.ticker /\ order.type = {b.type} /\ order.side = {b.side}
        /\ order.quantity = IF book[o].value THEN {} ELSE {Signed(b)}
        /\ order.limit = LimitOf(b) /\ order.stop = StopOf(b)
    BY <1>1, <1>7 DEF BrokerOrder, FromTrading212, Trading212Payload
  <2> HIDE DEF a, b, order, prepared
  <2>2. b.ticker = a.ticker /\ b.type = a.type /\ b.side = a.side
    BY <1>4, <1>5, <2>1
  <2>3. b.quantity = a.quantity \/ book[o].value
    BY <1>2, <1>3, <1>4, <1>5, <2>1 DEF SameSize
  <2>4. LimitOf(b) = LimitOf(a) /\ StopOf(b) = StopOf(a)
    BY <1>2, <1>3, <1>4, <1>5, <2>1, <2>2 DEF Unlike
  <2> QED BY <1>5, <1>7, <2>2, <2>3, <2>4 DEF Alike, a, b
<1> QED BY <1>6, <1>7

\* Another order comes, or one of the two moves, before anything is concluded.
LEMMA RecordTypeStays ==
  ASSUME RecordTypeOK, provider' = provider, RecordNext
  PROVE  RecordTypeOK'
<1>0. /\ provider \in {"trading212", "alpaca"} /\ action \in [bid : Bids, kept : BOOLEAN]
      /\ book \in Seq(OrderAtBroker) /\ Len(book) \in {1, 2} /\ DOMAIN book = 1 .. Len(book)
      /\ \A o \in DOMAIN book : book[o].status \in StatusAt /\ (o # 1 => book[o].reported)
      /\ book[1].bid = action.bid /\ book[1].by = "program"
      /\ book[1].fresh /\ ~ book[1].value /\ (provider = "alpaca" => book[1].reported)
      /\ listed = {} \/ \E seen \in SUBSET DOMAIN book : listed = {seen}
  <2>1. DOMAIN book = 1 .. Len(book)
    BY DEF RecordTypeOK
  <2> QED BY <2>1, Zenon DEF RecordTypeOK
<1>0a. StatusAt' = StatusAt /\ StatusAt \subseteq Trading212Status \cup AlpacaStatus
  <2>1. StatusAt' = StatusAt
    BY DEF StatusAt
  <2>2. StatusAt = AlpacaStatus \/ StatusAt = Trading212Status
    BY DEF StatusAt
  <2> QED BY <2>1, <2>2
<1>1. CASE LookAtPending
  <2>1. UNCHANGED <<action, book>> /\ \E seen \in SUBSET DOMAIN book : listed' = {seen}
    BY <1>1 DEF LookAtPending, OpenOrders
  <2> QED BY <1>0, <1>0a, <2>1 DEF RecordTypeOK
<1>2. CASE LookAtHistory
  <2>1. UNCHANGED <<action, book>> /\ listed' = {}
    BY <1>2 DEF LookAtHistory
  <2> QED BY <1>0, <1>0a, <2>1 DEF RecordTypeOK
<1>3. ASSUME NEW b \in Bids, OtherPlaced(b) PROVE RecordTypeOK'
  <2>1. PICK by \in {"program", "person"}, value \in {FALSE, provider = "trading212"},
             fresh \in BOOLEAN : book' = Append(book, Placed(b, by, value, TRUE, fresh))
    BY <1>3 DEF OtherPlaced
  <2> DEFINE new == Placed(b, by, value, TRUE, fresh)
  <2>2. /\ new \in OrderAtBroker /\ new.reported /\ new.status \in StatusAt
    BY DEF Placed, OrderAtBroker, StatusAt, Trading212Status, AlpacaStatus
  <2> HIDE DEF new
  <2>3. Len(book) = 1 /\ listed = {} /\ UNCHANGED <<action, listed>>
    BY <1>3 DEF OtherPlaced
  <2>4. /\ book' = Append(book, new) /\ book' \in Seq(OrderAtBroker) /\ Len(book') = 2
        /\ book'[1] = book[1] /\ book'[2] = new /\ DOMAIN book' = {1, 2}
    <3>1. book' = Append(book, new) /\ DOMAIN book = {1}
      BY <1>0, <2>1, <2>3 DEF new
    <3>2. /\ Append(book, new) \in Seq(OrderAtBroker)
          /\ Len(Append(book, new)) = Len(book) + 1
          /\ \A i \in 1 .. Len(book) : Append(book, new)[i] = book[i]
          /\ Append(book, new)[Len(book) + 1] = new
      BY <1>0, <2>2, AppendProperties
    <3>3. book' \in Seq(OrderAtBroker) /\ Len(book') = 2
      BY <2>3, <3>1, <3>2
    <3>4. book'[1] = book[1] /\ book'[2] = new
      BY <2>3, <3>1, <3>2
    <3>5. DOMAIN book' = {1, 2}
      BY <3>3
    <3> QED BY <3>1, <3>3, <3>4, <3>5
  <2> QED BY <1>0, <1>0a, <2>2, <2>3, <2>4 DEF RecordTypeOK
<1>4. ASSUME NEW o \in DOMAIN book, NEW status \in StatusAt, NEW open \in BOOLEAN,
             OrderMoves(o, status, open)
      PROVE  RecordTypeOK'
  <2> DEFINE moved == [book[o] EXCEPT !.status = status, !.open = open]
  <2>1. book' = [book EXCEPT ![o] = moved] /\ UNCHANGED <<action, listed>>
    BY <1>4 DEF OrderMoves
  <2>2. book[o] \in OrderAtBroker
    BY <1>0
  <2>3. /\ moved \in OrderAtBroker /\ moved.bid = book[o].bid /\ moved.by = book[o].by
        /\ moved.fresh = book[o].fresh /\ moved.value = book[o].value
        /\ moved.reported = book[o].reported /\ moved.status = status
    BY <1>0a, <2>2 DEF OrderAtBroker
  <2> HIDE DEF moved
  <2>4. /\ book' \in Seq(OrderAtBroker) /\ Len(book') = Len(book) /\ DOMAIN book' = DOMAIN book
        /\ \A p \in DOMAIN book : book'[p] = IF p = o THEN moved ELSE book[p]
    BY <1>0, <2>1, <2>3
  <2>5. 1 \in DOMAIN book
    BY <1>0
  <2>6. \A p \in DOMAIN book' : book'[p].status \in StatusAt' /\ (p # 1 => book'[p].reported)
    BY <1>0, <1>0a, <2>3, <2>4
  <2>7. /\ book'[1].bid = action'.bid /\ book'[1].by = "program" /\ book'[1].fresh
        /\ ~ book'[1].value /\ (provider' = "alpaca" => book'[1].reported)
    BY <1>0, <2>1, <2>3, <2>4, <2>5
  <2> QED BY <1>0, <2>1, <2>4, <2>6, <2>7 DEF RecordTypeOK
<1> QED BY <1>1, <1>2, <1>3, <1>4 DEF RecordNext

\* The case analysis: what may be told, given what was seen and what matches.
ToldSoundly(open, page, good, kept, sided, status, res) ==
    LET seen == open \cup page
        visible == 1 \in seen /\ (kept \/ sided)
        confused == ~ kept /\ open = {1, 2}
    IN  /\ res \in Conclusions =>
             \E o \in page :
                /\ status[o] = res
                /\ o \in open => confused
                /\ o # 1 => o \in good /\ (visible => confused)
        /\ visible /\ (kept \/ \A o \in seen \ {1} : o \notin good) =>
             IF 1 \in open
             THEN res = "pending"
             ELSE status[1] \in Conclusions => res = status[1]

LEMMA WhatMayBeTold ==
  ASSUME NEW open, NEW page, OfTwo(open), OfTwo(page),
         NEW matching, NEW good, 2 \in matching => 2 \in good,
         NEW kept \in BOOLEAN, NEW sided, sided => 1 \in matching, NEW status
  PROVE  ToldSoundly(open, page, good, kept, sided, status,
                     Concluded(IF kept THEN 1 ELSE R!NoOrder, open, page, matching, status))
<1> SUFFICES ASSUME NEW ref, ref = IF kept THEN 1 ELSE R!NoOrder,
                    NEW res, res = Concluded(ref, open, page, matching, status)
             PROVE  ToldSoundly(open, page, good, kept, sided, status, res)
  OBVIOUS
<1> DEFINE seen == open \cup page
           visible == 1 \in seen /\ (kept \/ sided)
           confused == ~ kept /\ open = {1, 2}
<1>1. /\ ref \in open => res = "pending"
      /\ ref \in page \ open =>
            /\ res \in Conclusions => res = status[ref]
            /\ status[ref] \in Conclusions => res = status[ref]
      /\ ref \notin open \cup page =>
            /\ Single(open, matching) => res = "pending"
            /\ ~ Single(open, matching) /\ res \in Conclusions =>
                  \E o \in page : Sole(o, page, matching) /\ status[o] = res
            /\ \A o : ~ Single(open, matching) /\ Sole(o, page, matching)
                         /\ status[o] \in Conclusions => res = status[o]
  BY ResolvedBy
<1>2. Single(open, matching) <=> open \cap matching \in {{1}, {2}}
  <2>1. open \cap matching \subseteq {1, 2}
    BY DEF OfTwo
  <2> QED BY <2>1, PairSize DEF Single
<1>3. "pending" \notin Conclusions /\ R!NoOrder \notin {1, 2}
  BY DEF Conclusions, R!NoOrder
<1>4. CASE kept /\ 1 \in open \cup page
  <2>1. ref = 1
    BY <1>4
  <2> QED BY <1>1, <1>3, <1>4, <2>1 DEF ToldSoundly
<1>5. CASE ref \notin open \cup page
  <2>1. ~ kept \/ 1 \notin open \cup page
    BY <1>5
  <2>2. ASSUME res \in Conclusions
        PROVE  \E o \in page : /\ status[o] = res
                               /\ o \in open => confused
                               /\ o # 1 => o \in good /\ (visible => confused)
    <3>1. open \cap matching \notin {{1}, {2}}
      BY <1>1, <1>2, <1>3, <1>5, <2>2
    <3>2. PICK o \in page : page \cap matching = {o} /\ status[o] = res
      BY <1>1, <1>2, <1>5, <2>2, <3>1 DEF Sole
    <3>3. o \in matching /\ o \in {1, 2}
      BY <3>2 DEF OfTwo
    <3>4. o \in open => confused
      <4>1. o \in open => open \cap matching = {1, 2}
        BY <3>1, <3>3 DEF OfTwo
      <4> QED BY <2>1, <3>3, <4>1 DEF OfTwo
    <3>5. o # 1 => o \in good
      BY <3>3
    <3>6. o # 1 /\ visible => confused
      <4>1. ASSUME o # 1, visible PROVE confused
        <5>1. ~ kept /\ 1 \in matching
          BY <2>1, <4>1
        <5>2. 1 \notin page /\ 1 \in open
          BY <3>2, <4>1, <5>1
        <5>3. open \cap matching = {1, 2}
          BY <3>1, <5>1, <5>2 DEF OfTwo
        <5> QED BY <5>1, <5>3 DEF OfTwo
      <4> QED BY <4>1
    <3> QED BY <3>2, <3>4, <3>5, <3>6
  <2>3. ASSUME visible, \A o \in seen \ {1} : o \notin good
        PROVE  IF 1 \in open THEN res = "pending"
                             ELSE status[1] \in Conclusions => res = status[1]
    <3>1. 1 \in matching /\ 1 \in open \cup page /\ ~ kept
      BY <2>1, <2>3
    <3>2. 2 \in open \cup page => 2 \notin matching
      BY <2>3
    <3>3. CASE 1 \in open
      <4>1. open \cap matching = {1}
        BY <3>1, <3>2, <3>3 DEF OfTwo
      <4> QED BY <1>1, <1>2, <1>5, <3>3, <4>1
    <3>4. CASE 1 \notin open
      <4>1. open \cap matching = {} /\ page \cap matching = {1}
        BY <3>1, <3>2, <3>4 DEF OfTwo
      <4> QED BY <1>1, <1>2, <1>5, <3>1, <3>4, <4>1 DEF Sole
    <3> QED BY <3>3, <3>4
  <2>4. res \in Conclusions =>
          \E o \in page : /\ status[o] = res
                          /\ o \in open => confused
                          /\ o # 1 => o \in good /\ (visible => confused)
    BY <2>2
  <2>5. visible /\ (kept \/ \A o \in seen \ {1} : o \notin good) =>
          IF 1 \in open THEN res = "pending"
                        ELSE status[1] \in Conclusions => res = status[1]
    BY <2>1, <2>3, <1>5
  <2> QED BY <2>4, <2>5, Zenon DEF ToldSoundly
<1>6. ref \in open \cup page => kept /\ 1 \in open \cup page
  BY <1>3 DEF OfTwo
<1> QED BY <1>4, <1>5, <1>6

LEMMA HistoryIsTold ==
  ASSUME RecordTypeOK, provider' = provider, LookAtHistory
  PROVE  OwnOrderIsTold'
<1> DEFINE status == [o \in DOMAIN book |-> Group(BrokerOrder(book[o]).status)]
           matching == {o \in DOMAIN book : OrderMatchesAction(PreparedOrder(action.bid), book[o])}
           open == OneOf(listed, {})
           good == {o \in DOMAIN book : Alike(o)}
           outcome(page) == Concluded(SubmitOrderRef, open, page, matching, status)
           words == [o \in DOMAIN book |-> book[o].status]
<1>1. PICK page \in SUBSET HistoricalOrders :
         told' = [outcome |-> outcome(page), open |-> open, page |-> page, status |-> words]
  BY DEF LookAtHistory, Concluded
<1>2. /\ UNCHANGED <<action, book>> /\ listed # {}
  BY DEF LookAtHistory, Concluded
<1>3. /\ provider \in {"trading212", "alpaca"} /\ action \in [bid : Bids, kept : BOOLEAN]
      /\ book \in Seq(OrderAtBroker) /\ Len(book) \in {1, 2}
      /\ \A o \in DOMAIN book : book[o].status \in StatusAt
      /\ listed = {} \/ \E seen \in SUBSET DOMAIN book : listed = {seen}
  BY DEF RecordTypeOK
<1>4. DOMAIN book \subseteq {1, 2} /\ 1 \in DOMAIN book
  BY <1>3
<1>5. open \subseteq DOMAIN book
  BY <1>2, <1>3 DEF OneOf
<1>6. page \subseteq DOMAIN book
  BY DEF HistoricalOrders
<1>7. 2 \in matching => 2 \in good
  BY MatchesAreAlike
<1>8. book[1].reported => 1 \in matching
  BY <1>4, OwnMatches
<1>9. \A o \in DOMAIN book, x \in Conclusions : status[o] = x <=> words[o] \in Means[x]
  BY <1>3, StatusTells
<1>10. \A o \in DOMAIN book : Alike(o)' <=> o \in good
  BY <1>2 DEF Alike
<1>11. DOMAIN Means = Conclusions
  BY DEF Means, Conclusions
<1> DEFINE res == outcome(page)
           seen == open \cup page
           visible == 1 \in seen /\ (action.kept \/ book[1].reported)
           confused == ~ action.kept /\ open = {1, 2}
<1>12. ToldSoundly(open, page, good, action.kept, book[1].reported, status, res)
  <2>1. SubmitOrderRef = IF action.kept THEN 1 ELSE R!NoOrder
    BY DEF SubmitOrderRef
  <2>2. OfTwo(open) /\ OfTwo(page) /\ action.kept \in BOOLEAN
    BY <1>3, <1>4, <1>5, <1>6 DEF OfTwo
  <2> HIDE DEF status, matching, open, good
  <2>3. ToldSoundly(open, page, good, action.kept, book[1].reported, status,
                    Concluded(IF action.kept THEN 1 ELSE R!NoOrder, open, page, matching, status))
    BY <1>7, <1>8, <2>2, WhatMayBeTold
  <2> QED BY <2>1, <2>3
<1>13. /\ told'.outcome = res /\ told'.open = open /\ told'.page = page /\ told'.status = words
  BY <1>1
<1> HIDE DEF status, matching, open, good, res, words
<1>14. ASSUME told'.outcome \in DOMAIN Means
       PROVE  \E o \in told'.page :
                 /\ told'.status[o] \in Means[told'.outcome]
                 /\ o \in told'.open => confused
                 /\ o # 1 => Alike(o)' /\ (visible => confused)
  <2>1. PICK o \in page : /\ status[o] = res
                          /\ o \in open => confused
                          /\ o # 1 => o \in good /\ (visible => confused)
    BY <1>11, <1>12, <1>13, <1>14 DEF ToldSoundly
  <2>2. o \in DOMAIN book /\ words[o] \in Means[res]
    BY <1>6, <1>9, <1>11, <1>13, <1>14, <2>1
  <2>3. o # 1 => Alike(o)'
    BY <1>10, <2>1, <2>2
  <2> QED BY <1>13, <2>1, <2>2, <2>3
<1>15. ASSUME visible, action.kept \/ \A o \in seen \ {1} : ~ Alike(o)'
       PROVE  IF 1 \in open THEN res = "pending"
              ELSE \A x \in DOMAIN Means : words[1] \in Means[x] => res = x
  <2>1. action.kept \/ \A o \in seen \ {1} : o \notin good
    BY <1>5, <1>6, <1>10, <1>15
  <2>2. IF 1 \in open THEN res = "pending"
        ELSE status[1] \in Conclusions => res = status[1]
    BY <1>12, <1>15, <2>1 DEF ToldSoundly
  <2> QED BY <1>4, <1>9, <1>11, <2>2
<1> QED BY <1>2, <1>13, <1>14, <1>15 DEF OwnOrderIsTold, Ended

LEMMA RecordStep ==
  ASSUME RecordInv, [RecordNext /\ UNCHANGED provider]_<<recordVars, provider>>
  PROVE  RecordInv'
<1>1. CASE UNCHANGED <<recordVars, provider>>
  <2>1. UNCHANGED <<action, book, listed, told, provider>>
    BY <1>1 DEF recordVars
  <2>2. RecordTypeOK'
    BY <2>1 DEF RecordInv, RecordTypeOK, StatusAt
  <2>3. OwnOrderIsTold'
    BY <2>1 DEF RecordInv, OwnOrderIsTold, Ended, Alike
  <2> QED BY <2>2, <2>3 DEF RecordInv
<1>2. CASE RecordNext /\ UNCHANGED provider
  <2>1. RecordTypeOK'
    BY <1>2, RecordTypeStays DEF RecordInv
  <2>2. CASE LookAtHistory
    BY <1>2, <2>1, <2>2, HistoryIsTold DEF RecordInv
  <2>3. CASE LookAtPending
    <3>1. UNCHANGED <<action, book, told, provider>>
      BY <1>2, <2>3 DEF LookAtPending
    <3>2. OwnOrderIsTold'
      BY <3>1 DEF RecordInv, OwnOrderIsTold, Ended, Alike
    <3> QED BY <2>1, <3>2 DEF RecordInv
  <2>4. CASE told' = NotTold
    BY <2>1, <2>4 DEF RecordInv, OwnOrderIsTold, NotTold
  <2>5. ASSUME NEW b \in Bids, OtherPlaced(b) PROVE told' = NotTold
    BY <2>5 DEF OtherPlaced
  <2>6. ASSUME NEW o \in DOMAIN book, NEW status \in StatusAt, NEW open \in BOOLEAN,
               OrderMoves(o, status, open)
        PROVE  told' = NotTold
    BY <2>6 DEF OrderMoves
  <2> QED BY <1>2, <2>2, <2>3, <2>4, <2>5, <2>6 DEF RecordNext
<1> QED BY <1>1, <1>2

\* Whichever broker wrote the orders down, and however much it told of them, an
\* action ends as the order it placed did, or as one that could not be told from
\* it; and its own order is recognised where it is seen.
THEOREM OwnOrderStaysTold == RecordSpec => []OwnOrderIsTold
<1>1. provider \in {"trading212", "alpaca"} /\ RecordInit => RecordInv
  <2> SUFFICES ASSUME provider \in {"trading212", "alpaca"}, RecordInit PROVE RecordInv
    OBVIOUS
  <2>1. PICK reported \in {provider = "alpaca", TRUE} :
           book = <<Placed(action.bid, "program", FALSE, reported, TRUE)>>
    BY DEF RecordInit
  <2> DEFINE own == Placed(action.bid, "program", FALSE, reported, TRUE)
  <2>2. action \in [bid : Bids, kept : BOOLEAN] /\ listed = {} /\ told = NotTold
    BY DEF RecordInit
  <2>3. /\ own \in OrderAtBroker /\ own.status \in StatusAt /\ own.bid = action.bid
        /\ own.by = "program" /\ own.fresh /\ ~ own.value
        /\ provider = "alpaca" => own.reported
    BY <2>2 DEF Placed, OrderAtBroker, StatusAt, Trading212Status, AlpacaStatus
  <2> HIDE DEF own
  <2>4. /\ book = <<own>>
    BY <2>1 DEF own
  <2>5. book \in Seq(OrderAtBroker) /\ Len(book) = 1 /\ book[1] = own /\ DOMAIN book = {1}
    BY <2>3, <2>4
  <2> QED BY <2>2, <2>3, <2>5 DEF RecordInv, RecordTypeOK, OwnOrderIsTold, NotTold
<1>2. RecordInv /\ [RecordNext /\ UNCHANGED provider]_<<recordVars, provider>> => RecordInv'
  BY RecordStep
<1>3. RecordInv => OwnOrderIsTold
  BY DEF RecordInv
<1> QED BY <1>1, <1>2, <1>3, PTL DEF RecordSpec

-----------------------------------------------------------------------------
(* The wizard: saving changes no more than was asked *)

WellFormed == {f \in EnvFile : \A s \in Keyless : f.access[s] = absent}
Fields ==
    {"llm", "azure", "openaiKey", "azureAccess", "broker", "environment", "credential",
     "live", "token", "chat", "source", "access", "database"}

\* The program reads the same setting from g as from f, and if it rests on an odd
\* value in g, it does in f.
ReadAlike(f, g, x) ==
    ResolvedSettings(f)[x] = ResolvedSettings(g)[x] /\ (Odd(g, x) => Odd(f, x))

\* What the program would read from g differs from what it reads from f in the
\* settings X, the providers of the sources S and the credentials C at most.
Differ(f, g, X, S, C) ==
    /\ \A x \in Fields : ~ ReadAlike(f, g, x) => x \in X
    /\ \A s \in Sources : ResolveSource(f, s) # ResolveSource(g, s) => s \in S
    /\ \A b \in Broker, e \in Environments, k \in Part :
          ResolveCredential(f, b, e, k) # ResolveCredential(g, b, e, k) => <<b, e, k>> \in C

AboutAll(sections) == {x \in Fields : \E s \in sections : x \in About(s)}

\* A draft leaves no provider to be implied.
Explicit(f) ==
    ~ Blank(f.llm) /\ ~ Blank(f.broker) /\ \A s \in Sources : ~ Blank(f.provider[s])

\* While the wizard runs, the draft differs from the file in what was asked.
WizardInv ==
    /\ env \in WellFormed /\ draft \in WellFormed
    /\ section # "" =>
          Explicit(draft) /\ Differ(env, draft, AboutAll(asked), asked, typed)

LEMMA FieldsAreAll == \A f : DOMAIN ResolvedSettings(f) = Fields
BY DEF ResolvedSettings, Fields

\* What makes a setting odd.
LEMMA OddIs ==
  ASSUME NEW f
  PROVE  /\ Odd(f, "llm") <=> ResolveLlm(f) \in Fragile
         /\ Odd(f, "azure") <=> ResolveLlm(f) \in Fragile \/ f.azure \in Fragile
         /\ Odd(f, "openaiKey") <=> FirstNonEmpty(f.openaiKey, "") \in Fragile
         /\ Odd(f, "azureAccess") <=> FirstNonEmpty(f.azureAccess, "") \in Fragile
         /\ Odd(f, "broker") <=> ResolveBroker(f) \in Fragile
         /\ Odd(f, "environment") <=> \E b \in Broker : f.environment[b] \in Fragile
         /\ Odd(f, "credential") <=>
               \E b \in Broker :
                  \/ f.environment[b] \in Fragile
                  \/ \E e \in Environments, k \in Part :
                        ResolveCredential(f, b, e, k) \in Fragile
         /\ Odd(f, "source") <=> \E y \in Sources : ResolveSource(f, y) \in Fragile
         /\ Odd(f, "access") <=>
               \E y \in Sources : FirstNonEmpty(f.access[y], "") \in Fragile
         /\ Odd(f, "live") <=> f.live \in Fragile
         /\ Odd(f, "token") <=> f.token \in Fragile
         /\ Odd(f, "chat") <=> f.chat \in Fragile
         /\ Odd(f, "database") <=> f.database \in Fragile
<1>1. /\ ResolvedSettings(f)["llm"] = ResolveLlm(f)
      /\ ResolvedSettings(f)["openaiKey"] = FirstNonEmpty(f.openaiKey, "")
      /\ ResolvedSettings(f)["azureAccess"] = FirstNonEmpty(f.azureAccess, "")
      /\ ResolvedSettings(f)["broker"] = ResolveBroker(f)
      /\ \A y \in Sources : ResolvedSettings(f).source[y] = ResolveSource(f, y)
      /\ \A y \in Sources :
            ResolvedSettings(f).access[y] = FirstNonEmpty(f.access[y], "")
  BY DEF ResolvedSettings
<1>2. ResolvedSettings(f).llm = ResolvedSettings(f)["llm"]
  OBVIOUS
<1>3. /\ Odd(f, "llm") <=> ResolveLlm(f) \in Fragile
      /\ Odd(f, "azure") <=> ResolveLlm(f) \in Fragile \/ f.azure \in Fragile
      /\ Odd(f, "openaiKey") <=> FirstNonEmpty(f.openaiKey, "") \in Fragile
      /\ Odd(f, "azureAccess") <=> FirstNonEmpty(f.azureAccess, "") \in Fragile
      /\ Odd(f, "broker") <=> ResolveBroker(f) \in Fragile
  BY <1>1, <1>2 DEF Odd
<1>4. /\ Odd(f, "environment") <=> \E b \in Broker : f.environment[b] \in Fragile
      /\ Odd(f, "credential") <=>
               \E b \in Broker :
                  \/ f.environment[b] \in Fragile
                  \/ \E e \in Environments, k \in Part :
                        ResolveCredential(f, b, e, k) \in Fragile
  BY DEF Odd
<1>5. /\ Odd(f, "source") <=> \E y \in Sources : ResolveSource(f, y) \in Fragile
      /\ Odd(f, "access") <=>
               \E y \in Sources : FirstNonEmpty(f.access[y], "") \in Fragile
  BY <1>1 DEF Odd
<1>6. /\ Odd(f, "live") <=> f.live \in Fragile
      /\ Odd(f, "token") <=> f.token \in Fragile
      /\ Odd(f, "chat") <=> f.chat \in Fragile
      /\ Odd(f, "database") <=> f.database \in Fragile
  BY DEF Odd
<1> QED BY <1>3, <1>4, <1>5, <1>6

\* Each setting follows from a few values of the file.
LEMMA SettingsFollow ==
  ASSUME NEW f, NEW g
  PROVE  /\ f.llm = g.llm /\ f.azure = g.azure /\ f.openaiKey = g.openaiKey
            /\ f.azureAccess = g.azureAccess
            => \A x \in {"llm", "azure", "openaiKey", "azureAccess"} : ReadAlike(f, g, x)
         /\ f.broker = g.broker /\ f.own["trading212"] = g.own["trading212"]
            => ReadAlike(f, g, "broker")
         /\ f.environment = g.environment => ReadAlike(f, g, "environment")
         /\ f.environment = g.environment /\ f.own = g.own => ReadAlike(f, g, "credential")
         /\ f.live = g.live => ReadAlike(f, g, "live")
         /\ f.token = g.token => ReadAlike(f, g, "token")
         /\ f.chat = g.chat => ReadAlike(f, g, "chat")
         /\ (\A s \in Sources : ResolveSource(f, s) = ResolveSource(g, s))
            => ReadAlike(f, g, "source")
         /\ f.access = g.access => ReadAlike(f, g, "access")
         /\ f.database = g.database => ReadAlike(f, g, "database")
<1>1. ASSUME f.llm = g.llm, f.azure = g.azure, f.openaiKey = g.openaiKey,
             f.azureAccess = g.azureAccess
      PROVE  \A x \in {"llm", "azure", "openaiKey", "azureAccess"} : ReadAlike(f, g, x)
  <2>1. ResolveLlm(f) = ResolveLlm(g)
    BY <1>1 DEF ResolveLlm
  <2>2. ResolvedSettings(f)["llm"] = ResolvedSettings(g)["llm"]
    BY <2>1 DEF ResolvedSettings
  <2>3. ResolvedSettings(f)["azure"] = ResolvedSettings(g)["azure"]
    BY <1>1, <2>1 DEF ResolvedSettings
  <2>4. ResolvedSettings(f)["openaiKey"] = ResolvedSettings(g)["openaiKey"]
    BY <1>1 DEF ResolvedSettings
  <2>5. ResolvedSettings(f)["azureAccess"] = ResolvedSettings(g)["azureAccess"]
    BY <1>1 DEF ResolvedSettings
  <2>6. \A x \in {"llm", "azure", "openaiKey", "azureAccess"} : Odd(g, x) => Odd(f, x)
    BY <1>1, <2>1, OddIs
  <2> QED BY <2>2, <2>3, <2>4, <2>5, <2>6 DEF ReadAlike
<1>2. ASSUME f.broker = g.broker, f.own["trading212"] = g.own["trading212"]
      PROVE  ReadAlike(f, g, "broker")
  <2>1. ResolveBroker(f) = ResolveBroker(g)
    BY <1>2 DEF ResolveBroker
  <2>2. ResolvedSettings(f)["broker"] = ResolvedSettings(g)["broker"]
    BY <2>1 DEF ResolvedSettings
  <2> QED BY <2>1, <2>2, OddIs DEF ReadAlike
<1>3. ASSUME f.environment = g.environment PROVE ReadAlike(f, g, "environment")
  <2>1. ResolvedSettings(f)["environment"] = ResolvedSettings(g)["environment"]
    BY <1>3 DEF ResolvedSettings, Environment
  <2> QED BY <1>3, <2>1, OddIs DEF ReadAlike
<1>4. ASSUME f.environment = g.environment, f.own = g.own PROVE ReadAlike(f, g, "credential")
  <2>1. ResolvedSettings(f)["credential"] = ResolvedSettings(g)["credential"]
    BY <1>4 DEF ResolvedSettings, Environment, ResolveCredential
  <2>2. \A b \in Broker, e \in Environments, k \in Part :
           ResolveCredential(f, b, e, k) = ResolveCredential(g, b, e, k)
    BY <1>4 DEF ResolveCredential
  <2>3. ASSUME Odd(g, "credential") PROVE Odd(f, "credential")
    <3>1. PICK b \in Broker :
             \/ g.environment[b] \in Fragile
             \/ \E e \in Environments, k \in Part :
                   ResolveCredential(g, b, e, k) \in Fragile
      BY <2>3, OddIs
    <3>2. \/ f.environment[b] \in Fragile
          \/ \E e \in Environments, k \in Part :
                ResolveCredential(f, b, e, k) \in Fragile
      BY <1>4, <2>2, <3>1
    <3> QED BY <3>2, OddIs
  <2> QED BY <2>1, <2>3 DEF ReadAlike
<1>5. ASSUME f.live = g.live PROVE ReadAlike(f, g, "live")
  <2>1. ResolvedSettings(f)["live"] = ResolvedSettings(g)["live"]
    BY <1>5 DEF ResolvedSettings
  <2> QED BY <1>5, <2>1, OddIs DEF ReadAlike
<1>6. ASSUME f.token = g.token PROVE ReadAlike(f, g, "token")
  <2>1. ResolvedSettings(f)["token"] = ResolvedSettings(g)["token"]
    BY <1>6 DEF ResolvedSettings
  <2> QED BY <1>6, <2>1, OddIs DEF ReadAlike
<1>7. ASSUME f.chat = g.chat PROVE ReadAlike(f, g, "chat")
  <2>1. ResolvedSettings(f)["chat"] = ResolvedSettings(g)["chat"]
    BY <1>7 DEF ResolvedSettings
  <2> QED BY <1>7, <2>1, OddIs DEF ReadAlike
<1>8. ASSUME \A s \in Sources : ResolveSource(f, s) = ResolveSource(g, s)
      PROVE  ReadAlike(f, g, "source")
  <2>1. ResolvedSettings(f)["source"] = ResolvedSettings(g)["source"]
    BY <1>8 DEF ResolvedSettings
  <2> QED BY <1>8, <2>1, OddIs DEF ReadAlike
<1>9. ASSUME f.access = g.access PROVE ReadAlike(f, g, "access")
  <2>1. ResolvedSettings(f)["access"] = ResolvedSettings(g)["access"]
    BY <1>9 DEF ResolvedSettings
  <2> QED BY <1>9, <2>1, OddIs DEF ReadAlike
<1>10. ASSUME f.database = g.database PROVE ReadAlike(f, g, "database")
  <2>1. ResolvedSettings(f)["database"] = ResolvedSettings(g)["database"]
    BY <1>10 DEF ResolvedSettings
  <2> QED BY <1>10, <2>1, OddIs DEF ReadAlike
<1> QED BY <1>1, <1>2, <1>3, <1>4, <1>5, <1>6, <1>7, <1>8, <1>9, <1>10

LEMMA SourceFollows ==
  ASSUME NEW f, NEW g, NEW s, f.provider[s] = g.provider[s], f.enabled[s] = g.enabled[s],
         f.access[s] = g.access[s]
  PROVE  ResolveSource(f, s) = ResolveSource(g, s)
BY DEF ResolveSource

LEMMA CredentialFollows ==
  ASSUME NEW f, NEW g, NEW b, NEW e, NEW k, f.own[b][e][k] = g.own[b][e][k],
         f.own[b]["legacy"][k] = g.own[b]["legacy"][k]
  PROVE  ResolveCredential(f, b, e, k) = ResolveCredential(g, b, e, k)
BY DEF ResolveCredential

\* Values of the wizard's are as good as any.
LEMMA FilesAreFunctions ==
  ASSUME NEW f \in EnvFile
  PROVE  /\ \A s \in Sources : f.provider[s] \in Word /\ f.enabled[s] \in Word
                               /\ f.access[s] \in Word
         /\ \A b \in Broker : f.environment[b] \in Word
         /\ \A b \in Broker, a \in Accounts, k \in Part : f.own[b][a][k] \in Word
BY DEF EnvFile

LEMMA DifferencesAdd ==
  ASSUME NEW f, NEW g, NEW h, NEW X, NEW S, NEW C, NEW Y, NEW T, NEW D,
         Differ(f, g, X, S, C), Differ(g, h, Y, T, D)
  PROVE  Differ(f, h, X \cup Y, S \cup T, C \cup D)
<1>1. ASSUME NEW x \in Fields, ~ ReadAlike(f, h, x)
      PROVE  x \in X \cup Y
  BY <1>1 DEF Differ, ReadAlike
<1>2. ASSUME NEW s \in Sources, ResolveSource(f, s) # ResolveSource(h, s)
      PROVE  s \in S \cup T
  BY <1>2 DEF Differ
<1>3. ASSUME NEW b \in Broker, NEW e \in Environments, NEW k \in Part,
             ResolveCredential(f, b, e, k) # ResolveCredential(h, b, e, k)
      PROVE  <<b, e, k>> \in C \cup D
  BY <1>3 DEF Differ
<1> QED BY <1>1, <1>2, <1>3 DEF Differ

\* What the person is asked about makes a difference in that only.
LEMMA StorageDiffers ==
  ASSUME NEW f \in WellFormed, NEW url \in Word
  PROVE  LET d == [f EXCEPT !.database = url]
         IN  d \in WellFormed /\ Differ(f, d, About("storage"), {"storage"}, {})
<1> DEFINE d == [f EXCEPT !.database = url]
<1>1. d \in EnvFile /\ d.access = f.access
  BY DEF EnvFile, WellFormed
<1>2. /\ d.llm = f.llm /\ d.azure = f.azure /\ d.openaiKey = f.openaiKey
      /\ d.azureAccess = f.azureAccess /\ d.broker = f.broker
      /\ d.environment = f.environment /\ d.own = f.own /\ d.live = f.live
      /\ d.token = f.token /\ d.chat = f.chat /\ d.provider = f.provider
      /\ d.enabled = f.enabled
  BY DEF EnvFile, WellFormed
<1> HIDE DEF d
<1>3. \A s \in Sources : ResolveSource(f, s) = ResolveSource(d, s)
  BY <1>1, <1>2, SourceFollows
<1>4. \A b \in Broker, e \in Environments, k \in Part :
         ResolveCredential(f, b, e, k) = ResolveCredential(d, b, e, k)
  BY <1>2, CredentialFollows
<1>5. \A x \in Fields \ {"database"} : ReadAlike(f, d, x)
  BY <1>1, <1>2, <1>3, SettingsFollow DEF Fields
<1>6. Differ(f, d, About("storage"), {"storage"}, {})
  BY <1>3, <1>4, <1>5 DEF Differ, About
<1> QED BY <1>1, <1>6 DEF WellFormed, d

LEMMA TelegramDiffers ==
  ASSUME NEW f \in WellFormed, NEW token_ \in Word, NEW chat_ \in Word
  PROVE  LET d == [f EXCEPT !.token = token_, !.chat = chat_]
         IN  d \in WellFormed /\ Differ(f, d, About("telegram"), {"telegram"}, {})
<1> DEFINE d == [f EXCEPT !.token = token_, !.chat = chat_]
<1>1. d \in EnvFile /\ d.access = f.access
  BY DEF EnvFile, WellFormed
<1>2. /\ d.llm = f.llm /\ d.azure = f.azure /\ d.openaiKey = f.openaiKey
      /\ d.azureAccess = f.azureAccess /\ d.broker = f.broker
      /\ d.environment = f.environment /\ d.own = f.own /\ d.live = f.live
      /\ d.database = f.database /\ d.provider = f.provider
      /\ d.enabled = f.enabled
  BY DEF EnvFile, WellFormed
<1> HIDE DEF d
<1>3. \A s \in Sources : ResolveSource(f, s) = ResolveSource(d, s)
  BY <1>1, <1>2, SourceFollows
<1>4. \A b \in Broker, e \in Environments, k \in Part :
         ResolveCredential(f, b, e, k) = ResolveCredential(d, b, e, k)
  BY <1>2, CredentialFollows
<1>5. \A x \in Fields \ {"token", "chat"} :
         ReadAlike(f, d, x)
  BY <1>1, <1>2, <1>3, SettingsFollow DEF Fields
<1>6. Differ(f, d, About("telegram"), {"telegram"}, {})
  BY <1>3, <1>4, <1>5 DEF Differ, About
<1> QED BY <1>1, <1>6 DEF WellFormed, d

LEMMA LlmDiffers ==
  ASSUME NEW f \in WellFormed, NEW d \in EnvFile,
         \E key \in Word :
            \/ d = [f EXCEPT !.llm = "openai", !.azure = "false", !.openaiKey = key]
            \/ d = [f EXCEPT !.llm = "azure_openai", !.azure = "true",
                             !.azureAccess = key]
            \/ d = [f EXCEPT !.llm = "none", !.azure = "false"]
  PROVE  d \in WellFormed /\ Differ(f, d, About("llm"), {"llm"}, {})
<1>1. d.access = f.access
  BY DEF EnvFile, WellFormed
<1>2. /\ d.broker = f.broker /\ d.token = f.token /\ d.chat = f.chat
      /\ d.environment = f.environment /\ d.own = f.own /\ d.live = f.live
      /\ d.database = f.database /\ d.provider = f.provider
      /\ d.enabled = f.enabled
  BY DEF EnvFile, WellFormed
<1>3. \A s \in Sources : ResolveSource(f, s) = ResolveSource(d, s)
  BY <1>1, <1>2, SourceFollows
<1>4. \A b \in Broker, e \in Environments, k \in Part :
         ResolveCredential(f, b, e, k) = ResolveCredential(d, b, e, k)
  BY <1>2, CredentialFollows
<1>5. \A x \in Fields \ {"llm", "azure", "openaiKey", "azureAccess"} :
         ReadAlike(f, d, x)
  BY <1>1, <1>2, <1>3, SettingsFollow DEF Fields
<1>6. Differ(f, d, About("llm"), {"llm"}, {})
  BY <1>3, <1>4, <1>5 DEF Differ, About
<1> QED BY <1>1, <1>6 DEF WellFormed

\* Only the credentials entered are other ones.
LEMMA PromptedOnly ==
  ASSUME NEW f \in EnvFile, NEW b \in Broker, NEW ks \in SUBSET Part
  PROVE  LET d == Prompted(f, b, ks)
         IN  /\ d \in EnvFile
             /\ \A x \in DOMAIN f \ {"own"} : d[x] = f[x]
             /\ \A c \in Broker \ {b} : d.own[c] = f.own[c]
             /\ \A c \in Broker, e \in Environments, k \in Part :
                   ResolveCredential(d, c, e, k) # ResolveCredential(f, c, e, k)
                     => <<c, e, k>> \in EnteredFor(f, b, ks)
<1> DEFINE e == Environment(f, b)
           entered == [k \in Part |-> IF k \in ks THEN "new" ELSE f.own[b][e][k]]
           d == Prompted(f, b, ks)
<1>1. e \in Environments /\ e \in Accounts /\ e # "legacy"
  BY DEF Environment, Environments, Accounts
<1>2. entered \in [Part -> Word]
  <2> HIDE DEF e, d
  <2>1. \A k \in Part : f.own[b][e][k] \in Word
    BY <1>1, FilesAreFunctions
  <2> DEFINE new == "new"
  <2>2. new \in Word
    BY DEF Word, OwnWord
  <2> HIDE DEF new
  <2>3. [k \in Part |-> IF k \in ks THEN new ELSE f.own[b][e][k]] \in [Part -> Word]
    BY <2>1, <2>2
  <2> QED BY <2>3 DEF new
<1>3. d = [f EXCEPT !.own[b][e] = entered]
  BY DEF Prompted
<1>4. /\ f.own \in [Broker -> [Accounts -> [Part -> Word]]]
      /\ f.own[b] \in [Accounts -> [Part -> Word]]
  BY DEF EnvFile
<1> HIDE DEF entered, e, d
<1>5. /\ d.own = [f.own EXCEPT ![b] = [@ EXCEPT ![e] = entered]]
      /\ \A x \in DOMAIN f \ {"own"} : d[x] = f[x]
  BY <1>3 DEF EnvFile
<1>6. d.own \in [Broker -> [Accounts -> [Part -> Word]]]
  BY <1>1, <1>2, <1>4, <1>5
<1>7. d \in EnvFile
  BY <1>3, <1>5, <1>6 DEF EnvFile
<1>8. /\ \A c \in Broker \ {b} : d.own[c] = f.own[c]
      /\ \A a \in Accounts \ {e} : d.own[b][a] = f.own[b][a]
      /\ d.own[b][e] = entered
  BY <1>1, <1>4, <1>5
<1>9. ASSUME NEW c \in Broker, NEW v \in Environments, NEW k \in Part,
             ResolveCredential(d, c, v, k) # ResolveCredential(f, c, v, k)
      PROVE  <<c, v, k>> \in EnteredFor(f, b, ks)
  <2>1. d.own[c]["legacy"][k] = f.own[c]["legacy"][k]
    BY <1>1, <1>8 DEF Accounts
  <2>2. d.own[c][v][k] # f.own[c][v][k]
    BY <2>1, <1>9, CredentialFollows
  <2>3. c = b /\ v = e
    BY <2>2, <1>1, <1>8 DEF Accounts
  <2>4. k \in ks
    BY <2>2, <2>3, <1>8 DEF entered
  <2> QED BY <2>3, <2>4 DEF EnteredFor, e
<1> QED BY <1>5, <1>7, <1>8, <1>9 DEF d

LEMMA BrokerDiffers ==
  ASSUME NEW f \in WellFormed, NEW b \in Broker, NEW e \in Environments, NEW v \in Word,
         NEW ks \in SUBSET Part, NEW g \in EnvFile,
         \/ g = [f EXCEPT !.broker = b, !.environment[b] = e, !.live = v]
         \/ g = [f EXCEPT !.broker = b, !.environment[b] = e]
  PROVE  LET d == Prompted(g, b, ks)
         IN  /\ d \in WellFormed
             /\ Differ(f, d, About("broker"), {"broker"}, EnteredFor(g, b, ks))
<1> DEFINE d == Prompted(g, b, ks)
<1>1. /\ DOMAIN g = DOMAIN f
      /\ DOMAIN f = {"llm", "openaiKey", "azure", "azureAccess", "broker", "environment",
                     "own", "live", "token", "chat", "provider", "enabled", "access",
                     "database"}
      /\ \A x \in DOMAIN f \ {"broker", "environment", "live"} : g[x] = f[x]
  BY DEF WellFormed, EnvFile
<1>2. /\ d \in EnvFile
      /\ \A x \in DOMAIN g \ {"own"} : d[x] = g[x]
      /\ \A c \in Broker, u \in Environments, k \in Part :
            ResolveCredential(d, c, u, k) # ResolveCredential(g, c, u, k)
              => <<c, u, k>> \in EnteredFor(g, b, ks)
  BY PromptedOnly
<1> HIDE DEF d
<1>3. \A x \in DOMAIN f \ {"broker", "environment", "live", "own"} : d[x] = f[x]
  BY <1>1, <1>2
<1>4. /\ d.llm = f.llm /\ d.azure = f.azure /\ d.openaiKey = f.openaiKey
      /\ d.azureAccess = f.azureAccess /\ d.token = f.token /\ d.chat = f.chat
      /\ d.provider = f.provider /\ d.enabled = f.enabled /\ d.access = f.access
      /\ d.database = f.database /\ g.own = f.own
  BY <1>1, <1>3
<1>5. \A s \in Sources : ResolveSource(f, s) = ResolveSource(d, s)
  BY <1>4, SourceFollows
<1>6. \A c \in Broker, u \in Environments, k \in Part :
            ResolveCredential(f, c, u, k) # ResolveCredential(d, c, u, k)
              => <<c, u, k>> \in EnteredFor(g, b, ks)
  BY <1>2, <1>4, CredentialFollows
<1>7. \A x \in Fields \ {"broker", "environment", "credential", "live"} :
         ReadAlike(f, d, x)
  BY <1>4, <1>5, SettingsFollow DEF Fields
<1>8. Differ(f, d, About("broker"), {"broker"}, EnteredFor(g, b, ks))
  BY <1>5, <1>6, <1>7 DEF Differ, About
<1>9. d \in WellFormed
  BY <1>2, <1>4 DEF WellFormed
<1> QED BY <1>8, <1>9 DEF d

LEMMA NoBrokerDiffers ==
  ASSUME NEW f \in WellFormed, NEW v \in Word
  PROVE  LET d == [f EXCEPT !.broker = v]
         IN  d \in WellFormed /\ Differ(f, d, About("broker"), {"broker"}, {})
<1> DEFINE d == [f EXCEPT !.broker = v]
<1>1. d \in EnvFile /\ d.access = f.access
  BY DEF EnvFile, WellFormed
<1>2. /\ d.llm = f.llm /\ d.azure = f.azure /\ d.openaiKey = f.openaiKey
      /\ d.azureAccess = f.azureAccess /\ d.token = f.token /\ d.chat = f.chat
      /\ d.environment = f.environment /\ d.own = f.own /\ d.live = f.live
      /\ d.database = f.database /\ d.provider = f.provider /\ d.enabled = f.enabled
  BY DEF EnvFile, WellFormed
<1> HIDE DEF d
<1>3. \A s \in Sources : ResolveSource(f, s) = ResolveSource(d, s)
  BY <1>1, <1>2, SourceFollows
<1>4. \A b \in Broker, e \in Environments, k \in Part :
         ResolveCredential(f, b, e, k) = ResolveCredential(d, b, e, k)
  BY <1>2, CredentialFollows
<1>5. \A x \in Fields \ {"broker"} : ReadAlike(f, d, x)
  BY <1>1, <1>2, <1>3, SettingsFollow DEF Fields
<1>6. Differ(f, d, About("broker"), {"broker"}, {})
  BY <1>3, <1>4, <1>5 DEF Differ, About
<1> QED BY <1>1, <1>6 DEF WellFormed, d

\* A source's own values are another's nothing.
LEMMA SourceDiffers ==
  ASSUME NEW f \in WellFormed, NEW x \in Sources \ Keyless, NEW p \in Word,
         NEW v \in Word, NEW key \in Word, NEW d \in EnvFile,
         \/ d = [f EXCEPT !.provider[x] = p, !.enabled[x] = v, !.access[x] = key]
         \/ d = [f EXCEPT !.provider[x] = p, !.enabled[x] = v]
  PROVE  d \in WellFormed /\ Differ(f, d, {"source", "access"}, {x}, {})
<1>1. /\ d.llm = f.llm /\ d.azure = f.azure /\ d.openaiKey = f.openaiKey
      /\ d.azureAccess = f.azureAccess /\ d.token = f.token /\ d.chat = f.chat
      /\ d.environment = f.environment /\ d.own = f.own /\ d.live = f.live
      /\ d.database = f.database /\ d.broker = f.broker
  BY DEF EnvFile, WellFormed
<1>2. \A s \in Sources \ {x} : d.provider[s] = f.provider[s] /\ d.enabled[s] = f.enabled[s]
                               /\ d.access[s] = f.access[s]
  <2>1. /\ f.provider \in [Sources -> Word] /\ f.enabled \in [Sources -> Word]
        /\ f.access \in [Sources -> Word] /\ f \in EnvFile
    BY DEF EnvFile, WellFormed
  <2>2. /\ d.provider = [f.provider EXCEPT ![x] = p]
        /\ d.enabled = [f.enabled EXCEPT ![x] = v]
        /\ d.access = f.access \/ d.access = [f.access EXCEPT ![x] = key]
    BY <2>1 DEF EnvFile
  <2> QED BY <2>1, <2>2
<1>3. \A s \in Sources \ {x} : ResolveSource(f, s) = ResolveSource(d, s)
  BY <1>2, SourceFollows
<1>4. \A b \in Broker, e \in Environments, k \in Part :
         ResolveCredential(f, b, e, k) = ResolveCredential(d, b, e, k)
  BY <1>1, CredentialFollows
<1>5. \A y \in Fields \ {"source", "access"} :
         ReadAlike(f, d, y)
  BY <1>1, SettingsFollow DEF Fields
<1>6. Differ(f, d, {"source", "access"}, {x}, {})
  BY <1>3, <1>4, <1>5 DEF Differ
<1>7. Keyless \subseteq Sources
  BY DEF Keyless, Sources
<1> QED BY <1>2, <1>6, <1>7 DEF WellFormed

LEMMA MarketDataDiffers ==
  ASSUME NEW f \in WellFormed, NEW p \in Word, NEW v \in Word,
         NEW e \in Environments, NEW ks \in SUBSET Part
  PROVE  LET g == [f EXCEPT !.provider["market_data"] = p, !.enabled["market_data"] = v]
             h == [g EXCEPT !.environment["alpaca"] = e]
             d == Prompted(h, "alpaca", ks)
         IN  /\ g \in WellFormed /\ d \in WellFormed
             /\ Differ(f, g, About("market_data"), {"market_data"}, {})
             /\ Differ(f, d, About("market_data"), {"market_data"},
                       EnteredFor(h, "alpaca", ks))
<1> DEFINE g == [f EXCEPT !.provider["market_data"] = p, !.enabled["market_data"] = v]
           h == [g EXCEPT !.environment["alpaca"] = e]
           d == Prompted(h, "alpaca", ks)
<1>1. /\ g \in EnvFile
      /\ g.llm = f.llm /\ g.azure = f.azure /\ g.openaiKey = f.openaiKey
      /\ g.azureAccess = f.azureAccess /\ g.token = f.token /\ g.chat = f.chat
      /\ g.environment = f.environment /\ g.own = f.own /\ g.live = f.live
      /\ g.database = f.database /\ g.broker = f.broker /\ g.access = f.access
  BY DEF EnvFile, WellFormed, Sources
<1>2. \A s \in Sources \ {"market_data"} :
         g.provider[s] = f.provider[s] /\ g.enabled[s] = f.enabled[s]
  BY DEF EnvFile, WellFormed
<1> HIDE DEF g
<1>3. /\ h \in EnvFile
      /\ h.llm = g.llm /\ h.azure = g.azure /\ h.openaiKey = g.openaiKey
      /\ h.azureAccess = g.azureAccess /\ h.token = g.token /\ h.chat = g.chat
      /\ h.own = g.own /\ h.live = g.live /\ h.database = g.database
      /\ h.broker = g.broker /\ h.access = g.access /\ h.provider = g.provider
      /\ h.enabled = g.enabled
  <2>1. "alpaca" \in Broker /\ e \in Word /\ g.environment \in [Broker -> Word]
    BY <1>1 DEF Broker, Environments, EnvFile, Word, OwnWord
  <2> DEFINE b == "alpaca"
             u == [g.environment EXCEPT ![b] = e]
  <2>2. b \in Broker
    BY <2>1
  <2> HIDE DEF b
  <2>3. u \in [Broker -> Word]
    BY <2>1, <2>2
  <2>4. h = [g EXCEPT !.environment = u]
    BY DEF b
  <2> HIDE DEF u, h
  <2> QED BY <1>1, <2>3, <2>4 DEF EnvFile
<1>4. /\ DOMAIN h = {"llm", "openaiKey", "azure", "azureAccess", "broker", "environment",
                     "own", "live", "token", "chat", "provider", "enabled", "access",
                     "database"}
  BY <1>3 DEF EnvFile
<1> HIDE DEF h
<1>5. /\ d \in EnvFile
      /\ \A x \in DOMAIN h \ {"own"} : d[x] = h[x]
      /\ d.own["trading212"] = h.own["trading212"]
      /\ \A c \in Broker, u \in Environments, k \in Part :
            ResolveCredential(d, c, u, k) # ResolveCredential(h, c, u, k)
              => <<c, u, k>> \in EnteredFor(h, "alpaca", ks)
  BY <1>3, PromptedOnly DEF Broker
<1> HIDE DEF d
<1>6. /\ d.llm = f.llm /\ d.azure = f.azure /\ d.openaiKey = f.openaiKey
      /\ d.azureAccess = f.azureAccess /\ d.token = f.token /\ d.chat = f.chat
      /\ d.live = f.live /\ d.database = f.database
      /\ d.broker = f.broker /\ d.access = f.access /\ d.provider = g.provider
      /\ d.enabled = g.enabled
  BY <1>1, <1>3, <1>4, <1>5
<1>7. /\ \A s \in Sources \ {"market_data"} : ResolveSource(f, s) = ResolveSource(g, s)
      /\ \A s \in Sources \ {"market_data"} : ResolveSource(f, s) = ResolveSource(d, s)
  BY <1>1, <1>2, <1>6, SourceFollows
<1>8. /\ \A b \in Broker, u \in Environments, k \in Part :
            ResolveCredential(f, b, u, k) = ResolveCredential(g, b, u, k)
      /\ \A b \in Broker, u \in Environments, k \in Part :
            ResolveCredential(f, b, u, k) = ResolveCredential(h, b, u, k)
  BY <1>1, <1>3, CredentialFollows
<1>9. \A x \in Fields \ {"source"} : ReadAlike(f, g, x)
  BY <1>1, SettingsFollow DEF Fields
<1>10. \A x \in Fields \ {"source", "environment", "credential"} :
          ReadAlike(f, d, x)
  BY <1>1, <1>3, <1>5, <1>6, SettingsFollow DEF Fields
<1>11. About("market_data") = {"source", "environment", "credential"}
  BY DEF About
<1>12. Differ(f, g, About("market_data"), {"market_data"}, {})
  BY <1>7, <1>8, <1>9, <1>11 DEF Differ
<1>13. Differ(f, d, About("market_data"), {"market_data"}, EnteredFor(h, "alpaca", ks))
  BY <1>5, <1>7, <1>8, <1>10, <1>11 DEF Differ
<1>14. g \in WellFormed /\ d \in WellFormed
  BY <1>1, <1>5, <1>6 DEF WellFormed
<1> QED BY <1>12, <1>13, <1>14 DEF g, h, d

LEMMA WordsAreWords ==
  /\ {absent, "", "true", "false", "none", "new", "default", "openai", "azure_openai"}
        \cup Broker \cup Environments \subseteq Word
  /\ \A s \in Sources : Provider[s] \in Word /\ ~ Blank(Provider[s])
  /\ ~ Blank("none") /\ ~ Blank("openai") /\ ~ Blank("azure_openai")
  /\ ~ Blank("trading212")
<1>1. \A s \in Sources : ~ Blank(Provider[s])
  <2>1. /\ Provider["market_data"] = "yahoo" /\ Provider["search"] = "searxng"
        /\ Provider["market_intelligence"] = "alpha_vantage"
        /\ Provider["symbol_reference"] = "eodhd" /\ Provider["community"] = "reddit"
        /\ Provider["disclosure"] = "sec_edgar"
    BY DEF Provider
  <2> QED BY <2>1 DEF Sources, Blank, absent
<1> QED BY <1>1 DEF Word, OwnWord, Blank, absent

\* What is resolved is a word, and is resolved to itself.
LEMMA ResolvedStays ==
  ASSUME NEW f \in EnvFile
  PROVE  /\ ResolveLlm(f) \in Word /\ ~ Blank(ResolveLlm(f))
         /\ ResolveBroker(f) \in Word /\ ~ Blank(ResolveBroker(f))
         /\ \A s \in Sources : ResolveSource(f, s) \in Word /\ ~ Blank(ResolveSource(f, s))
<1>1. f.llm \in Word /\ f.broker \in Word
  BY DEF EnvFile
<1>2. ResolveLlm(f) \in Word /\ ~ Blank(ResolveLlm(f))
  BY <1>1, WordsAreWords DEF ResolveLlm
<1>3. ResolveBroker(f) \in Word /\ ~ Blank(ResolveBroker(f))
  BY <1>1, WordsAreWords DEF ResolveBroker, Broker
<1>4. ASSUME NEW s \in Sources
      PROVE  ResolveSource(f, s) \in Word /\ ~ Blank(ResolveSource(f, s))
  <2>1. ResolveSource(f, s) \in {Provider[s], "none"}
        \/ (ResolveSource(f, s) = f.provider[s] /\ ~ Blank(f.provider[s]))
    BY DEF ResolveSource
  <2>2. f.provider[s] \in Word
    BY FilesAreFunctions
  <2> QED BY <2>1, <2>2, WordsAreWords
<1> QED BY <1>2, <1>3, <1>4

\* Made explicit, the values say what they said.
LEMMA ManagedAlike ==
  ASSUME env \in WellFormed
  PROVE  /\ ManagedValues \in WellFormed /\ Explicit(ManagedValues)
         /\ Differ(env, ManagedValues, {}, {}, {})
<1> DEFINE
      moved(b, e, k) == IF e = Environment(env, b)
                        THEN Given(env.own[b]["legacy"][k], "") ELSE ""
      environments == [b \in Broker |-> Given(env.environment[b], "practice")]
      credentials == [b \in Broker |->
                        [a \in Accounts |->
                           [k \in Part |->
                              IF a = "legacy" THEN env.own[b][a][k]
                              ELSE Given(env.own[b][a][k], moved(b, a, k))]]]
      providers == [s \in Sources |-> Selected(s)]
      switches == [s \in Sources |->
                     IF s \in {"disclosure", "community"} THEN absent
                     ELSE Flag(Selected(s) = Provider[s])]
      keys == [s \in Sources |->
                 IF s \in Keyless THEN absent ELSE Given(env.access[s], "")]
      M == ManagedValues
<1>1. env \in EnvFile /\ \A s \in Keyless : env.access[s] = absent
  BY DEF WellFormed
<1>2. M = [env EXCEPT
             !.llm = ResolveLlm(env), !.openaiKey = Given(env.openaiKey, ""),
             !.azure = Given(env.azure, Flag(ResolveLlm(env) = "azure_openai")),
             !.azureAccess = Given(env.azureAccess, ""),
             !.broker = ResolveBroker(env), !.environment = environments,
             !.own = credentials, !.live = Given(env.live, "false"),
             !.token = Given(env.token, ""), !.chat = Given(env.chat, ""),
             !.provider = providers, !.enabled = switches, !.access = keys,
             !.database = Given(env.database, "default")]
  BY DEF ManagedValues
<1>3. \A w \in Word : Given(w, "") \in Word /\ Given(w, "false") \in Word
                      /\ Given(w, "default") \in Word /\ Given(w, "practice") \in Word
  BY WordsAreWords DEF Given, Environments
<1>4. \A p \in BOOLEAN : Flag(p) \in Word
  BY WordsAreWords DEF Flag
<1>5. environments \in [Broker -> Word]
  BY <1>1, <1>3, FilesAreFunctions
<1>6. credentials \in [Broker -> [Accounts -> [Part -> Word]]]
  <2>1. \A b \in Broker, a \in Accounts, k \in Part : moved(b, a, k) \in Word
    BY <1>1, <1>3, FilesAreFunctions, WordsAreWords DEF Accounts
  <2> HIDE DEF moved
  <2> QED BY <1>1, <2>1, FilesAreFunctions DEF Given
<1>7. providers \in [Sources -> Word]
  BY <1>1, ResolvedStays DEF Selected
<1>8. switches \in [Sources -> Word]
  BY <1>4, WordsAreWords
<1>9. keys \in [Sources -> Word]
  BY <1>1, <1>3, FilesAreFunctions, WordsAreWords
<1>10. \A b \in Broker : environments[b] = Given(env.environment[b], "practice")
  OBVIOUS
<1>11. \A s \in Sources : providers[s] = ResolveSource(env, s)
  BY DEF Selected
<1>12. \A s \in Sources : keys[s] = IF s \in Keyless THEN absent
                                    ELSE Given(env.access[s], "")
  OBVIOUS
<1>13. \A b \in Broker, k \in Part :
          /\ credentials[b]["legacy"][k] = env.own[b]["legacy"][k]
          /\ \A e \in Environments :
                /\ env.own[b][e][k] # absent
                      => credentials[b][e][k] = env.own[b][e][k]
                /\ env.own[b][e][k] = absent
                      => credentials[b][e][k] \in {"", Given(env.own[b]["legacy"][k], "")}
  <2>1. "legacy" \in Accounts /\ Environments \subseteq Accounts
        /\ "legacy" \notin Environments
    BY DEF Accounts, Environments
  <2>2. \A b \in Broker, k \in Part :
           credentials[b]["legacy"][k] = env.own[b]["legacy"][k]
    BY <2>1
  <2>3. ASSUME NEW b \in Broker, NEW k \in Part, NEW e \in Environments
        PROVE  credentials[b][e][k] = Given(env.own[b][e][k], moved(b, e, k))
    <3> HIDE DEF moved
    <3> QED BY <2>1
  <2>4. ASSUME NEW b \in Broker, NEW k \in Part, NEW e \in Environments
        PROVE  moved(b, e, k) \in {"", Given(env.own[b]["legacy"][k], "")}
    OBVIOUS
  <2> HIDE DEF moved, credentials
  <2>5. ASSUME NEW b \in Broker, NEW k \in Part, NEW e \in Environments
        PROVE  /\ env.own[b][e][k] # absent
                     => credentials[b][e][k] = env.own[b][e][k]
               /\ env.own[b][e][k] = absent
                     => credentials[b][e][k] = moved(b, e, k)
    <3>1. credentials[b][e][k] = Given(env.own[b][e][k], moved(b, e, k))
      BY <2>3
    <3> QED BY <3>1 DEF Given
  <2> QED BY <2>2, <2>4, <2>5
<1> HIDE DEF environments, credentials, providers, switches, keys, M
<1>14. /\ M.llm = ResolveLlm(env) /\ M.openaiKey = Given(env.openaiKey, "")
       /\ M.azure = Given(env.azure, Flag(ResolveLlm(env) = "azure_openai"))
       /\ M.azureAccess = Given(env.azureAccess, "")
       /\ M.broker = ResolveBroker(env) /\ M.environment = environments
       /\ M.own = credentials /\ M.live = Given(env.live, "false")
       /\ M.token = Given(env.token, "") /\ M.chat = Given(env.chat, "")
       /\ M.provider = providers /\ M.enabled = switches /\ M.access = keys
       /\ M.database = Given(env.database, "default")
  BY <1>1, <1>2 DEF EnvFile
<1>15. M \in EnvFile
  <2>1. /\ env.llm \in Word /\ env.openaiKey \in Word /\ env.azure \in Word
        /\ env.azureAccess \in Word /\ env.live \in Word /\ env.token \in Word
        /\ env.chat \in Word /\ env.database \in Word
    BY <1>1 DEF EnvFile
  <2>2. /\ M.llm \in Word /\ M.openaiKey \in Word /\ M.azure \in Word
        /\ M.azureAccess \in Word /\ M.broker \in Word /\ M.live \in Word
        /\ M.token \in Word /\ M.chat \in Word /\ M.database \in Word
    <3>1. M.azure \in Word
      <4>1. Flag(ResolveLlm(env) = "azure_openai") \in Word
        BY WordsAreWords DEF Flag
      <4> QED BY <1>14, <2>1, <4>1 DEF Given
    <3> QED BY <1>1, <1>3, <1>14, <2>1, <3>1, ResolvedStays
  <2>3. /\ M.environment \in [Broker -> Word] /\ M.provider \in [Sources -> Word]
        /\ M.own \in [Broker -> [Accounts -> [Part -> Word]]]
        /\ M.enabled \in [Sources -> Word] /\ M.access \in [Sources -> Word]
    BY <1>5, <1>6, <1>7, <1>8, <1>9, <1>14
  <2>4. M = [env EXCEPT
               !.llm = M.llm, !.openaiKey = M.openaiKey, !.azure = M.azure,
               !.azureAccess = M.azureAccess, !.broker = M.broker,
               !.environment = M.environment, !.own = M.own, !.live = M.live,
               !.token = M.token, !.chat = M.chat, !.provider = M.provider,
               !.enabled = M.enabled, !.access = M.access, !.database = M.database]
    BY <1>2, <1>14
  <2> QED BY <1>1, <2>2, <2>3, <2>4 DEF EnvFile
<1>16. M \in WellFormed
  BY <1>12, <1>14, <1>15 DEF WellFormed, Keyless, Sources
<1>17. \A s \in Sources : ResolveSource(M, s) = ResolveSource(env, s)
  <2>1. \A s \in Sources : M.provider[s] = ResolveSource(env, s)
                           /\ ~ Blank(M.provider[s])
    BY <1>1, <1>11, <1>14, ResolvedStays
  <2>2. ASSUME NEW s \in Sources, ~ Blank(M.provider[s])
        PROVE  ResolveSource(M, s) = M.provider[s]
    BY <2>2 DEF ResolveSource
  <2> QED BY <2>1, <2>2
<1>18. \A b \in Broker, e \in Environments, k \in Part :
          ResolveCredential(M, b, e, k) = ResolveCredential(env, b, e, k)
  <2> SUFFICES ASSUME NEW b \in Broker, NEW e \in Environments, NEW k \in Part
               PROVE  ResolveCredential(M, b, e, k) = ResolveCredential(env, b, e, k)
    OBVIOUS
  <2> DEFINE w == env.own[b][e][k]
             old == env.own[b]["legacy"][k]
  <2>1. /\ M.own[b]["legacy"][k] = old
        /\ w # absent => M.own[b][e][k] = w
        /\ w = absent => M.own[b][e][k] \in {"", Given(old, "")}
    BY <1>13, <1>14
  <2>2. /\ ResolveCredential(M, b, e, k)
               = FirstNonEmpty(M.own[b][e][k], M.own[b]["legacy"][k])
        /\ ResolveCredential(env, b, e, k) = FirstNonEmpty(w, old)
    BY DEF ResolveCredential
  <2> HIDE DEF w, old
  <2>3. /\ FirstNonEmpty("", old) = FirstNonEmpty(absent, old)
        /\ FirstNonEmpty(Given(old, ""), old) = FirstNonEmpty(absent, old)
    BY DEF FirstNonEmpty, Blank, Given, absent
  <2> QED BY <2>1, <2>2, <2>3
<1>19. \A b \in Broker : Environment(M, b) = Environment(env, b)
  BY <1>10, <1>14 DEF Environment, Given, absent
<1>20. ResolveLlm(M) = ResolveLlm(env) /\ ResolveBroker(M) = ResolveBroker(env)
  <2>1. ~ Blank(M.llm) /\ ~ Blank(M.broker)
    BY <1>1, <1>14, ResolvedStays
  <2>2. ResolveLlm(M) = M.llm
    BY <2>1 DEF ResolveLlm
  <2>3. ResolveBroker(M) = M.broker
    BY <2>1 DEF ResolveBroker
  <2> QED BY <1>14, <2>2, <2>3
<1>21. \A x \in Fields : ResolvedSettings(M)[x] = ResolvedSettings(env)[x]
  <2>1. \A w : FirstNonEmpty(Given(w, ""), "") = FirstNonEmpty(w, "")
               /\ (~ Blank(Given(w, ""))) = (~ Blank(w))
    <3> SUFFICES ASSUME NEW w
                 PROVE  /\ FirstNonEmpty(Given(w, ""), "") = FirstNonEmpty(w, "")
                        /\ (~ Blank(Given(w, ""))) = (~ Blank(w))
      OBVIOUS
    <3>1. Blank("") /\ Blank(absent)
      BY DEF Blank
    <3>2. CASE w = absent
      BY <3>1, <3>2 DEF FirstNonEmpty, Given
    <3>3. CASE w # absent
      BY <3>3 DEF Given
    <3> QED BY <3>2, <3>3
  <2>2. ResolvedSettings(M)["llm"] = ResolvedSettings(env)["llm"]
    BY <1>20 DEF ResolvedSettings
  <2>3. ResolvedSettings(M)["azure"] = ResolvedSettings(env)["azure"]
    <3>1. On(M.azure) => On(env.azure) \/ ResolveLlm(env) = "azure_openai"
      BY <1>14 DEF Given, Flag, On
    <3>2. On(env.azure) => On(M.azure)
      BY <1>14 DEF Given, absent, On
    <3>3. (ResolveLlm(M) = "azure_openai" \/ On(M.azure))
          = (ResolveLlm(env) = "azure_openai" \/ On(env.azure))
      BY <1>20, <3>1, <3>2
    <3> QED BY <3>3 DEF ResolvedSettings
  <2>4. ResolvedSettings(M)["openaiKey"] = ResolvedSettings(env)["openaiKey"]
    BY <1>14, <2>1 DEF ResolvedSettings
  <2>5. ResolvedSettings(M)["azureAccess"] = ResolvedSettings(env)["azureAccess"]
    BY <1>14, <2>1 DEF ResolvedSettings
  <2>6. ResolvedSettings(M)["broker"] = ResolvedSettings(env)["broker"]
    BY <1>20 DEF ResolvedSettings
  <2>7. ResolvedSettings(M)["environment"] = ResolvedSettings(env)["environment"]
    BY <1>19 DEF ResolvedSettings
  <2>8. ResolvedSettings(M)["credential"] = ResolvedSettings(env)["credential"]
    <3>1. \A b \in Broker : Environment(env, b) \in Environments
      BY DEF Environment, Environments
    <3> QED BY <1>18, <1>19, <3>1 DEF ResolvedSettings
  <2>9. ResolvedSettings(M)["live"] = ResolvedSettings(env)["live"]
    <3>1. CASE env.live = absent
      <4>1. M.live = "false"
        BY <1>14, <3>1 DEF Given
      <4>2. On(M.live) = FALSE /\ On(env.live) = FALSE
        BY <3>1, <4>1 DEF absent, On
      <4> QED BY <4>2 DEF ResolvedSettings
    <3>2. CASE env.live # absent
      <4>1. M.live = env.live
        BY <1>14, <3>2 DEF Given
      <4> QED BY <4>1 DEF ResolvedSettings
    <3> QED BY <3>1, <3>2
  <2>10. ResolvedSettings(M)["token"] = ResolvedSettings(env)["token"]
    BY <1>14, <2>1 DEF ResolvedSettings
  <2>11. ResolvedSettings(M)["chat"] = ResolvedSettings(env)["chat"]
    BY <1>14, <2>1 DEF ResolvedSettings
  <2>12. ResolvedSettings(M)["source"] = ResolvedSettings(env)["source"]
    BY <1>17 DEF ResolvedSettings
  <2>13. ResolvedSettings(M)["access"] = ResolvedSettings(env)["access"]
    <3>1. \A s \in Sources : FirstNonEmpty(M.access[s], "")
                             = FirstNonEmpty(env.access[s], "")
      BY <1>1, <1>12, <1>14, <2>1
    <3> QED BY <3>1 DEF ResolvedSettings
  <2>14. ResolvedSettings(M)["database"] = ResolvedSettings(env)["database"]
    <3>1. (M.database # "") = (env.database # "")
      BY <1>14 DEF Given, absent
    <3> QED BY <3>1 DEF ResolvedSettings
  <2> QED BY <2>2, <2>3, <2>4, <2>5, <2>6, <2>7, <2>8, <2>9, <2>10, <2>11, <2>12, <2>13,
             <2>14 DEF Fields
<1>22. ASSUME NEW x \in Fields PROVE Odd(M, x) => Odd(env, x)
  <2>1. \A w : (w \in Fragile => w \notin OwnWord)
    BY WizardAssumption
  <2>2. "" \notin Fragile /\ "true" \notin Fragile /\ "false" \notin Fragile
        /\ "practice" \notin Fragile /\ "default" \notin Fragile
    BY <2>1 DEF OwnWord, Environments
  <2>3. \A w : /\ Given(w, "") \in Fragile => w \in Fragile
               /\ Given(w, "false") \in Fragile => w \in Fragile
               /\ Given(w, "practice") \in Fragile => w \in Fragile
               /\ Given(w, "default") \in Fragile => w \in Fragile
               /\ FirstNonEmpty(Given(w, ""), "") = FirstNonEmpty(w, "")
    BY <2>2 DEF Given, FirstNonEmpty, Blank, absent
  <2>4. M.azure \in Fragile => env.azure \in Fragile
    BY <1>14, <2>2 DEF Given, Flag
  <2>5. /\ M.live \in Fragile => env.live \in Fragile
        /\ M.token \in Fragile => env.token \in Fragile
        /\ M.chat \in Fragile => env.chat \in Fragile
        /\ M.database \in Fragile => env.database \in Fragile
    BY <1>14, <2>3
  <2>6. \A b \in Broker : M.environment[b] \in Fragile => env.environment[b] \in Fragile
    BY <1>10, <1>14, <2>3
  <2>7. \A y \in Sources : FirstNonEmpty(M.access[y], "") = FirstNonEmpty(env.access[y], "")
    BY <1>1, <1>12, <1>14, <2>3
  <2>8. /\ FirstNonEmpty(M.openaiKey, "") = FirstNonEmpty(env.openaiKey, "")
        /\ FirstNonEmpty(M.azureAccess, "") = FirstNonEmpty(env.azureAccess, "")
    BY <1>14, <2>3
  <2>9. CASE x \in {"llm", "azure", "openaiKey", "azureAccess", "broker"}
    BY <1>20, <2>4, <2>8, <2>9, OddIs
  <2>10. CASE x \in {"environment", "credential"}
    <3>1. Odd(M, "environment") => Odd(env, "environment")
      BY <2>6, OddIs
    <3>2. \A b \in Broker, e \in Environments, k \in Part :
             ResolveCredential(M, b, e, k) = ResolveCredential(env, b, e, k)
      BY <1>18
    <3>3. ASSUME Odd(M, "credential") PROVE Odd(env, "credential")
      <4>1. PICK b \in Broker :
               \/ M.environment[b] \in Fragile
               \/ \E e \in Environments, k \in Part :
                     ResolveCredential(M, b, e, k) \in Fragile
        BY <3>3, OddIs
      <4>2. \/ env.environment[b] \in Fragile
            \/ \E e \in Environments, k \in Part :
                  ResolveCredential(env, b, e, k) \in Fragile
        BY <2>6, <3>2, <4>1
      <4> QED BY <4>2, OddIs
    <3> QED BY <2>10, <3>1, <3>3
  <2>11. CASE x \in {"source", "access"}
    BY <1>17, <2>7, <2>11, OddIs
  <2>12. CASE x \in {"live", "token", "chat", "database"}
    BY <2>5, <2>12, OddIs
  <2> QED BY <2>9, <2>10, <2>11, <2>12 DEF Fields
<1>23. Differ(env, M, {}, {}, {})
  BY <1>17, <1>18, <1>21, <1>22 DEF Differ, ReadAlike
<1>24. Explicit(M)
  BY <1>1, <1>11, <1>14, ResolvedStays DEF Explicit
<1> QED BY <1>16, <1>23, <1>24 DEF M

\* What is written is no empty key, and what is not odd is written as it is.
LEMMA SavedStays ==
  ASSUME NEW w
  PROVE  /\ w \in Word => Saved(w) \in Word
         /\ w \notin Fragile => Saved(w) = w
         /\ Blank(w) => Saved(w) = w
         /\ w # absent => Saved(w) # absent
<1>1. \A v \in Fragile : Reread[v] \in Word \ {absent}
  BY WizardAssumption
<1>2. \A v \in OwnWord : v \notin Fragile
  BY WizardAssumption
<1>3. "" \in OwnWord /\ absent \in OwnWord
  BY DEF OwnWord
<1>4. Blank(w) => w \notin Fragile
  BY <1>2, <1>3 DEF Blank
<1> QED BY <1>1, <1>4 DEF Saved

LEMMA SavedAllStays ==
  ASSUME NEW S, NEW f \in [S -> Word]
  PROVE  /\ SavedAll(f) \in [S -> Word]
         /\ \A x \in S : SavedAll(f)[x] = Saved(f[x])
<1>1. \A x \in S : Saved(f[x]) \in Word
  BY SavedStays
<1>2. DOMAIN f = S
  OBVIOUS
<1> QED BY <1>1, <1>2 DEF SavedAll

\* What is written instead of the draft says what the draft says, where it rests on
\* nothing odd.
LEMMA WrittenAlike ==
  ASSUME env \in WellFormed, draft \in WellFormed, Explicit(draft)
  PROVE  /\ Written \in WellFormed
         /\ \A x \in Fields :
               ResolvedSettings(draft)[x] # ResolvedSettings(Written)[x] => Odd(draft, x)
         /\ \A s \in Sources :
               ResolveSource(draft, s) # ResolveSource(Written, s)
                  => ResolveSource(draft, s) \in Fragile
         /\ \A b \in Broker, e \in Environments, k \in Part :
               ResolveCredential(draft, b, e, k) # ResolveCredential(Written, b, e, k)
                  => ResolveCredential(draft, b, e, k) \in Fragile
<1> DEFINE kept(b, a, k) == IF a = "legacy" THEN draft.own[b][a][k]
                            ELSE IF Dropped(b, a, k) THEN env.own[b][a][k]
                            ELSE Saved(draft.own[b][a][k])
           credentials == [b \in Broker |->
                             [a \in Accounts |-> [k \in Part |-> kept(b, a, k)]]]
           W == Written
<1>1. env \in EnvFile /\ draft \in EnvFile /\ \A s \in Keyless : draft.access[s] = absent
  BY DEF WellFormed
<1>2. /\ W.own = credentials
      /\ W.llm = Saved(draft.llm) /\ W.openaiKey = Saved(draft.openaiKey)
      /\ W.azure = Saved(draft.azure) /\ W.azureAccess = Saved(draft.azureAccess)
      /\ W.broker = Saved(draft.broker) /\ W.environment = SavedAll(draft.environment)
      /\ W.live = Saved(draft.live) /\ W.token = Saved(draft.token)
      /\ W.chat = Saved(draft.chat) /\ W.provider = SavedAll(draft.provider)
      /\ W.enabled = SavedAll(draft.enabled) /\ W.access = SavedAll(draft.access)
      /\ W.database = Saved(draft.database)
  BY DEF Written
<1>3. \A b \in Broker, a \in Accounts, k \in Part :
         /\ kept(b, a, k) \in Word
         /\ a = "legacy" => kept(b, a, k) = draft.own[b][a][k]
         /\ kept(b, a, k) # draft.own[b][a][k] =>
               \/ Blank(kept(b, a, k)) /\ Blank(draft.own[b][a][k])
               \/ draft.own[b][a][k] \in Fragile
  BY <1>1, FilesAreFunctions, SavedStays DEF Dropped
<1> HIDE DEF kept
<1>4. credentials \in [Broker -> [Accounts -> [Part -> Word]]]
  BY <1>3
<1>5. \A b \in Broker, a \in Accounts, k \in Part : credentials[b][a][k] = kept(b, a, k)
  OBVIOUS
<1> HIDE DEF credentials
<1>6. /\ draft.llm \in Word /\ draft.openaiKey \in Word /\ draft.azure \in Word
      /\ draft.azureAccess \in Word /\ draft.broker \in Word /\ draft.live \in Word
      /\ draft.token \in Word /\ draft.chat \in Word /\ draft.database \in Word
      /\ draft.environment \in [Broker -> Word] /\ draft.provider \in [Sources -> Word]
      /\ draft.enabled \in [Sources -> Word] /\ draft.access \in [Sources -> Word]
  BY <1>1 DEF EnvFile
<1>7. /\ W.environment \in [Broker -> Word] /\ W.provider \in [Sources -> Word]
      /\ W.enabled \in [Sources -> Word] /\ W.access \in [Sources -> Word]
      /\ \A b \in Broker : W.environment[b] = Saved(draft.environment[b])
      /\ \A s \in Sources : W.provider[s] = Saved(draft.provider[s])
                             /\ W.access[s] = Saved(draft.access[s])
  BY <1>2, <1>6, SavedAllStays
<1>8. W \in EnvFile
  <2>1. W = [llm |-> W.llm, openaiKey |-> W.openaiKey, azure |-> W.azure,
             azureAccess |-> W.azureAccess, broker |-> W.broker,
             environment |-> W.environment, own |-> W.own, live |-> W.live,
             token |-> W.token, chat |-> W.chat, provider |-> W.provider,
             enabled |-> W.enabled, access |-> W.access, database |-> W.database]
    BY DEF Written
  <2>2. /\ W.llm \in Word /\ W.openaiKey \in Word /\ W.azure \in Word
        /\ W.azureAccess \in Word /\ W.broker \in Word /\ W.live \in Word
        /\ W.token \in Word /\ W.chat \in Word /\ W.database \in Word
    BY <1>2, <1>6, SavedStays
  <2>3. W.own \in [Broker -> [Accounts -> [Part -> Word]]]
    BY <1>2, <1>4
  <2> HIDE DEF W
  <2> QED BY <1>7, <2>1, <2>2, <2>3 DEF EnvFile
<1> HIDE DEF W
<1>9. W \in WellFormed
  <2>1. \A s \in Keyless : s \in Sources /\ Blank(draft.access[s])
    BY <1>1 DEF Keyless, Sources, Blank
  <2> QED BY <1>1, <1>7, <1>8, <2>1, SavedStays DEF WellFormed
<1>10. ASSUME NEW s \in Sources, ResolveSource(draft, s) \notin Fragile
       PROVE  ResolveSource(draft, s) = ResolveSource(W, s)
  <2>1. ~ Blank(draft.provider[s])
    BY DEF Explicit
  <2>2. ResolveSource(draft, s) = draft.provider[s]
    BY <2>1 DEF ResolveSource
  <2>3. W.provider[s] = draft.provider[s]
    BY <1>7, <1>10, <2>2, SavedStays
  <2> QED BY <2>1, <2>2, <2>3 DEF ResolveSource
<1>11. "legacy" \in Accounts /\ Environments \subseteq Accounts
  BY DEF Accounts
<1>12. ASSUME NEW b \in Broker, NEW e \in Environments, NEW k \in Part,
              ResolveCredential(draft, b, e, k) \notin Fragile
       PROVE  ResolveCredential(draft, b, e, k) = ResolveCredential(W, b, e, k)
  <2> DEFINE v == draft.own[b][e][k]
             w == W.own[b][e][k]
             old == draft.own[b]["legacy"][k]
  <2>1. W.own[b]["legacy"][k] = old
    BY <1>2, <1>3, <1>5, <1>11
  <2>2. w = v \/ (Blank(w) /\ Blank(v)) \/ v \in Fragile
    BY <1>2, <1>3, <1>5, <1>11
  <2>3. /\ ResolveCredential(draft, b, e, k) = FirstNonEmpty(v, old)
        /\ ResolveCredential(W, b, e, k) = FirstNonEmpty(w, W.own[b]["legacy"][k])
    BY DEF ResolveCredential
  <2>4. v \in Fragile => ~ Blank(v)
    <3>1. {"", absent} \subseteq OwnWord
      BY DEF OwnWord
    <3> QED BY <3>1, WizardAssumption DEF Blank
  <2> HIDE DEF v, w, old
  <2>5. v \notin Fragile
    BY <1>12, <2>3, <2>4 DEF FirstNonEmpty
  <2>6. FirstNonEmpty(v, old) = FirstNonEmpty(w, old)
    BY <2>2, <2>5 DEF FirstNonEmpty
  <2> QED BY <2>1, <2>3, <2>6
<1>13. ASSUME NEW x \in Fields, ~ Odd(draft, x)
       PROVE  ResolvedSettings(draft)[x] = ResolvedSettings(W)[x]
  <2>1. \A w : w \in Fragile => FirstNonEmpty(w, "") = w
    <3>1. {"", absent} \subseteq OwnWord
      BY DEF OwnWord
    <3> QED BY <3>1, WizardAssumption DEF Blank, FirstNonEmpty
  <2>2. ~ Blank(draft.llm) /\ ~ Blank(draft.broker)
    BY DEF Explicit
  <2>3. ResolveLlm(draft) = draft.llm /\ ResolveBroker(draft) = draft.broker
    BY <2>2 DEF ResolveLlm, ResolveBroker
  <2>4. draft.llm \notin Fragile => W.llm = draft.llm /\ ResolveLlm(W) = draft.llm
    <3>1. draft.llm \notin Fragile => W.llm = draft.llm
      BY <1>2, SavedStays
    <3> QED BY <2>2, <3>1 DEF ResolveLlm
  <2>5. CASE x = "llm"
    <3>1. ResolveLlm(W) = ResolveLlm(draft)
      BY <1>13, <2>3, <2>4, <2>5, OddIs
    <3> QED BY <2>5, <3>1 DEF ResolvedSettings
  <2>6. CASE x = "azure"
    <3>1. ResolveLlm(W) = ResolveLlm(draft) /\ W.azure = draft.azure
      BY <1>2, <1>13, <2>3, <2>4, <2>6, OddIs, SavedStays
    <3> QED BY <2>6, <3>1 DEF ResolvedSettings
  <2>7. CASE x = "openaiKey"
    <3>1. W.openaiKey = draft.openaiKey
      BY <1>2, <1>13, <2>1, <2>7, OddIs, SavedStays
    <3> QED BY <2>7, <3>1 DEF ResolvedSettings
  <2>8. CASE x = "azureAccess"
    <3>1. W.azureAccess = draft.azureAccess
      BY <1>2, <1>13, <2>1, <2>8, OddIs, SavedStays
    <3> QED BY <2>8, <3>1 DEF ResolvedSettings
  <2>9. CASE x = "broker"
    <3>1. W.broker = draft.broker
      BY <1>2, <1>13, <2>3, <2>9, OddIs, SavedStays
    <3>2. ResolveBroker(W) = ResolveBroker(draft)
      BY <2>2, <2>3, <3>1 DEF ResolveBroker
    <3> QED BY <2>9, <3>2 DEF ResolvedSettings
  <2>10. ASSUME \A b \in Broker : draft.environment[b] \notin Fragile
         PROVE  \A b \in Broker : /\ Environment(W, b) = Environment(draft, b)
                                  /\ Environment(draft, b) \in Environments
    <3>1. \A b \in Broker : W.environment[b] = draft.environment[b]
      BY <1>7, <2>10, SavedStays
    <3> QED BY <3>1 DEF Environment, Environments
  <2>11. CASE x = "environment"
    <3>1. \A b \in Broker : Environment(W, b) = Environment(draft, b)
      BY <1>13, <2>10, <2>11, OddIs
    <3> QED BY <2>11, <3>1 DEF ResolvedSettings
  <2>12. CASE x = "credential"
    <3>1. \A b \in Broker : /\ Environment(W, b) = Environment(draft, b)
                            /\ Environment(draft, b) \in Environments
      BY <1>13, <2>10, <2>12, OddIs
    <3>2. \A b \in Broker, e \in Environments, k \in Part :
             ResolveCredential(draft, b, e, k) \notin Fragile
      BY <1>13, <2>12, OddIs
    <3>3. \A b \in Broker, e \in Environments, k \in Part :
             ResolveCredential(draft, b, e, k) = ResolveCredential(W, b, e, k)
      BY <1>12, <3>2
    <3> QED BY <2>12, <3>1, <3>3 DEF ResolvedSettings
  <2>13. CASE x = "source"
    <3>1. \A s \in Sources : ResolveSource(draft, s) \notin Fragile
      BY <1>13, <2>13, OddIs
    <3>2. \A s \in Sources : ResolveSource(draft, s) = ResolveSource(W, s)
      BY <1>10, <3>1
    <3> QED BY <2>13, <3>2 DEF ResolvedSettings
  <2>14. CASE x = "access"
    <3>1. \A s \in Sources : draft.access[s] \notin Fragile
      BY <1>13, <2>1, <2>14, OddIs
    <3>2. \A s \in Sources : W.access[s] = draft.access[s]
      BY <1>7, <3>1, SavedStays
    <3>3. \A s \in Sources :
             FirstNonEmpty(W.access[s], "") = FirstNonEmpty(draft.access[s], "")
      BY <3>2
    <3>4. ResolvedSettings(draft)["access"] = ResolvedSettings(W)["access"]
      BY <3>3 DEF ResolvedSettings
    <3> QED BY <2>14, <3>4
  <2>15. CASE x \in {"live", "token", "chat", "database"}
    <3>1. /\ x = "live" => W.live = draft.live
          /\ x = "token" => W.token = draft.token
          /\ x = "chat" => W.chat = draft.chat
          /\ x = "database" => W.database = draft.database
      BY <1>2, <1>13, OddIs, SavedStays
    <3> QED BY <2>15, <3>1, SettingsFollow DEF ReadAlike
  <2> QED BY <2>5, <2>6, <2>7, <2>8, <2>9, <2>11, <2>12, <2>13, <2>14, <2>15 DEF Fields
<1> QED BY <1>9, <1>10, <1>12, <1>13 DEF W

\* An update adds what it is about to what the draft may differ in.
LEMMA UpdateAdds ==
  ASSUME WizardInv, section # "", NEW d \in WellFormed, NEW ks, Updated(d, ks),
         Explicit(d), Differ(draft, d, About(section), {section}, ks)
  PROVE  WizardInv'
<1>1. /\ draft' = d /\ asked' = asked \cup {section} /\ typed' = typed \cup ks
      /\ UNCHANGED env
  BY DEF Updated
<1>2. Differ(env, d, AboutAll(asked) \cup About(section), asked \cup {section},
             typed \cup ks)
  BY DifferencesAdd DEF WizardInv
<1>3. ASSUME NEW x \in Fields, x \in AboutAll(asked) \cup About(section)
      PROVE  x \in AboutAll(asked \cup {section})
  BY <1>3 DEF AboutAll
<1>4. env \in WellFormed
  BY DEF WizardInv
<1>5. Differ(env, d, AboutAll(asked'), asked', typed')
  BY <1>1, <1>2, <1>3 DEF Differ
<1>6. Differ(env, draft, AboutAll(asked), asked, typed)' /\ Explicit(draft)'
  BY <1>1, <1>5 DEF Differ, AboutAll, Explicit
<1> QED BY <1>1, <1>4, <1>6 DEF WizardInv, WellFormed

LEMMA ChoicesStayAsked ==
  ASSUME WizardInv, AskLlm \/ AskTelegram \/ AskStorage
  PROVE  WizardInv'
<1>1. /\ draft \in WellFormed /\ draft \in EnvFile
      /\ draft.openaiKey \in Word /\ draft.azureAccess \in Word /\ draft.token \in Word
      /\ draft.chat \in Word /\ draft.database \in Word
  BY DEF WizardInv, WellFormed, EnvFile
<1>2. "new" \in Word /\ "openai" \in Word /\ "azure_openai" \in Word /\ "none" \in Word
      /\ "true" \in Word /\ "false" \in Word
  BY WordsAreWords
<1>3. \A w \in Word : Entered(w) \subseteq Word
  BY <1>2 DEF Entered
<1>4. CASE AskLlm
  <2>1. PICK d :
          /\ \E key \in Word :
                \/ d = [draft EXCEPT !.llm = "openai", !.azure = "false", !.openaiKey = key]
                \/ d = [draft EXCEPT !.llm = "azure_openai", !.azure = "true",
                                     !.azureAccess = key]
                \/ d = [draft EXCEPT !.llm = "none", !.azure = "false"]
          /\ Updated(d, {})
    BY <1>1, <1>2, <1>3, <1>4 DEF AskLlm
  <2>2. d \in EnvFile
    <3>1. PICK key \in Word, u \in Word, v \in Word :
             \/ d = [draft EXCEPT !.llm = u, !.azure = v, !.openaiKey = key]
             \/ d = [draft EXCEPT !.llm = u, !.azure = v, !.azureAccess = key]
             \/ d = [draft EXCEPT !.llm = u, !.azure = v]
      BY <1>2, <2>1
    <3>2. CASE d = [draft EXCEPT !.llm = u, !.azure = v, !.openaiKey = key]
      BY <1>1, <3>2 DEF EnvFile
    <3>3. CASE d = [draft EXCEPT !.llm = u, !.azure = v, !.azureAccess = key]
      BY <1>1, <3>3 DEF EnvFile
    <3>4. CASE d = [draft EXCEPT !.llm = u, !.azure = v]
      BY <1>1, <3>4 DEF EnvFile
    <3> QED BY <3>1, <3>2, <3>3, <3>4
  <2>3. section = "llm"
    BY <1>4 DEF AskLlm
  <2>4. d \in WellFormed /\ Differ(draft, d, About(section), {section}, {})
    BY <1>1, <2>1, <2>2, <2>3, LlmDiffers
  <2>5. Explicit(d)
    <3>1. /\ ~ Blank(d.llm) /\ d.broker = draft.broker /\ d.provider = draft.provider
      BY <1>1, <2>1, WordsAreWords DEF EnvFile
    <3> QED BY <2>3, <3>1 DEF WizardInv, Explicit
  <2> QED BY <2>1, <2>3, <2>4, <2>5, UpdateAdds
<1>5. CASE AskTelegram
  <2>1. section = "telegram"
    BY <1>5 DEF AskTelegram
  <2>2. PICK t \in Word, c \in Word : Updated([draft EXCEPT !.token = t, !.chat = c], {})
    <3>1. draft = [draft EXCEPT !.token = draft.token, !.chat = draft.chat]
      BY <1>1 DEF EnvFile
    <3> QED BY <1>1, <1>3, <1>5, <3>1 DEF AskTelegram
  <2> DEFINE d == [draft EXCEPT !.token = t, !.chat = c]
  <2>3. d \in WellFormed /\ Differ(draft, d, About(section), {section}, {})
    BY <1>1, <2>1, TelegramDiffers
  <2>e. Explicit(d)
    <3>1. /\ d.llm = draft.llm /\ d.broker = draft.broker /\ d.provider = draft.provider
      BY <1>1 DEF EnvFile
    <3> QED BY <2>1, <3>1 DEF WizardInv, Explicit
  <2> HIDE DEF d
  <2>4. Updated(d, {})
    BY <2>2 DEF d
  <2> QED BY <2>1, <2>3, <2>4, <2>e, UpdateAdds
<1>6. CASE AskStorage
  <2>1. section = "storage"
    BY <1>6 DEF AskStorage
  <2>2. PICK url \in Word : Updated([draft EXCEPT !.database = url], {})
    BY <1>1, <1>3, <1>6 DEF AskStorage
  <2> DEFINE d == [draft EXCEPT !.database = url]
  <2>3. d \in WellFormed /\ Differ(draft, d, About(section), {section}, {})
    BY <1>1, <2>1, StorageDiffers
  <2>e. Explicit(d)
    <3>1. /\ d.llm = draft.llm /\ d.broker = draft.broker /\ d.provider = draft.provider
      BY <1>1 DEF EnvFile
    <3> QED BY <2>1, <3>1 DEF WizardInv, Explicit
  <2> HIDE DEF d
  <2>4. Updated(d, {})
    BY <2>2 DEF d
  <2> QED BY <2>1, <2>3, <2>4, <2>e, UpdateAdds
<1> QED BY <1>4, <1>5, <1>6

LEMMA BrokerStaysAsked ==
  ASSUME WizardInv, AskBroker
  PROVE  WizardInv'
<1>1. draft \in WellFormed /\ draft \in EnvFile /\ section = "broker"
  BY DEF WizardInv, WellFormed, AskBroker
<1>2. "none" \in Word /\ \A p \in BOOLEAN : Flag(p) \in Word
  BY WordsAreWords DEF Flag
<1>3. "trading212" \in Broker /\ "alpaca" \in Broker
      /\ Broker \subseteq Word /\ Environments \subseteq Word
  BY WordsAreWords DEF Broker
<1>4. CASE Updated([draft EXCEPT !.broker = "none"], {})
  <2> DEFINE d == [draft EXCEPT !.broker = "none"]
  <2>1. d \in WellFormed /\ Differ(draft, d, About(section), {section}, {})
    BY <1>1, <1>2, NoBrokerDiffers
  <2>e. Explicit(d)
    <3>1. /\ d.llm = draft.llm /\ d.broker = "none" /\ d.provider = draft.provider
      BY <1>1 DEF EnvFile
    <3> QED BY <1>1, <3>1, WordsAreWords DEF WizardInv, Explicit
  <2> HIDE DEF d
  <2>2. Updated(d, {})
    BY <1>4 DEF d
  <2> QED BY <1>1, <2>1, <2>2, <2>e, UpdateAdds
<1>5. ASSUME NEW b \in Broker, NEW e \in Environments, NEW ks \in SUBSET Part,
             NEW v \in Word, NEW g,
             \/ g = [draft EXCEPT !.broker = b, !.environment[b] = e, !.live = v]
             \/ g = [draft EXCEPT !.broker = b, !.environment[b] = e],
             Updated(Prompted(g, b, ks), EnteredFor(g, b, ks))
      PROVE  WizardInv'
  <2>1. b \in Word /\ e \in Word /\ draft.environment \in [Broker -> Word]
    BY <1>1, <1>3 DEF EnvFile
  <2> DEFINE environments == [draft.environment EXCEPT ![b] = e]
  <2>2. environments \in [Broker -> Word]
    BY <2>1
  <2>3. \/ g = [draft EXCEPT !.broker = b, !.environment = environments, !.live = v]
        \/ g = [draft EXCEPT !.broker = b, !.environment = environments]
    BY <1>5
  <2> HIDE DEF environments
  <2>4. g \in EnvFile
    <3>1. CASE g = [draft EXCEPT !.broker = b, !.environment = environments, !.live = v]
      BY <1>1, <2>1, <2>2, <3>1 DEF EnvFile
    <3>2. CASE g = [draft EXCEPT !.broker = b, !.environment = environments]
      BY <1>1, <2>1, <2>2, <3>2 DEF EnvFile
    <3> QED BY <2>3, <3>1, <3>2
  <2>5. /\ Prompted(g, b, ks) \in WellFormed
        /\ Differ(draft, Prompted(g, b, ks), About(section), {section},
                  EnteredFor(g, b, ks))
    BY <1>1, <1>5, <2>4, BrokerDiffers
  <2>6. Explicit(Prompted(g, b, ks))
    <3>1. /\ g.llm = draft.llm /\ g.broker = b /\ g.provider = draft.provider
          /\ {"llm", "broker", "provider"} \subseteq DOMAIN g \ {"own"}
      BY <1>1, <2>1, <2>2, <2>3 DEF EnvFile
    <3> DEFINE d == Prompted(g, b, ks)
    <3>2. \A x \in DOMAIN g \ {"own"} : d[x] = g[x]
      BY <2>4, PromptedOnly
    <3> HIDE DEF d
    <3>3. d.llm = draft.llm /\ d.broker = b /\ d.provider = draft.provider
      BY <3>1, <3>2
    <3>4. ~ Blank(b)
      BY DEF Broker, Blank, absent
    <3>5. Explicit(d)
      BY <1>1, <3>3, <3>4 DEF WizardInv, Explicit
    <3> QED BY <3>5 DEF d
  <2> QED BY <1>1, <1>5, <2>5, <2>6, UpdateAdds
<1>6. CASE \E e \in Environments, ks \in SUBSET Part, allow \in BOOLEAN :
              LET g == [draft EXCEPT !.broker = "trading212",
                                     !.environment["trading212"] = e,
                                     !.live = Flag(e = "live" /\ allow)]
              IN  Updated(Prompted(g, "trading212", ks), EnteredFor(g, "trading212", ks))
  <2>1. PICK e \in Environments, ks \in SUBSET Part, allow \in BOOLEAN :
              LET g == [draft EXCEPT !.broker = "trading212",
                                     !.environment["trading212"] = e,
                                     !.live = Flag(e = "live" /\ allow)]
              IN  Updated(Prompted(g, "trading212", ks), EnteredFor(g, "trading212", ks))
    BY <1>6
  <2>2. Flag(e = "live" /\ allow) \in Word
    BY WordsAreWords DEF Flag
  <2> QED BY <1>3, <1>5, <2>1, <2>2
<1>7. CASE \E e \in Environments, ks \in SUBSET Part :
              LET g == [draft EXCEPT !.broker = "alpaca", !.environment["alpaca"] = e]
              IN  Updated(Prompted(g, "alpaca", ks), EnteredFor(g, "alpaca", ks))
  BY <1>2, <1>3, <1>5, <1>7
<1> QED BY <1>4, <1>6, <1>7 DEF AskBroker

LEMMA SourcesStayAsked ==
  ASSUME WizardInv, AskMarketData \/ AskSource
  PROVE  WizardInv'
<1>1. draft \in WellFormed /\ draft \in EnvFile
  BY DEF WizardInv, WellFormed
<1>2. /\ \A s \in Sources : ValidProviders(s) \subseteq Word /\ Provider[s] \in Word
      /\ \A p \in BOOLEAN : Flag(p) \in Word
      /\ "none" \in Word /\ "new" \in Word /\ Environments \subseteq Word
  BY WordsAreWords DEF ValidProviders, Flag, Broker
<1>3. CASE AskMarketData
  <2>1. section = "market_data" /\ section \in Sources
    BY <1>3 DEF AskMarketData, Sources
  <2>2. PICK p \in ValidProviders(section), e \in Environments, ks \in SUBSET Part :
          LET chosen == [draft EXCEPT !.provider[section] = p,
                                      !.enabled[section] = Flag(p = "yahoo")]
              d == [chosen EXCEPT !.environment["alpaca"] = e]
          IN  \/ Updated(Prompted(d, "alpaca", ks), EnteredFor(d, "alpaca", ks))
              \/ Updated(chosen, {})
    BY <1>3 DEF AskMarketData
  <2> DEFINE v == Flag(p = "yahoo")
             chosen == [draft EXCEPT !.provider["market_data"] = p,
                                     !.enabled["market_data"] = v]
             d == [chosen EXCEPT !.environment["alpaca"] = e]
             prompted == Prompted(d, "alpaca", ks)
             entered == EnteredFor(d, "alpaca", ks)
  <2>3. p \in Word /\ v \in Word
    BY <1>2, <2>1
  <2>4. Updated(prompted, entered) \/ Updated(chosen, {})
    BY <2>1, <2>2
  <2> HIDE DEF v
  <2>5. /\ chosen \in WellFormed /\ prompted \in WellFormed
        /\ Differ(draft, chosen, About("market_data"), {"market_data"}, {})
        /\ Differ(draft, prompted, About("market_data"), {"market_data"}, entered)
    BY <1>1, <2>3, MarketDataDiffers
  <2>6. Explicit(chosen)
    <3>1. draft.provider \in [Sources -> Word]
      BY <1>1 DEF EnvFile
    <3>2. /\ chosen.llm = draft.llm /\ chosen.broker = draft.broker
          /\ chosen.provider = [draft.provider EXCEPT !["market_data"] = p]
      BY <1>1 DEF EnvFile
    <3>3. ~ Blank(p)
      BY <2>1, WordsAreWords DEF ValidProviders, Blank, absent
    <3>4. \A s \in Sources : chosen.provider[s] = draft.provider[s]
                             \/ chosen.provider[s] = p
      BY <3>1, <3>2
    <3> QED BY <2>1, <3>2, <3>3, <3>4 DEF WizardInv, Explicit
  <2>7. Explicit(prompted)
    <3>1. d.llm = chosen.llm /\ d.broker = chosen.broker /\ d.provider = chosen.provider
          /\ {"llm", "broker", "provider"} \subseteq DOMAIN d \ {"own"}
      BY <1>1 DEF EnvFile
    <3>2. "alpaca" \in Broker /\ d \in EnvFile
      <4>1. "alpaca" \in Broker /\ e \in Word /\ chosen \in EnvFile
        BY <1>2, <2>5 DEF Broker, WellFormed
      <4> DEFINE u == [chosen.environment EXCEPT !["alpaca"] = e]
      <4>2. chosen.environment \in [Broker -> Word]
        BY <4>1 DEF EnvFile
      <4> HIDE DEF chosen
      <4>3. u \in [Broker -> Word]
        BY <4>1, <4>2
      <4>4. d = [chosen EXCEPT !.environment = u]
        OBVIOUS
      <4> HIDE DEF u, d
      <4> QED BY <4>1, <4>3, <4>4 DEF EnvFile
    <3> HIDE DEF d, chosen
    <3>3. \A x \in DOMAIN d \ {"own"} : prompted[x] = d[x]
      BY <3>2, PromptedOnly
    <3> HIDE DEF prompted
    <3>4. /\ prompted.llm = chosen.llm /\ prompted.broker = chosen.broker
          /\ prompted.provider = chosen.provider
      BY <3>1, <3>3
    <3> QED BY <2>6, <3>4 DEF Explicit
  <2> HIDE DEF chosen, prompted, entered
  <2> QED BY <2>1, <2>4, <2>5, <2>6, <2>7, UpdateAdds
<1>4. CASE AskSource
  <2>1. /\ section \in {"market_intelligence", "symbol_reference", "disclosure"}
        /\ section \in Sources \ Keyless
        /\ About(section) = {"source", "access"}
    BY <1>4 DEF AskSource, Sources, Keyless, About
  <2>2. draft.access[section] \in Word /\ draft.enabled[section] \in Word
    BY <1>1, <2>1, FilesAreFunctions
  <2>3. PICK d :
          /\ \E p, v, key \in Word :
             /\ ~ Blank(p)
             /\ \/ d = [draft EXCEPT !.provider[section] = p, !.enabled[section] = v,
                                     !.access[section] = key]
                \/ d = [draft EXCEPT !.provider[section] = p, !.enabled[section] = v]
          /\ Updated(d, {})
    <3> DEFINE flag(b) == IF section = "disclosure" THEN draft.enabled[section]
                          ELSE Flag(b)
    <3>1. flag(TRUE) \in Word /\ flag(FALSE) \in Word
      BY <1>2, <2>2
    <3>2. Entered(draft.access[section]) \subseteq Word
      BY <1>2, <2>2 DEF Entered
    <3>3. \/ Updated([draft EXCEPT !.provider[section] = "none",
                                   !.enabled[section] = flag(FALSE)], {})
          \/ \E key \in Entered(draft.access[section]) :
                Updated([draft EXCEPT !.provider[section] = Provider[section],
                                      !.enabled[section] = flag(TRUE),
                                      !.access[section] = key], {})
      BY <1>4 DEF AskSource
    <3> HIDE DEF flag
    <3>4. ~ Blank("none") /\ ~ Blank(Provider[section])
      BY <2>1, WordsAreWords
    <3> QED BY <1>2, <2>1, <3>1, <3>2, <3>3, <3>4
  <2>4. PICK p \in Word, v \in Word, key \in Word :
          /\ ~ Blank(p)
          /\ \/ d = [draft EXCEPT !.provider[section] = p, !.enabled[section] = v,
                                  !.access[section] = key]
             \/ d = [draft EXCEPT !.provider[section] = p, !.enabled[section] = v]
    BY <2>3
  <2>5. d \in EnvFile
    <3>1. /\ draft.provider \in [Sources -> Word] /\ draft.enabled \in [Sources -> Word]
          /\ draft.access \in [Sources -> Word]
      BY <1>1 DEF EnvFile
    <3> DEFINE providers == [draft.provider EXCEPT ![section] = p]
               switches == [draft.enabled EXCEPT ![section] = v]
               keys == [draft.access EXCEPT ![section] = key]
    <3>2. /\ providers \in [Sources -> Word] /\ switches \in [Sources -> Word]
          /\ keys \in [Sources -> Word]
      BY <3>1
    <3>3. \/ d = [draft EXCEPT !.provider = providers, !.enabled = switches, !.access = keys]
          \/ d = [draft EXCEPT !.provider = providers, !.enabled = switches]
      BY <2>4
    <3> HIDE DEF providers, switches, keys
    <3>4. CASE d = [draft EXCEPT !.provider = providers, !.enabled = switches,
                                 !.access = keys]
      BY <1>1, <3>2, <3>4 DEF EnvFile
    <3>5. CASE d = [draft EXCEPT !.provider = providers, !.enabled = switches]
      BY <1>1, <3>2, <3>5 DEF EnvFile
    <3> QED BY <3>3, <3>4, <3>5
  <2>6. d \in WellFormed /\ Differ(draft, d, {"source", "access"}, {section}, {})
    BY <1>1, <2>1, <2>4, <2>5, SourceDiffers
  <2>7. section # ""
    BY <2>1
  <2>8. Explicit(d)
    <3>1. draft.provider \in [Sources -> Word]
      BY <1>1 DEF EnvFile
    <3>2. /\ d.llm = draft.llm /\ d.broker = draft.broker
          /\ d.provider = [draft.provider EXCEPT ![section] = p]
      BY <1>1, <2>4 DEF EnvFile
    <3>3. \A s \in Sources : d.provider[s] = draft.provider[s] \/ d.provider[s] = p
      BY <3>1, <3>2
    <3> QED BY <2>4, <2>7, <3>2, <3>3 DEF WizardInv, Explicit
  <2> QED BY <2>1, <2>3, <2>6, <2>7, <2>8, UpdateAdds
<1> QED BY <1>3, <1>4

LEMMA WizardStep ==
  ASSUME WizardInv, [WizardNext]_wizardVars
  PROVE  WizardInv'
<1>1. CASE UNCHANGED wizardVars
  BY <1>1 DEF wizardVars, WizardInv, WellFormed, Differ, AboutAll, Explicit
<1>2. CASE Configure
  <2>1. /\ draft' = ManagedValues
        /\ UNCHANGED <<env, asked, typed>>
    BY <1>2 DEF Configure
  <2>2. /\ ManagedValues \in WellFormed /\ Explicit(ManagedValues)
        /\ Differ(env, ManagedValues, {}, {}, {})
    BY ManagedAlike DEF WizardInv
  <2>3. Differ(env, draft', AboutAll(asked), asked, typed)
    BY <2>1, <2>2 DEF Differ
  <2> QED BY <2>1, <2>2, <2>3 DEF WizardInv, WellFormed, Differ, AboutAll, Explicit
<1>3. CASE Skip
  <2>1. UNCHANGED <<env, draft, asked, typed>> /\ section # ""
    BY <1>3 DEF Skip, Following
  <2> QED BY <2>1 DEF WizardInv, WellFormed, Differ, AboutAll, Explicit
<1>4. CASE Save
  <2>1. env' = Written /\ draft' = env' /\ section' = "" /\ section # ""
    BY <1>4 DEF Save, Leave
  <2>2. Written \in WellFormed
    BY <2>1, WrittenAlike DEF WizardInv
  <2> QED BY <2>1, <2>2 DEF WizardInv, WellFormed
<1>5. CASE Abort
  <2>1. env' = env /\ draft' = env' /\ section' = ""
    BY <1>5 DEF Abort, Leave
  <2> QED BY <2>1 DEF WizardInv, WellFormed
<1> QED BY <1>1, <1>2, <1>3, <1>4, <1>5, ChoicesStayAsked, BrokerStaysAsked,
           SourcesStayAsked DEF WizardNext

\* Saving changes nothing the person was not asked about, through whichever sections
\* they went, whatever the file held and in whichever form it held it, but what rests
\* on values that are not read as they are written; and no credential of any
\* environment is another one unless it was entered or is such a value.
THEOREM SavesAreAsAsked == WizardSpec => SavesOnlyWhatWasAsked
<1>1. WizardInit => WizardInv
  BY WizardAssumption DEF WizardInit, WizardInv, WellFormed
<1>2. WizardInv /\ [WizardNext]_wizardVars => WizardInv'
  BY WizardStep
<1> DEFINE
      Changes(f, g) ==
        LET old == ResolvedSettings(f)
            new == ResolvedSettings(g)
        IN  /\ \A x \in DOMAIN old :
                  old[x] # new[x] => Odd(f, x) \/ \E s \in asked : x \in About(s)
            /\ \A s \in Sources \ asked :
                  old.source[s] # new.source[s] => old.source[s] \in Fragile
            /\ \A b \in Broker, e \in Environments, k \in Part :
                  LET was == ResolveCredential(f, b, e, k)
                  IN  ResolveCredential(g, b, e, k) # was
                        => was \in Fragile \/ <<b, e, k>> \in typed
<1>3. ASSUME WizardInv, section # "" PROVE Changes(env, Written)
  <2>1. Explicit(draft) /\ Differ(env, draft, AboutAll(asked), asked, typed)
    BY <1>3 DEF WizardInv
  <2> DEFINE W == Written
  <2>2. /\ \A x \in Fields :
               ResolvedSettings(draft)[x] # ResolvedSettings(W)[x] => Odd(draft, x)
        /\ \A s \in Sources :
               ResolveSource(draft, s) # ResolveSource(W, s)
                  => ResolveSource(draft, s) \in Fragile
        /\ \A b \in Broker, e \in Environments, k \in Part :
               ResolveCredential(draft, b, e, k) # ResolveCredential(W, b, e, k)
                  => ResolveCredential(draft, b, e, k) \in Fragile
    BY <1>3, <2>1, WrittenAlike DEF WizardInv
  <2> HIDE DEF W
  <2>3. ASSUME NEW x \in Fields, ResolvedSettings(env)[x] # ResolvedSettings(W)[x]
        PROVE  Odd(env, x) \/ \E s \in asked : x \in About(s)
    <3>1. CASE ReadAlike(env, draft, x)
      BY <2>2, <2>3, <3>1 DEF ReadAlike
    <3>2. CASE ~ ReadAlike(env, draft, x)
      BY <2>1, <3>2 DEF Differ, AboutAll
    <3> QED BY <3>1, <3>2
  <2>4. \A s \in Sources : ResolvedSettings(env).source[s] = ResolveSource(env, s)
                           /\ ResolvedSettings(W).source[s] = ResolveSource(W, s)
    BY DEF ResolvedSettings
  <2>5. ASSUME NEW s \in Sources \ asked, ResolveSource(env, s) # ResolveSource(W, s)
        PROVE  ResolveSource(env, s) \in Fragile
    BY <2>1, <2>2, <2>5 DEF Differ
  <2>6. ASSUME NEW b \in Broker, NEW e \in Environments, NEW k \in Part,
               ResolveCredential(W, b, e, k) # ResolveCredential(env, b, e, k)
        PROVE  ResolveCredential(env, b, e, k) \in Fragile \/ <<b, e, k>> \in typed
    BY <2>1, <2>2, <2>6 DEF Differ
  <2>7. Changes(env, W)
    BY <2>3, <2>4, <2>5, <2>6, FieldsAreAll
  <2> QED BY <2>7 DEF W
<1>4. ASSUME WizardInv, [WizardNext]_wizardVars
      PROVE  [saves' # saves => Changes(env, env')]_wizardVars
  <2>1. saves' # saves => env' = Written /\ section # ""
    BY <1>4 DEF WizardNext, wizardVars, Configure, Skip, Save, Abort, AskLlm, AskBroker,
                AskTelegram, AskMarketData, AskSource, AskStorage, Updated
  <2> HIDE DEF Changes
  <2> QED BY <1>3, <1>4, <2>1
<1> QED BY <1>1, <1>2, <1>4, PTL DEF WizardSpec, SavesOnlyWhatWasAsked

-----------------------------------------------------------------------------
(* The start: what is offered is what was announced *)

\* The step at which it is decided whether a component is there.
Stage ==
    [reasoner |-> 1, sessions |-> 2, market_signals |-> 3, processes |-> 4,
     trading212 |-> 5, alpaca |-> 5,
     yahoo |-> 6, alpaca_data |-> 6, alpha_vantage |-> 6, eodhd |-> 6, reddit |-> 6,
     sec_edgar |-> 6, alpaca_stream |-> 6,
     market_data |-> 7, market_intelligence |-> 7, symbol_reference |-> 7,
     disclosure |-> 7, community |-> 7, search |-> 7, broker_read |-> 7,
     broker_execution |-> 7,
     portfolio_summary |-> 8, pending_actions |-> 8, proposals |-> 8,
     notifications |-> 9, order_toolbox |-> 11, calculator_agent |-> 12,
     reconciliation |-> 13, agents |-> 14, news_supervisor |-> 15]
Names == DOMAIN Stage
ServiceNames == Sources \cup {"broker_read", "broker_execution"}
Building == (1..15) \ {7, 10}

\* A component was decided on once and for all: those it depends on had been.
Decided ==
    /\ \A c \in built \cup errors : c \in Names /\ Stage[c] < step
    /\ \A n \in Building, c \in Names :
          n < step /\ Stage[c] = n =>
             (c \in built \cup errors <=> c \in Components(Steps[n]))
    /\ \A c \in errors : (Stage[c] \in Building /\ Steps[Stage[c]] \in Guarded)
                         \/ ~ CanBeBuilt(c)
    /\ \A c \in built \ ServiceNames : CanBeBuilt(c)
    /\ 7 < step => built \cap ServiceNames = Services

StartInv ==
    /\ step \in 0..16
    /\ Decided
    /\ \A c \in DOMAIN handed : c \in built /\ handed[c] = Uses(c) \cap built
    /\ built \ ServiceNames \subseteq DOMAIN handed
    /\ 10 < step => registry = Bindings(built)

LEMMA RanksAre ==
  /\ Names = {"reasoner", "sessions", "market_signals", "processes", "trading212",
              "alpaca", "yahoo", "alpaca_data", "alpha_vantage", "eodhd", "reddit",
              "sec_edgar", "alpaca_stream", "market_data", "market_intelligence",
              "symbol_reference", "disclosure", "community", "search", "broker_read",
              "broker_execution", "portfolio_summary", "pending_actions", "proposals",
              "notifications", "order_toolbox", "calculator_agent", "reconciliation",
              "agents", "news_supervisor"}
  /\ Stage["reasoner"] = 1 /\ Stage["sessions"] = 2 /\ Stage["market_signals"] = 3
  /\ Stage["processes"] = 4 /\ Stage["trading212"] = 5 /\ Stage["alpaca"] = 5
  /\ Stage["yahoo"] = 6 /\ Stage["alpaca_data"] = 6 /\ Stage["alpha_vantage"] = 6
  /\ Stage["eodhd"] = 6 /\ Stage["reddit"] = 6 /\ Stage["sec_edgar"] = 6
  /\ Stage["alpaca_stream"] = 6
  /\ \A c \in ServiceNames : Stage[c] = 7 /\ c \in Names
  /\ Stage["portfolio_summary"] = 8 /\ Stage["pending_actions"] = 8
  /\ Stage["proposals"] = 8 /\ Stage["notifications"] = 9 /\ Stage["order_toolbox"] = 11
  /\ Stage["calculator_agent"] = 12 /\ Stage["reconciliation"] = 13
  /\ Stage["agents"] = 14 /\ Stage["news_supervisor"] = 15
<1>1. \A c \in ServiceNames : Stage[c] = 7 /\ c \in Names
  BY DEF Stage, Names, ServiceNames, Sources
<1> QED BY <1>1 DEF Stage, Names

LEMMA ServicesAreRanked ==
  \A c \in Names : Stage[c] \in 1..15 /\ (Stage[c] = 7 => c \in ServiceNames) /\ Stage[c] # 10
BY RanksAre DEF ServiceNames, Sources

LEMMA StepsAre ==
  /\ DOMAIN Steps = 1..15 /\ Len(Steps) = 15
  /\ Steps[1] = "genai" /\ Steps[2] = "database" /\ Steps[3] = "market_signal"
  /\ Steps[4] = "scheduler" /\ Steps[5] = "broker" /\ Steps[6] = "data_source"
  /\ Steps[7] = "capability" /\ Steps[8] = "workflow" /\ Steps[9] = "notification"
  /\ Steps[10] = "capability" /\ Steps[11] = "toolbox" /\ Steps[12] = "calculator"
  /\ Steps[13] = "reconciliation" /\ Steps[14] = "agent"
  /\ Steps[15] = "news_supervisor"
BY DEF Steps

LEMMA StepsOfCapabilities ==
  \A n \in 1..15 : Steps[n] = "capability" <=> n \notin Building
BY StepsAre DEF Building

\* Each step tries components of its own.
LEMMA ComponentsAreRanked ==
  \A n \in Building : \A c \in Components(Steps[n]) : c \in Names /\ Stage[c] = n
<1> SUFFICES ASSUME NEW n \in Building, NEW c \in Components(Steps[n])
             PROVE  c \in Names /\ Stage[c] = n
  OBVIOUS
<1>1. CASE n = 6
  <2>1. Components(Steps[n]) = SelectedClients
          \cup {x \in {"alpaca_stream"} : Complete(settings, "alpaca")}
    BY <1>1, StepsAre DEF Components
  <2>2. SelectedClients \subseteq {"yahoo", "alpaca_data", "alpha_vantage", "eodhd",
                                   "reddit", "sec_edgar"}
    BY DEF SelectedClients, SourceClient
  <2> QED BY <1>1, <2>1, <2>2, RanksAre
<1>2. CASE n = 5
  BY <1>2, StepsAre, RanksAre DEF Components, Broker
<1>3. CASE n \in {1, 2, 3, 4}
  BY <1>3, StepsAre, RanksAre DEF Components
<1>4. CASE n \in {8, 9, 11}
  BY <1>4, StepsAre, RanksAre DEF Components
<1>5. CASE n \in {12, 13, 14, 15}
  BY <1>5, StepsAre, RanksAre DEF Components
<1> QED BY <1>1, <1>2, <1>3, <1>4, <1>5 DEF Building

\* What is decided stays so, as long as nothing else of a lower rank comes about.
LEMMA ComponentsStay ==
  ASSUME NEW m \in 1..15, UNCHANGED wizardVars,
         \A c \in Names : Stage[c] < m => (c \in built' <=> c \in built)
  PROVE  \A n \in Building : n <= m => Components(Steps[n])' = Components(Steps[n])
<1> SUFFICES ASSUME NEW n \in Building, n <= m
             PROVE  Components(Steps[n])' = Components(Steps[n])
  OBVIOUS
<1>1. settings' = settings
  BY DEF settings, wizardVars
<1>2. \A c \in Names : Stage[c] < n => (c \in built' <=> c \in built)
  BY RanksAre, ServicesAreRanked DEF Building
<1>3. CASE n = 6
  BY <1>1, <1>3, StepsAre DEF Components, SelectedClients, Complete
<1>4. CASE n = 5
  BY <1>1, <1>4, StepsAre DEF Components
<1>5. CASE n \in {1, 2}
  BY <1>5, StepsAre DEF Components
<1>6. CASE n \in {3, 4}
  BY <1>2, <1>6, StepsAre, RanksAre DEF Components
<1>7. CASE n = 8
  <2>1. "broker_read" \in Names /\ Stage["broker_read"] = 7
    BY RanksAre DEF ServiceNames
  <2> QED BY <1>2, <1>7, <2>1, StepsAre, RanksAre DEF Components
<1>8. CASE n = 9
  <2>1. Available(settings, "scheduler_notifications")'
        = Available(settings, "scheduler_notifications")
    BY <1>1 DEF Available, Sources, TelegramReady
  <2> QED BY <1>2, <1>8, <2>1, StepsAre, RanksAre DEF Components
<1>9. CASE n = 11
  BY <1>1, <1>9, StepsAre DEF Components
<1>10. CASE n \in {12, 14}
  BY <1>2, <1>10, StepsAre, RanksAre DEF Components
<1>11. CASE n = 13
  <2>1. "broker_read" \in Names /\ Stage["broker_read"] = 7
    BY RanksAre DEF ServiceNames
  <2> QED BY <1>2, <1>11, <2>1, StepsAre, RanksAre DEF Components
<1>12. CASE n = 15
  BY <1>2, <1>12, StepsAre, RanksAre DEF Components
<1> QED BY <1>3, <1>4, <1>5, <1>6, <1>7, <1>8, <1>9, <1>10, <1>11, <1>12 DEF Building

LEMMA ServicesStay ==
  ASSUME UNCHANGED wizardVars,
         \A c \in Names : Stage[c] < 7 => (c \in built' <=> c \in built)
  PROVE  Services' = Services
<1>1. settings' = settings
  BY DEF settings, wizardVars
<1>2. \A c \in Broker : c \in built' <=> c \in built
  BY RanksAre DEF Broker
<1>3. \A c : c \in DOMAIN SourceClient => SourceClient[c] \in Names
                                          /\ Stage[SourceClient[c]] < 7
  BY RanksAre DEF SourceClient
<1>4. BrokerReady(settings)' = BrokerReady(settings)
      /\ \A x \in Sources : SourceReady(settings, x)' = SourceReady(settings, x)
  BY <1>1 DEF BrokerReady, SourceReady, Complete
<1>5. \A x \in Sources \ {"search"} :
         SourceReady(settings, x) => settings.source[x] \in DOMAIN SourceClient
  <2>1. /\ Provider["market_data"] = "yahoo" /\ Provider["community"] = "reddit"
        /\ Provider["market_intelligence"] = "alpha_vantage"
        /\ Provider["symbol_reference"] = "eodhd" /\ Provider["disclosure"] = "sec_edgar"
    BY DEF Provider
  <2>2. DOMAIN SourceClient = {"yahoo", "alpaca", "alpha_vantage", "eodhd", "reddit",
                               "sec_edgar"}
    BY DEF SourceClient
  <2>3. \A x \in Sources : SourceReady(settings, x)
                             => settings.source[x] \in {"alpaca", Provider[x]}
    BY DEF SourceReady
  <2> QED BY <2>1, <2>2, <2>3 DEF Sources
<1>6. built' \cap Broker # {} <=> built \cap Broker # {}
  BY <1>2
<1>7. \A x \in Sources \ {"search"} :
         SourceReady(settings, x) =>
            (SourceClient[settings.source[x]] \in built'
               <=> SourceClient[settings.source[x]] \in built)
  BY <1>3, <1>5
<1> QED BY <1>1, <1>4, <1>6, <1>7 DEF Services

LEMMA CanBeBuiltStays ==
  ASSUME UNCHANGED wizardVars
  PROVE  \A c : CanBeBuilt(c)' = CanBeBuilt(c)
<1>1. settings' = settings
  BY DEF settings, wizardVars
<1> QED BY <1>1 DEF CanBeBuilt, Complete

\* A component is built after those it is handed, and bound after those it needs.
LEMMA UsesAreEarlier ==
  \A c \in Names : \A u \in Uses(c) : u \in Names /\ Stage[u] < Stage[c]
<1>1. \A c \in ServiceNames : Uses(c) = {}
  BY DEF Uses, ServiceNames, Sources
<1>2. \A u \in {"broker_read", "broker_execution", "market_data", "symbol_reference",
                "community"} : Stage[u] = 7 /\ u \in Names
  BY RanksAre DEF ServiceNames, Sources
<1>3. \A u \in Uses("agents") : u \in Names /\ Stage[u] < 14
  BY <1>2, RanksAre DEF Uses
<1>4. \A u \in Uses("news_supervisor") : u \in Names /\ Stage[u] < 15
  BY RanksAre DEF Uses
<1>5. \A u \in Uses("reconciliation") : u \in Names /\ Stage[u] < 13
  BY <1>2, RanksAre DEF Uses
<1>6. \A u \in Uses("notifications") : u \in Names /\ Stage[u] < 9
  BY RanksAre DEF Uses
<1>7. \A u \in Uses("pending_actions") \cup Uses("portfolio_summary") :
         u \in Names /\ Stage[u] < 8
  BY <1>2, RanksAre DEF Uses
<1>8. \A c \in Names \ {"agents", "news_supervisor", "reconciliation", "notifications",
                        "pending_actions", "portfolio_summary"} : Uses(c) = {}
  BY DEF Uses
<1> QED BY <1>3, <1>4, <1>5, <1>6, <1>7, <1>8, RanksAre

LEMMA NeededAreEarly ==
  \A c \in Capabilities : \A u \in Needed(c) : u \in Names /\ Stage[u] <= 9
<1>1. \A u \in ServiceNames : u \in Names /\ Stage[u] <= 9
  BY RanksAre
<1>2. \A c \in ServiceNames : Needed(c) = {c}
  BY DEF Needed, ServiceNames, Sources
<1>3. "market_data" \in ServiceNames
  BY DEF ServiceNames, Sources
<1>4. {"market_signals", "processes", "notifications", "reasoner", "pending_actions",
       "proposals", "alpaca_stream", "market_data", "broker_read", "broker_execution"}
      \subseteq {u \in Names : Stage[u] <= 9}
  BY <1>1, <1>3, RanksAre DEF ServiceNames
<1>5. \A c \in Capabilities \ ServiceNames :
         Needed(c) \subseteq {"market_signals", "processes", "notifications", "reasoner",
                              "pending_actions", "proposals", "alpaca_stream",
                              "market_data", "broker_read", "broker_execution"}
  BY DEF Needed, Capabilities, ServiceNames, Sources
<1> QED BY <1>1, <1>2, <1>4, <1>5

LEMMA BindingsStay ==
  ASSUME NEW B, NEW D, \A c \in Names : Stage[c] <= 9 => (c \in B <=> c \in D)
  PROVE  Bindings(B) = Bindings(D)
<1>1. \A c \in Capabilities : Needed(c) \subseteq B <=> Needed(c) \subseteq D
  BY NeededAreEarly
<1>2. \A c \in Researched : c \in B <=> c \in D
  BY RanksAre DEF Researched, ServiceNames, Sources
<1>3. Researched \cap B # {} <=> Researched \cap D # {}
  BY <1>2
<1> QED BY <1>1, <1>3 DEF Bindings

LEMMA BindStep ==
  ASSUME StartInv, Build, BindCapabilities
  PROVE  StartInv'
<1>1. /\ step \in 1..15 /\ step \notin Building /\ step' = step + 1
      /\ UNCHANGED wizardVars /\ UNCHANGED <<handed, errors>>
      /\ built' = built \cup Services /\ registry' = Bindings(built')
  BY StepsAre, StepsOfCapabilities DEF Build, BindCapabilities
<1>2. step = 7 \/ step = 10
  BY <1>1 DEF Building
<1>3. Services \subseteq ServiceNames
  BY DEF Services, ServiceNames, Sources
<1>4. \A c \in built \cup errors : c \in Names /\ Stage[c] < step
  BY DEF StartInv, Decided
<1>5. \A c \in Names : Stage[c] # 7 => (c \in built' <=> c \in built)
  BY <1>1, <1>3, RanksAre
<1>6. \A c \in Names : Stage[c] \in 1..15
  BY ServicesAreRanked
<1>7. Services' = Services
  BY <1>1, <1>5, <1>6, ServicesStay
<1>8. built' \cap ServiceNames = Services
  <2>1. CASE step = 7
    <3>1. built \cap ServiceNames = {}
      BY <1>4, <2>1, RanksAre
    <3> QED BY <1>1, <1>3, <3>1
  <2>2. CASE step = 10
    <3>1. built \cap ServiceNames = Services
      BY <2>2 DEF StartInv, Decided
    <3> QED BY <1>1, <3>1
  <2> QED BY <1>2, <2>1, <2>2
<1>9. step = 10 => built' = built
  BY <1>1 DEF StartInv, Decided
<1>10. \A n \in Building : n < step => Components(Steps[n])' = Components(Steps[n])
  <2>1. \A n \in Building : n <= step => Components(Steps[n])' = Components(Steps[n])
    <3>1. \A c \in Names : Stage[c] < step => (c \in built' <=> c \in built)
      BY <1>2, <1>5, <1>6, <1>9
    <3> QED BY <1>1, <3>1, ComponentsStay
  <2> QED BY <2>1, <1>1 DEF Building
<1>11. \A c : CanBeBuilt(c)' = CanBeBuilt(c)
  BY <1>1, CanBeBuiltStays
<1>12. Decided'
  <2>1. \A c \in built' \cup errors' : c \in Names /\ Stage[c] < step'
    BY <1>1, <1>2, <1>3, <1>4, <1>6, RanksAre
  <2>2. ASSUME NEW n \in Building, NEW c \in Names, n < step', Stage[c] = n
        PROVE  c \in built' \cup errors' <=> c \in Components(Steps[n])'
    <3>1. n < step /\ Stage[c] # 7
      BY <1>1, <2>2 DEF Building
    <3>2. c \in built \cup errors <=> c \in Components(Steps[n])
      BY <2>2, <3>1 DEF StartInv, Decided
    <3> QED BY <1>1, <1>5, <1>10, <3>1, <3>2
  <2>3. \A c \in errors' : (Stage[c] \in Building /\ Steps[Stage[c]] \in Guarded)
                           \/ ~ CanBeBuilt(c)'
    BY <1>1, <1>11 DEF StartInv, Decided
  <2>4. \A c \in built' \ ServiceNames : CanBeBuilt(c)'
    BY <1>1, <1>3, <1>11 DEF StartInv, Decided
  <2> QED BY <1>7, <1>8, <2>1, <2>2, <2>3, <2>4 DEF Decided
<1>13. ASSUME NEW c \in DOMAIN handed'
       PROVE  c \in built' /\ handed'[c] = Uses(c) \cap built'
  <2>1. c \in built /\ handed[c] = Uses(c) \cap built /\ c \in Names /\ Stage[c] < step
    BY <1>1, <1>4, <1>13 DEF StartInv
  <2>2. \A u \in Uses(c) : u \in built' <=> u \in built
    <3>1. \A u \in Uses(c) : u \in Names /\ Stage[u] < Stage[c]
      BY <2>1, UsesAreEarlier
    <3> QED BY <1>2, <1>5, <1>6, <1>9, <2>1, <3>1
  <2> QED BY <1>1, <2>1, <2>2
<1>14. built' \ ServiceNames \subseteq DOMAIN handed'
  BY <1>1, <1>3 DEF StartInv
<1> QED BY <1>1, <1>12, <1>13, <1>14 DEF StartInv

LEMMA BuildStep ==
  ASSUME StartInv, Build, BuildComponents
  PROVE  StartInv'
<1>1. /\ step \in 1..15 /\ step \in Building /\ step' = step + 1
      /\ UNCHANGED wizardVars /\ UNCHANGED registry
  BY StepsAre, StepsOfCapabilities DEF Build, BuildComponents
<1> DEFINE tried == Components(Steps[step])
<1>2. PICK failing \in SUBSET tried, made \in SUBSET tried, broken \in SUBSET tried :
         /\ broken = failing \cup {c \in tried : ~ CanBeBuilt(c)}
         /\ made = tried \ broken
         /\ \A c \in failing : Steps[step] \in Guarded
         /\ built' = built \cup made /\ errors' = errors \cup broken
         /\ handed' = [c \in DOMAIN handed \cup made |->
                         IF c \in made THEN Uses(c) \cap built' ELSE handed[c]]
  <2>1. PICK failing \in SUBSET tried :
          LET broken == failing \cup {c \in tried : ~ CanBeBuilt(c)}
              made == tried \ broken
          IN  /\ \A c \in failing : Steps[step] \in Guarded
              /\ built' = built \cup made
              /\ handed' = [c \in DOMAIN handed \cup made |->
                              IF c \in made THEN Uses(c) \cap built' ELSE handed[c]]
              /\ errors' = errors \cup broken
    BY DEF BuildComponents
  <2> DEFINE broken == failing \cup {c \in tried : ~ CanBeBuilt(c)}
             made == tried \ broken
  <2>2. broken \in SUBSET tried /\ made \in SUBSET tried
    OBVIOUS
  <2>3. /\ broken = failing \cup {c \in tried : ~ CanBeBuilt(c)}
        /\ made = tried \ broken
        /\ \A c \in failing : Steps[step] \in Guarded
        /\ built' = built \cup made /\ errors' = errors \cup broken
        /\ handed' = [c \in DOMAIN handed \cup made |->
                        IF c \in made THEN Uses(c) \cap built' ELSE handed[c]]
    BY <2>1
  <2> HIDE DEF broken, made, tried
  <2> QED BY <2>2, <2>3
<1>3. \A c \in tried : c \in Names /\ Stage[c] = step
  BY <1>1, ComponentsAreRanked
<1>4. \A c \in built \cup errors : c \in Names /\ Stage[c] < step
  BY DEF StartInv, Decided
<1> HIDE DEF tried
<1>5. \A c \in Names : Stage[c] \in 1..15 /\ (Stage[c] # step => (c \in built' <=> c \in built))
  BY <1>2, <1>3, ServicesAreRanked
<1>6. \A c \in Names : Stage[c] < step => (c \in built' <=> c \in built)
  BY <1>1, <1>5
<1>7. \A n \in Building : n <= step => Components(Steps[n])' = Components(Steps[n])
  BY <1>1, <1>6, ComponentsStay
<1>8. \A c : CanBeBuilt(c)' = CanBeBuilt(c)
  BY <1>1, CanBeBuiltStays
<1>9. Decided'
  <2>1. \A c \in built' \cup errors' : c \in Names /\ Stage[c] < step'
    BY <1>1, <1>2, <1>3, <1>4, <1>5
  <2>2. ASSUME NEW n \in Building, NEW c \in Names, n < step', Stage[c] = n
        PROVE  c \in built' \cup errors' <=> c \in Components(Steps[n])'
    <3>1. n <= step
      BY <1>1, <2>2 DEF Building
    <3>2. CASE n = step
      <4>1. c \notin built \cup errors
        BY <1>1, <1>4, <2>2, <3>2
      <4>2. c \in made \cup broken <=> c \in tried
        BY <1>2
      <4>3. Components(Steps[n])' = tried
        BY <1>7, <2>2, <3>1, <3>2 DEF tried
      <4> QED BY <1>2, <4>1, <4>2, <4>3
    <3>3. CASE n < step
      <4>1. c \notin made \cup broken
        BY <1>1, <1>2, <1>3, <2>2, <3>3
      <4>2. c \in built \cup errors <=> c \in Components(Steps[n])
        BY <2>2, <3>3 DEF StartInv, Decided
      <4> QED BY <1>2, <1>7, <2>2, <3>1, <4>1, <4>2
    <3> QED BY <1>1, <2>2, <3>1, <3>2, <3>3 DEF Building
  <2>3. ASSUME NEW c \in errors'
        PROVE  (Stage[c] \in Building /\ Steps[Stage[c]] \in Guarded) \/ ~ CanBeBuilt(c)'
    <3>1. CASE c \in errors
      BY <1>8, <3>1 DEF StartInv, Decided
    <3>2. CASE c \in broken
      BY <1>1, <1>2, <1>3, <1>8, <3>2
    <3> QED BY <1>2, <2>3, <3>1, <3>2
  <2>4. \A c \in built' \ ServiceNames : CanBeBuilt(c)'
    BY <1>2, <1>8 DEF StartInv, Decided
  <2>5. 7 < step' => built' \cap ServiceNames = Services'
    <3> SUFFICES ASSUME 7 < step' PROVE built' \cap ServiceNames = Services'
      OBVIOUS
    <3>1. 7 < step
      BY <1>1 DEF Building
    <3>2. Services' = Services
      BY <1>1, <1>6, <3>1, <1>5, ServicesStay
    <3>3. made \cap ServiceNames = {}
      BY <1>2, <1>3, <3>1, RanksAre
    <3> QED BY <1>2, <3>1, <3>2, <3>3 DEF StartInv, Decided
  <2> QED BY <2>1, <2>2, <2>3, <2>4, <2>5 DEF Decided
<1>10. ASSUME NEW c \in DOMAIN handed'
       PROVE  c \in built' /\ handed'[c] = Uses(c) \cap built'
  <2>1. CASE c \in made
    BY <1>2, <2>1
  <2>2. CASE c \notin made
    <3>1. /\ c \in built /\ handed[c] = Uses(c) \cap built /\ handed'[c] = handed[c]
          /\ c \in Names /\ Stage[c] < step
      BY <1>2, <1>4, <1>10, <2>2 DEF StartInv
    <3>2. \A u \in Uses(c) : u \in Names /\ Stage[u] < Stage[c]
      BY <3>1, UsesAreEarlier
    <3>3. \A u \in Uses(c) : u \in built' <=> u \in built
      BY <1>1, <1>5, <1>6, <3>1, <3>2
    <3> QED BY <1>2, <3>1, <3>3
  <2> QED BY <2>1, <2>2
<1>11. 10 < step' => registry' = Bindings(built')
  <2> SUFFICES ASSUME 10 < step' PROVE registry' = Bindings(built')
    OBVIOUS
  <2>1. 10 < step
    BY <1>1 DEF Building
  <2>2. \A c \in Names : Stage[c] <= 9 => (c \in built <=> c \in built')
    BY <1>1, <1>5, <2>1
  <2>3. Bindings(built) = Bindings(built')
    BY <2>2, BindingsStay
  <2> QED BY <1>1, <2>1, <2>3 DEF StartInv
<1>12. built' \ ServiceNames \subseteq DOMAIN handed'
  BY <1>2 DEF StartInv
<1> QED BY <1>1, <1>9, <1>10, <1>11, <1>12 DEF StartInv

\* What a finished runtime consists of.
LEMMA FinishedRuntime ==
  ASSUME StartInv, Up
  PROVE  /\ {"reasoner", "sessions"} \subseteq built \cup errors
         /\ "reasoner" \in built => CanBeBuilt("reasoner")
         /\ "sessions" \in built => settings.database
         /\ {"market_signals", "processes", "pending_actions", "proposals"} \cap errors = {}
         /\ \A c \in {"market_signals", "processes", "pending_actions", "proposals"} :
               c \in built <=> "sessions" \in built
         /\ \A c \in Broker : c \in built \cup errors <=> c = settings.broker
         /\ \A c \in {"yahoo", "alpaca_data", "alpha_vantage", "eodhd", "reddit",
                      "sec_edgar"} : c \in built \cup errors <=> c \in SelectedClients
         /\ "alpaca_stream" \in built \cup errors <=> Complete(settings, "alpaca")
         /\ built \cap ServiceNames = Services
         /\ "notifications" \in built \cup errors
              <=> "processes" \in built /\ Available(settings, "scheduler_notifications")
         /\ "order_toolbox" \in built <=> ExecutionAvailable(settings)
         /\ "reconciliation" \in built
              <=> "broker_read" \in built /\ "pending_actions" \in built
         /\ "agents" \in built \cup errors <=> "reasoner" \in built
         /\ registry = Bindings(built)
         /\ \A c \in DOMAIN handed : handed[c] = Uses(c) \cap built
         /\ "agents" \in built => "agents" \in DOMAIN handed
<1>1. step = 16
  BY StepsAre DEF Up, StartInv
<1>2. \A c \in Names : Stage[c] \in Building =>
         (c \in built \cup errors <=> c \in Components(Steps[Stage[c]]))
  BY <1>1, ServicesAreRanked DEF StartInv, Decided, Building
<1>20. /\ "reasoner" \in built \cup errors <=> "reasoner" \in Components("genai")
       /\ "sessions" \in built \cup errors <=> "sessions" \in Components("database")
       /\ "market_signals" \in built \cup errors
             <=> "market_signals" \in Components("market_signal")
       /\ "processes" \in built \cup errors <=> "processes" \in Components("scheduler")
  BY <1>2, RanksAre, StepsAre DEF Building
<1>21. /\ "trading212" \in built \cup errors <=> "trading212" \in Components("broker")
       /\ "alpaca" \in built \cup errors <=> "alpaca" \in Components("broker")
       /\ "pending_actions" \in built \cup errors
             <=> "pending_actions" \in Components("workflow")
       /\ "proposals" \in built \cup errors <=> "proposals" \in Components("workflow")
  BY <1>2, RanksAre, StepsAre DEF Building
<1>22. /\ "notifications" \in built \cup errors
             <=> "notifications" \in Components("notification")
       /\ "order_toolbox" \in built \cup errors
             <=> "order_toolbox" \in Components("toolbox")
       /\ "reconciliation" \in built \cup errors
             <=> "reconciliation" \in Components("reconciliation")
       /\ "agents" \in built \cup errors <=> "agents" \in Components("agent")
  BY <1>2, RanksAre, StepsAre DEF Building
<1>3. \A c \in errors : Steps[Stage[c]] \in Guarded \/ ~ CanBeBuilt(c)
  BY DEF StartInv, Decided
<1>4. \A c \in built \ ServiceNames : CanBeBuilt(c)
  BY DEF StartInv, Decided
<1>5. {"reasoner", "sessions"} \subseteq built \cup errors
  BY <1>20 DEF Components
<1>6. /\ "reasoner" \in built => CanBeBuilt("reasoner")
      /\ "sessions" \in built => CanBeBuilt("sessions")
  BY <1>4 DEF ServiceNames, Sources
<1>7. CanBeBuilt("sessions") = settings.database
  BY DEF CanBeBuilt, Broker
<1>8. \A c \in {"market_signals", "processes", "pending_actions", "proposals",
                "order_toolbox", "reconciliation"} : c \notin errors
  <2>1. \A c \in {"market_signals", "processes", "pending_actions", "proposals",
                  "order_toolbox", "reconciliation"} : CanBeBuilt(c)
    BY DEF CanBeBuilt, Broker
  <2>2. \A c \in {"market_signals", "processes", "pending_actions", "proposals",
                  "order_toolbox", "reconciliation"} : Steps[Stage[c]] \notin Guarded
    BY RanksAre, StepsAre DEF Guarded
  <2> QED BY <1>3, <2>1, <2>2
<1>9. \A c \in {"market_signals", "processes", "pending_actions", "proposals"} :
         c \in built <=> "sessions" \in built
  <2>1. "market_signals" \in built <=> "sessions" \in built
    BY <1>8, <1>20 DEF Components
  <2>2. "processes" \in built <=> "sessions" \in built
    BY <1>8, <1>20 DEF Components
  <2>3. "pending_actions" \in built <=> "sessions" \in built
    BY <1>8, <1>21 DEF Components
  <2>4. "proposals" \in built <=> "sessions" \in built
    BY <1>8, <1>21 DEF Components
  <2> QED BY <2>1, <2>2, <2>3, <2>4
<1>10. \A c \in Broker : c \in built \cup errors <=> c = settings.broker
  BY <1>21 DEF Components, Broker
<1>11. Components("data_source") = SelectedClients
         \cup {x \in {"alpaca_stream"} : Complete(settings, "alpaca")}
  BY DEF Components
<1>12. "alpaca_stream" \notin SelectedClients
  BY DEF SelectedClients, SourceClient
<1>13. \A c \in {"yahoo", "alpaca_data", "alpha_vantage", "eodhd", "reddit",
                 "sec_edgar"} : c \in built \cup errors <=> c \in SelectedClients
  BY <1>2, <1>11, RanksAre, StepsAre DEF Building
<1>14. "alpaca_stream" \in built \cup errors <=> Complete(settings, "alpaca")
  BY <1>2, <1>11, <1>12, RanksAre, StepsAre DEF Building
<1>15. "notifications" \in built \cup errors
         <=> "processes" \in built /\ Available(settings, "scheduler_notifications")
  BY <1>8, <1>22 DEF Components
<1>16. "order_toolbox" \in built <=> ExecutionAvailable(settings)
  BY <1>8, <1>22 DEF Components
<1>17. "reconciliation" \in built <=> "broker_read" \in built /\ "pending_actions" \in built
  BY <1>8, <1>22 DEF Components
<1>18. "agents" \in built \cup errors <=> "reasoner" \in built
  BY <1>8, <1>22 DEF Components
<1>19. /\ built \cap ServiceNames = Services
       /\ registry = Bindings(built)
       /\ \A c \in DOMAIN handed : handed[c] = Uses(c) \cap built
       /\ "agents" \in built => "agents" \in DOMAIN handed
  BY <1>1 DEF StartInv, Decided, ServiceNames, Sources
<1> QED BY <1>5, <1>6, <1>7, <1>8, <1>9, <1>10, <1>13, <1>14, <1>15, <1>16, <1>17, <1>18,
           <1>19

\* A source that is ready has the client of one of its providers.
LEMMA ReadySources ==
  \A x \in Sources \ {"search"} :
     SourceReady(settings, x) =>
        /\ SourceClient[settings.source[x]] \in SelectedClients
        /\ SourceClient[settings.source[x]] \in {"yahoo", "alpaca_data", "alpha_vantage",
                                                 "eodhd", "reddit", "sec_edgar"}
<1>1. /\ Provider["market_data"] = "yahoo" /\ Provider["community"] = "reddit"
      /\ Provider["market_intelligence"] = "alpha_vantage"
      /\ Provider["symbol_reference"] = "eodhd" /\ Provider["disclosure"] = "sec_edgar"
  BY DEF Provider
<1>2. DOMAIN SourceClient = {"yahoo", "alpaca", "alpha_vantage", "eodhd", "reddit",
                             "sec_edgar"}
  BY DEF SourceClient
<1>3. \A x \in Sources : SourceReady(settings, x)
                           => settings.source[x] \in {"alpaca", Provider[x]}
  BY DEF SourceReady
<1>4. \A y \in DOMAIN SourceClient :
         SourceClient[y] \in {"yahoo", "alpaca_data", "alpha_vantage", "eodhd", "reddit",
                              "sec_edgar"}
  BY DEF SourceClient
<1>5. \A x \in Sources \ {"search"} :
         SourceReady(settings, x) => settings.source[x] \in DOMAIN SourceClient
  BY <1>1, <1>2, <1>3 DEF Sources
<1> QED BY <1>4, <1>5 DEF SelectedClients

\* With nothing failed, the services are those whose providers are ready.
LEMMA ServicesAreReady ==
  ASSUME StartInv, Up, errors = {}
  PROVE  /\ \A c \in {"broker_read", "broker_execution"} :
               c \in built <=> BrokerReady(settings)
         /\ \A x \in Sources : x \in built <=> SourceReady(settings, x)
<1>1. /\ \A c \in Broker : c \in built <=> c = settings.broker
      /\ \A c \in {"yahoo", "alpaca_data", "alpha_vantage", "eodhd", "reddit",
                   "sec_edgar"} : c \in built <=> c \in SelectedClients
      /\ built \cap ServiceNames = Services
  BY FinishedRuntime
<1>2. \A c \in {"broker_read", "broker_execution"} : c \in Services <=> BrokerReady(settings)
  <2>1. BrokerReady(settings) => built \cap Broker # {}
    BY <1>1 DEF BrokerReady
  <2>2. \A c \in {"broker_read", "broker_execution"} : c \notin Sources
    BY DEF Sources
  <2> QED BY <2>1, <2>2 DEF Services
<1>3. \A x \in Sources : x \in Services <=> SourceReady(settings, x)
  <2>1. \A x \in Sources \ {"search"} :
           SourceReady(settings, x) => SourceClient[settings.source[x]] \in built
    BY <1>1, ReadySources
  <2>2. \A c \in {"broker_read", "broker_execution"} : c \notin Sources
    BY DEF Sources
  <2>3. "search" \in Sources
    BY DEF Sources
  <2> QED BY <2>1, <2>2, <2>3 DEF Services
<1> QED BY <1>1, <1>2, <1>3 DEF ServiceNames

\* With nothing failed, what is bound is what had been announced.
LEMMA RegistryIsAssessed ==
  ASSUME StartInv, Up, errors = {}, Consistent
  PROVE  registry = {c \in Capabilities : Available(settings, c)}
<1>1. /\ {"reasoner", "sessions", "market_signals", "processes", "pending_actions",
          "proposals"} \subseteq built
      /\ CanBeBuilt("reasoner") /\ settings.database
      /\ "alpaca_stream" \in built <=> Complete(settings, "alpaca")
      /\ "notifications" \in built <=> Available(settings, "scheduler_notifications")
      /\ registry = Bindings(built)
  BY FinishedRuntime
<1>2. /\ \A c \in {"broker_read", "broker_execution"} :
            c \in built <=> BrokerReady(settings)
      /\ \A x \in Sources : x \in built <=> SourceReady(settings, x)
  BY ServicesAreReady
<1>3. LlmReady(settings)
  <2>1. IF settings.azure THEN settings.azureAccess # "" ELSE settings.openaiKey # ""
    BY <1>1 DEF CanBeBuilt, Broker
  <2>2. CASE settings.azure
    BY <2>1, <2>2 DEF LlmReady, Consistent
  <2>3. CASE ~ settings.azure
    BY <2>1, <2>3 DEF LlmReady, Consistent
  <2> QED BY <2>2, <2>3
<1>4. BrokerReady(settings) <=> ExecutionAvailable(settings)
  BY DEF Consistent, ExecutionAvailable
<1>5. "market_data" \in Sources /\ Researched \subseteq Sources
  BY DEF Sources, Researched
<1>6. ASSUME NEW c \in Capabilities
      PROVE  c \in Bindings(built) <=> Available(settings, c)
  <2>1. CASE c \in Sources
    <3>1. Needed(c) = {c} /\ c # "scheduler_market_signal_capture"
      BY <2>1 DEF Needed, Sources
    <3>2. Available(settings, c) <=> SourceReady(settings, c)
      BY <2>1 DEF Available, Sources
    <3> QED BY <1>2, <1>6, <2>1, <3>1, <3>2 DEF Bindings
  <2>2. CASE c \in {"broker_read", "broker_execution"}
    <3>1. Needed(c) = {c} /\ c # "scheduler_market_signal_capture"
      BY <2>2 DEF Needed, Sources
    <3>2. Available(settings, c) <=> BrokerReady(settings)
      BY <1>4, <2>2 DEF Available, Sources
    <3> QED BY <1>2, <1>6, <2>2, <3>1, <3>2 DEF Bindings
  <2>3. CASE c \in {"market_signal_memory", "scheduled_processes",
                    "scheduler_notifications"}
    BY <1>1, <1>6, <2>3 DEF Bindings, Needed, Available, Sources
  <2>4. CASE c \in {"scheduler_instrument_monitor", "scheduler_delegate",
                    "scheduler_company_event_analyst", "scheduler_market_regime_monitor"}
    <3>1. "market_data" \in built <=> SourceReady(settings, "market_data")
      BY <1>2, <1>5
    <3> QED BY <1>1, <1>3, <1>6, <2>4, <3>1 DEF Bindings, Needed, Available, Sources
  <2>5. CASE c = "scheduler_market_signal_capture"
    <3>1. Researched \cap built # {} <=> \E x \in Researched : SourceReady(settings, x)
      BY <1>2, <1>5
    <3> QED BY <1>1, <1>3, <1>6, <2>5, <3>1 DEF Bindings, Needed, Available, Sources
  <2>6. CASE c = "scheduler_trade_setup_monitor"
    <3>1. "market_data" \in built <=> SourceReady(settings, "market_data")
      BY <1>2, <1>5
    <3>2. "notifications" \in built <=> TelegramReady(settings)
      BY <1>1 DEF Available, Sources
    <3>3. Needed(c) \subseteq built <=> Available(settings, c)
      <4>1. Needed(c) = {"reasoner", "processes", "market_data", "broker_read",
                         "broker_execution", "pending_actions", "proposals",
                         "notifications"}
        BY <2>6 DEF Needed, Sources
      <4>2. Available(settings, c)
              <=> /\ LlmReady(settings) /\ settings.database
                  /\ SourceReady(settings, "market_data") /\ BrokerReady(settings)
                  /\ ExecutionAvailable(settings) /\ TelegramReady(settings)
        BY <2>6 DEF Available, Sources
      <4> QED BY <1>1, <1>2, <1>3, <1>4, <3>1, <3>2, <4>1, <4>2
    <3> QED BY <1>6, <2>6, <3>3 DEF Bindings
  <2>7. CASE c = "scheduler_alpaca_news_monitor"
    BY <1>1, <1>3, <1>6, <2>7 DEF Bindings, Needed, Available, Sources
  <2> QED BY <1>6, <2>1, <2>2, <2>3, <2>4, <2>5, <2>6, <2>7 DEF Capabilities
<1>7. Bindings(built) \subseteq Capabilities
  BY DEF Bindings
<1> QED BY <1>1, <1>6, <1>7

\* With nothing failed, a command that was let through has what it runs on.
LEMMA CommandsHaveTheirs ==
  ASSUME StartInv, Up, errors = {}, NEW c \in Command, Preflight(settings, c)
  PROVE  RunsOn[c] \subseteq built
<1>1. /\ {"reasoner", "sessions", "market_signals", "processes", "pending_actions",
          "proposals"} \subseteq built
      /\ settings.database /\ "agents" \in built
      /\ "notifications" \in built <=> Available(settings, "scheduler_notifications")
      /\ "reconciliation" \in built <=> "broker_read" \in built
  BY FinishedRuntime
<1>2. "broker_read" \in built <=> BrokerReady(settings)
  BY ServicesAreReady
<1>3. /\ RunsOn["bot"] = {"agents", "notifications"}
      /\ RunsOn["reconciler"] = {"reconciliation"} /\ RunsOn["scheduler"] = {"processes"}
  BY DEF RunsOn
<1>4. CASE c = "bot"
  <2>1. TelegramReady(settings)
    BY <1>4 DEF Preflight
  <2>2. Available(settings, "scheduler_notifications")
    BY <1>1, <2>1 DEF Available, Sources
  <2> QED BY <1>1, <1>3, <1>4, <2>2
<1>5. CASE c = "reconciler"
  <2>1. BrokerReady(settings)
    BY <1>5 DEF Preflight
  <2> QED BY <1>1, <1>2, <1>3, <1>5, <2>1
<1>6. CASE c = "scheduler"
  BY <1>1, <1>3, <1>6
<1> QED BY <1>4, <1>5, <1>6 DEF Command

\* What the agents have been handed at the end.
LEMMA AgentsAreHanded ==
  ASSUME StartInv, Up, "agents" \in built
  PROVE  /\ \A c \in {"broker_read", "broker_execution", "market_data",
                      "symbol_reference", "community", "market_signals",
                      "pending_actions", "processes", "order_toolbox"} :
               c \in handed["agents"] <=> c \in built
         /\ handed["agents"] \subseteq built
<1>1. handed["agents"] = Uses("agents") \cap built
  BY FinishedRuntime
<1>2. {"broker_read", "broker_execution", "market_data", "symbol_reference", "community",
       "market_signals", "pending_actions", "processes", "order_toolbox"}
      \subseteq Uses("agents")
  BY DEF Uses
<1> QED BY <1>1, <1>2

\* A tool of the analyst's works, or its memory has no database.
LEMMA AnalystsWork ==
  ASSUME StartInv, Up, "agents" \in built, NEW tool \in ToolsOf("market")
  PROVE  \/ Works("market", tool)
         \/ tool \in DOMAIN MayBeMissing /\ errors \cap MayBeMissing[tool] # {}
<1>1. tool \in MarketAnalystToolbox \/ (tool = "reddit_research" /\ tool \in Specialists)
  BY DEF ToolsOf
<1>2. CASE tool = "reddit_research" /\ tool \in Specialists
  BY <1>2 DEF Works
<1>3. CASE tool \in OfReady({"market_data", "symbol_reference"})
  BY <1>3 DEF OfReady, Works, FunctionWorks, ServiceFor
<1>4. CASE tool \in OfReady({"market_intelligence", "search"})
  <2>1. settings.access[tool] # ""
    <3>1. SourceReady(settings, tool) /\ tool \in {"market_intelligence", "search"}
      BY <1>4 DEF OfReady
    <3> QED BY <3>1 DEF SourceReady
  <2> QED BY <1>4, <2>1 DEF OfReady, Works, FunctionWorks
<1>5. CASE tool \in OfReady({"disclosure"})
  BY <1>5 DEF OfReady, Works, FunctionWorks
<1>6. CASE tool = "signals" /\ Available(settings, "market_signal_memory")
  <2>1. Works("market", tool) <=> "market_signals" \in built
    BY <1>6, AgentsAreHanded DEF Works, FunctionWorks
  <2>2. "market_signals" \in built <=> "sessions" \in built
    BY FinishedRuntime
  <2>3. "sessions" \in built \cup errors
    BY FinishedRuntime
  <2>4. tool \in DOMAIN MayBeMissing /\ MayBeMissing[tool] = {"sessions"}
    BY <1>6 DEF MayBeMissing
  <2> QED BY <2>1, <2>2, <2>3, <2>4
<1>7. MarketAnalystToolbox
        = OfReady({"market_data", "symbol_reference"})
          \cup OfReady({"market_intelligence", "search"}) \cup OfReady({"disclosure"})
          \cup {x \in {"signals"} : Available(settings, "market_signal_memory")}
  BY DEF MarketAnalystToolbox, OfReady, If
<1> QED BY <1>1, <1>2, <1>3, <1>4, <1>5, <1>6, <1>7

\* A tool for orders works, or its broker, the database or its client could not be built.
LEMMA OrdersWork ==
  ASSUME StartInv, Up, "agents" \in built, NEW tool \in ToolsOf("order")
  PROVE  \/ Works("order", tool)
         \/ tool \in DOMAIN MayBeMissing /\ errors \cap MayBeMissing[tool] # {}
<1>1. /\ ExecutionAvailable(settings)
      /\ tool = "orders" \/ (tool = "symbol_reference"
                             /\ SourceReady(settings, "symbol_reference"))
  BY DEF ToolsOf, OrderToolbox, If, OfReady
<1>2. /\ \A c \in {"market_signals", "processes", "pending_actions", "proposals"} :
            c \in built <=> "sessions" \in built
      /\ "sessions" \in built \cup errors
      /\ \A c \in Broker : c \in built \cup errors <=> c = settings.broker
      /\ \A c \in {"yahoo", "alpaca_data", "alpha_vantage", "eodhd", "reddit",
                   "sec_edgar"} : c \in built \cup errors <=> c \in SelectedClients
      /\ built \cap ServiceNames = Services
  BY FinishedRuntime
<1>3. CASE tool = "orders"
  <2>1. Works("order", tool) <=> {"broker_read", "broker_execution", "pending_actions"}
                                   \subseteq built
    BY <1>3, AgentsAreHanded DEF Works, OrderFunctionWorks
  <2>2. tool \in DOMAIN MayBeMissing
        /\ MayBeMissing[tool] = {"trading212", "alpaca", "sessions"}
    BY <1>3 DEF MayBeMissing
  <2>3. BrokerReady(settings) /\ settings.broker \in Broker
    BY <1>1 DEF ExecutionAvailable, BrokerReady
  <2>4. settings.broker \in built \/ errors \cap MayBeMissing[tool] # {}
    BY <1>2, <2>2, <2>3 DEF Broker
  <2>5. settings.broker \in built => {"broker_read", "broker_execution"} \subseteq built
    <3>1. settings.broker \in built
          => {"broker_read", "broker_execution"} \subseteq Services
      BY <2>3 DEF Services
    <3> QED BY <1>2, <3>1
  <2> QED BY <1>2, <2>1, <2>2, <2>4, <2>5
<1>4. CASE tool = "symbol_reference" /\ SourceReady(settings, "symbol_reference")
  <2>1. Works("order", tool) <=> "symbol_reference" \in built
    BY <1>4, AgentsAreHanded DEF Works, OrderFunctionWorks
  <2>2. tool \in DOMAIN MayBeMissing /\ MayBeMissing[tool] = {"eodhd"}
    BY <1>4 DEF MayBeMissing
  <2>3. "symbol_reference" \in Sources \ {"search"}
    BY DEF Sources
  <2>4. SourceClient[settings.source["symbol_reference"]] = "eodhd"
    <3>1. settings.source["symbol_reference"] = "eodhd"
      BY <1>4 DEF SourceReady, Provider
    <3> QED BY <3>1 DEF SourceClient
  <2>5. "eodhd" \in built \cup errors
    BY <1>2, <1>4, <2>3, <2>4, ReadySources
  <2>6. "eodhd" \in built => "symbol_reference" \in Services
    BY <1>4, <2>3, <2>4 DEF Services
  <2> QED BY <1>2, <2>1, <2>2, <2>5, <2>6
<1> QED BY <1>1, <1>3, <1>4

\* What the other agents are told of, they were handed.
LEMMA OthersWork ==
  ASSUME StartInv, Up, "agents" \in built,
         NEW agent \in Agents \ {"market", "order"}, NEW tool \in ToolsOf(agent)
  PROVE  Works(agent, tool)
<1>1. CASE agent = "reddit_research"
  <2>1. "reddit_research" \in Specialists
    BY <1>1 DEF Agents
  <2>2. "community" \in handed["agents"]
    BY <2>1 DEF Specialists, If
  <2>3. tool = "community"
    BY <1>1 DEF ToolsOf
  <2> QED BY <1>1, <2>2, <2>3 DEF Works
<1>2. CASE agent = "news_judge"
  <2>1. tool \in {"market", "order"}
        \/ (tool = "signals" /\ "market_signals" \in handed["agents"])
    BY <1>2 DEF ToolsOf, NewsJudgeToolbox, If
  <2> QED BY <1>2, <2>1 DEF Works, Specialists, FunctionWorks
<1>3. CASE agent = "orchestrator"
  <2>1. tool \in Specialists
        \/ (tool = "news_monitor" /\ {"processes", "scheduler_alpaca_news_monitor"}
                                       \subseteq handed["agents"] \cup registry)
    BY <1>3 DEF ToolsOf, RoutingToolbox, If
  <2>2. Specialists \subseteq {"order", "market", "reddit_research", "scheduler"}
    BY DEF Specialists, If
  <2>3. "processes" \notin registry
    <3>1. registry \subseteq Capabilities
      BY FinishedRuntime DEF Bindings
    <3> QED BY <3>1 DEF Capabilities, Sources
  <2>4. CASE tool \in Specialists
    BY <1>3, <2>2, <2>4 DEF Works
  <2>5. CASE tool = "news_monitor" /\ "processes" \in handed["agents"]
    BY <1>3, <2>5 DEF Works
  <2> QED BY <2>1, <2>3, <2>4, <2>5
<1> QED BY <1>1, <1>2, <1>3 DEF Agents

\* For each service there is, the analyst is told of its source.
LEMMA AnalystIsTold ==
  ASSUME StartInv, Up
  PROVE  built \cap (Sources \ {"community"}) \subseteq ToolsOf("market")
<1>1. built \cap ServiceNames = Services
  BY FinishedRuntime
<1>2. ASSUME NEW x \in built, x \in Sources, x # "community"
      PROVE  x \in ToolsOf("market")
  <2>1. x \in Services /\ x \notin {"broker_read", "broker_execution"}
    BY <1>1, <1>2 DEF ServiceNames, Sources
  <2>2. SourceReady(settings, x)
    BY <2>1 DEF Services
  <2>3. x \in {"market_data", "market_intelligence", "disclosure", "search",
               "symbol_reference"}
    BY <1>2 DEF Sources
  <2> QED BY <2>2, <2>3 DEF ToolsOf, MarketAnalystToolbox, OfReady
<1> QED BY <1>2

\* Whatever fails, the stacks are built in an order in which none comes before one it
\* uses; what a runtime without failures offers is what its settings were assessed to
\* give; and no agent is told of a tool that cannot work for a reason not put down.
THEOREM OffersAreAsAssessed == StartupSpec => []OffersWhatWasAssessed
<1>1. SetupInit => StartInv
  <2> SUFFICES ASSUME SetupInit PROVE StartInv
    OBVIOUS
  <2>1. step = 0 /\ built = {} /\ handed = <<>> /\ errors = {}
    BY DEF SetupInit
  <2>2. Decided
    BY <2>1, ServicesAreRanked DEF Decided, Building
  <2>3. DOMAIN handed = {}
    BY <2>1
  <2> QED BY <2>1, <2>2, <2>3 DEF StartInv
<1>2. StartInv /\ [SetupNext]_setupVars => StartInv'
  <2> SUFFICES ASSUME StartInv, [SetupNext]_setupVars PROVE StartInv'
    OBVIOUS
  <2>1. CASE step \in {0} /\ step' \in {0, 1} /\ UNCHANGED <<built, handed, errors>>
    <3>1. built = {} /\ errors = {}
      BY <2>1, ServicesAreRanked DEF StartInv, Decided
    <3>2. Decided'
      BY <2>1, <3>1, ServicesAreRanked DEF Decided, Building
    <3> QED BY <2>1, <3>1, <3>2 DEF StartInv
  <2>2. CASE UNCHANGED setupVars
    <3>1. UNCHANGED <<step, built, handed, errors, registry>> /\ UNCHANGED wizardVars
      BY <2>2 DEF setupVars, runtimeVars
    <3>2. \A n \in Building : Components(Steps[n])' = Components(Steps[n])
      BY <3>1, ComponentsStay DEF Building
    <3>3. Services' = Services /\ \A c : CanBeBuilt(c)' = CanBeBuilt(c)
      BY <3>1, ServicesStay, CanBeBuiltStays
    <3>4. Decided'
      BY <3>1, <3>2, <3>3 DEF StartInv, Decided
    <3> QED BY <3>1, <3>4 DEF StartInv
  <2>3. CASE Build
    BY <2>3, BindStep, BuildStep DEF Build
  <2>4. CASE Start
    BY <2>1, <2>4 DEF Start
  <2>5. CASE step = 0 /\ WizardNext /\ UNCHANGED runtimeVars
    BY <2>1, <2>5 DEF runtimeVars
  <2> QED BY <2>2, <2>3, <2>4, <2>5 DEF SetupNext, StartupNext
<1>3. StartInv => OffersWhatWasAssessed
  <2> SUFFICES ASSUME StartInv, Up PROVE OffersWhatWasAssessed
    BY DEF OffersWhatWasAssessed
  <2>1. /\ \A c \in DOMAIN handed : handed[c] = Uses(c) \cap built
        /\ registry = Bindings(built)
    BY FinishedRuntime
  <2>2. errors = {} /\ Consistent =>
           /\ registry = {c \in Capabilities : Available(settings, c)}
           /\ \A c \in Command : Preflight(settings, c) => RunsOn[c] \subseteq built
    BY RegistryIsAssessed, CommandsHaveTheirs
  <2>3. ASSUME "agents" \in built, NEW agent \in Agents, NEW tool \in ToolsOf(agent)
        PROVE  \/ Works(agent, tool)
               \/ tool \in DOMAIN MayBeMissing /\ errors \cap MayBeMissing[tool] # {}
    <3>1. CASE agent = "market"
      BY <2>3, <3>1, AnalystsWork
    <3>2. CASE agent = "order"
      BY <2>3, <3>2, OrdersWork
    <3>3. CASE agent \notin {"market", "order"}
      BY <2>3, <3>3, OthersWork
    <3> QED BY <3>1, <3>2, <3>3
  <2> QED BY <2>1, <2>2, <2>3, AnalystIsTold DEF OffersWhatWasAssessed
<1> QED BY <1>1, <1>2, <1>3, PTL DEF StartupSpec

-----------------------------------------------------------------------------
(* The desks side by side *)

\* What a step at the order desk leaves alone: the configured broker, which the
\* desk of the broker's records reads.
LEMMA BrokerStaysConfigured == OrderNext => UNCHANGED provider
<1>1. NextInteraction \/ ListPendingOrders \/ OrderAppears => UNCHANGED provider
  BY DEF NextInteraction, ListPendingOrders, OrderAppears
<1>2. PrepareCancel => UNCHANGED provider
  BY DEF PrepareCancel, PrepareCancelAction
<1>3. ASSUME NEW order, GetOrder(order) \/ OrderLeaves(order) PROVE UNCHANGED provider
  BY <1>3 DEF GetOrder, OrderLeaves
<1>4. ASSUME NEW r, PrepareOrderAction(r) PROVE UNCHANGED provider
  BY <1>4 DEF PrepareOrderAction
<1>5. ASSUME NEW offer, CancelOrder(offer) \/ SubmitPreparedOrder(offer)
      PROVE  UNCHANGED provider
  BY <1>5 DEF CancelOrder, SubmitPreparedOrder
<1> QED BY <1>1, <1>2, <1>3, <1>4, <1>5 DEF OrderNext

\* A step at one desk is none at the others.
LEMMA StepsAreAtOneDesk ==
  ASSUME [AgentNext]_agentVars
  PROVE  /\ [ScheduleNext]_scheduleVars /\ [OrderNext]_orderVars
         /\ [GuidelineNext]_guidelineVars /\ [SetupNext]_setupVars /\ [RunNext]_runVars
         /\ [SignalNext]_signalVars /\ [CalculatorNext]_calculatorVars
         /\ [RecordNext /\ UNCHANGED provider]_<<recordVars, provider>>
<1>2. UNCHANGED orderVars => UNCHANGED provider
  BY DEF orderVars
<1>3. CASE AtScheduler
  BY <1>2, <1>3 DEF AtScheduler
<1>4. CASE AtOrder
  BY BrokerStaysConfigured, <1>4 DEF AtOrder
<1>5. CASE AtGuidelines
  BY <1>2, <1>5 DEF AtGuidelines
<1>6. CASE AtOperator
  BY <1>2, <1>6 DEF AtOperator
<1>7. CASE AtWorker
  BY <1>2, <1>7 DEF AtWorker
<1>8. CASE AtSignals
  BY <1>2, <1>8 DEF AtSignals
<1>9. CASE AtRecords
  BY <1>2, <1>9 DEF AtRecords
<1>10. CASE AtCalculator
  BY <1>2, <1>10 DEF AtCalculator
<1>11. CASE UNCHANGED agentVars
  BY <1>2, <1>11 DEF agentVars
<1> QED BY <1>3, <1>4, <1>5, <1>6, <1>7, <1>8, <1>9, <1>10, <1>11 DEF AgentNext

\* The operator's steps, before and after the program is up, are the wizard's or
\* leave it alone.
LEMMA OperatorUsesTheWizard ==
  ASSUME [SetupNext]_setupVars PROVE [WizardNext]_wizardVars
<1>1. StartupNext => UNCHANGED wizardVars
  BY DEF StartupNext, Build, Start
<1>2. CASE SetupNext
  BY <1>1, <1>2 DEF SetupNext
<1>3. CASE UNCHANGED setupVars
  BY <1>3 DEF setupVars
<1> QED BY <1>2, <1>3

\* A behaviour of all the desks is one of each: AgentNext gives an agent its own desk's
\* steps, as agent/tooling.py gives a specialist its own tools, so what was proved of
\* one desk can be used of them all.
LEMMA AgentsKeepToTheirDesks ==
  AgentSpec => /\ ScheduleSpec /\ OrderSpec /\ GuidelineSpec /\ StartupSpec /\ WizardSpec
               /\ RunSpec /\ SignalSpec /\ RecordSpec /\ CalculatorSpec
<1>1. AgentInit =>
         /\ ScheduleInit /\ OrderInit /\ GuidelineInit /\ SetupInit /\ WizardInit
         /\ RunInit /\ SignalInit /\ RecordInit /\ CalculatorInit
         /\ provider \in {"trading212", "alpaca"}
  BY DEF AgentInit, OrderInit, SetupInit
<1>2. [AgentNext]_agentVars =>
         /\ [ScheduleNext]_scheduleVars /\ [OrderNext]_orderVars
         /\ [GuidelineNext]_guidelineVars /\ [SetupNext]_setupVars
         /\ [WizardNext]_wizardVars /\ [RunNext]_runVars
         /\ [SignalNext]_signalVars /\ [CalculatorNext]_calculatorVars
         /\ [RecordNext /\ UNCHANGED provider]_<<recordVars, provider>>
  BY StepsAreAtOneDesk, OperatorUsesTheWizard
<1> QED BY <1>1, <1>2, PTL
        DEF AgentSpec, ScheduleSpec, OrderSpec, GuidelineSpec, StartupSpec, WizardSpec,
            RunSpec, SignalSpec, RecordSpec, CalculatorSpec

\* Everything a desk keeps to it keeps to beside the others, whatever the specialist
\* that is used: the invariants of the agents' tools, of what the operator started,
\* of the worker's adapters, the memory of signals, the broker's records and the
\* calculator.
THEOREM AgentsAreSafe ==
  AgentSpec => [](/\ FormsAreRunnable /\ ProposalsAreWithinForm
                  /\ CancelsWhatWasShown /\ OffersAreAsAsked /\ GuidelinesSurvive
                  /\ OffersWhatWasAssessed /\ VerdictsAreSound /\ SignalsAreFound
                  /\ OwnOrderIsTold /\ CalculationsAgree)
BY AgentsKeepToTheirDesks, FormsStayRunnable, ProposalsStayWithinForm,
   CancellationsAreAsShown, OrdersAreAsAsked, GuidelinesAreSafe, OffersAreAsAssessed,
   VerdictsRestOnData, SignalsStayFound, OwnOrderStaysTold, CalculationsAlwaysAgree, PTL

\* So are the two promises about what a step changes: a calendar is kept by whatever
\* the agents do next, and the wizard saves only what the operator asked for.
THEOREM AgentsChangeWhatWasAsked ==
  ASSUME ZonesKeepDates
  PROVE  AgentSpec => CalendarIsKept /\ SavesOnlyWhatWasAsked
<1>1. ScheduleSpec => CalendarIsKept
  BY CalendarStaysKept
<1> QED BY <1>1, AgentsKeepToTheirDesks, SavesAreAsAsked, PTL

=============================================================================
