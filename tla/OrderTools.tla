----------------------------- MODULE OrderTools -----------------------------
(***************************************************************************)
(* The broker tools of the order specialist (brokers/tools) and what the   *)
(* two broker services do for them (brokers/trading212, alpaca/broker.py): *)
(* the public references of the pending orders, the preparation of a       *)
(* cancellation and of an order, and the execution of either long after.   *)
(* PendingActions has the life of an approval in between.                  *)
(*                                                                         *)
(* Instruments are numbers, in the order of their tickers; pending orders  *)
(* are numbers, in the order of their creation.  The broker itself is      *)
(* external: orders come and go as it likes.                               *)
(***************************************************************************)
EXTENDS ToolArguments, SequencesExt

CONSTANTS
    Instruments,      \* the broker's catalogue
    Score,            \* how well an instrument fits each query
    Unusual,          \* the query that is its ticker, of each instrument whose ticker
                      \* has not the form of Trading 212's
    MinScore,         \* MIN_MATCH_SCORE
    Margin,           \* MIN_AUTO_RESOLVE_MARGIN
    Requests,         \* orders a model may ask for
    Quotes,           \* prices on the market or of a holding
    Holdings,         \* what may be held of an instrument: [all, free]
    MaxPlaced,        \* bound on the orders ever placed
    MaxInteractions,  \* bound on the interactions of a chat
    MaxOffers         \* bound on the actions prepared

Currency == {"EUR", "USD"}
Query == DOMAIN Score

\* The arguments of broker_prepare_order_action.
Request ==
    [query : Query, type : OrderTypes, side : Sides, quantity : Maybe(Int),
     amount : Maybe(Int), currency : Maybe(Currency), limit : Maybe(Int),
     stop : Maybe(Int), extended : BOOLEAN, lasting : BOOLEAN]

ASSUME RequestsAssumption ==
    /\ Instruments \subseteq Nat /\ IsFiniteSet(Instruments)
    /\ \A q \in Query : Score[q] \in [Instruments -> Nat]
    /\ \A i \in DOMAIN Unusual : i \in Instruments /\ Unusual[i] \in Query
    /\ \A r \in Requests : r \in Request
    /\ \A quote \in Quotes : quote.price \in Int
    /\ \A h \in Holdings : h.free \in 0..h.all
    /\ {MinScore, Margin, MaxPlaced, MaxInteractions, MaxOffers} \subseteq Nat \ {0}

-----------------------------------------------------------------------------
(* Instruments *)

Better(q, i, j) == Score[q][i] > Score[q][j] \/ (Score[q][i] = Score[q][j] /\ i < j)

\* The order of the candidates, by those ahead of each.
RankCandidates(q) == {i \in Instruments : Score[q][i] >= MinScore}
Ahead(q, i) == {j \in RankCandidates(q) : Better(q, j, i)}

\* The first candidate, if it is ahead of the others of those looked at, or of zero.
Resolve(q, limit) ==
    LET candidates == {i \in RankCandidates(q) : Cardinality(Ahead(q, i)) < limit}
        runnersUp(i) == {Score[q][j] : j \in candidates \ {i}}
    IN  {i \in candidates : /\ Ahead(q, i) = {}
                            /\ \A score \in {0} \cup runnersUp(i) :
                                  Score[q][i] - score >= Margin}

\* For mutation testing: no more than the first candidate is looked at.
ResolveFirst(q) == Resolve(q, 1)

\* Trading 212's service, with the default limit.
ResolveOrderInstrument(q) == Resolve(q, 8)

-----------------------------------------------------------------------------
(* Sizes *)

LimitTypes == {"LIMIT", "STOP_LIMIT"}
StopTypes == {"STOP", "STOP_LIMIT"}

\* For mutation testing: a stop limit order is sized at its stop.
SizingPriceAtStop(r) ==
    IF r.type \in StopTypes THEN r.stop ELSE IF r.type = "LIMIT" THEN r.limit ELSE {}

ExplicitSizingPrice(r) ==
    IF r.type \in LimitTypes THEN r.limit ELSE IF r.type = "STOP" THEN r.stop ELSE {}

\* The price of the holding for a sale, a quote for a purchase.
NoQuote == [price |-> 0, currency |-> {}]
SizingPrice(r, quote) == OneOf(ExplicitSizingPrice(r), quote.price)

\* Shares of the smallest size, rounded down.
ResolveQuantity(r, quote) ==
    IF r.quantity # {} THEN OneOf(r.quantity, 0)
                       ELSE OneOf(r.amount, 0) \div SizingPrice(r, quote)

SizeRefused(r, quote) ==
    \/ (r.quantity = {}) = (r.amount = {})
    \/ /\ r.amount # {}
       /\ \/ NotPositive(r.amount)
          \/ SizingPrice(r, quote) <= 0
          \/ /\ ExplicitSizingPrice(r) = {}
             /\ r.currency # {} /\ quote.currency # {} /\ r.currency # quote.currency

-----------------------------------------------------------------------------
(* The two services *)

\* prepare_order: Alpaca takes the symbol it is given and does not look at the
\* sign of a price.
PriceMissing(r) ==
    (r.type \in LimitTypes /\ r.limit = {}) \/ (r.type \in StopTypes /\ r.stop = {})
PriceRefused(r) ==
    \/ r.type \in LimitTypes /\ NotPositive(r.limit)
    \/ r.type \in StopTypes /\ NotPositive(r.stop)

InstrumentsFor(provider, r) ==
    IF provider = "alpaca" THEN {r.query} ELSE ResolveOrderInstrument(r.query)

PrepareRefused(provider, r, quantity) ==
    \/ quantity <= 0 \/ PriceMissing(r)
    \/ provider = "trading212" /\ PriceRefused(r)
    \/ provider = "alpaca" /\ r.extended /\ (r.type # "LIMIT" \/ r.lasting)

\* _validate_sell_order_against_portfolio, before a sale is submitted to Trading
\* 212: with nothing free it is the whole holding that counts.
SaleBlocked(provider, order, held) ==
    /\ provider = "trading212" /\ order.side = "SELL"
    /\ \/ held = {}
       \/ \E h \in held : order.quantity > IF h.free = 0 THEN h.all ELSE h.free

\* _validate_prepared_order_ticker: the order has the resolution it was prepared with,
\* but a ticker of another form is looked up again, among fewer candidates.
TickerUnconfirmed(provider, order) ==
    /\ provider = "trading212" /\ order.instrument \in DOMAIN Unusual
    /\ Resolve(Unusual[order.instrument], 5) # {order.instrument}

SubmissionRefused(provider, order, held) ==
    SaleBlocked(provider, order, held) \/ TickerUnconfirmed(provider, order)

-----------------------------------------------------------------------------
VARIABLES
    provider,     \* the configured broker
    pending,      \* the orders pending there
    placed,       \* number of the last order placed there
    interaction,  \* number of the interaction, one to a message of the chat
    references,   \* its reference map: the order behind each public reference
    shown,        \* what the model was shown: [interaction, ref, order]
    offers        \* the actions prepared, with the request behind each

orderVars == <<provider, pending, placed, interaction, references, shown, offers>>

OrderInit ==
    /\ provider \in {"trading212", "alpaca"}
    /\ placed \in 0..(MaxPlaced - 1)
    /\ pending = 1..placed
    /\ interaction = 1
    /\ references = <<>>
    /\ shown = {}
    /\ offers = {}

\* For mutation testing: each listing numbers its orders anew.
RegisterAnew(refs, orders) == SetToSeqs(orders)

\* BrokerReferenceMap.register, for orders listed in whatever order the broker has
\* them: one known keeps its number, the others get the next.
Register(refs, orders) ==
    {refs \o new : new \in SetToSeqs(orders \ Range(refs))}

Shown(refs, orders) ==
    {[interaction |-> interaction, ref |-> n, order |-> refs[n]] :
        n \in {m \in DOMAIN refs : refs[m] \in orders}}

\* The next message of the chat gets tools with an empty map.
NextInteraction ==
    /\ interaction < MaxInteractions
    /\ interaction' = interaction + 1
    /\ references' = <<>>
    /\ UNCHANGED <<provider, pending, placed, shown, offers>>

\* broker_list_pending_orders, or the pending orders of a portfolio snapshot.
ListPendingOrders ==
    /\ references' \in Register(references, pending)
    /\ shown' = shown \cup Shown(references', pending)
    /\ UNCHANGED <<provider, pending, placed, interaction, offers>>

\* broker_get_order, pending or not, by a native id or by a public reference, which
\* has to be one of this interaction.
GetOrder(order) ==
    /\ references' \in Register(references, {order})
    /\ shown' = shown \cup Shown(references', {order})
    /\ UNCHANGED <<provider, pending, placed, interaction, offers>>

\* The order a cancellation is for: by public reference, which is unknown unless
\* this interaction gave it out, by native id, or by a selector, which does not
\* matter when there is only one.
TargetsByRef(ref) == {references[n] : n \in {ref} \cap DOMAIN references} \cap pending
TargetsBySelector(selector) ==
    CASE Cardinality(pending) <= 1 -> pending
      [] OTHER -> {o \in pending :
                     \/ selector = "oldest" /\ \A p \in pending : o <= p
                     \/ selector = "latest" /\ \A p \in pending : o >= p}

CancelOffer(ref, order) ==
    [kind |-> "cancel", interaction |-> interaction, ref |-> ref, order |-> order,
     done |-> FALSE]

\* broker_prepare_cancel_action registers the pending orders on its way, even if
\* it comes to nothing, but shows the model its target only.
PrepareCancelAction(ref, targets) ==
    /\ references' \in Register(references, pending)
    /\ \/ \E order \in targets :
             /\ Cardinality(offers) < MaxOffers
             /\ offers' = offers \cup {CancelOffer(ref, order)}
             /\ shown' = shown \cup Shown(references', {order})
       \/ targets = {} /\ UNCHANGED <<offers, shown>>
    /\ UNCHANGED <<provider, pending, placed, interaction>>

PrepareCancel ==
    \/ \E ref \in 1..MaxPlaced :
          ref \in DOMAIN references /\ PrepareCancelAction({ref}, TargetsByRef(ref))
    \/ \E order \in pending : PrepareCancelAction({}, {order})
    \/ \E selector \in {"only", "oldest", "latest", "none"} :
          PrepareCancelAction({}, TargetsBySelector(selector))

\* broker_prepare_order_action
PrepareOrderAction(r) ==
    /\ Cardinality(offers) < MaxOffers
    /\ \E quote \in Quotes \cup {NoQuote} :
          /\ ~ SizeRefused(r, quote)
          /\ ~ PrepareRefused(provider, r, ResolveQuantity(r, quote))
          /\ \E instrument \in InstrumentsFor(provider, r) :
                offers' = offers \cup
                    {[kind |-> "submit", request |-> r, instrument |-> instrument,
                      side |-> r.side, quantity |-> ResolveQuantity(r, quote),
                      done |-> FALSE]}
    /\ UNCHANGED <<provider, pending, placed, interaction, references, shown>>

\* An approved action is carried out on the broker as it is by then: a
\* cancellation of the order with that id, a submission of what was prepared.
Done(offer) == (offers \ {offer}) \cup {[offer EXCEPT !.done = TRUE]}
CancelOrder(offer) ==
    /\ offer.kind = "cancel" /\ ~ offer.done
    /\ pending' = pending \ {offer.order}
    /\ offers' = Done(offer)
    /\ UNCHANGED <<provider, placed, interaction, references, shown>>

SubmitPreparedOrder(offer) ==
    /\ offer.kind = "submit" /\ ~ offer.done
    /\ \E held \in Maybe(Holdings) :
          \/ SubmissionRefused(provider, offer, held) /\ UNCHANGED <<placed, pending>>
          \/ /\ ~ SubmissionRefused(provider, offer, held)
             /\ placed < MaxPlaced
             /\ placed' = placed + 1
             /\ pending' = pending \cup {placed'}
    /\ offers' = Done(offer)
    /\ UNCHANGED <<provider, interaction, references, shown>>

\* External: an order is placed elsewhere, or is filled or cancelled.
OrderAppears ==
    /\ placed < MaxPlaced
    /\ placed' = placed + 1
    /\ pending' = pending \cup {placed'}
    /\ UNCHANGED <<provider, interaction, references, shown, offers>>
OrderLeaves(order) ==
    /\ pending' = pending \ {order}
    /\ UNCHANGED <<provider, placed, interaction, references, shown, offers>>

OrderNext ==
    \/ NextInteraction \/ ListPendingOrders \/ PrepareCancel \/ OrderAppears
    \/ \E order \in 1..placed : GetOrder(order)
    \/ \E order \in pending : OrderLeaves(order)
    \/ \E r \in Requests : PrepareOrderAction(r)
    \/ \E offer \in offers : CancelOrder(offer) \/ SubmitPreparedOrder(offer)

OrderSpec == OrderInit /\ [][OrderNext]_orderVars

-----------------------------------------------------------------------------
(* Properties *)

\* Within an interaction a public reference and an order determine each other,
\* however the orders come, go and are listed between two looks, and a
\* cancellation asked for by a reference is for the order the model was shown
\* under it, where it was shown one.
CancelsWhatWasShown ==
    /\ \A x, y \in shown :
          x.interaction = y.interaction => (x.ref = y.ref <=> x.order = y.order)
    /\ \A offer \in offers : offer.kind = "cancel" =>
          \A x \in shown :
             x.interaction = offer.interaction /\ x.ref \in offer.ref
                => x.order = offer.order

\* An order prepared for a query is for an instrument no other of the broker's
\* catalogue comes close to, though the candidates are cut off first; and a
\* purchase at a limit that was asked for as an amount of money costs no more
\* than that amount at its limit, and no share less than it could.
OffersAreAsAsked ==
    \A offer \in offers : offer.kind = "submit" =>
       LET r == offer.request
       IN  /\ provider = "trading212" =>
                \A i \in Instruments \ {offer.instrument} :
                   Score[r.query][i] >= MinScore =>
                      Score[r.query][i] + Margin <= Score[r.query][offer.instrument]
           /\ \A a \in r.amount, p \in r.limit :
                r.type \in LimitTypes =>
                   offer.quantity * p <= a /\ a < (offer.quantity + 1) * p

=============================================================================
