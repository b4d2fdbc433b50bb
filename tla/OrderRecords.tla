---------------------------- MODULE OrderRecords ----------------------------
(***************************************************************************)
(* What an order looks like on its way to a broker and back, and how the   *)
(* reconciler knows it again (brokers/models.py, brokers/trading212,       *)
(* alpaca/broker.py, reconciliation/service.py).  The two brokers write an *)
(* order down differently, and neither tells everything about orders that  *)
(* were placed elsewhere.  Reconciliation has what follows from an order   *)
(* once it is recognised, TradeApproval the passes one after the other.    *)
(*                                                                         *)
(* Order 1 is the action's own; an optional field is a set of at most one  *)
(* value.                                                                  *)
(***************************************************************************)
EXTENDS OrderTools

CONSTANT Bids   \* the orders placed at the broker, by the program and elsewhere

R == INSTANCE Reconciliation

VARIABLES
    action,   \* the submitted action: its bid, and whether the order id was kept
    book,     \* the orders at the broker, by number
    listed,   \* what this pass saw of the pending orders, if it did
    told      \* what it concluded, and from which lists

recordVars == <<action, book, listed, told>>

ASSUME BidsAssumption ==
    \A b \in Bids :
       /\ b.side \in Sides /\ b.type \in OrderTypes /\ b.quantity \in Nat \ {0}
       /\ {b.lasting, b.extended} \subseteq BOOLEAN
       /\ ~ PriceMissing(b)

LimitOf(b) == IF b.type \in LimitTypes THEN b.limit ELSE {}
StopOf(b) == IF b.type \in StopTypes THEN b.stop ELSE {}
Signed(b) == IF b.side = "BUY" THEN b.quantity ELSE - b.quantity
Size(quantity) == IF quantity < 0 THEN - quantity ELSE quantity

-----------------------------------------------------------------------------
(* On its way: prepare_order of either service *)

AlpacaOrderType ==
    [MARKET |-> "market", LIMIT |-> "limit", STOP |-> "stop", STOP_LIMIT |-> "stop_limit"]
AlpacaSide == [BUY |-> "buy", SELL |-> "sell"]

AlpacaPayload(b) ==
    [symbol |-> b.ticker, qty |-> b.quantity, side |-> AlpacaSide[b.side],
     type |-> AlpacaOrderType[b.type], limit_price |-> LimitOf(b),
     stop_price |-> StopOf(b), time_in_force |-> IF b.lasting THEN "gtc" ELSE "day",
     extended_hours |-> b.extended]

\* Trading 212 has one endpoint, and one kind of request, for each type.
Trading212Payload(b) ==
    [type |-> b.type, ticker |-> b.ticker, quantity |-> Signed(b),
     limitPrice |-> LimitOf(b), stopPrice |-> StopOf(b),
     timeValidity |-> IF b.type = "MARKET" THEN {} ELSE {b.lasting},
     extendedHours |-> IF b.type = "MARKET" THEN {b.extended} ELSE {}]

\* What is kept in the action.  The id the program gives an order at Alpaca is a
\* digest of what it sends, which stands for it here.
ClientId(b, by) == [of |-> AlpacaPayload(b), by |-> by]
PreparedOrder(b) ==
    [ticker |-> b.ticker, type |-> b.type, side |-> b.side, signed |-> Signed(b),
     limit |-> LimitOf(b), stop |-> StopOf(b),
     client |-> IF provider = "alpaca" THEN {ClientId(b, "program")} ELSE {}]

-----------------------------------------------------------------------------
(* At the broker (external) *)

Trading212Status ==
    {"LOCAL", "UNCONFIRMED", "CONFIRMED", "NEW", "CANCELLING", "CANCELLED",
     "PARTIALLY_FILLED", "FILLED", "REJECTED", "REPLACING", "REPLACED"}
AlpacaStatus ==
    {"accepted", "accepted_for_bidding", "new", "pending_new", "partially_filled",
     "filled", "done_for_day", "canceled", "expired", "replaced", "pending_cancel",
     "pending_replace", "pending_review", "stopped", "rejected", "suspended",
     "calculated", "held"}
StatusAt == IF provider = "alpaca" THEN AlpacaStatus ELSE Trading212Status
\* Not open any more, whereas with any other status an order may be either.
Finished ==
    {"filled", "canceled", "expired", "replaced", "rejected",
     "FILLED", "CANCELLED", "REPLACED", "REJECTED"}

\* An order as the broker keeps it.  By value: Trading 212 was given an amount of
\* money instead of a size; reported: it tells the side; fresh: placed within six
\* hours of the action.
Placed(b, by, value, reported, fresh) ==
    [bid |-> b, by |-> by, value |-> value, reported |-> reported, fresh |-> fresh,
     open |-> TRUE, status |-> IF provider = "alpaca" THEN "new" ELSE "NEW"]

-----------------------------------------------------------------------------
(* And back: _broker_order of either service *)

MappedStatus ==
    [accepted |-> "ACCEPTED", accepted_for_bidding |-> "ACCEPTED_FOR_BIDDING",
     new |-> "NEW", pending_new |-> "PENDING_NEW", filled |-> "FILLED",
     partially_filled |-> "PARTIALLY_FILLED", done_for_day |-> "DONE_FOR_DAY",
     canceled |-> "CANCELLED", expired |-> "EXPIRED", replaced |-> "REPLACED",
     pending_cancel |-> "PENDING_CANCEL", pending_replace |-> "PENDING_REPLACE",
     pending_review |-> "PENDING_NEW", stopped |-> "STOPPED",
     rejected |-> "REJECTED", suspended |-> "SUSPENDED", calculated |-> "CALCULATED"]

\* The word behind one of Alpaca's, and nothing for one it does not know.
Mapped(map, word) == {x \in DOMAIN map : map[x] = word}
MapOrderStatus(word) == {MappedStatus[x] : x \in {word} \cap DOMAIN MappedStatus}

FromAlpaca(o) ==
    LET raw == AlpacaPayload(o.bid)
    IN  [ticker |-> raw.symbol, type |-> Mapped(AlpacaOrderType, raw.type),
         side |-> Mapped(AlpacaSide, raw.side), quantity |-> {raw.qty},
         limit |-> raw.limit_price, stop |-> raw.stop_price,
         client |-> {ClientId(o.bid, o.by)}, status |-> MapOrderStatus(o.status)]

FromTrading212(o) ==
    LET raw == Trading212Payload(o.bid)
    IN  [ticker |-> raw.ticker, type |-> {raw.type},
         side |-> IF o.reported THEN {o.bid.side} ELSE {},
         quantity |-> IF o.value THEN {} ELSE {raw.quantity},
         limit |-> raw.limitPrice, stop |-> raw.stopPrice,
         client |-> {}, status |-> {o.status}]

BrokerOrder(o) == IF provider = "alpaca" THEN FromAlpaca(o) ELSE FromTrading212(o)

-----------------------------------------------------------------------------
(* Recognised: reconciliation/service.py *)

\* The groups Reconciliation knows; what no branch names is "expired" to it.
ActiveRemoteStatuses ==
    {"LOCAL", "UNCONFIRMED", "CONFIRMED", "NEW", "CANCELLING", "PENDING_CANCEL",
     "REPLACING", "PENDING_REPLACE", "DONE_FOR_DAY", "ACCEPTED",
     "ACCEPTED_FOR_BIDDING", "PENDING_NEW"}
Grouped ==
    [filled |-> {"FILLED"}, partially_filled |-> {"PARTIALLY_FILLED"},
     cancelled |-> {"CANCELLED", "REPLACED"}, rejected |-> {"REJECTED"},
     pending |-> ActiveRemoteStatuses]
Group(status) ==
    OneOf({g \in DOMAIN Grouped : status \cap Grouped[g] # {}}, "expired")

\* For mutation testing: the sign of a sale is compared as well.
SameSignedSize(order, prepared) == \A q \in order.quantity : q = prepared.signed

\* _order_matches_action: what the broker does not tell is not compared, but for
\* the type and the side.
SameSize(order, prepared) == \A q \in order.quantity : Size(q) = Size(prepared.signed)
Unlike(x, y) == x # {} /\ y # {} /\ x # y
OrderMatchesAction(prepared, o) ==
    LET order == BrokerOrder(o)
    IN  /\ order.ticker = prepared.ticker
        /\ order.type = {prepared.type} /\ order.side = {prepared.side}
        /\ SameSize(order, prepared)
        /\ ~ Unlike(order.client, prepared.client)
        /\ ~ Unlike(order.limit, prepared.limit)
        /\ ~ Unlike(order.stop, prepared.stop)
        /\ o.fresh

-----------------------------------------------------------------------------
OpenOrders == {o \in DOMAIN book : book[o].open}
\* Alpaca's history is of all orders, Trading 212's of those that are over.
HistoricalOrders == {o \in DOMAIN book : provider = "alpaca" \/ ~ book[o].open}
\* The id the broker's answer to the submission had, if it had one.
SubmitOrderRef == IF action.kept THEN 1 ELSE R!NoOrder

NotTold == [outcome |-> "none", open |-> {}, page |-> {}, status |-> <<>>]

RecordInit ==
    /\ action \in [bid : Bids, kept : BOOLEAN]
    /\ \E reported \in {provider = "alpaca", TRUE} :
          book = <<Placed(action.bid, "program", FALSE, reported, TRUE)>>
    /\ listed = {}
    /\ told = NotTold

\* External: another order, of the program's or placed elsewhere.
OtherPlaced(b) ==
    /\ Len(book) = 1 /\ listed = {} /\ told = NotTold
    /\ \E by \in {"program", "person"}, value \in {FALSE, provider = "trading212"},
          fresh \in BOOLEAN :
          /\ value => by = "person"
          /\ book' = Append(book, Placed(b, by, value, TRUE, fresh))
    /\ UNCHANGED <<action, listed, told>>

\* External: an order changes its status; the other one either stays or is filled.
OrderMoves(o, status, open) ==
    /\ book[o].open /\ told = NotTold
    /\ status \in Finished => ~ open
    /\ o # 1 => status \in {"filled", "FILLED"}
    /\ book' = [book EXCEPT ![o].status = status, ![o].open = open]
    /\ UNCHANGED <<action, listed, told>>

\* A pass looks at the pending orders, at Alpaca at the 200 newest.
LookAtPending ==
    /\ listed = {} /\ told = NotTold
    /\ \E seen \in SUBSET OpenOrders :
          /\ provider = "trading212" => seen = OpenOrders
          /\ listed' = {seen}
    /\ UNCHANGED <<action, book, told>>

\* Then at a page of the history, at Alpaca with the pending orders on it, and
\* works out what became of the action.
LookAtHistory ==
    /\ listed # {}
    /\ LET prepared == PreparedOrder(action.bid)
           status == [o \in DOMAIN book |-> Group(BrokerOrder(book[o]).status)]
           alike == {o \in DOMAIN book : OrderMatchesAction(prepared, book[o])}
           open == OneOf(listed, {})
           outcome(page) ==
              R!ResolveSubmit(SubmitOrderRef, open, page, alike, status).outcome
       IN  \E page \in SUBSET HistoricalOrders :
              told' = [outcome |-> outcome(page),
                       open |-> open, page |-> page,
                       status |-> [o \in DOMAIN book |-> book[o].status]]
    /\ listed' = {}
    /\ UNCHANGED <<action, book>>

RecordNext ==
    \/ LookAtPending \/ LookAtHistory
    \/ \E b \in Bids : OtherPlaced(b)
    \/ \E o \in DOMAIN book, status \in StatusAt, open \in BOOLEAN :
          OrderMoves(o, status, open)

\* The broker is one of the two, and is what it is.
RecordSpec ==
    /\ provider \in {"trading212", "alpaca"} /\ RecordInit
    /\ [][RecordNext /\ UNCHANGED provider]_<<recordVars, provider>>

-----------------------------------------------------------------------------
(* Properties *)

\* What a broker's words mean to a person.
Means ==
    [filled |-> {"filled", "FILLED"}, rejected |-> {"rejected", "REJECTED"},
     partially_filled |-> {"partially_filled", "PARTIALLY_FILLED"},
     cancelled |-> {"canceled", "CANCELLED", "replaced", "REPLACED"}]
Ended(o, outcome) == told.status[o] \in Means[outcome]

\* As good as the action's own: at Alpaca the program sent the very same, at
\* Trading 212 it agrees in all that is told of it.
Alike(o) ==
    LET b == book[o].bid
    IN  /\ book[o].fresh
        /\ IF provider = "alpaca"
           THEN book[o].by = "program" /\ AlpacaPayload(b) = AlpacaPayload(action.bid)
           ELSE /\ b.ticker = action.bid.ticker /\ b.type = action.bid.type
                /\ b.side = action.bid.side
                /\ b.quantity = action.bid.quantity \/ book[o].value
                /\ LimitOf(b) = LimitOf(action.bid) /\ StopOf(b) = StopOf(action.bid)

\* An action ends as the order it placed did, whichever broker wrote that down and
\* however much it told.  Another order's end is taken for its own only if the two
\* cannot be told apart, and its own is not to be seen, or there is no id to go by
\* and its own is told without its side or was pending along with the other.  And
\* its own is recognised where it is seen, by its id, or without one if no other
\* could be meant.
OwnOrderIsTold ==
    told.outcome # "none" =>
       LET seen == told.open \cup told.page
           known == 1 \in seen /\ (action.kept \/ book[1].reported)
           confused == ~ action.kept /\ told.open = {1, 2}
       IN  /\ told.outcome \in DOMAIN Means =>
                 \E o \in told.page :
                    /\ Ended(o, told.outcome)
                    /\ o \in told.open => confused
                    /\ o # 1 => Alike(o) /\ (known => confused)
           /\ known /\ (action.kept \/ \A o \in seen \ {1} : ~ Alike(o)) =>
                 IF 1 \in told.open
                 THEN told.outcome = "pending"
                 ELSE \A x \in DOMAIN Means : Ended(1, x) => told.outcome = x

=============================================================================
