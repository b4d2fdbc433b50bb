--------------------------- MODULE MCTradeApproval ---------------------------
(* Small instances of TradeApproval for TLC. *)
EXTENDS TradeApproval, TLC

CONSTANTS buy, cancel, r1, owner, stranger

\* The same time to live for all: the runs are about other things than time.
MCTTL == [a \in Action |-> 1]

\* Every action's order is recognisable by its metadata.
MCDistinct == [a \in Action |-> a]

=============================================================================
