------------------------------- MODULE MCChase -------------------------------
(***************************************************************************)
(* Instances of ChaseService for TLC: one symbol, one long position and a  *)
(* mark price that starts in the band between stop loss and take profit.   *)
(***************************************************************************)
EXTENDS ChaseProperties

CONSTANTS btc, h1, h2

Entry(qty) == [symbol |-> btc, side |-> "BUY", positionSide |-> "LONG",
               quantity |-> qty, takeProfit |-> 12, stopLoss |-> 8]
OneLot == {Entry(1)}
TwoLots == {Entry(2)}

\* The mark price is in the band or at the stop loss; a first book, or one
\* that moves, makes room for replacements of the entry and of the exit.
Mark(m) == [symbol |-> btc, bid |-> 0, ask |-> 0, mark |-> m]
Book(b) == [symbol |-> btc, bid |-> b, ask |-> b + 1, mark |-> 0]
Up      == {Mark(10), Book(10)}
Moves   == Up \cup {Book(7)}
Falls   == {Mark(10), Mark(8)}
Crosses == {Mark(10), Mark(8), Book(10)}
=============================================================================
