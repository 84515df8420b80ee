---------------------------- MODULE BushaHistory ----------------------------
(***************************************************************************)
(* A user looks at the transaction history while trades with Busha are     *)
(* under way (modules/transaction-history/transaction-history.service.ts,  *)
(* getTransactionHistory and getTransactionDetails).  Showing it writes: a *)
(* fiat row that was read pending is ended as the log of its trade says.   *)
(* The rows are read, then the log, then row by row what differs is        *)
(* written, and handlers of BushaTrade may run in between.                 *)
(***************************************************************************)
EXTENDS BushaTrade

VARIABLE view   \* the history being shown: how far it is and what it has to write

historyVars == <<vars, view>>

Showing(at, S) == [at |-> at, rows |-> S]
Away == Showing("away", {})

\* What the log of a trade says of its fiat row.
Outcome(t) ==
  CASE trade[t].status \in {"completed", "wallet_credited"} -> "completed"
    [] trade[t].status \in {"busha_failed", "palmpay_failed", "buy_reversed"} -> "failed"
    [] OTHER -> "pending"

HistoryInit == Init /\ view = Away

\* The user's rows are read, and those that are pending remembered.
ReadRows(u) ==
  /\ view = Away
  /\ view' = Showing("log", {t \in TradesOf(u) : fiat[t] = "pending"})
  /\ UNCHANGED vars

\* The logs of the trades are read; rows they say nothing of are shown as they are.
ReadTrades ==
  /\ view.at = "log"
  /\ view' = Showing("persist", {<<t, Outcome(t)>> : t \in
                                   {k \in view.rows : Outcome(k) # "pending"}})
  /\ UNCHANGED vars

\* "Persist obvious mismatches so list + wallet stay consistent": each row is
\* written by its id, whatever has become of it.
Persist ==
  \E c \in view.rows :
    /\ view.at = "persist"
    /\ SetFiat(c[1], c[2])
    /\ view' = Showing("persist", view.rows \ {c})
    /\ UNCHANGED <<trade, wallet, transfer, palmpay, req, lost, disturbed>>

Show ==
  /\ view = Showing("persist", {})
  /\ view' = Away
  /\ UNCHANGED vars

\* getTransactionDetails: the row of one trade is read, then its trade.  A trade that is
\* open is settled first, by a handler like any other, and both are read again.  A row
\* pending under a completed trade is ended.
OpenDetails(t) ==
  /\ view = Away /\ fiat[t] # "none"
  /\ view' = Showing("trade", {<<t, fiat[t]>>})
  /\ UNCHANGED vars
Sync(t, row) ==
  /\ view' = Showing("persist", IF Outcome(t) = "completed" /\ row = "pending"
                                THEN {<<t, "completed">>} ELSE {})
  /\ UNCHANGED vars
LookAtTrade ==
  \E c \in view.rows :
    /\ view.at = "trade"
    /\ IF trade[c[1]].status \in Open
       THEN \E p \in Requests :
              StartSettle(p, c[1]) /\ view' = Showing("settling", {<<c[1], p>>})
       ELSE Sync(c[1], c[2])
Refresh ==
  \E c \in view.rows :
    /\ view.at = "settling" /\ At(c[2], "idle")
    /\ Sync(c[1], fiat[c[1]])

HistoryNext ==
  \/ Next /\ UNCHANGED view
  \/ (\E u \in Users : ReadRows(u)) \/ ReadTrades \/ Persist \/ Show
  \/ (\E t \in TradeIds : OpenDetails(t)) \/ LookAtTrade \/ Refresh

HistorySpec == HistoryInit /\ [][HistoryNext]_historyVars

\* What the comment at the write promises, when nobody has the history open: list and
\* wallet are consistent.  A user whose handlers never met and were never cut short
\* has in the wallet what the rows of the list leave there (BushaTrade's BooksBalance).
ListAndWalletConsistent == view = Away => BooksBalance
=============================================================================
