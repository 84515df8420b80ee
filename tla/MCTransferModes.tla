-------------------------- MODULE MCTransferModes --------------------------
(* Transfer in two modes: two transfers whose requests are served one after  *)
(* the other and lose nothing, or one transfer whose requests interleave.    *)
EXTENDS MCTransfer

VARIABLE serial

Lead == CHOOSE p \in Requests : TRUE
ModeInit == Init /\ serial \in BOOLEAN
\* A step of the only request there is, of the user or of the provider.
Turn ==
  /\ lost' = 0
  /\ \/ InitiateTransfer
     \/ \E t \in TxIds : PayoutEnds(t) \/ Notice(Lead, t)
     \/ UNCHANGED lost /\ (StartVerify(Lead) \/ StartReceipt(Lead))
     \/ Advance(Lead)
ModeNext ==
  /\ UNCHANGED serial
  /\ \/ serial /\ Turn
     \/ /\ ~serial /\ Next
        /\ \A t \in TxIds \ Tx1 : tx'[t] = BlankRow
ModeSpec == ModeInit /\ [][ModeNext]_<<vars, serial>> /\ Fairness

\* Transfers served one after the other overdraw no wallet and no coin, leave the
\* ledgers as the rows say, and are settled when all is quiet (Transfer's NoOverdraft,
\* BooksBalance and Settled).
SerialBooks == serial => NoOverdraft /\ BooksBalance /\ Settled
\* A withdrawal in progress ends, once the provider has ended it, when requests are
\* served one after the other.
SettlesInTurn ==
  \A t \in TxIds : serial /\ tx[t].status = "processing" ~> tx[t].status \in Final
=============================================================================
