----------------------------- MODULE MCP2PModes -----------------------------
(* Beside the two modes of MCP2PTurn what surrounds an order: the ad it is   *)
(* placed on, its review, what its parties write to each other, and what one *)
(* of them is shown of the ledger.  Only the chosen mode moves.              *)
EXTENDS MCP2PTurn, OrderViews

CONSTANTS MaxTalk, MaxAdWrites

VARIABLES adType, ledger, reader,
          ad, active, shown, placed, adReq, adCrossed, moved, writes,
          kind, status, review, made, aged, reviewReq, said, reviewCrossed, kept,
          place, messages, chatStatus, updatedAt, members, sentCount, chatReq, looking,
          chatLost

shownVars == <<adType, ledger, reader>>
adVars == <<ad, active, shown, placed, adReq, adCrossed, moved, writes>>
reviewVars == <<kind, status, review, made, aged, reviewReq, said, reviewCrossed, kept>>
chatVars == <<place, messages, chatStatus, updatedAt, members, sentCount, chatReq, looking,
              chatLost>>

\* ann's ad takes a bank transfer, or Rhinox Pay in any currency; bob has one of each.
Saved ==
  [annBank |-> [of |-> "ann", type |-> "bank_account", at |-> "first"],
   annPay  |-> [of |-> "ann", type |-> "rhinoxpay_id", at |-> "none"],
   bobBank |-> [of |-> "bob", type |-> "bank_account", at |-> "first"],
   bobPay  |-> [of |-> "bob", type |-> "rhinoxpay_id", at |-> "NGN"]]
AdForms ==
  {[price |-> 1, volume |-> 3, minOrder |-> 1, maxOrder |-> 3, methods |-> {"annBank"}],
   [price |-> 2], [minOrder |-> 2], [maxOrder |-> 1], [volume |-> 1],
   [methods |-> {"annPay"}]}
ReviewForms ==
  {[type |-> "positive"], [type |-> "negative", comment |-> "slow"], [comment |-> "good"]}

Statements ==
  INSTANCE Statement WITH User <- "ann", Peer <- "bob", MaxRows <- 2, PageSize <- 1
Trading ==
  INSTANCE Market WITH
    Methods <- DOMAIN Saved, Method <- Saved, VendorId <- "ann", UserId <- "bob",
    Forms <- AdForms, Asked <- Amounts, MaxWrites <- MaxAdWrites,
    order <- placed, req <- adReq, crossed <- adCrossed
Reviewing ==
  INSTANCE Reviews WITH
    VendorId <- "ann", UserId <- "bob", Forms <- ReviewForms, MaxReviews <- 2,
    req <- reviewReq, crossed <- reviewCrossed
Talk ==
  INSTANCE Messages WITH
    Owner <- "ann", Other <- "bob", MaxMessages <- MaxTalk,
    rows <- messages, status <- chatStatus, req <- chatReq, lost <- chatLost

\* Of two users' notifications, one's are listed; requests are lost at the support's chat.
Talking ==
  /\ Talk!Next
  /\ place = "bell" => looking' \subseteq {"ann"} /\ chatLost' = 0

ModeInit ==
  /\ mode \in {"in turn", "interleaved", "shown", "ad", "review", "talk"}
  /\ Init /\ Statements!Init /\ Trading!Init /\ Reviewing!Init /\ Talk!Init
  /\ mode # "shown" => adType = "buy"
  /\ mode # "review" => kind = "buy"
  /\ mode # "talk" => place = "order"
ModeNext ==
  /\ OrdersNext
  /\ IF mode = "shown" THEN Statements!Next ELSE UNCHANGED shownVars
  /\ IF mode = "ad" THEN Trading!Next ELSE UNCHANGED adVars
  /\ IF mode = "review" THEN Reviewing!Next ELSE UNCHANGED reviewVars
  /\ IF mode = "talk" THEN Talking ELSE UNCHANGED chatVars
ModeSpec ==
  ModeInit /\ [][ModeNext]_<<mode, vars, shownVars, adVars, reviewVars, chatVars>>

\* The views of the ledger agree with each other and with what moved the wallets, and
\* paging through one skips nothing (Statement's TypeOK, ViewsAgree,
\* SidesFollowEffects and PagesSkipNothing); lists of orders, profiles and balances
\* agree with the orders served in turn (OrderViews' OrdersListed and BalancesAgree).
StatementAgrees ==
  /\ mode = "shown" =>
       /\ Statements!TypeOK /\ Statements!ViewsAgree /\ Statements!SidesFollowEffects
       /\ Statements!PagesSkipNothing
  /\ mode = "in turn" /\ Quiet => OrdersListed /\ BalancesAgree
\* An ad's limits stay in order, an order is placed as its customer was shown it, and a
\* review stays what its author was told it is (Market's LimitsHold and OrderAsShown,
\* Reviews' ReviewAsSaid and ReviewIsKept).
MarketKeepsItsWord ==
  /\ Trading!LimitsHold /\ Trading!OrderAsShown
  /\ Reviewing!ReviewAsSaid /\ Reviewing!ReviewIsKept
\* Nothing is marked read that was not shown, a closed chat takes no message, and
\* broadcasts are counted (Messages' ReadWasShown, ClosedChatIsQuiet, ChatMovesUp and
\* BroadcastsAreCounted).
NothingReadUnseen ==
  /\ Talk!ReadWasShown /\ Talk!ClosedChatIsQuiet /\ Talk!ChatMovesUp
  /\ Talk!BroadcastsAreCounted
=============================================================================
