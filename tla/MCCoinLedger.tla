---------------------------- MODULE MCCoinLedger ----------------------------
(* What moves between a user's own accounts and what a user keeps beside them, *)
(* checked side by side: allocateUnifiedBalance on every small pool            *)
(* (MCUnifiedStablecoin), the deposits of coins (TatumDeposit) for one user    *)
(* with bitcoin, and tron with its own coin and a token, conversions between   *)
(* two fiat wallets, rewards, saved accounts, and the plans that bills are     *)
(* chosen from.  Only the chosen part moves.                                   *)
EXTENDS MCUnifiedStablecoin, TLC

CONSTANTS Payments, Requests, MaxNotices, MaxLost, MaxRare, Numbers

VARIABLES part,
          accounts, balance, addresses, wallets, watched, responses, entries,
          notices, processed, req, lost, met, cut,
          cash, rate, row, convReq, elsewhere, convMet, convRare,
          stats, rulesMet, rule, userRewards, claim, rewardReq, given, rewardMet, rewardRare,
          mix, saved, payId, told, savedReq, savedMet, edited, savedLost,
          category, items, shown, answer, billReq, bill, refused, menuMet, menus

coinVars == <<accounts, balance, addresses, wallets, watched, responses, entries,
              notices, processed, req, lost, met, cut>>
convVars == <<cash, rate, row, convReq, elsewhere, convMet, convRare>>
rewardVars == <<stats, rulesMet, rule, userRewards, claim, rewardReq, given, rewardMet,
                rewardRare>>
savedVars == <<mix, saved, payId, told, savedReq, savedMet, edited, savedLost>>
menuVars == <<category, items, shown, answer, billReq, bill, refused, menuMet, menus>>
others == <<coinVars, convVars, rewardVars, savedVars, menuVars>>

Users == {"ann"}
CoinChain == <<"bitcoin", "tron", "tron">>
Tokens == {3}
Pays(coin, n, master) ==
  [user |-> "ann", chain |-> "tron", coin |-> coin, amount |-> n,
   tagged |-> FALSE, fromMaster |-> master]
Told == [trx |-> Pays(2, 1, FALSE), usdt |-> Pays(3, 2, FALSE), sweep |-> Pays(2, 4, TRUE)]
Payment == [k \in Payments |-> Told[k]]
Coin == INSTANCE TatumDeposit

\* Amounts in hundredths of a hundredth: all that is there, or less than the least fee.
AllNaira == 2 * 160000 * 401
Converted ==
  INSTANCE Conversion WITH
    Currencies <- {"NGN", "USD"}, Conversions <- {"k1", "k2"},
    Amounts <- [NGN |-> {80000, AllNaira}, USD |-> {100}],
    Rates <- {<<"NGN", "USD", 1, 1600>>, <<"USD", "NGN", 1500, 1>>},
    MinFees <- [NGN |-> 50000, USD |-> 100], Opening <- [NGN |-> AllNaira],
    MaxChanges <- MaxRare,
    wallet <- cash, req <- convReq, met <- convMet, changes <- convRare

\* On either side of the bounds of the second and the third tier.
Records == {[done |-> 9, cents |-> 100000], [done |-> 12, cents |-> 500000],
            [done |-> 50, cents |-> 500000]}
Rewarded ==
  INSTANCE Rewards WITH
    Catalogue <- {"priority"}, Rules <- {"rule_1"}, Stats <- Records,
    Gift <- [priority |-> [tier |-> 3, kind |-> "instant"]], MaxChanges <- MaxRare,
    rows <- userRewards, met <- rulesMet, req <- rewardReq, crossed <- rewardMet,
    changes <- rewardRare

SavedKinds == {"bank_account", "mobile_money", "rhinoxpay_id", "beneficiary"}
Saved ==
  INSTANCE SavedAccounts WITH
    Accounts <- Numbers, PayIds <- {"x", "y"}, Mixes <- {{k} : k \in SavedKinds},
    MaxRows <- 2, MaxLost <- MaxRare,
    rows <- saved, req <- savedReq, crossed <- savedMet, lost <- savedLost

\* A provider's items before and after a change: an item gone, a price raised.
Item(code, cost, kind, least, most) ==
  [code |-> code, price |-> cost, kind |-> kind, least |-> least, most |-> most]
Bundle(code, cost) == Item(code, cost, "bundle", 0, 0)
Offers ==
  [airtime |-> {<<Bundle("a1", 3), Item("a2", 0, "airtime", 0, 0)>>,
                <<Item("a2", 0, "airtime", 0, 0)>>, <<>>},
   data |-> {<<Bundle("d1", 1), Bundle("d2", 2)>>, <<Bundle("d2", 3)>>},
   cable_tv |-> {<<Item("c1", 1, "bundle", 0, 2), Item("c2", 2, "bundle", 2, 0)>>,
                 <<Item("c2", 3, "bundle", 2, 0)>>},
   electricity |-> {<<Item("m1", 0, "prepaid", 2, 3), Item("m2", 0, "postpaid", 1, 2)>>,
                    <<Item("m2", 0, "postpaid", 2, 2)>>},
   betting |-> {<<Bundle("b1", 0), Bundle("b2", 2)>>, <<Bundle("b2", 2)>>}]
Offered ==
  INSTANCE BillCatalogue WITH
    Categories <- DOMAIN Offers, Menus <- Offers, Amounts <- {1, 2, 3},
    MaxChanges <- MaxRare, req <- billReq, changed <- menuMet, changes <- menus

Parts == {"allocation", "deposits", "conversions", "rewards", "saved", "catalogue"}
\* Of a part that does not move, one of its initial states is enough.
LedgerInit ==
  /\ part \in Parts
  /\ Init /\ (part # "allocation" => target = 1 /\ amount = 1 /\ \A n \in Networks : avail[n] = 0)
  /\ Coin!Init /\ Converted!Init
  /\ Rewarded!Init /\ (part # "rewards" => stats.done = 9 /\ rulesMet = {})
  /\ Saved!Init /\ (part # "saved" => mix = {"beneficiary"} /\ payId = "no id")
  /\ Offered!Init
\* The properties of deposits, rewards and saved accounts speak of users, rewards and
\* kinds on whom no two handlers have met: once they have, nothing more begins there but
\* what sets accounts up.
DepositsNext == Coin!Next /\ (met' = {} \/ (lost' = 0 /\ notices' = 0))
RewardsNext == rewardMet # DOMAIN given /\ Rewarded!Next
SavedNext == savedMet \cap mix = {} /\ Saved!Next

LedgerNext ==
  /\ UNCHANGED part
  /\ \/ /\ part = "allocation" /\ Allocate
        /\ UNCHANGED <<coinVars, convVars, rewardVars, savedVars, menuVars>>
     \/ /\ part = "deposits" /\ DepositsNext
        /\ UNCHANGED <<vars, convVars, rewardVars, savedVars, menuVars>>
     \/ /\ part = "conversions" /\ Converted!Next
        /\ UNCHANGED <<vars, coinVars, rewardVars, savedVars, menuVars>>
     \/ /\ part = "rewards" /\ RewardsNext
        /\ UNCHANGED <<vars, coinVars, convVars, savedVars, menuVars>>
     \/ /\ part = "saved" /\ SavedNext
        /\ UNCHANGED <<vars, coinVars, convVars, rewardVars, menuVars>>
     \/ /\ part = "catalogue" /\ Offered!Next
        /\ UNCHANGED <<vars, coinVars, convVars, rewardVars, savedVars>>
LedgerSpec ==
  LedgerInit /\ [][LedgerNext]_<<part, vars, others>>

\* When a user's handlers are done, Tatum watches the user's addresses, and a user
\* whose handlers never met has all of them (TatumDeposit's AccountsReachable).
AccountsReachable == part = "deposits" => Coin!AccountsReachable
\* Payments are credited in their own coin, and the accounts hold what was credited
\* (TatumDeposit's TypeOK and CoinBooks).
CoinBooks == part = "deposits" => Coin!TypeOK /\ Coin!CoinBooks
\* The wallets hold what the conversions leave in them (Conversion's TypeOK and
\* ConversionsBalance).
ConversionsBalance ==
  part = "conversions" => Converted!TypeOK /\ Converted!ConversionsBalance
\* A reward is given once, and what the dashboard offers can be claimed (Rewards'
\* TypeOK, RewardGivenOnce and DashboardTells).
RewardGivenOnce ==
  part = "rewards" =>
    Rewarded!TypeOK /\ Rewarded!RewardGivenOnce /\ Rewarded!DashboardTells
\* One default of a kind, no account saved twice, and the id the user was told
\* (SavedAccounts' TypeOK and SavedOnce).
SavedOnce == part = "saved" => Saved!TypeOK /\ Saved!SavedOnce
\* Bills are charged as their plans were shown (BillCatalogue's TypeOK and ChargedAsShown).
ChargedAsShown == part = "catalogue" => Offered!TypeOK /\ Offered!ChargedAsShown

Alike == Permutations(Requests) \cup Permutations(Numbers)
=============================================================================
