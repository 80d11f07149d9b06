----------------------------- MODULE BidMarket -----------------------------
(***************************************************************************)
(* The bid market of the Omega daemon v18 as pure operators: how the bid   *)
(* of the last winner is settled against what was observed, how a bankrupt *)
(* campaign is disabled, and which bid is selected.                        *)
(*                                                                         *)
(* Fixed-point numbers are integers in units of 1/One (2^32 in the code),  *)
(* so that every rounding of the code is a rounding here.  Campaigns are   *)
(* numbers: their order is the order of the campaign ids.                  *)
(***************************************************************************)
EXTENDS Integers, FiniteSets

CONSTANTS
  Campaigns,      \* the enabled campaigns of the capability registry
  One,            \* Q32_ONE
  Cfg,            \* the settlement parameters of the bid market
  Bidder,         \* [Campaigns -> roi and confidence of its bids]
  Cost            \* [Campaigns -> budget_cost_hint_q32]

NoCampaign == 0

CfgParams == {"initialBankroll", "initialCredibility", "credibilityLr",
              "minCredibility", "errorCap", "penaltyRate", "rewardRate",
              "disableThreshold", "disableAfter"}

ASSUME MarketAssumption ==
  /\ Campaigns \subseteq Nat \ {0}
  /\ One \in Nat \ {0}
  /\ Cfg \in [CfgParams -> Nat]
  /\ Bidder \in [Campaigns -> [roi : Nat, confidence : 0 .. One]]
  /\ Cost \in [Campaigns -> Nat]

Least(a, b)   == IF a < b THEN a ELSE b
Greatest(a, b) == IF a > b THEN a ELSE b
Distance(a, b) == IF a > b THEN a - b ELSE b - a

\* q32_mul: the product, shifted down (towards minus infinity).
Mul(a, b) == (a * b) \div One

Clamp(v, lo, hi) == Greatest(lo, Least(hi, v))

Row  == [bankroll : Int, credibility : Int, streak : Nat, disabled : BOOLEAN]
Rows == [Campaigns -> Row]

BootstrapRows ==
  [c \in Campaigns |->
     [bankroll    |-> Cfg.initialBankroll,
      credibility |-> Cfg.initialCredibility,
      streak      |-> 0,
      disabled    |-> FALSE]]

----------------------------------------------------------------------------
(* Bids                                                                    *)

PredictedCost(c)  == Greatest(1, Cost[c])
PredictedDelta(c) == Mul(Bidder[c].roi, PredictedCost(c))

\* The part of the error cap by which the prediction was missed, in 0 .. One.
ErrorNorm(c, realized) ==
  Least(One, (Distance(realized, PredictedDelta(c)) * One)
                 \div Greatest(1, Cfg.errorCap))

(***************************************************************************)
(* The winner's row after its prediction is compared with the realized     *)
(* change: the credibility moves towards the accuracy, the bankroll is     *)
(* scaled by what the error costs and the accuracy earns.                  *)
(***************************************************************************)
Updated(row, c, realized) ==
  LET error    == ErrorNorm(c, realized)
      accuracy == One - error
      cred     == Clamp(row.credibility, 0, One)
      penalty  == Mul(Mul(Cfg.penaltyRate, Bidder[c].confidence), error)
      reward   == Mul(Mul(Cfg.rewardRate, Bidder[c].confidence), accuracy)
  IN [row EXCEPT
        !.credibility = Clamp(cred + Mul(Cfg.credibilityLr, accuracy - cred),
                              Cfg.minCredibility, One),
        !.bankroll = Greatest(0, Mul(Greatest(0, row.bankroll),
                                     Greatest(0, One - penalty + reward)))]

\* Only the winner's row is updated: none if nothing won, or if the caller
\* passes no winner because the realized change is unknown.
Rewarded(rows, winner, realized) ==
  [c \in Campaigns |->
     IF c = winner THEN Updated(rows[c], c, realized) ELSE rows[c]]

\* Fault: one more settlement than the limit.
BankruptcyLate(row) ==
  LET streak == IF row.bankroll < Cfg.disableThreshold THEN row.streak + 1
                                                       ELSE 0
  IN IF row.disabled
       THEN row
       ELSE [row EXCEPT !.streak = streak,
                        !.disabled = streak > Cfg.disableAfter]

(***************************************************************************)
(* Every settlement counts, for every campaign that is not disabled, the   *)
(* successive settlements it spent below the threshold; a campaign that    *)
(* reaches the limit is disabled, for good.                                *)
(***************************************************************************)
Bankruptcy(row) ==
  LET streak == IF row.bankroll < Cfg.disableThreshold THEN row.streak + 1
                                                       ELSE 0
  IN IF row.disabled
       THEN row
       ELSE [row EXCEPT !.streak = streak,
                        !.disabled = streak >= Cfg.disableAfter]

SettledRows(rows, winner, realized) ==
  [c \in Campaigns |-> Bankruptcy(Rewarded(rows, winner, realized)[c])]

----------------------------------------------------------------------------
(* Selection                                                               *)

Roi(c)          == (PredictedDelta(c) * One) \div PredictedCost(c)
Credibility(rows, c) == Clamp(rows[c].credibility, 0, One)
Score(rows, c)  ==
  Mul(Mul(Roi(c), Credibility(rows, c)), Bidder[c].confidence)

\* Score, return, credibility and confidence descending, then the id.
Outranks(rows, c, e) ==
  LET key(x) == <<Score(rows, x), Roi(x), Credibility(rows, x),
                  Bidder[x].confidence, -x>>
  IN \E i \in 1 .. 5 :
        /\ key(c)[i] > key(e)[i]
        /\ \A j \in 1 .. (i - 1) : key(c)[j] = key(e)[j]

\* The bids of the tick that no cooldown and no budget rules out.
Eligible(rows, tick, cooldown, budget) ==
  {c \in Campaigns : /\ ~rows[c].disabled
                     /\ cooldown[c] <= tick
                     /\ budget >= PredictedCost(c)}

\* select_winner: the best of the eligible bids, or none.
Winners(rows, tick, cooldown, budget) ==
  LET eligible == Eligible(rows, tick, cooldown, budget)
  IN IF eligible = {}
       THEN {NoCampaign}
       ELSE {c \in eligible : \A e \in eligible \ {c} : Outranks(rows, c, e)}
=============================================================================
