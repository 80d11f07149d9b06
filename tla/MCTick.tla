------------------------------- MODULE MCTick -------------------------------
(* Instances of the tick of the Omega daemon for TLC.                      *)
EXTENDS OmegaTick, TLC

CONSTANTS d1, d2, g1, g2

OneDaemon  == {d1}
TwoDaemons == {d1, d2}

TwoCampaigns == {1, 2}
TwoGoals     == {g1, g2}
Servers1     == g1 :> {1, 2} @@ g2 :> {2}
Cooldown1    == <<2, 1>>
Cost1        == <<2, 1>>
Bidder1      == <<[roi |-> 4, confidence |-> 4], [roi |-> 2, confidence |-> 4]>>
\* Numbers are in quarters: a bankroll of one, half a credibility, and so on.
Cfg1 == [initialBankroll |-> 4, initialCredibility |-> 2, credibilityLr |-> 2,
         minCredibility |-> 1, errorCap |-> 4, penaltyRate |-> 2,
         rewardRate |-> 2, disableThreshold |-> 3, disableAfter |-> 2]
HitAndMiss == {2, -2}

EveryMode == [market : BOOLEAN, shared : BOOLEAN]
Decider   == [market : {FALSE}, shared : {FALSE}]
=============================================================================
