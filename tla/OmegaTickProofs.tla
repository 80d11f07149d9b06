-------------------------- MODULE OmegaTickProofs --------------------------
(***************************************************************************)
(* Proofs about the tick of the Omega daemon, for any campaigns, costs,    *)
(* cooldowns, goals, directory layouts, number of daemons and of ticks     *)
(* that die.                                                               *)
(*                                                                         *)
(* What a state file promises is a property of the file alone (GoodState), *)
(* so it survives whatever two daemons, a crash or a tick that is run      *)
(* again do to the directory: a tick only adds files, a loader returns one *)
(* of them, and the state a tick writes is good if the one it loaded was.  *)
(*                                                                         *)
(* What runs are lost to a state that is loaded relates it to the history  *)
(* and to the tick at hand, and is about one daemon (LossInv).  The cost   *)
(* of the history is a recursive function; its equations are derived by    *)
(* induction over sets of naturals.                                        *)
(***************************************************************************)
EXTENDS OmegaTick, TLAPS, WellFoundedInduction

----------------------------------------------------------------------------
(* The market's arithmetic stays within the integers                       *)

\* q32_mul of two integers is an integer.
LEMMA MulInt ==
  ASSUME NEW a \in Int, NEW b \in Int
  PROVE  Mul(a, b) \in Int
<1>1. a * b \in Int
  OBVIOUS
<1>2. One \in Nat \ {0}
  BY MarketAssumption
<1> QED
  BY <1>1, <1>2 DEF Mul

\* A clamped integer is an integer.
LEMMA ClampInt ==
  ASSUME NEW v \in Int, NEW lo \in Int, NEW hi \in Int
  PROVE  Clamp(v, lo, hi) \in Int
BY DEF Clamp, Least, Greatest

\* The bid of a campaign predicts an integer change, at a cost of at least one.
LEMMA PredictedInt ==
  ASSUME NEW c \in Campaigns
  PROVE  /\ PredictedDelta(c) \in Int
         /\ PredictedCost(c) \in Nat \ {0}
         /\ PredictedCost(c) >= Cost[c]
<1>1. Cost[c] \in Nat /\ Bidder[c].roi \in Nat
  BY MarketAssumption
<1>2. PredictedCost(c) \in Nat \ {0} /\ PredictedCost(c) >= Cost[c]
  BY <1>1 DEF PredictedCost, Greatest
<1>3. Bidder[c].roi \in Int /\ PredictedCost(c) \in Int
  BY <1>1, <1>2
<1>4. Mul(Bidder[c].roi, PredictedCost(c)) \in Int
  BY <1>3, MulInt, Zenon
<1> QED
  BY <1>2, <1>4, Zenon DEF PredictedDelta

\* The normalized error of a settlement is an integer.
LEMMA ErrorNormInt ==
  ASSUME NEW c \in Campaigns, NEW realized \in Int
  PROVE  ErrorNorm(c, realized) \in Int
<1>1. One \in Nat \ {0} /\ Cfg.errorCap \in Nat
  BY MarketAssumption DEF CfgParams
<1>2. PredictedDelta(c) \in Int
  BY PredictedInt
<1> DEFINE miss == Distance(realized, PredictedDelta(c)) * One
           cap == Greatest(1, Cfg.errorCap)
<1>3. Distance(realized, PredictedDelta(c)) \in Int
  BY <1>2 DEF Distance
<1>4. miss \in Int
  BY <1>1, <1>3
<1>5. cap \in Nat \ {0}
  BY <1>1 DEF Greatest
<1> HIDE DEF miss, cap
<1>6. miss \div cap \in Int
  BY <1>4, <1>5
<1>7. Least(One, miss \div cap) \in Int
  BY <1>1, <1>6 DEF Least
<1> QED
  BY <1>7 DEF ErrorNorm, miss, cap

\* A row that is updated stays a row.
LEMMA UpdatedRow ==
  ASSUME NEW row \in Row, NEW c \in Campaigns, NEW realized \in Int
  PROVE  Updated(row, c, realized) \in Row
<1> DEFINE error    == ErrorNorm(c, realized)
           accuracy == One - error
           cred     == Clamp(row.credibility, 0, One)
           penalty  == Mul(Mul(Cfg.penaltyRate, Bidder[c].confidence), error)
           reward   == Mul(Mul(Cfg.rewardRate, Bidder[c].confidence), accuracy)
           newCred  == Clamp(cred + Mul(Cfg.credibilityLr, accuracy - cred),
                             Cfg.minCredibility, One)
           newBank  == Greatest(0, Mul(Greatest(0, row.bankroll),
                                       Greatest(0, One - penalty + reward)))
<1>1. /\ One \in Int /\ Bidder[c].confidence \in Int
      /\ Cfg.penaltyRate \in Int /\ Cfg.rewardRate \in Int
      /\ Cfg.credibilityLr \in Int /\ Cfg.minCredibility \in Int
  BY MarketAssumption DEF CfgParams
<1>2. row.credibility \in Int /\ row.bankroll \in Int
  BY DEF Row
<1>3. error \in Int
  BY ErrorNormInt
<1>4. accuracy \in Int
  BY <1>1, <1>3
<1>5. cred \in Int
  BY <1>1, <1>2 DEF Clamp, Least, Greatest
<1> HIDE DEF error, accuracy, cred
<1>6. penalty \in Int /\ reward \in Int
  BY <1>1, <1>3, <1>4, MulInt
<1>7. accuracy - cred \in Int
  BY <1>4, <1>5
<1>8. Mul(Cfg.credibilityLr, accuracy - cred) \in Int
  BY <1>1, <1>7, MulInt, Zenon
<1>9. cred + Mul(Cfg.credibilityLr, accuracy - cred) \in Int
  BY <1>5, <1>8
<1>10. newCred \in Int
  BY <1>1, <1>9, ClampInt, Zenon
<1> HIDE DEF penalty, reward
<1>11. /\ Greatest(0, row.bankroll) \in Int
       /\ Greatest(0, One - penalty + reward) \in Int
  BY <1>1, <1>2, <1>6 DEF Greatest
<1>12. Mul(Greatest(0, row.bankroll), Greatest(0, One - penalty + reward)) \in Int
  BY <1>11, MulInt, Zenon
<1>13. newBank \in Int
  BY <1>12 DEF Greatest
<1>14. Updated(row, c, realized)
         = [row EXCEPT !.credibility = newCred, !.bankroll = newBank]
  BY DEF Updated, error, accuracy, cred, penalty, reward
<1> HIDE DEF newCred, newBank
<1> QED
  BY <1>10, <1>13, <1>14 DEF Row

\* A settlement leaves every campaign a row.
LEMMA SettledRowsType ==
  ASSUME NEW rows \in Rows, NEW winner, NEW delta \in Int
  PROVE  SettledRows(rows, winner, delta) \in Rows
<1> SUFFICES ASSUME NEW c \in Campaigns
             PROVE  Bankruptcy(Rewarded(rows, winner, delta)[c]) \in Row
  BY DEF SettledRows, Rows
<1> DEFINE row == Rewarded(rows, winner, delta)[c]
<1>1. row \in Row
  BY UpdatedRow DEF Rewarded, Rows
<1> HIDE DEF row
<1>2. Cfg.disableThreshold \in Nat /\ Cfg.disableAfter \in Nat
  BY MarketAssumption DEF CfgParams
<1> DEFINE streak == IF row.bankroll < Cfg.disableThreshold
                       THEN row.streak + 1 ELSE 0
<1>3. streak \in Nat
  BY <1>1, <1>2 DEF Row
<1>4. (streak >= Cfg.disableAfter) \in BOOLEAN
  OBVIOUS
<1>5. Bankruptcy(row) = IF row.disabled
                          THEN row
                          ELSE [row EXCEPT !.streak = streak,
                                  !.disabled = streak >= Cfg.disableAfter]
  BY DEF Bankruptcy
<1> HIDE DEF streak
<1>6. Bankruptcy(row) \in Row
  BY <1>1, <1>3, <1>4, <1>5, Zenon DEF Row
<1> QED
  BY <1>6 DEF row

----------------------------------------------------------------------------
(* What a state file promises                                              *)

\* What two runs a state descends from have to do with each other.
Apart(r, q) == r.campaign = q.campaign => q.tick >= r.tick + Cooldown[r.campaign]
Rests(r, q) == (r.goal # NoGoal /\ r.goal = q.goal) => r.outcome = "nothing"

\* The state still knows what its ancestors' run r did: the campaign is on
\* cooldown until r's time is up, and a goal r closed is not pending.
Remembered(s, r) ==
  /\ s.cooldown[r.campaign] >= r.tick + Cooldown[r.campaign]
  /\ (r.goal # NoGoal /\ r.outcome # "nothing") => s.goals[r.goal] # "PENDING"

GoodState(market, s) ==
  /\ s \in State
  /\ s.budget = Budget - s.spent
  /\ \A j \in DOMAIN s.runs : Remembered(s, s.runs[j])
  /\ \A j, k \in DOMAIN s.runs :
       j < k => Apart(s.runs[j], s.runs[k]) /\ Rests(s.runs[j], s.runs[k])
  /\ ~market => \A j \in DOMAIN s.runs : s.runs[j].policy = s.policy

\* A plan the loaded state st allows at the tick, under the current policy.
GoodPlan(market, st, tick, current, plan) ==
  /\ plan \in Plans
  /\ plan.campaign # NoCampaign =>
       /\ plan.campaign \in Ready(st, tick)
       /\ plan.goal # NoGoal => plan.goal \in Pending(st)
       /\ market \/ st.policy = current

\* A local state of a daemon: what it loaded is good, and so is its plan.
GoodRun(market, r) ==
  /\ r.pc # "idle" => r.tick <= MaxTick
  /\ r.pc \in Inside \ {"load"} => GoodState(market, r.st)
  /\ r.pc \in {"settle", "select"} => market
  /\ r.pc \in {"dispatch", "promote", "write"} =>
       GoodPlan(market, r.st, r.tick, r.policy, r.plan)
  /\ r.pc \in {"dispatch", "promote"} => r.plan.campaign # NoCampaign

TickInv ==
  /\ TickTypeOK
  /\ \A i \in Dirs : \A s \in disk[i].states : GoodState(mode.market, s)
  /\ \A d \in Daemons : GoodRun(mode.market, run[d])

\* The state of a run that starts has the types of a state.
LEMMA GenesisState ==
  ASSUME NEW p \in Nat
  PROVE  Genesis(p) \in State
<1>1. Budget \in Int
  BY TickAssumption
<1>2. [c \in Campaigns |-> 0] \in [Campaigns -> Nat]
  OBVIOUS
<1>3. [g \in Goals |-> "PENDING"] \in [Goals -> Status]
  BY DEF Status
<1>4. <<>> \in Seq(Record)
  OBVIOUS
<1> QED
  BY <1>1, <1>2, <1>3, <1>4, Zenon DEF Genesis, State

\* It is good: it descends from no run.
LEMMA GenesisGood ==
  ASSUME NEW p \in Nat, NEW market
  PROVE  GoodState(market, Genesis(p))
<1>1. Genesis(p) \in State
  BY GenesisState
<1>2. Budget \in Int
  BY TickAssumption
<1>3. Genesis(p).budget = Budget - Genesis(p).spent
  BY <1>2 DEF Genesis
<1>4. DOMAIN Genesis(p).runs = {}
  BY DEF Genesis
<1> QED
  BY <1>1, <1>3, <1>4, Zenon DEF GoodState

----------------------------------------------------------------------------
(* The state after a tick                                                  *)

\* A goal's status stays a status, and a closed goal stays closed.
LEMMA JudgedType ==
  ASSUME NEW goals \in [Goals -> Status], NEW goal, NEW outcome
  PROVE  /\ Judged(goals, goal, outcome) \in [Goals -> Status]
         /\ \A g \in Goals :
              goals[g] # "PENDING" => Judged(goals, goal, outcome)[g] # "PENDING"
         /\ outcome \in Outcomes \ {"nothing"} /\ goal \in Goals
              => Judged(goals, goal, outcome)[goal] # "PENDING"
BY DEF Judged, Status, Outcomes

\* A state that is charged for a plan it allows is good.
LEMMA ChargedGood ==
  ASSUME NEW market, NEW st, GoodState(market, st),
         NEW tick \in Nat, NEW current \in Nat, NEW outcome \in Outcomes,
         NEW plan, GoodPlan(market, st, tick, current, plan),
         plan.campaign # NoCampaign
  PROVE  GoodState(market, [Charged(st, tick, current, plan, outcome)
                              EXCEPT !.tick = tick])
<1> DEFINE c == plan.campaign
           r == [tick |-> tick, campaign |-> c, goal |-> plan.goal,
                 outcome |-> outcome, policy |-> current]
           s == [Charged(st, tick, current, plan, outcome) EXCEPT !.tick = tick]
           n == Len(st.runs)
<1>1. st \in State
  BY DEF GoodState
<1>2. /\ c \in Campaigns /\ st.cooldown[c] <= tick /\ st.budget >= Cost[c]
      /\ plan.goal \in Goals \cup {NoGoal}
      /\ plan.goal # NoGoal => st.goals[plan.goal] = "PENDING"
      /\ market \/ st.policy = current
  BY DEF GoodPlan, Plans, Ready, Pending
<1>3. /\ st.budget \in Int /\ st.spent \in Nat
      /\ st.cooldown \in [Campaigns -> Nat] /\ st.goals \in [Goals -> Status]
      /\ st.runs \in Seq(Record) /\ st.policy \in Nat
  BY <1>1 DEF State
<1>4. Cost[c] \in Nat /\ Cooldown[c] \in Nat
  BY <1>2, MarketAssumption, TickAssumption
<1> DEFINE cooldown == [st.cooldown EXCEPT ![c] = tick + Cooldown[c]]
           goals    == Judged(st.goals, plan.goal, outcome)
<1>5. s = [st EXCEPT !.tick = tick, !.budget = st.budget - Cost[c],
                     !.cooldown = cooldown, !.goals = goals,
                     !.spent = st.spent + Cost[c], !.runs = Append(st.runs, r)]
  <2>1. Greatest(0, st.budget - Cost[c]) = st.budget - Cost[c]
    BY <1>2, <1>3, <1>4 DEF Greatest
  <2> QED
    BY <1>1, <2>1 DEF Charged, State
<1>6. r \in Record
  BY <1>2 DEF Record
<1>7. /\ cooldown \in [Campaigns -> Nat]
      /\ cooldown[c] = tick + Cooldown[c]
      /\ \A e \in Campaigns : cooldown[e] >= st.cooldown[e]
  BY <1>2, <1>3, <1>4
<1>8. /\ goals \in [Goals -> Status]
      /\ \A g \in Goals : st.goals[g] # "PENDING" => goals[g] # "PENDING"
      /\ outcome # "nothing" /\ plan.goal \in Goals => goals[plan.goal] # "PENDING"
  BY <1>3, JudgedType, Zenon
<1> HIDE DEF s, r, cooldown, goals
<1>9. Append(st.runs, r) \in Seq(Record)
  BY <1>3, <1>6
<1>10. s \in State
  <2>1. st.budget - Cost[c] \in Int /\ st.spent + Cost[c] \in Nat
    BY <1>3, <1>4
  <2>2. Append(st.runs, r) \in Seq(Record) /\ cooldown \in [Campaigns -> Nat]
          /\ goals \in [Goals -> Status] /\ st.policy \in Nat
    BY <1>3, <1>7, <1>8, <1>9
  <2>3. s = [tick |-> tick, policy |-> st.policy, budget |-> st.budget - Cost[c],
             cooldown |-> cooldown, goals |-> goals,
             spent |-> st.spent + Cost[c], runs |-> Append(st.runs, r)]
    BY <1>1, <1>5 DEF State
  <2> QED
    BY <2>1, <2>2, <2>3, Zenon DEF State
<1>11. /\ s.policy = st.policy /\ s.budget = st.budget - Cost[c]
       /\ s.cooldown = cooldown /\ s.goals = goals
       /\ s.spent = st.spent + Cost[c] /\ s.runs = Append(st.runs, r)
  BY <1>1, <1>5 DEF State
<1>12. r.tick = tick /\ r.campaign = c /\ r.goal = plan.goal
         /\ r.outcome = outcome /\ r.policy = current
  BY DEF r
<1>13. s.budget = Budget - s.spent
  <2>1. st.budget = Budget - st.spent /\ Budget \in Int
    BY TickAssumption DEF GoodState
  <2> QED
    BY <2>1, <1>3, <1>4, <1>11
<1>14. /\ n \in Nat /\ DOMAIN st.runs = 1 .. n /\ DOMAIN s.runs = 1 .. (n + 1)
       /\ s.runs[n + 1] = r
       /\ \A j \in 1 .. n : s.runs[j] = st.runs[j] /\ st.runs[j] \in Record
  BY <1>3, <1>6, <1>11
<1> HIDE DEF n
<1>15. ASSUME NEW j \in 1 .. n
       PROVE  Remembered(s, st.runs[j])
  <2> DEFINE q == st.runs[j]
  <2>1. Remembered(st, q)
    BY <1>14 DEF GoodState
  <2>2. q \in Record
    BY <1>14
  <2> HIDE DEF q
  <2>3. q.campaign \in Campaigns /\ q.tick \in Nat /\ q.goal \in Goals \cup {NoGoal}
    BY <2>2 DEF Record
  <2>4. Cooldown[q.campaign] \in Nat /\ st.cooldown[q.campaign] \in Nat
          /\ cooldown[q.campaign] \in Nat
    BY <2>3, <1>3, <1>7, TickAssumption
  <2>5. s.cooldown[q.campaign] >= q.tick + Cooldown[q.campaign]
    BY <2>1, <2>3, <2>4, <1>7, <1>11 DEF Remembered
  <2>6. (q.goal # NoGoal /\ q.outcome # "nothing") => s.goals[q.goal] # "PENDING"
    BY <2>1, <2>3, <1>8, <1>11 DEF Remembered
  <2> QED
    BY <2>5, <2>6 DEF Remembered, q
<1>16. Remembered(s, r)
  <2>1. r.tick + Cooldown[r.campaign] \in Int /\ s.cooldown[r.campaign] \in Int
          /\ s.cooldown[r.campaign] = r.tick + Cooldown[r.campaign]
    BY <1>2, <1>4, <1>7, <1>11, <1>12
  <2> QED
    BY <2>1, <1>2, <1>8, <1>11, <1>12 DEF Remembered
<1>17. ASSUME NEW j \in 1 .. n
       PROVE  Apart(st.runs[j], r) /\ Rests(st.runs[j], r)
  <2> DEFINE q == st.runs[j]
  <2>1. Remembered(st, q)
    BY <1>14 DEF GoodState
  <2>2. q \in Record
    BY <1>14
  <2> HIDE DEF q
  <2>3. q.campaign \in Campaigns /\ q.tick \in Nat
    BY <2>2 DEF Record
  <2>4. Apart(q, r)
    BY <2>1, <2>3, <1>2, <1>3, <1>4, <1>12 DEF Remembered, Apart
  <2>5. Rests(q, r)
    BY <2>1, <1>2, <1>12 DEF Remembered, Rests
  <2> QED
    BY <2>4, <2>5 DEF q
<1>18. \A j \in DOMAIN s.runs : Remembered(s, s.runs[j])
  BY <1>14, <1>15, <1>16
<1>19. \A j, k \in DOMAIN s.runs :
         j < k => Apart(s.runs[j], s.runs[k]) /\ Rests(s.runs[j], s.runs[k])
  <2> SUFFICES ASSUME NEW j \in DOMAIN s.runs, NEW k \in DOMAIN s.runs, j < k
               PROVE  Apart(s.runs[j], s.runs[k]) /\ Rests(s.runs[j], s.runs[k])
    OBVIOUS
  <2>1. j \in 1 .. n
    BY <1>14
  <2>2. CASE k = n + 1
    BY <2>1, <2>2, <1>14, <1>17
  <2>3. CASE k # n + 1
    <3>1. k \in 1 .. n
      BY <2>3, <1>14
    <3>2. Apart(st.runs[j], st.runs[k]) /\ Rests(st.runs[j], st.runs[k])
      BY <2>1, <3>1, <1>14 DEF GoodState
    <3> QED
      BY <2>1, <3>1, <3>2, <1>14
  <2> QED
    BY <2>2, <2>3
<1>20. ~market => \A j \in DOMAIN s.runs : s.runs[j].policy = s.policy
  <2>1. ~market => \A j \in 1 .. n : st.runs[j].policy = st.policy
    BY <1>14 DEF GoodState
  <2> QED
    BY <2>1, <1>2, <1>11, <1>12, <1>14
<1> QED
  BY <1>10, <1>13, <1>18, <1>19, <1>20 DEF GoodState, s

\* A state is good at a later tick too.
LEMMA TickedGood ==
  ASSUME NEW market, NEW st, GoodState(market, st), NEW tick \in Nat
  PROVE  GoodState(market, [st EXCEPT !.tick = tick])
<1> DEFINE s == [st EXCEPT !.tick = tick]
<1>1. st \in State
  BY DEF GoodState
<1>2. s \in State
  BY <1>1 DEF State
<1>3. /\ s.policy = st.policy /\ s.budget = st.budget /\ s.spent = st.spent
      /\ s.cooldown = st.cooldown /\ s.goals = st.goals /\ s.runs = st.runs
  BY <1>1 DEF State
<1> HIDE DEF s
<1>4. GoodState(market, s)
  BY <1>2, <1>3, Zenon DEF GoodState, Remembered
<1> QED
  BY <1>4 DEF s

\* The state a tick writes is good, if the one it loaded and its plan are.
LEMMA NextStateGood ==
  ASSUME NEW market, NEW r \in Tick, GoodState(market, r.st),
         GoodPlan(market, r.st, r.tick, r.policy, r.plan)
  PROVE  GoodState(market, NextState(r))
<1>1. r.tick \in Nat /\ r.policy \in Nat /\ r.outcome \in Outcomes
  BY TickAssumption DEF Tick, Dirs
<1>2. CASE r.plan.campaign = NoCampaign
  BY <1>1, <1>2, TickedGood DEF NextState
<1>3. CASE r.plan.campaign # NoCampaign
  BY <1>1, <1>3, ChargedGood DEF NextState
<1> QED
  BY <1>2, <1>3

----------------------------------------------------------------------------
(* What a step may assume of the variables, and what it has to show        *)

\* The directory of a tick, its files, and the files a tick looks back at.
LEMMA DirTypes ==
  ASSUME TickInv, NEW d \in Daemons
  PROVE  /\ run[d] \in Tick /\ run[d].tick \in Dirs
         /\ Own(d) \in Dirs /\ disk[Own(d)] \in Files
         /\ Prev(run[d].tick) \in Files
         /\ \A s \in Prev(run[d].tick).states : GoodState(mode.market, s)
<1>1. run[d] \in Tick
  BY DEF TickInv, TickTypeOK
<1>2. run[d].tick \in Dirs
  BY <1>1 DEF Tick
<1>3. \A t \in Dirs : Dir(t) \in Dirs
  BY TickAssumption DEF Dir, Dirs
<1>4. run[d].tick # 1 => run[d].tick - 1 \in Dirs
  BY <1>2, TickAssumption DEF Dirs
<1>5. disk \in [Dirs -> Files]
  BY DEF TickInv, TickTypeOK
<1>6. NoFiles \in Files /\ NoFiles.states = {}
  BY DEF NoFiles, Files
<1>7. /\ Prev(run[d].tick) \in Files
      /\ \A s \in Prev(run[d].tick).states : GoodState(mode.market, s)
  <2>1. CASE run[d].tick = 1
    BY <2>1, <1>6 DEF Prev
  <2>2. CASE run[d].tick # 1
    BY <2>2, <1>3, <1>4, <1>5 DEF Prev, TickInv
  <2> QED
    BY <2>1, <2>2
<1> QED
  BY <1>1, <1>2, <1>3, <1>5, <1>7 DEF Own

\* The previous directory's files are files.
LEMMA PrevIn ==
  ASSUME TickInv, NEW d \in Daemons
  PROVE  /\ run[d].tick = 1 => Prev(run[d].tick) = NoFiles
         /\ run[d].tick # 1 =>
              /\ run[d].tick - 1 \in Dirs
              /\ Dir(run[d].tick - 1) \in Dirs
              /\ Prev(run[d].tick) = disk[Dir(run[d].tick - 1)]
<1>1. run[d].tick \in Dirs
  BY DirTypes
<1>2. run[d].tick # 1 => run[d].tick - 1 \in Dirs
  BY <1>1, TickAssumption DEF Dirs
<1>3. \A t \in Dirs : Dir(t) \in Dirs
  BY TickAssumption DEF Dir, Dirs
<1> QED
  BY <1>2, <1>3 DEF Prev

\* A step of d that leaves the files alone.
LEMMA LocalStep ==
  ASSUME TickInv, NEW d \in Daemons, NEW r \in Tick, GoodRun(mode.market, r),
         Become(d, r), UNCHANGED <<mode, policy, disk>>, deaths' \in Nat,
         lock' \in [Dirs -> BOOLEAN], ran' \in Seq((1 .. MaxTick) \X Campaigns)
  PROVE  TickInv'
<1>1. run \in [Daemons -> Tick]
  BY DEF TickInv, TickTypeOK
<1>2. run' \in [Daemons -> Tick]
  BY <1>1 DEF Become
<1>3. TickTypeOK'
  BY <1>2 DEF TickInv, TickTypeOK
<1>4. \A e \in Daemons : GoodRun(mode.market, run'[e])
  BY <1>1 DEF Become, TickInv
<1> QED
  BY <1>3, <1>4 DEF TickInv

\* A step of d that adds files to its directory.
LEMMA FileStep ==
  ASSUME TickInv, NEW d \in Daemons, NEW r \in Tick, GoodRun(mode.market, r),
         Become(d, r), UNCHANGED <<mode, policy, lock, ran, deaths>>,
         NEW f \in Files, disk' = [disk EXCEPT ![Own(d)] = f],
         \A s \in f.states : GoodState(mode.market, s)
  PROVE  TickInv'
<1>1. run \in [Daemons -> Tick] /\ disk \in [Dirs -> Files]
  BY DEF TickInv, TickTypeOK
<1>2. run' \in [Daemons -> Tick]
  BY <1>1 DEF Become
<1>3. disk' \in [Dirs -> Files]
  BY <1>1
<1>4. TickTypeOK'
  BY <1>2, <1>3 DEF TickInv, TickTypeOK
<1>5. \A e \in Daemons : GoodRun(mode.market, run'[e])
  BY <1>1 DEF Become, TickInv
<1>6. \A i \in Dirs : \A s \in disk'[i].states : GoodState(mode.market, s)
  BY <1>1 DEF TickInv
<1> QED
  BY <1>4, <1>5, <1>6 DEF TickInv

----------------------------------------------------------------------------
(* Every step preserves the invariant                                      *)

\* A daemon between ticks has the types of one, and holds nothing.
LEMMA BetweenOK ==
  ASSUME NEW tick \in Dirs, NEW market
  PROVE  Between(tick) \in Tick /\ GoodRun(market, Between(tick))
<1>1. Genesis(0) \in State
  BY GenesisState
<1>2. BootstrapRows \in Rows
  BY MarketAssumption DEF BootstrapRows, Rows, Row, CfgParams
<1>3. Bootstrap(0) \in Market
  BY <1>2 DEF Bootstrap, Market
<1>4. NoPlan \in Plans
  BY DEF NoPlan, Plans
<1>5. "idle" \in Phases /\ "nothing" \in Outcomes
  BY DEF Phases, Outcomes
<1>6. Between(tick) \in Tick
  BY <1>1, <1>3, <1>4, <1>5, Zenon DEF Between, Tick
<1> QED
  BY <1>6 DEF GoodRun, Between, Inside

\* A run starts without files, every daemon before the first tick.
LEMMA TickInit ==
  Init => TickInv
<1> SUFFICES ASSUME Init PROVE TickInv
  OBVIOUS
<1>1. 1 \in Dirs
  BY TickAssumption DEF Dirs
<1>2. NoFiles \in Files /\ NoFiles.states = {}
  BY DEF NoFiles, Files
<1>3. disk \in [Dirs -> Files] /\ \A i \in Dirs : disk[i].states = {}
  BY <1>2 DEF Init
<1>4. run \in [Daemons -> Tick]
  BY <1>1, BetweenOK, Zenon DEF Init
<1>5. TickTypeOK
  BY <1>3, <1>4 DEF Init, TickTypeOK
<1>6. \A d \in Daemons : GoodRun(mode.market, run[d])
  BY <1>1, BetweenOK DEF Init
<1> QED
  BY <1>3, <1>5, <1>6 DEF TickInv

\* A daemon that takes LOCK, or is refused, has loaded nothing yet.
LEMMA EnterInv ==
  ASSUME TickInv, NEW d \in Daemons, Enter(d)
  PROVE  TickInv'
<1>1. run[d] \in Tick /\ Own(d) \in Dirs
  BY DirTypes
<1>2. /\ lock \in [Dirs -> BOOLEAN] /\ deaths \in Nat
      /\ ran \in Seq((1 .. MaxTick) \X Campaigns)
  BY DEF TickInv, TickTypeOK
<1>3. run[d].tick <= MaxTick
  BY DEF Enter
<1>4. ASSUME NEW pc \in {"raised", "load"}, Goto(d, pc)
      PROVE  TickInv'
  <2> DEFINE r == [run[d] EXCEPT !.pc = pc]
  <2>1. r \in Tick
    BY <1>1 DEF Tick, Phases, Inside
  <2>2. GoodRun(mode.market, r)
    BY <1>1, <1>3 DEF GoodRun, Tick, Inside
  <2>3. lock' \in [Dirs -> BOOLEAN]
    BY <1>1, <1>2 DEF Enter
  <2> QED
    BY <1>2, <1>4, <2>1, <2>2, <2>3, LocalStep DEF Goto, Enter
<1> QED
  BY <1>4 DEF Enter

\* What a tick loads is good: a file of the last tick, or a new run's state.
LEMMA LoadInv ==
  ASSUME TickInv, NEW d \in Daemons, Load(d)
  PROVE  TickInv'
<1> DEFINE prev == Prev(run[d].tick).states
<1>1. PICK s \in Loaded(prev, Genesis(policy)) :
        /\ disk' = [disk EXCEPT ![Own(d)].states = @ \cup {s}]
        /\ Become(d, [run[d] EXCEPT
                        !.pc = IF mode.market THEN "settle" ELSE "decide",
                        !.policy = policy, !.st = s])
  BY DEF Load
<1>2. /\ run[d] \in Tick /\ Own(d) \in Dirs /\ disk[Own(d)] \in Files
      /\ \A e \in prev : GoodState(mode.market, e)
  BY DirTypes
<1>3. policy \in Nat
  BY DEF TickInv, TickTypeOK
<1>4. GoodState(mode.market, s)
  BY <1>1, <1>2, <1>3, GenesisGood DEF Loaded, Latest
<1>5. s \in State
  BY <1>4 DEF GoodState
<1> DEFINE f == [disk[Own(d)] EXCEPT !.states = @ \cup {s}]
           r == [run[d] EXCEPT
                        !.pc = IF mode.market THEN "settle" ELSE "decide",
                        !.policy = policy, !.st = s]
<1>6. f \in Files
  BY <1>2, <1>5 DEF Files
<1>7. \A e \in f.states : GoodState(mode.market, e)
  <2>1. \A e \in disk[Own(d)].states : GoodState(mode.market, e)
    BY <1>2 DEF TickInv
  <2>2. f.states = disk[Own(d)].states \cup {s}
    BY <1>2 DEF Files
  <2> QED
    BY <2>1, <2>2, <1>4, Zenon
<1>8. r \in Tick
  BY <1>2, <1>3, <1>5 DEF Tick, Phases, Inside
<1>9. run[d].tick <= MaxTick
  <2>1. GoodRun(mode.market, run[d]) /\ run[d].pc = "load"
    BY DEF TickInv, Load, Here
  <2> QED
    BY <2>1 DEF GoodRun
<1>10. GoodRun(mode.market, r)
  BY <1>2, <1>4, <1>9 DEF GoodRun, Tick, Inside
<1>11. disk' = [disk EXCEPT ![Own(d)] = f]
  BY <1>1
<1> HIDE DEF f, r
<1>12. Become(d, r)
  BY <1>1 DEF r
<1> QED
  BY <1>6, <1>7, <1>8, <1>10, <1>11, <1>12, FileStep DEF Load

\* A settlement touches markets and selections, no state.
LEMMA SettleInv ==
  ASSUME TickInv, NEW d \in Daemons, Settle(d)
  PROVE  TickInv'
<1> DEFINE prev == Prev(run[d].tick)
<1>1. PICK m \in Loaded(prev.markets, Bootstrap(run[d].tick - 1)),
           sel \in Loaded(prev.selections, NoSelection),
           known \in BOOLEAN, delta \in Deltas :
        LET after == Settlement(m, sel, run[d].tick, known, delta)
        IN /\ disk' = [disk EXCEPT
                        ![Own(d)].markets = @ \cup ({m} \cap prev.markets)
                                              \cup {after},
                        ![Own(d)].selections =
                             @ \cup ({sel} \cap prev.selections)]
           /\ Become(d, [run[d] EXCEPT !.pc = "select", !.market = after])
  BY DEF Settle
<1>2. /\ run[d] \in Tick /\ run[d].tick \in Dirs /\ Own(d) \in Dirs
      /\ disk[Own(d)] \in Files /\ prev \in Files
  BY DirTypes
<1>3. run[d].tick \in Nat /\ run[d].tick - 1 \in Nat
  BY <1>2, TickAssumption DEF Dirs
<1>4. Bootstrap(run[d].tick - 1) \in Market
  <2>1. BootstrapRows \in Rows
    BY MarketAssumption DEF BootstrapRows, Rows, Row, CfgParams
  <2> QED
    BY <2>1, <1>3 DEF Bootstrap, Market
<1>5. m \in Market
  BY <1>2, <1>4 DEF Loaded, Latest, Files
<1>6. sel \in Selection
  BY <1>2 DEF Loaded, Latest, Files, NoSelection, Selection
<1> DEFINE after == Settlement(m, sel, run[d].tick, known, delta)
           rows  == SettledRows(m.rows,
                                IF known THEN sel.winner ELSE NoCampaign, delta)
<1>7. rows \in Rows
  <2>1. m.rows \in Rows /\ delta \in Int
    BY <1>5, TickAssumption DEF Market
  <2> QED
    BY <2>1, SettledRowsType, Zenon
<1>8. after \in Market
  <2>1. after = [tick |-> run[d].tick, rows |-> rows,
                 settled |-> IF sel = NoSelection THEN m.settled
                                                  ELSE Append(m.settled, sel),
                 path |-> Append(m.path, [c \in Campaigns |-> rows[c].bankroll])]
    BY DEF Settlement
  <2> HIDE DEF rows, after
  <2>2. [c \in Campaigns |-> rows[c].bankroll] \in [Campaigns -> Int]
    BY <1>7 DEF Rows, Row
  <2>3. m.settled \in Seq(Selection) /\ m.path \in Seq([Campaigns -> Int])
    BY <1>5 DEF Market
  <2>4. Append(m.settled, sel) \in Seq(Selection)
    BY <2>3, <1>6
  <2>5. Append(m.path, [c \in Campaigns |-> rows[c].bankroll])
          \in Seq([Campaigns -> Int])
    BY <2>2, <2>3
  <2> QED
    BY <2>1, <2>3, <2>4, <2>5, <1>3, <1>7, Zenon DEF Market
<1> HIDE DEF after
<1> DEFINE f == [disk[Own(d)] EXCEPT
                   !.markets = @ \cup ({m} \cap prev.markets) \cup {after},
                   !.selections = @ \cup ({sel} \cap prev.selections)]
           r == [run[d] EXCEPT !.pc = "select", !.market = after]
<1>9. f \in Files /\ f.states = disk[Own(d)].states
  BY <1>2, <1>5, <1>6, <1>8 DEF Files
<1>10. \A s \in f.states : GoodState(mode.market, s)
  BY <1>2, <1>9 DEF TickInv
<1>11. r \in Tick
  BY <1>2, <1>8 DEF Tick, Phases, Inside
<1>12. GoodRun(mode.market, r)
  <2>1. GoodRun(mode.market, run[d]) /\ run[d].pc = "settle"
    BY DEF TickInv, Settle, Here
  <2> QED
    BY <2>1, <1>2 DEF GoodRun, Tick, Inside
<1>13. disk' = [disk EXCEPT ![Own(d)] = f] /\ Become(d, r)
  BY <1>1, <1>2 DEF after, Files
<1> HIDE DEF f, r
<1> QED
  BY <1>9, <1>10, <1>11, <1>12, <1>13, FileStep DEF Settle

\* A daemon that takes a plan its state allows is good.
LEMMA PlanGood ==
  ASSUME NEW market, NEW r \in Tick, r.tick <= MaxTick, GoodState(market, r.st),
         NEW plan, GoodPlan(market, r.st, r.tick, r.policy, plan)
  PROVE  LET q == [r EXCEPT
                     !.pc = IF plan.campaign = NoCampaign THEN "write"
                                                          ELSE "dispatch",
                     !.plan = plan,
                     !.outcome = IF plan.halt THEN "halt" ELSE "nothing"]
         IN q \in Tick /\ GoodRun(market, q)
<1> DEFINE q == [r EXCEPT
                     !.pc = IF plan.campaign = NoCampaign THEN "write"
                                                          ELSE "dispatch",
                     !.plan = plan,
                     !.outcome = IF plan.halt THEN "halt" ELSE "nothing"]
<1>1. plan \in Plans
  BY DEF GoodPlan
<1>2. q \in Tick
  BY <1>1 DEF Tick, Phases, Inside, Outcomes
<1>3. /\ q.tick = r.tick /\ q.st = r.st /\ q.policy = r.policy /\ q.plan = plan
      /\ q.pc = IF plan.campaign = NoCampaign THEN "write" ELSE "dispatch"
  BY DEF Tick
<1> HIDE DEF q
<1>4. GoodRun(market, q)
  BY <1>3 DEF GoodRun, Inside
<1> QED
  BY <1>2, <1>4 DEF q

\* The market's winner, if any, is affordable and off its cooldown.
LEMMA SelectInv ==
  ASSUME TickInv, NEW d \in Daemons, Select(d)
  PROVE  TickInv'
<1>1. PICK winner \in Winners(run[d].market.rows, run[d].tick,
                              run[d].st.cooldown, run[d].st.budget) :
        /\ disk' = [disk EXCEPT ![Own(d)].selections =
                      @ \cup {[tick |-> run[d].tick, winner |-> winner]}]
        /\ Plan(d, [NoPlan EXCEPT !.campaign = winner])
  BY DEF Select
<1>2. /\ run[d] \in Tick /\ run[d].tick \in Dirs /\ Own(d) \in Dirs
      /\ disk[Own(d)] \in Files
  BY DirTypes
<1>3. /\ GoodState(mode.market, run[d].st) /\ run[d].tick <= MaxTick
  BY DEF TickInv, GoodRun, Select, Here, Inside
<1>4. /\ winner \in Campaigns \cup {NoCampaign}
      /\ winner # NoCampaign =>
           /\ winner \in Campaigns
           /\ run[d].st.cooldown[winner] <= run[d].tick
           /\ run[d].st.budget >= PredictedCost(winner)
  BY <1>1 DEF Winners, Eligible
<1>5. winner # NoCampaign => winner \in Ready(run[d].st, run[d].tick)
  <2> HAVE winner # NoCampaign
  <2>1. Cost[winner] \in Nat /\ PredictedCost(winner) \in Nat
          /\ PredictedCost(winner) >= Cost[winner]
    BY <1>4, PredictedInt, MarketAssumption
  <2>2. run[d].st.budget \in Int
    BY <1>2 DEF Tick, State
  <2> QED
    BY <2>1, <2>2, <1>4 DEF Ready
<1> DEFINE plan == [NoPlan EXCEPT !.campaign = winner]
<1>6. plan \in Plans /\ plan.campaign = winner /\ plan.goal = NoGoal
  BY <1>4 DEF NoPlan, Plans
<1>7. mode.market
  BY DEF TickInv, GoodRun, Select, Here
<1>8. GoodPlan(mode.market, run[d].st, run[d].tick, run[d].policy, plan)
  BY <1>5, <1>6, <1>7 DEF GoodPlan
<1> HIDE DEF plan
<1> DEFINE f == [disk[Own(d)] EXCEPT !.selections =
                   @ \cup {[tick |-> run[d].tick, winner |-> winner]}]
           r == [run[d] EXCEPT
                   !.pc = IF plan.campaign = NoCampaign THEN "write"
                                                        ELSE "dispatch",
                   !.plan = plan,
                   !.outcome = IF plan.halt THEN "halt" ELSE "nothing"]
<1>9. r \in Tick /\ GoodRun(mode.market, r)
  BY <1>2, <1>3, <1>8, PlanGood
<1>10. [tick |-> run[d].tick, winner |-> winner] \in Selection
  BY <1>2, <1>4, TickAssumption DEF Selection, Dirs
<1>11. f \in Files /\ f.states = disk[Own(d)].states
  BY <1>2, <1>10 DEF Files
<1>12. \A s \in f.states : GoodState(mode.market, s)
  BY <1>2, <1>11 DEF TickInv
<1>13. disk' = [disk EXCEPT ![Own(d)] = f] /\ Become(d, r)
  BY <1>1 DEF Plan, plan
<1> HIDE DEF f, r
<1> QED
  BY <1>9, <1>11, <1>12, <1>13, FileStep DEF Select

\* Every path of the decider ends in a plan that the state allows.
LEMMA DecidedGood ==
  ASSUME NEW st \in State, NEW tick \in Nat, NEW current, NEW market,
         NEW plan \in DecidedPlans(st, tick, current)
  PROVE  GoodPlan(market, st, tick, current, plan)
<1> DEFINE allowed == {p \in Plans :
                         p.campaign # NoCampaign =>
                           /\ p.campaign \in Ready(st, tick)
                           /\ p.goal # NoGoal => p.goal \in Pending(st)}
<1>1. NoPlan \in allowed
  BY DEF NoPlan, Plans
<1>2. Tasks(Ready(st, tick), Pending(st) \cup {NoGoal}) \subseteq allowed
  BY DEF Tasks, Plans, Ready, Pending
<1>3. /\ GoalPlans(st, tick) \subseteq allowed
      /\ RoutedPlans(st, tick) \subseteq allowed
      /\ RulePlans(st, tick) \subseteq allowed
  <2>1. /\ GoalPlans(st, tick) \subseteq Tasks(Ready(st, tick), Pending(st))
        /\ RoutedPlans(st, tick)
             \subseteq Tasks(Ready(st, tick), Pending(st) \cup {NoGoal})
        /\ RulePlans(st, tick)
             \subseteq {NoPlan} \cup Tasks(Ready(st, tick), {NoGoal})
    BY DEF GoalPlans, RoutedPlans, RulePlans
  <2>2. /\ Tasks(Ready(st, tick), Pending(st))
             \subseteq Tasks(Ready(st, tick), Pending(st) \cup {NoGoal})
        /\ Tasks(Ready(st, tick), {NoGoal})
             \subseteq Tasks(Ready(st, tick), Pending(st) \cup {NoGoal})
    BY DEF Tasks
  <2> HIDE DEF allowed
  <2> QED
    BY <2>1, <2>2, <1>1, <1>2, Zenon
<1>4. CASE st.policy # current
  BY <1>4 DEF DecidedPlans, NoPlan, GoodPlan, Plans
<1>5. CASE st.policy = current
  <2>1. plan \in ScheduledPlans(st, tick) \cup RoutedPlans(st, tick)
                   \cup BlockedPlans(st, tick)
    BY <1>5 DEF DecidedPlans
  <2> HIDE DEF allowed
  <2>2. plan \in allowed
    BY <2>1, <1>1, <1>3 DEF ScheduledPlans, BlockedPlans
  <2> USE DEF allowed
  <2> QED
    BY <2>2, <1>5 DEF GoodPlan
<1> QED
  BY <1>4, <1>5

\* The decider's plan is one the loaded state allows.
LEMMA DecideInv ==
  ASSUME TickInv, NEW d \in Daemons, Decide(d)
  PROVE  TickInv'
<1>1. PICK plan \in DecidedPlans(run[d].st, run[d].tick, run[d].policy) :
        Plan(d, plan)
  BY DEF Decide
<1>2. run[d] \in Tick /\ run[d].tick \in Dirs
  BY DirTypes
<1>3. GoodState(mode.market, run[d].st) /\ run[d].tick <= MaxTick
  BY DEF TickInv, GoodRun, Decide, Here, Inside
<1>4. run[d].st \in State /\ run[d].tick \in Nat
  BY <1>2, TickAssumption DEF Tick, Dirs
<1>5. GoodPlan(mode.market, run[d].st, run[d].tick, run[d].policy, plan)
  BY <1>4, DecidedGood
<1> DEFINE r == [run[d] EXCEPT
                   !.pc = IF plan.campaign = NoCampaign THEN "write"
                                                        ELSE "dispatch",
                   !.plan = plan,
                   !.outcome = IF plan.halt THEN "halt" ELSE "nothing"]
<1>6. r \in Tick /\ GoodRun(mode.market, r)
  BY <1>2, <1>3, <1>5, PlanGood
<1>7. Become(d, r)
  BY <1>1 DEF Plan
<1>8. /\ lock \in [Dirs -> BOOLEAN] /\ deaths \in Nat
      /\ ran \in Seq((1 .. MaxTick) \X Campaigns)
  BY DEF TickInv, TickTypeOK
<1> HIDE DEF r
<1> QED
  BY <1>6, <1>7, <1>8, LocalStep DEF Decide

\* A dispatch is remembered by the history only.
LEMMA DispatchInv ==
  ASSUME TickInv, NEW d \in Daemons, Dispatch(d)
  PROVE  TickInv'
<1> DEFINE r == [run[d] EXCEPT !.pc = "promote"]
<1>1. run[d] \in Tick /\ run[d].tick \in Dirs
  BY DirTypes
<1>2. GoodRun(mode.market, run[d]) /\ run[d].pc = "dispatch"
  BY DEF TickInv, Dispatch, Here
<1>3. r \in Tick /\ GoodRun(mode.market, r)
  BY <1>1, <1>2 DEF Tick, Phases, Inside, GoodRun
<1>4. /\ lock \in [Dirs -> BOOLEAN] /\ deaths \in Nat
      /\ ran \in Seq((1 .. MaxTick) \X Campaigns)
  BY DEF TickInv, TickTypeOK
<1>5. run[d].plan.campaign \in Campaigns
  BY <1>1, <1>2 DEF GoodRun, Tick, Plans
<1>6. run[d].tick \in 1 .. MaxTick
  BY <1>1, <1>2, TickAssumption DEF GoodRun, Dirs
<1>7. ran' \in Seq((1 .. MaxTick) \X Campaigns)
  BY <1>4, <1>5, <1>6 DEF Dispatch
<1>8. Become(d, r)
  BY DEF Dispatch, Goto
<1> HIDE DEF r
<1> QED
  BY <1>3, <1>4, <1>7, <1>8, LocalStep DEF Dispatch

\* Whatever came of the campaign, the plan is still the one decided.
LEMMA PromoteInv ==
  ASSUME TickInv, NEW d \in Daemons, Promote(d)
  PROVE  TickInv'
<1>1. PICK o \in Outcomes :
        Become(d, [run[d] EXCEPT !.pc = "write", !.outcome = o])
  BY DEF Promote
<1> DEFINE r == [run[d] EXCEPT !.pc = "write", !.outcome = o]
<1>2. run[d] \in Tick
  BY DirTypes
<1>3. GoodRun(mode.market, run[d]) /\ run[d].pc = "promote"
  BY DEF TickInv, Promote, Here
<1>4. r \in Tick /\ GoodRun(mode.market, r)
  BY <1>2, <1>3 DEF Tick, Phases, Inside, GoodRun
<1>5. /\ lock \in [Dirs -> BOOLEAN] /\ deaths \in Nat
      /\ ran \in Seq((1 .. MaxTick) \X Campaigns)
  BY DEF TickInv, TickTypeOK
<1> HIDE DEF r
<1>6. Become(d, r)
  BY <1>1 DEF r
<1> QED
  BY <1>4, <1>5, <1>6, LocalStep DEF Promote

\* The state that is written is good, as the one that was loaded was.
LEMMA WriteStateInv ==
  ASSUME TickInv, NEW d \in Daemons, WriteState(d)
  PROVE  TickInv'
<1> DEFINE s == NextState(run[d])
           f == [disk[Own(d)] EXCEPT !.states = @ \cup {s}]
           r == [run[d] EXCEPT !.pc = "emit"]
<1>1. run[d] \in Tick /\ Own(d) \in Dirs /\ disk[Own(d)] \in Files
  BY DirTypes
<1>2. GoodRun(mode.market, run[d]) /\ run[d].pc = "write"
  BY DEF TickInv, WriteState, Here
<1>3. GoodState(mode.market, s)
  BY <1>1, <1>2, NextStateGood DEF GoodRun, Inside
<1>4. s \in State
  BY <1>3 DEF GoodState
<1> HIDE DEF s
<1>5. f \in Files /\ f.states = disk[Own(d)].states \cup {s}
  BY <1>1, <1>4 DEF Files
<1>6. \A e \in f.states : GoodState(mode.market, e)
  BY <1>1, <1>3, <1>5, Zenon DEF TickInv
<1>7. r \in Tick /\ GoodRun(mode.market, r)
  BY <1>1, <1>2 DEF Tick, Phases, Inside, GoodRun
<1>8. disk' = [disk EXCEPT ![Own(d)] = f] /\ Become(d, r)
  BY DEF WriteState, Goto, s
<1> HIDE DEF f, r
<1> QED
  BY <1>5, <1>6, <1>7, <1>8, FileStep DEF WriteState

\* A daemon that leaves keeps no local variables.
LEMMA LeaveInv ==
  ASSUME TickInv, NEW d \in Daemons, Leave(d)
  PROVE  TickInv'
<1> DEFINE t == IF Here(d, "emit") THEN run[d].tick + 1 ELSE run[d].tick
<1>1. run[d].tick \in Dirs /\ Own(d) \in Dirs
  BY DirTypes
<1>2. run[d].tick <= MaxTick
  BY DEF TickInv, GoodRun, Leave
<1>3. t \in Dirs
  BY <1>1, <1>2, TickAssumption DEF Dirs
<1> HIDE DEF t
<1>4. Between(t) \in Tick /\ GoodRun(mode.market, Between(t))
  BY <1>3, BetweenOK
<1>5. /\ lock \in [Dirs -> BOOLEAN] /\ deaths \in Nat
      /\ ran \in Seq((1 .. MaxTick) \X Campaigns)
  BY DEF TickInv, TickTypeOK
<1>6. lock' \in [Dirs -> BOOLEAN]
  BY <1>5 DEF Leave
<1>7. Become(d, Between(t))
  BY DEF Leave, t
<1> QED
  BY <1>4, <1>5, <1>6, <1>7, LocalStep DEF Leave

\* A tick that raises or is killed leaves the files as they are.
LEMMA DeathInv ==
  ASSUME TickInv, NEW d \in Daemons, Raise(d) \/ Crash(d)
  PROVE  TickInv'
<1>1. run[d] \in Tick /\ run[d].tick \in Dirs
  BY DirTypes
<1>2. /\ lock \in [Dirs -> BOOLEAN] /\ deaths \in Nat
      /\ ran \in Seq((1 .. MaxTick) \X Campaigns)
  BY DEF TickInv, TickTypeOK
<1>3. GoodRun(mode.market, run[d])
  BY DEF TickInv
<1>4. CASE Raise(d)
  <2> DEFINE r == [run[d] EXCEPT !.pc = "raised"]
  <2>1. run[d].pc # "idle"
    BY <1>4 DEF Raise, Inside
  <2>2. r \in Tick /\ GoodRun(mode.market, r)
    BY <2>1, <1>1, <1>3 DEF Tick, Phases, Inside, GoodRun
  <2>3. Become(d, r) /\ deaths' \in Nat
    BY <1>2, <1>4 DEF Raise, Goto
  <2> HIDE DEF r
  <2> QED
    BY <2>2, <2>3, <1>2, <1>4, LocalStep DEF Raise
<1>5. CASE Crash(d)
  <2>1. Between(run[d].tick) \in Tick
          /\ GoodRun(mode.market, Between(run[d].tick))
    BY <1>1, BetweenOK
  <2>2. Become(d, Between(run[d].tick)) /\ deaths' \in Nat
    BY <1>2, <1>5 DEF Crash
  <2> QED
    BY <2>1, <2>2, <1>2, <1>5, LocalStep DEF Crash
<1> QED
  BY <1>4, <1>5

\* An edit of the pack touches no file of the run.
LEMMA EditPolicyInv ==
  ASSUME TickInv, EditPolicy
  PROVE  TickInv'
<1>1. TickTypeOK'
  BY DEF TickInv, TickTypeOK, EditPolicy
<1>2. \A i \in Dirs : \A s \in disk'[i].states : GoodState(mode.market, s)
  BY DEF TickInv, EditPolicy
<1>3. \A d \in Daemons : GoodRun(mode.market, run'[d])
  BY DEF TickInv, EditPolicy
<1> QED
  BY <1>1, <1>2, <1>3 DEF TickInv, EditPolicy

\* Every step of every daemon, and of whoever edits the pack, preserves it.
LEMMA TickNext ==
  TickInv /\ [Next]_vars => TickInv'
<1> SUFFICES ASSUME TickInv, [Next]_vars PROVE TickInv'
  OBVIOUS
<1>1. CASE UNCHANGED vars
  <2>1. TickTypeOK'
    BY <1>1 DEF TickInv, TickTypeOK, vars
  <2> QED
    BY <1>1, <2>1 DEF TickInv, vars
<1>2. CASE EditPolicy
  BY <1>2, EditPolicyInv
<1>3. ASSUME NEW d \in Daemons, Step(d)
      PROVE  TickInv'
  BY <1>3, EnterInv, LoadInv, SettleInv, SelectInv, DecideInv, DispatchInv,
     PromoteInv, WriteStateInv, LeaveInv DEF Step
<1>4. ASSUME NEW d \in Daemons, Raise(d) \/ Crash(d)
      PROVE  TickInv'
  BY <1>4, DeathInv
<1> QED
  BY <1>1, <1>2, <1>3, <1>4 DEF Next

\* What every reachable state satisfies.
LEMMA TickInvariant == TickSpec => []TickInv
BY TickInit, TickNext, PTL DEF TickSpec

----------------------------------------------------------------------------
(* The theorems                                                            *)

\* The files of a run, the local variables of run_tick and the history have
\* the types of their schemas, however many daemons run the ticks.
THEOREM TickTypes == TickSpec => []TickTypeOK
<1>1. TickInv => TickTypeOK
  BY DEF TickInv
<1> QED
  BY <1>1, TickInvariant, PTL

\* The floor of debit_budget never forgives a campaign part of its cost: every
\* state file's budget is what its ancestors' campaigns left of the whole.
THEOREM BudgetsAdd == TickSpec => []BudgetAccounted
<1>1. TickInv => BudgetAccounted
  BY DEF TickInv, GoodState, BudgetAccounted
<1> QED
  BY <1>1, TickInvariant, PTL

\* Two runs of one campaign that a state file descends from are a cooldown
\* apart, whatever ticks died, were run again, or raced.
THEOREM CooldownsHold == TickSpec => []CooldownHolds
<1>1. TickInv => CooldownHolds
  BY DEF TickInv, GoodState, CooldownHolds, Apart
<1> QED
  BY <1>1, TickInvariant, PTL

\* A goal that a run closed is never given to another campaign, although the
\* goal queue of the pack is merged into every tick (_merge_goals).
THEOREM ClosedGoalsStay == TickSpec => []ClosedGoalsRest
<1>1. TickInv => ClosedGoalsRest
  BY DEF TickInv, GoodState, ClosedGoalsRest, Rests
<1> QED
  BY <1>1, TickInvariant, PTL

\* Without a market, every campaign a state file descends from was decided
\* under the policy the run began with (the SAFE_HALT of decide).
THEOREM PolicyStays == TickSpec => []OnePolicy
<1>1. TickInv => OnePolicy
  BY DEF TickInv, GoodState, OnePolicy
<1> QED
  BY <1>1, TickInvariant, PTL

----------------------------------------------------------------------------
(* Induction over the naturals, as a fact about sets                       *)

\* A set of naturals has a least element.
LEMMA LeastNat ==
  ASSUME NEW T, T \subseteq Nat, T # {}
  PROVE  \E n \in T : \A m \in T : n <= m
<1> DEFINE R == OpToRel(<, Nat)
<1>1. IsWellFoundedOn(R, Nat)
  BY NatLessThanWellFounded
<1>2. \A n, m \in Nat : n < m => <<n, m>> \in R
  BY DEF OpToRel
<1> HIDE DEF R
<1>3. PICK n \in T : \A m \in T : <<m, n>> \notin R
  BY <1>1, WFMin
<1>4. ASSUME NEW m \in T PROVE n <= m
  <2>1. n \in Nat /\ m \in Nat /\ ~(m < n)
    BY <1>2, <1>3
  <2> QED
    BY <2>1
<1> QED
  BY <1>4

\* What holds of 0 and of the successor of each it holds of, holds of all.
LEMMA Induct ==
  ASSUME NEW T, 0 \in T, \A n \in Nat : n \in T => n + 1 \in T
  PROVE  Nat \subseteq T
<1> SUFFICES ASSUME Nat \ T # {} PROVE FALSE
  OBVIOUS
<1>1. PICK n \in Nat \ T : \A m \in Nat \ T : n <= m
  BY LeastNat
<1>2. n # 0 /\ n - 1 \in Nat
  BY <1>1
<1>3. n - 1 \in T
  BY <1>1, <1>2
<1> QED
  BY <1>1, <1>2, <1>3

----------------------------------------------------------------------------
(* The costs of the runs                                                   *)

\* f sums up the costs of the first k runs.
Sums(f, runs, k) ==
  /\ DOMAIN f = 0 .. k
  /\ f[0] = 0
  /\ \A i \in 1 .. k : f[i] = f[i - 1] + Cost[runs[i][2]]

\* Such a sum exists.
LEMMA SumExists ==
  ASSUME NEW runs, NEW k \in Nat
  PROVE  \E f : Sums(f, runs, k)
<1> DEFINE T == {n \in Nat : \E f : Sums(f, runs, n)}
<1>1. 0 \in T
  <2>1. Sums([i \in 0 .. 0 |-> 0], runs, 0)
    BY DEF Sums
  <2> QED
    BY <2>1
<1>2. ASSUME NEW n \in Nat, n \in T PROVE n + 1 \in T
  <2>1. PICK f : Sums(f, runs, n)
    BY <1>2
  <2> DEFINE g == [i \in 0 .. (n + 1) |->
                     IF i <= n THEN f[i] ELSE f[n] + Cost[runs[n + 1][2]]]
  <2>2. Sums(g, runs, n + 1)
    BY <2>1 DEF Sums
  <2> HIDE DEF g
  <2> QED
    BY <2>2
<1> HIDE DEF T
<1>3. k \in T
  BY <1>1, <1>2, Induct
<1> QED
  BY <1>3 DEF T

\* The first n runs of both are the same.
Prefix(runs, more, n) == \A i \in 1 .. n : more[i] = runs[i]

\* Two sums agree as far as the runs do.
LEMMA SumsAgree ==
  ASSUME NEW runs, NEW more, NEW k \in Nat, NEW n \in Nat, n <= k, NEW f, NEW g,
         Sums(f, runs, n), Sums(g, more, k), Prefix(runs, more, n)
  PROVE  g[n] = f[n]
<1> DEFINE T == {i \in Nat : i <= n => g[i] = f[i]}
<1>1. 0 \in T
  BY DEF Sums
<1>2. ASSUME NEW i \in Nat, i \in T PROVE i + 1 \in T
  <2> SUFFICES ASSUME i + 1 <= n PROVE g[i + 1] = f[i + 1]
    BY <1>2
  <2>1. i + 1 \in 1 .. n /\ i + 1 \in 1 .. k /\ (i + 1) - 1 = i /\ g[i] = f[i]
    BY <1>2
  <2>2. /\ f[i + 1] = f[i] + Cost[runs[i + 1][2]]
        /\ g[i + 1] = g[i] + Cost[more[i + 1][2]]
    BY <2>1 DEF Sums
  <2> QED
    BY <2>1, <2>2 DEF Prefix
<1> HIDE DEF T
<1>3. Nat \subseteq T
  BY <1>1, <1>2, Induct
<1> QED
  BY <1>3 DEF T

\* CostOf is what the sum of the costs comes to.
LEMMA CostOfSum ==
  ASSUME NEW runs, Len(runs) \in Nat
  PROVE  \E f : Sums(f, runs, Len(runs)) /\ CostOf(runs) = f[Len(runs)]
<1> DEFINE n == Len(runs)
           IsTotal(h) == h = [i \in 0 .. n |->
                                IF i = 0 THEN 0 ELSE h[i - 1] + Cost[runs[i][2]]]
           total == CHOOSE h : IsTotal(h)
<1>1. PICK f : Sums(f, runs, n)
  BY SumExists
<1> DEFINE g == [i \in 0 .. n |-> f[i]]
<1>2. IsTotal(g)
  <2>1. ASSUME NEW i \in 0 .. n
        PROVE  g[i] = IF i = 0 THEN 0 ELSE g[i - 1] + Cost[runs[i][2]]
    BY <1>1, <2>1 DEF Sums
  <2> QED
    BY <2>1
<1> HIDE DEF g
<1>3. IsTotal(total)
  BY <1>2
<1>4. CostOf(runs) = total[n]
  BY DEF CostOf
<1> HIDE DEF total
<1>5. Sums(total, runs, n)
  BY <1>3 DEF Sums
<1> QED
  BY <1>4, <1>5

\* Nothing has cost nothing.
LEMMA CostOfNone == CostOf(<<>>) = 0
<1>1. Len(<<>>) = 0
  OBVIOUS
<1>2. PICK f : Sums(f, <<>>, Len(<<>>)) /\ CostOf(<<>>) = f[Len(<<>>)]
  BY <1>1, CostOfSum
<1> QED
  BY <1>1, <1>2 DEF Sums

\* The runs of the history cost a number.
LEMMA CostOfNat ==
  ASSUME NEW runs \in Seq((1 .. MaxTick) \X Campaigns)
  PROVE  CostOf(runs) \in Nat
<1> DEFINE n == Len(runs)
<1>1. n \in Nat /\ \A i \in 1 .. n : runs[i][2] \in Campaigns
  OBVIOUS
<1> HIDE DEF n
<1>2. PICK f : Sums(f, runs, n) /\ CostOf(runs) = f[n]
  BY <1>1, CostOfSum DEF n
<1> DEFINE T == {i \in Nat : i <= n => f[i] \in Nat}
<1>3. 0 \in T
  BY <1>2 DEF Sums
<1>4. ASSUME NEW i \in Nat, i \in T PROVE i + 1 \in T
  <2> SUFFICES ASSUME i + 1 <= n PROVE f[i + 1] \in Nat
    BY <1>4
  <2>1. i + 1 \in 1 .. n /\ (i + 1) - 1 = i /\ f[i] \in Nat
    BY <1>1, <1>4
  <2>2. f[i + 1] = f[i] + Cost[runs[i + 1][2]]
    BY <1>2, <2>1 DEF Sums
  <2>3. Cost[runs[i + 1][2]] \in Nat
    BY <1>1, <2>1, MarketAssumption
  <2> QED
    BY <2>1, <2>2, <2>3
<1> HIDE DEF T
<1>5. Nat \subseteq T
  BY <1>3, <1>4, Induct
<1> QED
  BY <1>1, <1>2, <1>5 DEF T

\* One run more costs what it costs.
LEMMA CostOfAppend ==
  ASSUME NEW runs \in Seq((1 .. MaxTick) \X Campaigns), NEW t \in 1 .. MaxTick,
         NEW c \in Campaigns
  PROVE  CostOf(Append(runs, <<t, c>>)) = CostOf(runs) + Cost[c]
<1> DEFINE n == Len(runs)
           more == Append(runs, <<t, c>>)
<1>1. n \in Nat
  OBVIOUS
<1>2. Len(more) = n + 1 /\ \A i \in 1 .. n : more[i] = runs[i]
  OBVIOUS
<1>3. more[n + 1][2] = c
  OBVIOUS
<1> HIDE DEF n, more
<1>4. PICK f : Sums(f, runs, n) /\ CostOf(runs) = f[n]
  BY <1>1, CostOfSum DEF n
<1>5. PICK g : Sums(g, more, n + 1) /\ CostOf(more) = g[n + 1]
  BY <1>1, <1>2, CostOfSum
<1>6. g[n] = f[n]
  <2>1. n \in 0 .. n /\ n + 1 \in Nat /\ n <= n + 1
    BY <1>1
  <2>2. /\ Sums(f, runs, n) /\ Sums(g, more, n + 1)
        /\ \A i \in 1 .. n : more[i] = runs[i]
    BY <1>2, <1>4, <1>5
  <2>3. Prefix(runs, more, n)
    BY <2>2 DEF Prefix
  <2> QED
    BY <2>1, <2>2, <2>3, SumsAgree
<1>7. g[n + 1] = g[n] + Cost[c]
  <2>1. n + 1 \in 1 .. (n + 1) /\ (n + 1) - 1 = n
    BY <1>1
  <2>2. g[n + 1] = g[(n + 1) - 1] + Cost[more[n + 1][2]]
    BY <1>5, <2>1 DEF Sums
  <2> QED
    BY <2>1, <2>2, <1>3
<1> QED
  BY <1>4, <1>5, <1>6, <1>7 DEF more

\* A registry has campaigns, as many as can be listed.
SomeCampaigns == Campaigns # {} /\ IsFiniteSet(Campaigns)

\* Of finitely many campaigns one is the dearest.
LEMMA Dearest ==
  ASSUME SomeCampaigns
  PROVE  DearestRun \in Nat /\ \A c \in Campaigns : Cost[c] <= DearestRun
<1>1. PICK seq \in Seq(Campaigns) :
        \A c \in Campaigns : \E i \in 1 .. Len(seq) : seq[i] = c
  BY DEF SomeCampaigns, IsFiniteSet
<1> DEFINE n == Len(seq)
           U == {m \in Nat : \A c \in Campaigns : Cost[c] <= m}
<1>2. n \in Nat /\ \A i \in 1 .. n : seq[i] \in Campaigns /\ Cost[seq[i]] \in Nat
  <2>1. n \in Nat /\ \A i \in 1 .. n : seq[i] \in Campaigns
    OBVIOUS
  <2> QED
    BY <2>1, MarketAssumption
<1>3. \A c \in Campaigns : Cost[c] \in Nat
  BY MarketAssumption
<1>4. U # {}
  <2> DEFINE T == {k \in Nat :
                     k <= n => \E m \in Nat : \A i \in 1 .. k : Cost[seq[i]] <= m}
  <2>1. 0 \in T
    OBVIOUS
  <2>2. ASSUME NEW k \in Nat, k \in T PROVE k + 1 \in T
    <3> SUFFICES ASSUME k + 1 <= n
                 PROVE  \E m \in Nat : \A i \in 1 .. (k + 1) : Cost[seq[i]] <= m
      BY <2>2
    <3> HIDE DEF n
    <3>1. PICK m \in Nat : \A i \in 1 .. k : Cost[seq[i]] <= m
      BY <1>2, <2>2
    <3>2. /\ k + 1 \in 1 .. n /\ Cost[seq[k + 1]] \in Nat
          /\ \A i \in 1 .. k : i \in 1 .. n
      BY <1>2
    <3>3. PICK z \in Nat : z = m + Cost[seq[k + 1]]
      BY <3>2
    <3>4. ASSUME NEW i \in 1 .. (k + 1) PROVE Cost[seq[i]] <= z
      <4>1. CASE i = k + 1
        BY <3>2, <3>3, <4>1
      <4>2. CASE i # k + 1
        <5>1. i \in 1 .. k /\ i \in 1 .. n
          BY <3>2, <4>2
        <5> QED
          BY <1>2, <3>1, <3>2, <3>3, <5>1
      <4> QED
        BY <4>1, <4>2
    <3> QED
      BY <3>4
  <2> HIDE DEF T, n
  <2>3. n \in T
    BY <1>2, <2>1, <2>2, Induct
  <2>4. PICK m \in Nat : \A i \in 1 .. n : Cost[seq[i]] <= m
    BY <1>2, <2>3 DEF T
  <2>5. \A c \in Campaigns : Cost[c] <= m
    BY <1>1, <2>4 DEF n
  <2> QED
    BY <2>5
<1> HIDE DEF U
<1>5. PICK m \in U : \A k \in U : m <= k
  BY <1>4, LeastNat DEF U
<1>6. m \in Nat /\ \A c \in Campaigns : Cost[c] <= m
  BY <1>5 DEF U
<1>7. \E c \in Campaigns : Cost[c] = m
  <2> SUFFICES ASSUME \A c \in Campaigns : Cost[c] # m PROVE FALSE
    OBVIOUS
  <2>1. \A c \in Campaigns : Cost[c] < m
    BY <1>3, <1>6
  <2>2. m - 1 \in Nat /\ \A c \in Campaigns : Cost[c] <= m - 1
    BY <1>3, <1>6, <2>1 DEF SomeCampaigns
  <2>3. m - 1 \in U
    BY <2>2 DEF U
  <2> QED
    BY <1>5, <1>6, <2>3
<1> DEFINE Costs == {Cost[c] : c \in Campaigns}
           IsDearest(k) == \A c \in Campaigns : Cost[c] <= k
<1>8. m \in Costs /\ IsDearest(m)
  BY <1>6, <1>7
<1>9. DearestRun = CHOOSE k \in Costs : IsDearest(k)
  BY DEF DearestRun
<1>10. DearestRun \in Costs /\ IsDearest(DearestRun)
  <2> HIDE DEF Costs, IsDearest
  <2> QED
    BY <1>8, <1>9
<1> QED
  BY <1>3, <1>10
----------------------------------------------------------------------------
(* What is lost                                                            *)

\* The daemon loop of a run is one process.
OneDaemon == \A d, e \in Daemons : d = e

\* What the ticks that died may have cost, what the one at hand may cost yet,
\* and what its plan will be charged with.
Lost     == deaths * DearestRun
Extra(r) == IF r.pc \in {"promote", "write", "emit"} THEN DearestRun ELSE 0
Charge(r) ==
  IF r.pc \in {"promote", "write"} /\ r.plan.campaign # NoCampaign
    THEN Cost[r.plan.campaign] ELSE 0

\* What a state that is loaded need not account for.
Allowance(r) == Lost + Extra(r) - CostOf(ran)

\* A state of the tick t accounts for the allowance a and the dearest run, one
\* of the tick before for the allowance.
Accounts(t, a, s) ==
  /\ s.tick <= t
  /\ s.tick = t => DearestRun <= s.spent + a
  /\ s.tick = t - 1 => 0 <= s.spent + a

\* The states on disk account for what has run, and the tick before left one.
FilesAccount(r) ==
  /\ \A i \in Dirs : \A s \in disk[i].states : Accounts(r.tick, Allowance(r), s)
  /\ r.tick = 1 => 0 <= Allowance(r)
  /\ r.tick > 1 =>
       \E s \in disk[Dir(r.tick - 1)].states : s.tick >= r.tick - 1

\* So does the state in memory, and the one that was written is there.
RunAccounts(r) ==
  /\ r.pc \in Inside \ {"load", "emit"} =>
       0 <= r.st.spent + Lost - CostOf(ran) + Charge(r)
  /\ r.pc = "emit" => \E s \in disk[Dir(r.tick)].states : s.tick = r.tick

LossInv == \A d \in Daemons : FilesAccount(run[d]) /\ RunAccounts(run[d])

\* The terms are numbers.
LEMMA LossTerms ==
  ASSUME SomeCampaigns, NEW n \in Nat,
         NEW runs \in Seq((1 .. MaxTick) \X Campaigns), NEW r
  PROVE  /\ DearestRun \in Nat /\ n * DearestRun \in Nat /\ CostOf(runs) \in Nat
         /\ Extra(r) \in {0, DearestRun}
         /\ n * DearestRun + Extra(r) - CostOf(runs) \in Int
<1>1. DearestRun \in Nat
  BY Dearest
<1>2. n * DearestRun \in Nat
  BY <1>1
<1>3. CostOf(runs) \in Nat
  BY CostOfNat
<1>4. Extra(r) \in {0, DearestRun}
  BY DEF Extra
<1> QED
  BY <1>1, <1>2, <1>3, <1>4

\* So are the terms of the variables.
LEMMA LossTypes ==
  ASSUME TickInv, SomeCampaigns, NEW d \in Daemons
  PROVE  /\ DearestRun \in Nat /\ Lost \in Nat /\ CostOf(ran) \in Nat
         /\ Extra(run[d]) \in {0, DearestRun}
         /\ Allowance(run[d]) \in Int
         /\ Allowance(run[d]) = Lost + Extra(run[d]) - CostOf(ran)
<1>1. deaths \in Nat /\ ran \in Seq((1 .. MaxTick) \X Campaigns)
  BY DEF TickInv, TickTypeOK
<1> QED
  BY <1>1, LossTerms DEF Lost, Allowance

\* What a tick may load accounts for the allowance, and has the tick before.
LEMMA LoadedAccounts ==
  ASSUME TickInv, SomeCampaigns, NEW d \in Daemons, FilesAccount(run[d]),
         NEW p \in Nat, NEW s \in Loaded(Prev(run[d].tick).states, Genesis(p))
  PROVE  /\ Accounts(run[d].tick, Allowance(run[d]), s)
         /\ 0 <= s.spent + Allowance(run[d])
         /\ s.spent \in Nat /\ s.budget = Budget - s.spent
<1> DEFINE t == run[d].tick
           a == Allowance(run[d])
<1>1. t \in Nat /\ t >= 1 /\ Own(d) \in Dirs
  BY DirTypes, TickAssumption DEF Dirs
<1>2. a \in Int /\ DearestRun \in Nat
  BY LossTypes
<1>3. CASE t = 1
  <2>1. s = Genesis(p)
    BY <1>3, PrevIn DEF Loaded, NoFiles
  <2>2. s.tick = 0 /\ s.spent = 0 /\ s.budget = Budget
    BY <2>1 DEF Genesis
  <2>3. 0 <= a
    BY <1>3 DEF FilesAccount
  <2> QED
    BY <1>2, <1>3, <2>2, <2>3, TickAssumption DEF Accounts
<1>4. CASE t # 1
  <2> DEFINE files == Prev(t).states
  <2>1. /\ \A e \in files : Accounts(t, a, e)
        /\ \E e \in files : e.tick >= t - 1
    BY <1>1, <1>4, PrevIn DEF FilesAccount
  <2>2. \A e \in files : GoodState(mode.market, e)
    BY DirTypes
  <2>3. s \in files /\ \A e \in files : e.tick <= s.tick
    BY <2>1 DEF Loaded, Latest
  <2>4. \A e \in files : e.tick \in Nat /\ e.spent \in Nat
    BY <2>2 DEF GoodState, State
  <2>5. s.tick >= t - 1 /\ s.tick <= t
    BY <1>1, <2>1, <2>3, <2>4 DEF Accounts
  <2>6. s.tick = t \/ s.tick = t - 1
    BY <1>1, <2>3, <2>4, <2>5
  <2>7. Accounts(t, a, s) /\ s.budget = Budget - s.spent
    BY <2>1, <2>2, <2>3 DEF GoodState
  <2>8. 0 <= s.spent + a
    BY <1>2, <2>3, <2>4, <2>6, <2>7 DEF Accounts
  <2> QED
    BY <2>3, <2>4, <2>7, <2>8
<1> QED
  BY <1>3, <1>4

\* A step within a tick: the allowance does not fall, and the files that are
\* added account for it.
LEMMA FilesStep ==
  ASSUME TickInv, TickInv', SomeCampaigns, NEW d \in Daemons, mode' = mode,
         FilesAccount(run[d]), run'[d].tick = run[d].tick,
         Allowance(run[d]) <= Allowance(run[d])',
         \A i \in Dirs : disk[i].states \subseteq disk'[i].states,
         \A i \in Dirs : \A s \in disk'[i].states :
           s \in disk[i].states \/ Accounts(run[d].tick, Allowance(run[d])', s)
  PROVE  FilesAccount(run[d])'
<1>1. PICK t, a, b : /\ t = run[d].tick /\ a = Allowance(run[d])
                     /\ b = Allowance(run[d])'
  OBVIOUS
<1>2. t \in Nat /\ t >= 1 /\ a \in Int /\ DearestRun \in Nat
  BY <1>1, DirTypes, LossTypes, TickAssumption DEF Dirs
<1>3. b \in Int
  <2>1. deaths' \in Nat /\ ran' \in Seq((1 .. MaxTick) \X Campaigns)
    BY DEF TickInv, TickTypeOK
  <2>2. deaths' * DearestRun + Extra(run'[d]) - CostOf(ran') \in Int
    BY <2>1, LossTerms
  <2> QED
    BY <1>1, <2>2 DEF Allowance, Lost, Extra
<1>4. a <= b
  BY <1>1
<1>5. ASSUME NEW i \in Dirs, NEW s \in disk'[i].states
      PROVE  Accounts(t, b, s)
  <2>1. CASE s \in disk[i].states
    <3>1. Accounts(t, a, s)
      BY <1>1, <2>1 DEF FilesAccount
    <3>2. s.tick \in Nat /\ s.spent \in Nat
      BY <2>1 DEF TickInv, GoodState, State
    <3> QED
      BY <1>2, <1>3, <1>4, <3>1, <3>2 DEF Accounts
  <2> QED
    BY <1>1, <2>1
<1>6. t = 1 => 0 <= b
  <2>1. t = 1 => 0 <= a
    BY <1>1 DEF FilesAccount
  <2> QED
    BY <1>2, <1>3, <1>4, <2>1
<1>7. t > 1 => \E s \in disk'[Dir(t - 1)].states : s.tick >= t - 1
  <2>1. t > 1 => \E s \in disk[Dir(t - 1)].states : s.tick >= t - 1
    BY <1>1 DEF FilesAccount
  <2>2. t # 1 => Dir(t - 1) \in Dirs
    BY <1>1, PrevIn
  <2> QED
    BY <1>2, <2>1, <2>2
<1>8. \A u : Dir(u)' = Dir(u)
  BY DEF Dir
<1>9. run'[d].tick = t
  BY <1>1
<1>10. \A i \in Dirs : \A s \in disk'[i].states : Accounts(t, b, s)
  BY <1>5
<1> QED
  BY <1>1, <1>6, <1>7, <1>8, <1>9, <1>10 DEF FilesAccount, Accounts
\* A step that runs nothing, writes no state and loads none.
LEMMA CalmStep ==
  ASSUME TickInv, TickInv', SomeCampaigns, NEW d \in Daemons,
         UNCHANGED <<mode, deaths, ran>>,
         FilesAccount(run[d]), RunAccounts(run[d]),
         NEW r, run'[d] = r, r.tick = run[d].tick, r.pc # "emit",
         Extra(run[d]) = 0, Charge(run[d]) = 0, Charge(r) = 0,
         r.pc \in Inside \ {"load"} =>
           run[d].pc \in Inside \ {"load", "emit"} /\ r.st = run[d].st,
         \A i \in Dirs : disk'[i].states = disk[i].states
  PROVE  FilesAccount(run[d])' /\ RunAccounts(run[d])'
<1>1. PICK l, c : l = Lost /\ c = CostOf(ran) /\ l \in Nat /\ c \in Nat
  BY LossTypes
<1>2. Lost' = l /\ CostOf(ran)' = c
  BY <1>1 DEF Lost
<1>3. Allowance(run[d]) = l - c
  BY <1>1 DEF Allowance
<1>4. PICK x : x = Extra(r) /\ x \in Nat
  BY LossTypes DEF Extra
<1>5. Allowance(run[d])' = l + x - c
  BY <1>2, <1>4 DEF Allowance, Extra
<1>6. Allowance(run[d]) <= Allowance(run[d])'
  BY <1>1, <1>3, <1>4, <1>5
<1>7. FilesAccount(run[d])'
  BY <1>6, FilesStep
<1>8. RunAccounts(run[d])'
  BY <1>1, <1>2 DEF RunAccounts, Charge, Inside
<1> QED
  BY <1>7, <1>8

\* A daemon's step sets its own record.
LEMMA Becomes ==
  ASSUME TickInv, NEW d \in Daemons, NEW r, Become(d, r)
  PROVE  run'[d] = r
BY DEF TickInv, TickTypeOK, Become

\* A daemon that takes LOCK, or is refused, loses nothing.
LEMMA EnterLoss ==
  ASSUME TickInv, TickInv', SomeCampaigns, NEW d \in Daemons,
         FilesAccount(run[d]), RunAccounts(run[d]), Enter(d)
  PROVE  FilesAccount(run[d])' /\ RunAccounts(run[d])'
<1>1. PICK pc \in {"raised", "load"} : Goto(d, pc)
  BY DEF Enter
<1>2. PICK r : r = [run[d] EXCEPT !.pc = pc] /\ Become(d, r)
  BY <1>1 DEF Goto
<1>3. run[d] \in Tick
  BY DirTypes
<1>4. r.pc = pc /\ r.tick = run[d].tick /\ run'[d] = r
  BY <1>2, <1>3, Becomes DEF Tick
<1>5. Extra(run[d]) = 0 /\ Charge(run[d]) = 0 /\ Charge(r) = 0
  BY <1>1, <1>4 DEF Enter, Here, Extra, Charge
<1>6. r.pc # "emit" /\ r.pc \notin Inside \ {"load"}
  BY <1>1, <1>4 DEF Inside
<1>7. mode' = mode /\ deaths' = deaths /\ ran' = ran /\ disk' = disk
  BY DEF Enter
<1> QED
  BY <1>4, <1>5, <1>6, <1>7, CalmStep

\* A settlement touches no state.
LEMMA SettleLoss ==
  ASSUME TickInv, TickInv', SomeCampaigns, NEW d \in Daemons,
         FilesAccount(run[d]), RunAccounts(run[d]), Settle(d)
  PROVE  FilesAccount(run[d])' /\ RunAccounts(run[d])'
<1>1. PICK ms, ss, after :
        /\ disk' = [disk EXCEPT ![Own(d)].markets = ms, ![Own(d)].selections = ss]
        /\ Become(d, [run[d] EXCEPT !.pc = "select", !.market = after])
  BY DEF Settle
<1>2. PICK r : /\ r = [run[d] EXCEPT !.pc = "select", !.market = after]
               /\ Become(d, r)
  BY <1>1
<1>3. run[d] \in Tick /\ disk \in [Dirs -> Files]
  BY DirTypes DEF TickInv, TickTypeOK
<1>4. r.pc = "select" /\ r.tick = run[d].tick /\ r.st = run[d].st /\ run'[d] = r
  BY <1>2, <1>3, Becomes DEF Tick
<1>5. /\ Extra(run[d]) = 0 /\ Charge(run[d]) = 0 /\ Charge(r) = 0
      /\ run[d].pc \in Inside \ {"load", "emit"}
  BY <1>4 DEF Settle, Here, Extra, Charge, Inside
<1>6. \A i \in Dirs : disk'[i].states = disk[i].states
  BY <1>1, <1>3 DEF Files
<1>7. mode' = mode /\ deaths' = deaths /\ ran' = ran
  BY DEF Settle
<1> QED
  BY <1>4, <1>5, <1>6, <1>7, CalmStep

\* A plan decides what will be dispatched, and loses nothing.
LEMMA PlanLoss ==
  ASSUME TickInv, TickInv', SomeCampaigns, NEW d \in Daemons,
         FilesAccount(run[d]), RunAccounts(run[d]),
         run[d].pc \in {"select", "decide"}, NEW plan, Plan(d, plan),
         UNCHANGED <<mode, deaths, ran>>,
         \A i \in Dirs : disk'[i].states = disk[i].states
  PROVE  FilesAccount(run[d])' /\ RunAccounts(run[d])'
<1>1. PICK pc, o, r :
        /\ pc = IF plan.campaign = NoCampaign THEN "write" ELSE "dispatch"
        /\ r = [run[d] EXCEPT !.pc = pc, !.plan = plan, !.outcome = o]
        /\ Become(d, r)
  BY DEF Plan
<1>2. run[d] \in Tick
  BY DirTypes
<1>3. /\ r.pc = pc /\ r.tick = run[d].tick /\ r.st = run[d].st /\ r.plan = plan
      /\ run'[d] = r
  BY <1>1, <1>2, Becomes DEF Tick
<1>4. Charge(r) = 0 /\ r.pc # "emit"
  BY <1>1, <1>3 DEF Charge
<1>5. /\ Extra(run[d]) = 0 /\ Charge(run[d]) = 0
      /\ run[d].pc \in Inside \ {"load", "emit"}
  BY DEF Extra, Charge, Inside
<1> QED
  BY <1>3, <1>4, <1>5, CalmStep

\* The market's choice is a plan.
LEMMA SelectLoss ==
  ASSUME TickInv, TickInv', SomeCampaigns, NEW d \in Daemons,
         FilesAccount(run[d]), RunAccounts(run[d]), Select(d)
  PROVE  FilesAccount(run[d])' /\ RunAccounts(run[d])'
<1>1. PICK ss, plan :
        /\ disk' = [disk EXCEPT ![Own(d)].selections = ss]
        /\ Plan(d, plan)
  BY DEF Select
<1>2. disk \in [Dirs -> Files]
  BY DEF TickInv, TickTypeOK
<1>3. \A i \in Dirs : disk'[i].states = disk[i].states
  BY <1>1, <1>2 DEF Files
<1>4. run[d].pc = "select" /\ mode' = mode /\ deaths' = deaths /\ ran' = ran
  BY DEF Select, Here
<1> QED
  BY <1>1, <1>3, <1>4, PlanLoss

\* So is the decider's.
LEMMA DecideLoss ==
  ASSUME TickInv, TickInv', SomeCampaigns, NEW d \in Daemons,
         FilesAccount(run[d]), RunAccounts(run[d]), Decide(d)
  PROVE  FilesAccount(run[d])' /\ RunAccounts(run[d])'
<1>1. PICK plan : Plan(d, plan)
  BY DEF Decide
<1>2. /\ run[d].pc = "decide" /\ mode' = mode /\ deaths' = deaths /\ ran' = ran
      /\ disk' = disk
  BY DEF Decide, Here
<1> QED
  BY <1>1, <1>2, PlanLoss

\* The state a tick loads accounts for all that was not lost.
LEMMA LoadLoss ==
  ASSUME TickInv, TickInv', SomeCampaigns, NEW d \in Daemons,
         FilesAccount(run[d]), RunAccounts(run[d]), Load(d)
  PROVE  FilesAccount(run[d])' /\ RunAccounts(run[d])'
<1>1. PICK s \in Loaded(Prev(run[d].tick).states, Genesis(policy)),
           pc \in {"settle", "decide"}, r \in {run'[d]} :
        /\ disk' = [disk EXCEPT ![Own(d)].states = @ \cup {s}]
        /\ r = [run[d] EXCEPT !.pc = pc, !.policy = policy, !.st = s]
        /\ Become(d, r)
  <2>1. PICK s \in Loaded(Prev(run[d].tick).states, Genesis(policy)),
             pc \in {"settle", "decide"} :
          /\ disk' = [disk EXCEPT ![Own(d)].states = @ \cup {s}]
          /\ Become(d, [run[d] EXCEPT !.pc = pc, !.policy = policy, !.st = s])
    BY DEF Load
  <2>2. PICK r : /\ r = [run[d] EXCEPT !.pc = pc, !.policy = policy, !.st = s]
                 /\ Become(d, r)
    BY <2>1
  <2>3. run'[d] = r
    BY <2>2, Becomes
  <2> QED
    BY <2>1, <2>2, <2>3
<1>2. /\ run[d] \in Tick /\ Own(d) \in Dirs /\ disk \in [Dirs -> Files]
      /\ policy \in Nat
  BY DirTypes DEF TickInv, TickTypeOK
<1>3. /\ Accounts(run[d].tick, Allowance(run[d]), s)
      /\ 0 <= s.spent + Allowance(run[d]) /\ s.spent \in Nat
  BY <1>1, <1>2, LoadedAccounts
<1>4. r.pc = pc /\ r.tick = run[d].tick /\ r.st = s /\ run'[d] = r
  BY <1>1, <1>2, Becomes DEF Tick
<1>5. mode' = mode /\ deaths' = deaths /\ ran' = ran
  BY DEF Load
<1>6. PICK l, c : l = Lost /\ c = CostOf(ran) /\ l \in Nat /\ c \in Nat
  BY LossTypes
<1>7. Extra(run[d]) = 0 /\ Extra(r) = 0 /\ Charge(r) = 0
  BY <1>1, <1>4 DEF Load, Here, Extra, Charge
<1>8. Allowance(run[d]) = l - c /\ Allowance(run[d])' = l - c
  BY <1>4, <1>5, <1>6, <1>7 DEF Allowance, Lost, Extra
<1>9. \A i \in Dirs : disk'[i].states = disk[i].states
                        \/ disk'[i].states = disk[i].states \cup {s}
  BY <1>1, <1>2 DEF Files
<1>10. FilesAccount(run[d])'
  <2>1. Allowance(run[d]) <= Allowance(run[d])'
    BY <1>6, <1>8
  <2>2. Accounts(run[d].tick, Allowance(run[d])', s)
    BY <1>3, <1>8
  <2> QED
    BY <2>1, <2>2, <1>4, <1>5, <1>9, FilesStep
<1>11. RunAccounts(run[d])'
  <2>1. 0 <= s.spent + l - c
    BY <1>3, <1>6, <1>8
  <2>2. Lost' = l /\ CostOf(ran)' = c /\ r.pc # "emit"
    BY <1>1, <1>4, <1>5, <1>6 DEF Lost
  <2> QED
    BY <2>1, <2>2, <1>3, <1>4, <1>6, <1>7 DEF RunAccounts, Charge
<1> QED
  BY <1>10, <1>11
\* The campaign that runs costs no more than the tick may still cost.
LEMMA DispatchLoss ==
  ASSUME TickInv, TickInv', SomeCampaigns, NEW d \in Daemons,
         FilesAccount(run[d]), RunAccounts(run[d]), Dispatch(d)
  PROVE  FilesAccount(run[d])' /\ RunAccounts(run[d])'
<1>1. PICK r : r = [run[d] EXCEPT !.pc = "promote"] /\ Become(d, r)
  BY DEF Dispatch, Goto
<1>2. run[d] \in Tick /\ run[d].tick \in Dirs
  BY DirTypes
<1>3. /\ r.pc = "promote" /\ r.tick = run[d].tick /\ r.st = run[d].st
      /\ r.plan = run[d].plan /\ run'[d] = r
  BY <1>1, <1>2, Becomes DEF Tick
<1>4. GoodRun(mode.market, run[d]) /\ run[d].pc = "dispatch"
  BY DEF TickInv, Dispatch, Here
<1>5. PICK k \in Campaigns : k = run[d].plan.campaign
  BY <1>2, <1>4 DEF GoodRun, Tick, Plans
<1>6. run[d].tick \in 1 .. MaxTick
  BY <1>2, <1>4, TickAssumption DEF GoodRun, Dirs
<1>7. /\ mode' = mode /\ deaths' = deaths /\ disk' = disk
      /\ ran' = Append(ran, <<run[d].tick, k>>)
      /\ ran \in Seq((1 .. MaxTick) \X Campaigns)
  BY <1>5 DEF Dispatch, TickInv, TickTypeOK
<1>8. PICK l, c, m : /\ l = Lost /\ c = CostOf(ran) /\ m = DearestRun
                     /\ l \in Nat /\ c \in Nat /\ m \in Nat
  BY LossTypes
<1>9. Cost[k] \in Nat /\ Cost[k] <= m
  BY <1>8, Dearest, MarketAssumption
<1>10. Lost' = l /\ CostOf(ran)' = c + Cost[k]
  <2>1. CostOf(ran') = CostOf(ran) + Cost[k]
    BY <1>6, <1>7, CostOfAppend
  <2> QED
    BY <2>1, <1>7, <1>8 DEF Lost
<1>11. k # NoCampaign
  BY <1>4, <1>5 DEF GoodRun
<1>12. /\ Extra(run[d]) = 0 /\ Charge(run[d]) = 0
       /\ Extra(r) = m /\ Charge(r) = Cost[k]
  BY <1>3, <1>4, <1>5, <1>8, <1>11 DEF Extra, Charge
<1>13. FilesAccount(run[d])'
  <2>1. Allowance(run[d]) = l - c
    BY <1>8, <1>12 DEF Allowance
  <2>2. Allowance(run[d])' = l + m - (c + Cost[k])
    BY <1>3, <1>10, <1>12 DEF Allowance, Extra
  <2>3. Allowance(run[d]) <= Allowance(run[d])'
    BY <2>1, <2>2, <1>8, <1>9
  <2> QED
    BY <2>3, <1>3, <1>7, FilesStep
<1>14. RunAccounts(run[d])'
  <2>1. 0 <= run[d].st.spent + l - c + 0
    BY <1>4, <1>8, <1>12 DEF RunAccounts, Inside
  <2>2. run[d].st.spent \in Nat
    BY <1>2 DEF Tick, State
  <2>3. 0 <= r.st.spent + l - (c + Cost[k]) + Cost[k]
    BY <2>1, <2>2, <1>3, <1>8, <1>9
  <2> QED
    BY <2>3, <1>3, <1>10, <1>12 DEF RunAccounts, Charge
<1> QED
  BY <1>13, <1>14

\* Whatever comes of the campaign, its charge is still to be written.
LEMMA PromoteLoss ==
  ASSUME TickInv, TickInv', SomeCampaigns, NEW d \in Daemons,
         FilesAccount(run[d]), RunAccounts(run[d]), Promote(d)
  PROVE  FilesAccount(run[d])' /\ RunAccounts(run[d])'
<1>1. PICK o, r : /\ r = [run[d] EXCEPT !.pc = "write", !.outcome = o]
                  /\ Become(d, r)
  BY DEF Promote
<1>2. run[d] \in Tick
  BY DirTypes
<1>3. /\ r.pc = "write" /\ r.tick = run[d].tick /\ r.st = run[d].st
      /\ r.plan = run[d].plan /\ run'[d] = r
  BY <1>1, <1>2, Becomes DEF Tick
<1>4. /\ run[d].pc = "promote" /\ mode' = mode /\ deaths' = deaths
      /\ ran' = ran /\ disk' = disk
  BY DEF Promote, Here
<1>5. Extra(r) = Extra(run[d]) /\ Charge(r) = Charge(run[d])
  BY <1>3, <1>4 DEF Extra, Charge
<1>6. PICK a \in Int : a = Allowance(run[d])
  BY LossTypes
<1>7. Allowance(run[d])' = a
  BY <1>3, <1>4, <1>5, <1>6 DEF Allowance, Lost, Extra
<1>8. FilesAccount(run[d])'
  BY <1>3, <1>4, <1>6, <1>7, FilesStep
<1>9. RunAccounts(run[d])'
  BY <1>3, <1>4, <1>5 DEF RunAccounts, Charge, Lost, Inside
<1> QED
  BY <1>8, <1>9

\* The state a tick writes is of that tick, and charged with its campaign.
LEMMA NextStateFields ==
  ASSUME NEW r \in Tick, r.pc = "write"
  PROVE  NextState(r).tick = r.tick /\ NextState(r).spent = r.st.spent + Charge(r)
<1>1. r.st \in State /\ r.st.spent \in Nat
  BY DEF Tick, State
<1>2. CASE r.plan.campaign = NoCampaign
  <2>1. NextState(r) = [r.st EXCEPT !.tick = r.tick] /\ Charge(r) = 0
    BY <1>2 DEF NextState, Charge
  <2> QED
    BY <2>1, <1>1 DEF State
<1>3. CASE r.plan.campaign # NoCampaign
  <2>1. PICK s : s = Charged(r.st, r.tick, r.policy, r.plan, r.outcome)
    OBVIOUS
  <2>2. /\ s.spent = r.st.spent + Cost[r.plan.campaign]
        /\ DOMAIN s = {"tick", "policy", "budget", "cooldown", "goals",
                       "spent", "runs"}
    BY <2>1, <1>1 DEF Charged, State
  <2>3. /\ NextState(r) = [s EXCEPT !.tick = r.tick]
        /\ Charge(r) = Cost[r.plan.campaign]
    BY <2>1, <1>3 DEF NextState, Charge
  <2> QED
    BY <2>2, <2>3
<1> QED
  BY <1>2, <1>3

\* With the written state, the tick's charge is on disk.
LEMMA WriteStateLoss ==
  ASSUME TickInv, TickInv', SomeCampaigns, NEW d \in Daemons,
         FilesAccount(run[d]), RunAccounts(run[d]), WriteState(d)
  PROVE  FilesAccount(run[d])' /\ RunAccounts(run[d])'
<1>1. PICK s, r : /\ s = NextState(run[d])
                  /\ disk' = [disk EXCEPT ![Own(d)].states = @ \cup {s}]
                  /\ r = [run[d] EXCEPT !.pc = "emit"] /\ Become(d, r)
  BY DEF WriteState, Goto
<1>2. /\ run[d] \in Tick /\ Own(d) \in Dirs /\ disk \in [Dirs -> Files]
      /\ run[d].tick \in Nat
  BY DirTypes, TickAssumption DEF TickInv, TickTypeOK, Dirs
<1>3. r.pc = "emit" /\ r.tick = run[d].tick /\ run'[d] = r
  BY <1>1, <1>2, Becomes DEF Tick
<1>4. /\ run[d].pc = "write" /\ mode' = mode /\ deaths' = deaths /\ ran' = ran
  BY DEF WriteState, Here
<1>5. PICK l, c, m : /\ l = Lost /\ c = CostOf(ran) /\ m = DearestRun
                     /\ l \in Nat /\ c \in Nat /\ m \in Nat
  BY LossTypes
<1>6. Extra(run[d]) = m /\ Extra(r) = m
  BY <1>3, <1>4, <1>5 DEF Extra
<1>7. Allowance(run[d]) = l + m - c /\ Allowance(run[d])' = l + m - c
  BY <1>3, <1>4, <1>5, <1>6 DEF Allowance, Lost, Extra
<1>8. s.tick = run[d].tick /\ s.spent = run[d].st.spent + Charge(run[d])
  BY <1>1, <1>2, <1>4, NextStateFields
<1>9. /\ \A i \in Dirs : disk'[i].states = disk[i].states
                           \/ disk'[i].states = disk[i].states \cup {s}
      /\ s \in disk'[Own(d)].states
  BY <1>1, <1>2 DEF Files
<1>10. s.spent \in Nat
  BY <1>2, <1>9 DEF TickInv, GoodState, State
<1>11. 0 <= s.spent + l - c
  <2>1. 0 <= run[d].st.spent + l - c + Charge(run[d])
    BY <1>4, <1>5 DEF RunAccounts, Inside
  <2>2. run[d].st.spent \in Nat /\ Charge(run[d]) \in Int
    <3>1. run[d].st.spent \in Nat /\ run[d].plan \in Plans
      BY <1>2 DEF Tick, State
    <3>2. run[d].plan.campaign # NoCampaign => run[d].plan.campaign \in Campaigns
      BY <3>1 DEF Plans
    <3>3. \A k \in Campaigns : Cost[k] \in Int
      BY MarketAssumption
    <3> QED
      BY <3>1, <3>2, <3>3 DEF Charge
  <2> QED
    BY <2>1, <2>2, <1>5, <1>8
<1>12. Accounts(run[d].tick, l + m - c, s)
  BY <1>2, <1>5, <1>8, <1>10, <1>11 DEF Accounts
<1>13. FilesAccount(run[d])'
  <2>1. Allowance(run[d]) <= Allowance(run[d])'
    BY <1>5, <1>7
  <2>2. Accounts(run[d].tick, Allowance(run[d])', s)
    BY <1>7, <1>12
  <2> QED
    BY <2>1, <2>2, <1>3, <1>4, <1>9, FilesStep
<1>14. RunAccounts(run[d])'
  <2>1. Dir(r.tick)' = Own(d)
    BY <1>3, <1>4 DEF Dir, Own
  <2>2. \E e \in disk'[Own(d)].states : e.tick = r.tick
    BY <1>3, <1>8, <1>9
  <2> QED
    BY <2>1, <2>2, <1>3 DEF RunAccounts
<1> QED
  BY <1>13, <1>14

\* A tick that was done is the tick before; one that failed is begun again.
LEMMA LeaveLoss ==
  ASSUME TickInv, TickInv', SomeCampaigns, NEW d \in Daemons,
         FilesAccount(run[d]), RunAccounts(run[d]), Leave(d)
  PROVE  FilesAccount(run[d])' /\ RunAccounts(run[d])'
<1>1. PICK t, u, r : /\ t = run[d].tick
                     /\ u = IF run[d].pc = "emit" THEN t + 1 ELSE t
                     /\ r = Between(u) /\ Become(d, r)
  BY DEF Leave, Here
<1>2. t \in Nat /\ t >= 1
  BY <1>1, DirTypes, TickAssumption DEF Dirs
<1>3. r.pc = "idle" /\ r.tick = u /\ run'[d] = r
  BY <1>1, Becomes DEF Between
<1>4. /\ mode' = mode /\ deaths' = deaths /\ ran' = ran /\ disk' = disk
  BY DEF Leave
<1>5. PICK l, c, m : /\ l = Lost /\ c = CostOf(ran) /\ m = DearestRun
                     /\ l \in Nat /\ c \in Nat /\ m \in Nat
  BY LossTypes
<1>6. Allowance(run[d])' = l - c
  BY <1>3, <1>4, <1>5 DEF Allowance, Lost, Extra
<1>7. RunAccounts(run[d])'
  BY <1>3 DEF RunAccounts, Inside
<1>8. CASE run[d].pc = "emit"
  <2>1. Allowance(run[d]) = l + m - c
    BY <1>5, <1>8 DEF Allowance, Extra
  <2>2. ASSUME NEW i \in Dirs, NEW s \in disk[i].states
        PROVE  Accounts(u, l - c, s)
    <3>1. Accounts(t, l + m - c, s)
      BY <2>1, <1>1 DEF FilesAccount
    <3>2. s.tick \in Nat /\ s.spent \in Nat
      BY DEF TickInv, GoodState, State
    <3>3. u = t + 1
      BY <1>1, <1>8
    <3> QED
      BY <3>1, <3>2, <3>3, <1>2, <1>5 DEF Accounts
  <2>3. u > 1 /\ u - 1 = t /\ u # 1
    BY <1>1, <1>2, <1>8
  <2>4. \E s \in disk[Dir(u - 1)].states : s.tick >= u - 1
    <3>1. PICK s \in disk[Dir(t)].states : s.tick = t
      BY <1>1, <1>8 DEF RunAccounts
    <3> QED
      BY <2>3, <3>1, <1>2
  <2>5. \A v : Dir(v)' = Dir(v)
    BY <1>4 DEF Dir
  <2> QED
    BY <2>2, <2>3, <2>4, <2>5, <1>3, <1>4, <1>6, <1>7 DEF FilesAccount, Accounts
<1>9. CASE run[d].pc # "emit"
  <2>1. run[d].pc = "raised" /\ u = t
    BY <1>1, <1>9 DEF Leave
  <2>2. Allowance(run[d]) = l - c
    BY <2>1, <1>5 DEF Allowance, Extra
  <2> QED
    BY <2>1, <2>2, <1>1, <1>3, <1>4, <1>5, <1>6, <1>7, FilesStep
<1> QED
  BY <1>8, <1>9

\* A tick that dies may leave one run unaccounted for, and is one more death.
LEMMA DeathLoss ==
  ASSUME TickInv, TickInv', SomeCampaigns, NEW d \in Daemons,
         FilesAccount(run[d]), RunAccounts(run[d]), Raise(d) \/ Crash(d)
  PROVE  FilesAccount(run[d])' /\ RunAccounts(run[d])'
<1>1. run[d] \in Tick
  BY DirTypes
<1>2. PICK r : r.pc \in {"raised", "idle"} /\ r.tick = run[d].tick /\ run'[d] = r
  <2>1. CASE Raise(d)
    <3>1. PICK r : r = [run[d] EXCEPT !.pc = "raised"] /\ Become(d, r)
      BY <2>1 DEF Raise, Goto
    <3> QED
      BY <3>1, <1>1, Becomes DEF Tick
  <2>2. CASE Crash(d)
    <3>1. PICK r : r = Between(run[d].tick) /\ Become(d, r)
      BY <2>2 DEF Crash
    <3> QED
      BY <3>1, Becomes DEF Between
  <2> QED
    BY <2>1, <2>2
<1>3. /\ mode' = mode /\ deaths' = deaths + 1 /\ ran' = ran /\ disk' = disk
  BY DEF Raise, Crash
<1>4. PICK l, c, m, x : /\ l = Lost /\ c = CostOf(ran) /\ m = DearestRun
                        /\ x = Extra(run[d]) /\ x \in {0, m}
                        /\ l \in Nat /\ c \in Nat /\ m \in Nat
  BY LossTypes
<1>5. Lost' = l + m
  <2>1. deaths \in Nat
    BY DEF TickInv, TickTypeOK
  <2>2. (deaths + 1) * m = deaths * m + m
    BY <2>1, <1>4
  <2> QED
    BY <2>2, <1>3, <1>4 DEF Lost
<1>6. Extra(r) = 0
  BY <1>2 DEF Extra
<1>7. Allowance(run[d]) = l + x - c
  BY <1>4 DEF Allowance
<1>8. Allowance(run[d])' = l + m - c
  <2>1. Allowance(run[d])' = (l + m) + 0 - c
    BY <1>2, <1>3, <1>4, <1>5, <1>6 DEF Allowance, Extra
  <2> QED
    BY <2>1, <1>4
<1>9. Allowance(run[d]) <= Allowance(run[d])'
  BY <1>4, <1>7, <1>8
<1>10. FilesAccount(run[d])'
  BY <1>2, <1>3, <1>9, FilesStep
<1>11. RunAccounts(run[d])'
  BY <1>2 DEF RunAccounts, Inside
<1> QED
  BY <1>10, <1>11

\* Every step of the one daemon preserves the accounts.
LEMMA LossNext ==
  ASSUME TickInv, TickInv', SomeCampaigns, OneDaemon, LossInv, [Next]_vars
  PROVE  LossInv'
<1> SUFFICES ASSUME NEW d \in Daemons
             PROVE  FilesAccount(run[d])' /\ RunAccounts(run[d])'
  BY DEF LossInv
<1>1. FilesAccount(run[d]) /\ RunAccounts(run[d])
  BY DEF LossInv
<1>2. CASE EditPolicy \/ UNCHANGED vars
  <2>1. UNCHANGED <<mode, disk, run, ran, deaths>>
    BY <1>2 DEF EditPolicy, vars
  <2> QED
    BY <2>1, <1>1 DEF FilesAccount, RunAccounts, Allowance, Lost, Dir
<1>3. CASE Step(d)
  BY <1>1, <1>3, EnterLoss, LoadLoss, SettleLoss, SelectLoss, DecideLoss,
     DispatchLoss, PromoteLoss, WriteStateLoss, LeaveLoss DEF Step
<1>4. CASE Raise(d) \/ Crash(d)
  BY <1>1, <1>4, DeathLoss
<1> QED
  BY <1>2, <1>3, <1>4 DEF Next, OneDaemon

\* No more runs are lost to the state a tick loads than ticks of the one daemon
\* raised or were killed, whatever files the ticks that were run twice left
\* behind (dispatch_campaign runs before write_state).
THEOREM LossesStayBounded ==
  ASSUME OneDaemon, SomeCampaigns
  PROVE  TickSpec => []LossesBounded
<1>1. Init => LossInv
  <2> SUFFICES ASSUME Init PROVE LossInv
    OBVIOUS
  <2>1. CostOf(ran) = 0
    BY CostOfNone DEF Init
  <2>2. deaths * DearestRun = 0
    BY Dearest DEF Init
  <2>3. ASSUME NEW d \in Daemons
        PROVE  FilesAccount(run[d]) /\ RunAccounts(run[d])
    <3>1. run[d].pc = "idle" /\ run[d].tick = 1
      BY DEF Init, Between
    <3>2. Allowance(run[d]) = 0
      BY <2>1, <2>2, <3>1 DEF Allowance, Lost, Extra
    <3>3. \A i \in Dirs : disk[i].states = {}
      BY DEF Init, NoFiles
    <3> QED
      BY <3>1, <3>2, <3>3 DEF FilesAccount, RunAccounts, Inside
  <2> QED
    BY <2>3 DEF LossInv
<1>2. TickInv /\ LossInv => LossesBounded
  <2> SUFFICES ASSUME TickInv, LossInv, NEW d \in Daemons, Here(d, "idle"),
                      NEW s \in Loaded(Prev(run[d].tick).states, Genesis(0))
               PROVE  CostOf(ran) <= (Budget - s.budget) + deaths * DearestRun
    BY DEF LossesBounded
  <2>1. /\ 0 <= s.spent + Allowance(run[d])
        /\ s.spent \in Nat /\ s.budget = Budget - s.spent
    BY LoadedAccounts DEF LossInv
  <2>2. PICK l, c : l = Lost /\ c = CostOf(ran) /\ l \in Nat /\ c \in Nat
    BY LossTypes
  <2>3. Allowance(run[d]) = l - c
    BY <2>2 DEF Allowance, Here, Extra
  <2>4. c <= (Budget - s.budget) + l
    BY <2>1, <2>2, <2>3, TickAssumption
  <2> QED
    BY <2>2, <2>4 DEF Lost
<1>3. TickInv /\ TickInv' /\ LossInv /\ [Next]_vars => LossInv'
  BY LossNext
<1> QED
  BY <1>1, <1>2, <1>3, TickInvariant, PTL DEF TickSpec
=============================================================================
