----------------------------- MODULE OmegaTick -----------------------------
(***************************************************************************)
(* The tick of the Omega daemon v18 (orchestrator/omega_v18_0              *)
(* coordinator_v1.run_tick and its command line): under the LOCK of the    *)
(* run directory the daemon reloads the state the previous tick left on    *)
(* disk, settles the bid market or asks the decider, runs at most one      *)
(* campaign, and writes the next state.                                    *)
(*                                                                         *)
(* Nothing survives a tick but files.  They are named by the hash of their *)
(* content, so that a tick that is run again in its own directory adds to  *)
(* what the first attempt left, and a loader that finds several files of   *)
(* the highest tick takes one of them by its hash: any of them, here.      *)
(*                                                                         *)
(* A campaign's run, its subverifier, promotion and activation are one     *)
(* outcome here (OmegaActivator has the activation); what a tick observes  *)
(* is the change of the objective a settlement reads, goals synthesized    *)
(* from it are left out, and the rest of the files a tick writes is read   *)
(* by nothing modelled here.                                               *)
(***************************************************************************)
EXTENDS BidMarket, Sequences

CONSTANTS
  Daemons,        \* processes that run the ticks of one run
  Goals,          \* goals of the pack's queue
  NoGoal,         \* a plan without a goal
  Servers,        \* [Goals -> the campaigns of the goal's capability]
  Cooldown,       \* [Campaigns -> cooldown_ticks_u64]
  Budget,         \* the budget of the run
  Deltas,         \* changes of the objective between two observations
  Modes,          \* [market, shared]: packs and directory layouts to explore
  MaxTick,        \* bound: the last tick that is started
  MaxPolicy,      \* bound: versions of the pack's policy
  MaxDeaths       \* bound: ticks that raise or are killed

ASSUME TickAssumption ==
  /\ NoGoal \notin Goals
  /\ Servers \in [Goals -> SUBSET Campaigns]
  /\ Cooldown \in [Campaigns -> Nat]
  /\ Budget \in Nat
  /\ Deltas \subseteq Int
  /\ Modes \subseteq [market : BOOLEAN, shared : BOOLEAN]
  /\ MaxTick \in Nat /\ MaxPolicy \in Nat /\ MaxDeaths \in Nat

VARIABLES
  mode,           \* does the pack enable the market, do ticks share out_dir
  policy,         \* version of the policy and registry in the pack
  disk,           \* per directory: the state, market and selection files
  lock,           \* per directory: does the file LOCK exist
  run,            \* per daemon: the tick it is at and its local variables
  ran,            \* history: the dispatches, <<tick, campaign>> each
  deaths          \* history: ticks that raised or were killed

vars == <<mode, policy, disk, lock, run, ran, deaths>>

----------------------------------------------------------------------------
(* Files                                                                   *)

Status   == {"PENDING", "DONE", "FAILED"}
Outcomes == {"activated", "already", "nothing", "halt"}
Dirs     == 1 .. (MaxTick + 1)

\* What a state remembers of a run of its ancestors (history, not in the file).
Record == [tick : Nat, campaign : Campaigns, goal : Goals \cup {NoGoal},
           outcome : Outcomes, policy : Nat]

\* omega_state_v1.  The three cost budgets are debited alike: the least one.
State == [tick : Nat, policy : Nat, budget : Int,
          cooldown : [Campaigns -> Nat], goals : [Goals -> Status],
          spent : Nat, runs : Seq(Record)]

Selection == [tick : Nat, winner : Campaigns \cup {NoCampaign}]

\* bid_market_state_v1, with the selections its ancestors settled and the
\* bankrolls they left (history).
Market == [tick : Nat, rows : Rows, settled : Seq(Selection),
           path : Seq([Campaigns -> Int])]

\* default_state_from_hashes, under version p of the policy.
Genesis(p) ==
  [tick |-> 0, policy |-> p, budget |-> Budget,
   cooldown |-> [c \in Campaigns |-> 0],
   goals |-> [g \in Goals |-> "PENDING"], spent |-> 0, runs |-> <<>>]

Bootstrap(tick) == [tick |-> tick, rows |-> BootstrapRows,
                    settled |-> <<>>, path |-> <<>>]

NoSelection == [tick |-> 0, winner |-> NoCampaign]

Files   == [states : SUBSET State, markets : SUBSET Market,
            selections : SUBSET Selection]
NoFiles == [states |-> {}, markets |-> {}, selections |-> {}]

\* Fault: the first file by hash, whatever its tick.
AnyFile(files) == files

\* The files of the highest tick.
Latest(files) == {f \in files : \A h \in files : h.tick <= f.tick}

\* What a loader returns: one of the latest files, or `default` without any.
Loaded(files, default) == IF files = {} THEN {default} ELSE Latest(files)

----------------------------------------------------------------------------
(* A tick                                                                  *)

Plans  == [campaign : Campaigns \cup {NoCampaign}, goal : Goals \cup {NoGoal},
           halt : BOOLEAN]
NoPlan == [campaign |-> NoCampaign, goal |-> NoGoal, halt |-> FALSE]

\* --out_dir names one directory per tick, or one for all.
Dir(tick) == IF mode.shared THEN 1 ELSE tick
Prev(tick) == IF tick = 1 THEN NoFiles ELSE disk[Dir(tick - 1)]

Own(d)  == Dir(run[d].tick)
Here(d, pc) == run[d].pc = pc
Become(d, r) == run' = [run EXCEPT ![d] = r]
Goto(d, pc)  == Become(d, [run[d] EXCEPT !.pc = pc])

Inside == {"load", "settle", "select", "decide", "dispatch", "promote",
           "write", "emit"}
Phases == Inside \cup {"idle", "raised"}

\* The tick a daemon is at, how far it is, and the local variables of run_tick.
Tick == [pc : Phases, tick : Dirs, policy : Nat, st : State, market : Market,
         plan : Plans, outcome : Outcomes]

\* A daemon between ticks: the next one it starts, and no local variables.
Between(tick) ==
  [pc |-> "idle", tick |-> tick, policy |-> 0, st |-> Genesis(0),
   market |-> Bootstrap(0), plan |-> NoPlan, outcome |-> "nothing"]

Init ==
  /\ mode \in Modes
  /\ policy = 1
  /\ disk = [i \in Dirs |-> NoFiles]
  /\ lock = [i \in Dirs |-> FALSE]
  /\ run = [d \in Daemons |-> Between(1)]
  /\ ran = <<>>
  /\ deaths = 0

\* Fault: a daemon that finds LOCK waits for its owner.
EnterWhenFree(d) ==
  /\ Here(d, "idle")
  /\ run[d].tick <= MaxTick
  /\ ~lock[Own(d)]
  /\ Goto(d, "load") /\ lock' = [lock EXCEPT ![Own(d)] = TRUE]
  /\ UNCHANGED <<mode, policy, disk, ran, deaths>>

(***************************************************************************)
(* acquire_lock creates LOCK exclusively.  If it is there already the open *)
(* raises, inside the try whose finally removes LOCK: the refused daemon   *)
(* leaves through Leave as one that held the lock does.                    *)
(***************************************************************************)
Enter(d) ==
  /\ Here(d, "idle")
  /\ run[d].tick <= MaxTick
  /\ IF lock[Own(d)]
       THEN Goto(d, "raised") /\ UNCHANGED lock
       ELSE Goto(d, "load") /\ lock' = [lock EXCEPT ![Own(d)] = TRUE]
  /\ UNCHANGED <<mode, policy, disk, ran, deaths>>

\* The pack is frozen; the state the previous tick left is written again in
\* this tick's directory.
Load(d) ==
  /\ Here(d, "load")
  /\ \E s \in Loaded(Prev(run[d].tick).states, Genesis(policy)) :
       /\ disk' = [disk EXCEPT ![Own(d)].states = @ \cup {s}]
       /\ Become(d, [run[d] EXCEPT
                       !.pc = IF mode.market THEN "settle" ELSE "decide",
                       !.policy = policy,
                       !.st = s])
  /\ UNCHANGED <<mode, policy, lock, ran, deaths>>

\* The market after this tick's settlement of the selection of the last one:
\* without an objective of the last tick (~known) no row is rewarded.
Settlement(m, sel, tick, known, delta) ==
  LET rows == SettledRows(m.rows, IF known THEN sel.winner ELSE NoCampaign,
                          delta)
  IN [tick    |-> tick,
      rows    |-> rows,
      settled |-> IF sel = NoSelection THEN m.settled
                                       ELSE Append(m.settled, sel),
      path    |-> Append(m.path, [c \in Campaigns |-> rows[c].bankroll])]

Settle(d) ==
  /\ Here(d, "settle")
  /\ LET prev == Prev(run[d].tick) IN
     \E m \in Loaded(prev.markets, Bootstrap(run[d].tick - 1)),
        sel \in Loaded(prev.selections, NoSelection),
        known \in BOOLEAN, delta \in Deltas :
       LET after == Settlement(m, sel, run[d].tick, known, delta)
       IN /\ disk' = [disk EXCEPT
                        ![Own(d)].markets = @ \cup ({m} \cap prev.markets)
                                              \cup {after},
                        ![Own(d)].selections =
                             @ \cup ({sel} \cap prev.selections)]
          /\ Become(d, [run[d] EXCEPT !.pc = "select", !.market = after])
  /\ UNCHANGED <<mode, policy, lock, ran, deaths>>

\* A plan to run a campaign is dispatched; a tick without one writes its state.
Plan(d, plan) ==
  Become(d, [run[d] EXCEPT
               !.pc = IF plan.campaign = NoCampaign THEN "write" ELSE "dispatch",
               !.plan = plan,
               !.outcome = IF plan.halt THEN "halt" ELSE "nothing"])

\* Fault: the receipt names the best bid, the plan the best that may run.
SelectBestBid(d) ==
  /\ Here(d, "select")
  /\ LET st   == run[d].st
         rows == run[d].market.rows
     IN \E best \in Winners(rows, run[d].tick, [c \in Campaigns |-> 0], Budget),
           winner \in Winners(rows, run[d].tick, st.cooldown, st.budget) :
          /\ disk' = [disk EXCEPT ![Own(d)].selections =
                        @ \cup {[tick |-> run[d].tick, winner |-> best]}]
          /\ Plan(d, [NoPlan EXCEPT !.campaign = winner])
  /\ UNCHANGED <<mode, policy, lock, ran, deaths>>

Select(d) ==
  /\ Here(d, "select")
  /\ \E winner \in Winners(run[d].market.rows, run[d].tick,
                           run[d].st.cooldown, run[d].st.budget) :
       /\ disk' = [disk EXCEPT ![Own(d)].selections =
                     @ \cup {[tick |-> run[d].tick, winner |-> winner]}]
       /\ Plan(d, [NoPlan EXCEPT !.campaign = winner])
  /\ UNCHANGED <<mode, policy, lock, ran, deaths>>

----------------------------------------------------------------------------
(* The decider, in a pack without a market                                 *)

\* Fault: the budget is not checked.
ReadyUnpriced(st, tick) == {c \in Campaigns : st.cooldown[c] <= tick}

Ready(st, tick) == {c \in Campaigns : /\ st.cooldown[c] <= tick
                                      /\ st.budget >= Cost[c]}
\* Fault: the status of the queue, not of the state.
PendingInQueue(st) == Goals

Pending(st) == {g \in Goals : st.goals[g] = "PENDING"}

\* Plans to run one of cs for one of gs.
Tasks(cs, gs) == [campaign : cs, goal : gs, halt : {FALSE}]

\* A pending goal with the first campaign of its capability that is ready.
GoalPlans(st, tick) ==
  {p \in Tasks(Ready(st, tick), Pending(st)) :
     /\ p.campaign \in Servers[p.goal]
     /\ \A c \in Servers[p.goal] \cap Ready(st, tick) : p.campaign <= c}

\* Any ready campaign a rule of the policy asks for, or none.
RulePlans(st, tick) == {NoPlan} \cup Tasks(Ready(st, tick), {NoGoal})

\* A ready campaign the runaway routes lead to, for a pending goal if its
\* capability has one.
RoutedPlans(st, tick) ==
  {p \in Tasks(Ready(st, tick), Pending(st) \cup {NoGoal}) :
     IF p.goal = NoGoal
       THEN \A g \in Pending(st) : p.campaign \notin Servers[g]
       ELSE p.campaign \in Servers[p.goal]}

\* No routed campaign is ready: a goal, else, if that blocked a route, a rule.
BlockedPlans(st, tick) ==
  IF GoalPlans(st, tick) # {} THEN GoalPlans(st, tick)
  ELSE IF Ready(st, tick) = Campaigns THEN {NoPlan} ELSE RulePlans(st, tick)

\* The runaway mode is switched off: goals first, then the rules.
ScheduledPlans(st, tick) ==
  IF GoalPlans(st, tick) # {} THEN GoalPlans(st, tick)
  ELSE IF Goals # {} /\ Pending(st) = {} THEN {NoPlan} ELSE RulePlans(st, tick)

(***************************************************************************)
(* decide: a state made under another policy or registry halts; otherwise  *)
(* which metric, issue, rule or goal class comes first depends on what was *)
(* observed, and any of the plans may be the one.                          *)
(***************************************************************************)
DecidedPlans(st, tick, current) ==
  IF st.policy # current
    THEN {[NoPlan EXCEPT !.halt = TRUE]}
    ELSE ScheduledPlans(st, tick) \cup RoutedPlans(st, tick)
           \cup BlockedPlans(st, tick)

Decide(d) ==
  /\ Here(d, "decide")
  /\ \E plan \in DecidedPlans(run[d].st, run[d].tick, run[d].policy) :
       Plan(d, plan)
  /\ UNCHANGED <<mode, policy, disk, lock, ran, deaths>>

----------------------------------------------------------------------------
(* The campaign, and the state after the tick                              *)

\* dispatch_campaign: from here on the campaign has run.
Dispatch(d) ==
  /\ Here(d, "dispatch")
  /\ ran' = Append(ran, <<run[d].tick, run[d].plan.campaign>>)
  /\ Goto(d, "promote")
  /\ UNCHANGED <<mode, policy, disk, lock, deaths>>

\* Subverifier, promotion and activation.  A run that is not valid, or that
\* touched a forbidden path, halts.
Promote(d) ==
  /\ Here(d, "promote")
  /\ \E o \in Outcomes :
       Become(d, [run[d] EXCEPT !.pc = "write", !.outcome = o])
  /\ UNCHANGED <<mode, policy, disk, lock, ran, deaths>>

\* Fault: a goal is given the summary code of the tick.
JudgedBySummary(goals, goal, outcome) ==
  [g \in Goals |->
     CASE g # goal                              -> goals[g]
       [] outcome \in {"activated", "already"}  -> "DONE"
       [] outcome = "halt"                      -> "SAFE_HALT"
       [] OTHER                                 -> goals[g]]

\* The status of the plan's goal after the run.
Judged(goals, goal, outcome) ==
  [g \in Goals |->
     CASE g # goal                              -> goals[g]
       [] outcome \in {"activated", "already"}  -> "DONE"
       [] outcome = "halt"                      -> "FAILED"
       [] OTHER                                 -> goals[g]]

\* Fault: the cooldown counts from the tick before.
ChargedFromBefore(st, tick, current, plan, outcome) ==
  LET c == plan.campaign
  IN [st EXCEPT
        !.budget = Greatest(0, @ - Cost[c]),
        !.cooldown[c] = st.tick + Cooldown[c],
        !.goals = Judged(@, plan.goal, outcome),
        !.spent = @ + Cost[c],
        !.runs = Append(@, [tick |-> tick, campaign |-> c,
                            goal |-> plan.goal, outcome |-> outcome,
                            policy |-> current])]

\* The campaign is charged whatever came of it.
Charged(st, tick, current, plan, outcome) ==
  LET c == plan.campaign
  IN [st EXCEPT
        !.budget = Greatest(0, @ - Cost[c]),
        !.cooldown[c] = tick + Cooldown[c],
        !.goals = Judged(@, plan.goal, outcome),
        !.spent = @ + Cost[c],
        !.runs = Append(@, [tick |-> tick, campaign |-> c,
                            goal |-> plan.goal, outcome |-> outcome,
                            policy |-> current])]

\* Fault: only a run that came to something is charged.
NextStateOfSuccess(r) ==
  [(IF r.plan.campaign = NoCampaign \/ r.outcome = "nothing"
      THEN r.st
      ELSE Charged(r.st, r.tick, r.policy, r.plan, r.outcome))
     EXCEPT !.tick = r.tick]

\* Fault: the next state is made under the pack's policy.
NextStateOfPack(r) ==
  [(IF r.plan.campaign = NoCampaign
      THEN r.st
      ELSE Charged(r.st, r.tick, r.policy, r.plan, r.outcome))
     EXCEPT !.tick = r.tick, !.policy = r.policy]

\* next_state keeps the policy of the first state.
NextState(r) ==
  [(IF r.plan.campaign = NoCampaign
      THEN r.st
      ELSE Charged(r.st, r.tick, r.policy, r.plan, r.outcome))
     EXCEPT !.tick = r.tick]

WriteState(d) ==
  /\ Here(d, "write")
  /\ disk' = [disk EXCEPT ![Own(d)].states = @ \cup {NextState(run[d])}]
  /\ Goto(d, "emit")
  /\ UNCHANGED <<mode, policy, lock, ran, deaths>>

\* The lock is released, after a tick or an exception.  A tick that was done is
\* followed by the next, in the loop or (after a safe halt) by the operator.
Leave(d) ==
  /\ run[d].pc \in {"emit", "raised"}
  /\ lock' = [lock EXCEPT ![Own(d)] = FALSE]
  /\ Become(d, Between(IF Here(d, "emit") THEN run[d].tick + 1
                                          ELSE run[d].tick))
  /\ UNCHANGED <<mode, policy, disk, ran, deaths>>

----------------------------------------------------------------------------
(* What goes wrong                                                         *)

\* Any call of the tick may raise; the operator starts the tick again.
Raise(d) ==
  /\ run[d].pc \in Inside
  /\ deaths < MaxDeaths
  /\ deaths' = deaths + 1
  /\ Goto(d, "raised")
  /\ UNCHANGED <<mode, policy, disk, lock, ran>>

\* The process is killed: LOCK and the files stay.
Crash(d) ==
  /\ run[d].pc \in Inside
  /\ deaths < MaxDeaths
  /\ deaths' = deaths + 1
  /\ Become(d, Between(run[d].tick))
  /\ UNCHANGED <<mode, policy, disk, lock, ran>>

\* Someone edits the policy of the campaign pack.
EditPolicy ==
  /\ policy < MaxPolicy
  /\ policy' = policy + 1
  /\ UNCHANGED <<mode, disk, lock, run, ran, deaths>>

Step(d) == \/ Enter(d) \/ Load(d) \/ Settle(d) \/ Select(d) \/ Decide(d)
           \/ Dispatch(d) \/ Promote(d) \/ WriteState(d) \/ Leave(d)

Next == EditPolicy \/ \E d \in Daemons : Step(d) \/ Raise(d) \/ Crash(d)

TickSpec == Init /\ [][Next]_vars

\* A daemon that can go on does, and the operator starts a tick that failed.
FairTickSpec == TickSpec /\ \A d \in Daemons : WF_vars(Step(d))

----------------------------------------------------------------------------
(* Properties                                                              *)

\* Typing of the files, of the daemons' local variables and of the history.
TickTypeOK ==
  /\ mode \in Modes /\ policy \in Nat /\ deaths \in Nat
  /\ disk \in [Dirs -> Files]
  /\ lock \in [Dirs -> BOOLEAN]
  /\ run \in [Daemons -> Tick]
  /\ ran \in Seq((1 .. MaxTick) \X Campaigns)

(***************************************************************************)
(* A state of the run has spent exactly the costs of the campaigns its     *)
(* ancestors ran: the floor of debit_budget, which would forgive a         *)
(* campaign part of its cost, is never reached, because every path of the  *)
(* decider and of the market checks the budget of the very state that is   *)
(* debited.                                                                *)
(***************************************************************************)
BudgetAccounted ==
  \A i \in Dirs : \A s \in disk[i].states : s.budget = Budget - s.spent

CostOf(runs) ==
  LET total[i \in 0 .. Len(runs)] ==
        IF i = 0 THEN 0 ELSE total[i - 1] + Cost[runs[i][2]]
  IN total[Len(runs)]

DearestRun == CHOOSE m \in {Cost[c] : c \in Campaigns} :
                 \A c \in Campaigns : Cost[c] <= m

(***************************************************************************)
(* The state a tick left accounts for every campaign that ever ran, but    *)
(* for one run for each tick that raised or was killed: a tick may die     *)
(* between dispatch_campaign and write_state, and a run it did not record  *)
(* is charged to nobody.  Whatever is loaded where a tick was run twice,   *)
(* no more than that is lost.                                              *)
(***************************************************************************)
LossesBounded ==
  \A d \in Daemons : Here(d, "idle") =>
    \A s \in Loaded(Prev(run[d].tick).states, Genesis(0)) :
      CostOf(ran) <= (Budget - s.budget) + deaths * DearestRun

\* Two runs of a campaign that a state descends from are apart by the
\* campaign's cooldown, across ticks that died and were run again.
CooldownHolds ==
  \A i \in Dirs : \A s \in disk[i].states : \A j, k \in DOMAIN s.runs :
    (j < k /\ s.runs[j].campaign = s.runs[k].campaign)
      => s.runs[k].tick >= s.runs[j].tick + Cooldown[s.runs[j].campaign]

\* No goal is given a campaign again once a run has completed or failed it:
\* the queue of the pack, read again by every tick, does not reopen it.
ClosedGoalsRest ==
  \A i \in Dirs : \A s \in disk[i].states : \A j, k \in DOMAIN s.runs :
    (j < k /\ s.runs[j].goal # NoGoal /\ s.runs[j].goal = s.runs[k].goal)
      => s.runs[j].outcome = "nothing"

\* Without a market every run a state descends from was decided under the
\* policy the run started with: an edited pack halts it for good.
OnePolicy ==
  ~mode.market =>
    \A i \in Dirs : \A s \in disk[i].states : \A j \in DOMAIN s.runs :
      s.runs[j].policy = s.policy

(***************************************************************************)
(* A market settles the selection of every tick once, in the order of the  *)
(* ticks, whichever of the files of a tick that was run twice is loaded.   *)
(* In a shared directory that needs that no tick died: one that is run     *)
(* again there takes its own first attempt for the previous tick.          *)
(***************************************************************************)
SettledOnce ==
  (mode.shared => deaths = 0) =>
    \A i \in Dirs : \A m \in disk[i].markets : \A j \in DOMAIN m.settled :
      m.settled[j].tick = j

\* Unless a tick died, the winner a market settles is a campaign that ran.
SettlesWhatRan ==
  deaths = 0 =>
    \A i \in Dirs : \A m \in disk[i].markets : \A j \in DOMAIN m.settled :
      m.settled[j].winner # NoCampaign =>
        \E k \in DOMAIN ran :
          ran[k] = <<m.settled[j].tick, m.settled[j].winner>>

\* A campaign is disabled when, and only when, disable_after successive
\* settlements left its bankroll below the threshold.
DisabledForCause ==
  \A i \in Dirs : \A m \in disk[i].markets : \A c \in Campaigns :
    m.rows[c].disabled <=>
      \E last \in DOMAIN m.path :
        /\ last >= Cfg.disableAfter
        /\ \A j \in (last - Cfg.disableAfter + 1) .. last :
             m.path[j][c] < Cfg.disableThreshold

\* The run gets past every tick: a LOCK left by a killed tick refuses one
\* daemon, which removes it.
TicksGoOn == \A d \in Daemons : <>(run[d].tick > MaxTick)

\* LOCK serializes the ticks: no two daemons are between acquiring and
\* releasing it in one directory.
OneTickAtATime ==
  \A d, e \in Daemons :
    (d # e /\ run[d].pc \in Inside /\ run[e].pc \in Inside) => Own(d) # Own(e)
=============================================================================
