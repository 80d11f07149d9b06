------------------------- MODULE OmegaMarketProofs -------------------------
(***************************************************************************)
(* Proofs about the bid market of the Omega daemon: when a campaign is     *)
(* disabled, and in which order and how often selections are settled.      *)
(*                                                                         *)
(* Whom a market has disabled is a property of the market file alone, as   *)
(* the promises of OmegaTickProofs are of the state file.  The order of    *)
(* settlements is not: it needs that the files a tick looks back at end    *)
(* with the tick before.                                                   *)
(***************************************************************************)
EXTENDS OmegaTickProofs

----------------------------------------------------------------------------
(* Who is disabled                                                         *)

Below(path, c, j) == path[j][c] < Cfg.disableThreshold

\* Some settlement was the last of disable_after below the threshold.
Ruined(path, c) ==
  \E last \in DOMAIN path :
    /\ last >= Cfg.disableAfter
    /\ \A j \in (last - Cfg.disableAfter + 1) .. last : Below(path, c, j)

\* The streak of a row is the length of the last stay below the threshold.
Tallied(row, path, c) ==
  /\ row.disabled <=> Ruined(path, c)
  /\ ~row.disabled =>
       /\ row.streak <= Len(path)
       /\ \A j \in (Len(path) - row.streak + 1) .. Len(path) : Below(path, c, j)
       /\ row.streak < Len(path) => ~Below(path, c, Len(path) - row.streak)

TalliedMarket(m) == \A c \in Campaigns : Tallied(m.rows[c], m.path, c)

\* What the settlement does to the winner's row is no part of its tally.
LEMMA UpdatedKeeps ==
  ASSUME NEW rows \in Rows, NEW winner, NEW delta, NEW c \in Campaigns
  PROVE  /\ Rewarded(rows, winner, delta)[c].streak = rows[c].streak
         /\ Rewarded(rows, winner, delta)[c].disabled = rows[c].disabled
<1>1. rows[c] \in Row
  BY DEF Rows
<1> QED
  BY <1>1 DEF Rewarded, Updated, Row

\* A settlement ruins a campaign by being the last of enough below the threshold.
LEMMA RuinedStays ==
  ASSUME NEW path \in Seq([Campaigns -> Int]), NEW entry \in [Campaigns -> Int],
         NEW c \in Campaigns
  PROVE  Ruined(Append(path, entry), c) <=>
           \/ Ruined(path, c)
           \/ /\ Len(path) + 1 >= Cfg.disableAfter
              /\ \A j \in (Len(path) + 1 - Cfg.disableAfter + 1) .. Len(path) :
                   Below(path, c, j)
              /\ Cfg.disableAfter > 0 => entry[c] < Cfg.disableThreshold
<1> DEFINE n == Len(path)
           K == Cfg.disableAfter
           q == Append(path, entry)
           Window(p, last) == /\ last >= K
                              /\ \A j \in (last - K + 1) .. last : Below(p, c, j)
<1>1. K \in Nat /\ n \in Nat
  BY MarketAssumption DEF CfgParams
<1>2. /\ DOMAIN path = 1 .. n /\ DOMAIN q = 1 .. (n + 1)
      /\ q[n + 1] = entry /\ \A j \in 1 .. n : q[j] = path[j]
  BY <1>1
<1>3. \A j \in 1 .. n : Below(q, c, j) <=> Below(path, c, j)
  BY <1>2 DEF Below
<1>4. Below(q, c, n + 1) <=> entry[c] < Cfg.disableThreshold
  BY <1>2 DEF Below
<1> HIDE DEF n, K, q
<1>5. \A last \in 1 .. n : Window(q, last) <=> Window(path, last)
  BY <1>1, <1>3
<1>6. Window(q, n + 1) <=>
        /\ n + 1 >= K
        /\ \A j \in (n + 1 - K + 1) .. n : Below(path, c, j)
        /\ K > 0 => entry[c] < Cfg.disableThreshold
  BY <1>1, <1>3, <1>4
<1>7. Ruined(q, c) <=> \E last \in 1 .. (n + 1) : Window(q, last)
  BY <1>2 DEF Ruined, K
<1>8. Ruined(path, c) <=> \E last \in 1 .. n : Window(path, last)
  BY <1>2 DEF Ruined, K
<1>9. 1 .. (n + 1) = (1 .. n) \cup {n + 1}
  BY <1>1
<1> HIDE DEF Window
<1>10. Ruined(q, c) <=> Ruined(path, c) \/ Window(q, n + 1)
  BY <1>5, <1>7, <1>8, <1>9
<1> QED
  BY <1>6, <1>10 DEF n, K, q

\* The bankruptcy rule keeps the tally of one row.
LEMMA BankruptcyTallied ==
  ASSUME NEW row \in Row, NEW path \in Seq([Campaigns -> Int]),
         NEW entry \in [Campaigns -> Int], NEW c \in Campaigns,
         entry[c] = row.bankroll, Tallied(row, path, c)
  PROVE  Tallied(Bankruptcy(row), Append(path, entry), c)
<1> DEFINE n == Len(path)
           K == Cfg.disableAfter
           T == Cfg.disableThreshold
           q == Append(path, entry)
           streak == IF row.bankroll < T THEN row.streak + 1 ELSE 0
           new == Bankruptcy(row)
<1>1. K \in Nat /\ T \in Nat /\ n \in Nat /\ row.streak \in Nat
        /\ row.bankroll \in Int
  BY MarketAssumption DEF CfgParams, Row
<1>2. /\ DOMAIN q = 1 .. (n + 1) /\ Len(q) = n + 1
      /\ q[n + 1] = entry /\ \A j \in 1 .. n : q[j] = path[j]
  BY <1>1
<1>3. \A j \in 1 .. n : Below(q, c, j) <=> Below(path, c, j)
  BY <1>2 DEF Below
<1>4. Below(q, c, n + 1) <=> row.bankroll < T
  BY <1>2 DEF Below
<1>5. Ruined(q, c) <=>
        \/ Ruined(path, c)
        \/ /\ n + 1 >= K
           /\ \A j \in (n + 1 - K + 1) .. n : Below(path, c, j)
           /\ K > 0 => row.bankroll < T
  BY RuinedStays
<1>6. CASE row.disabled
  <2>1. new = row
    BY <1>6 DEF Bankruptcy
  <2>2. Ruined(q, c)
    BY <1>5, <1>6 DEF Tallied
  <2> QED
    BY <2>1, <2>2, <1>6 DEF Tallied
<1>7. CASE ~row.disabled
  <2>1. /\ new.streak = streak
        /\ new.disabled <=> streak >= K
    BY <1>1, <1>7 DEF Bankruptcy, Row
  <2>2. /\ ~Ruined(path, c) /\ row.streak <= n
        /\ \A j \in (n - row.streak + 1) .. n : Below(path, c, j)
        /\ row.streak < n => ~Below(path, c, n - row.streak)
    BY <1>7 DEF Tallied
  <2> HIDE DEF n, K, T, q, new
  <2>3. CASE row.bankroll < T
    <3>1. streak = row.streak + 1
      BY <2>3
    <3> HIDE DEF streak
    <3>2. streak >= K => Ruined(q, c)
      BY <3>1, <2>2, <2>3, <1>1, <1>5
    <3>3. streak < K => ~Ruined(q, c)
      <4> SUFFICES ASSUME streak < K, n + 1 >= K
                   PROVE  ~ \A j \in (n + 1 - K + 1) .. n : Below(path, c, j)
        BY <2>2, <1>5
      <4>1. row.streak < n /\ n - row.streak \in (n + 1 - K + 1) .. n
        BY <3>1, <1>1
      <4> QED
        BY <4>1, <2>2
    <3>4. streak <= n + 1
      BY <3>1, <2>2, <1>1
    <3>5. \A j \in (n + 1 - streak + 1) .. (n + 1) : Below(q, c, j)
      <4> SUFFICES ASSUME NEW j \in (n + 1 - streak + 1) .. (n + 1)
                   PROVE  Below(q, c, j)
        OBVIOUS
      <4>1. CASE j = n + 1
        BY <4>1, <2>3, <1>4
      <4>2. CASE j # n + 1
        <5>1. j \in (n - row.streak + 1) .. n /\ j \in 1 .. n
          BY <4>2, <3>1, <2>2, <1>1
        <5> QED
          BY <5>1, <2>2, <1>3
      <4> QED
        BY <4>1, <4>2
    <3>6. streak < n + 1 => ~Below(q, c, n + 1 - streak)
      <4> HAVE streak < n + 1
      <4>1. row.streak < n /\ n + 1 - streak = n - row.streak
              /\ n - row.streak \in 1 .. n
        BY <3>1, <1>1
      <4> QED
        BY <4>1, <2>2, <1>3
    <3>7. streak \in Nat
      BY <3>1, <1>1
    <3> QED
      BY <3>2, <3>3, <3>4, <3>5, <3>6, <3>7, <2>1, <1>1, <1>2 DEF Tallied, q, new
  <2>4. CASE ~(row.bankroll < T)
    <3>1. streak = 0
      BY <2>4
    <3> HIDE DEF streak
    <3>2. streak >= K <=> Ruined(q, c)
      BY <3>1, <2>2, <2>4, <1>1, <1>5
    <3>3. \A j \in (n + 1 - streak + 1) .. (n + 1) : Below(q, c, j)
      BY <3>1, <1>1
    <3>4. ~Below(q, c, n + 1 - streak)
      BY <3>1, <2>4, <1>1, <1>4
    <3> QED
      BY <3>1, <3>2, <3>3, <3>4, <2>1, <1>1, <1>2 DEF Tallied, q, new
  <2> QED
    BY <2>3, <2>4
<1> QED
  BY <1>6, <1>7

\* A settlement keeps the tally of every row.
LEMMA SettlementTallied ==
  ASSUME NEW m \in Market, TalliedMarket(m), NEW sel, NEW tick,
         NEW known, NEW delta \in Int
  PROVE  TalliedMarket(Settlement(m, sel, tick, known, delta))
<1> DEFINE winner == IF known THEN sel.winner ELSE NoCampaign
           rows  == SettledRows(m.rows, winner, delta)
           entry == [c \in Campaigns |-> rows[c].bankroll]
<1>1. m.rows \in Rows /\ m.path \in Seq([Campaigns -> Int])
  BY DEF Market
<1>2. rows \in Rows
  BY <1>1, SettledRowsType
<1>3. entry \in [Campaigns -> Int]
  BY <1>2 DEF Rows, Row
<1> SUFFICES ASSUME NEW c \in Campaigns
             PROVE  Tallied(rows[c], Append(m.path, entry), c)
  BY DEF TalliedMarket, Settlement
<1> DEFINE row == Rewarded(m.rows, winner, delta)[c]
<1>4. row \in Row
  BY <1>1, UpdatedRow DEF Rewarded, Rows
<1>5. rows[c] = Bankruptcy(row)
  BY DEF SettledRows
<1>6. Tallied(row, m.path, c)
  <2>1. row.streak = m.rows[c].streak /\ row.disabled = m.rows[c].disabled
    BY <1>1, UpdatedKeeps
  <2>2. Tallied(m.rows[c], m.path, c)
    BY DEF TalliedMarket
  <2> HIDE DEF row
  <2> QED
    BY <2>1, <2>2 DEF Tallied
<1> HIDE DEF row
<1>7. Bankruptcy(row).bankroll = row.bankroll
  BY <1>4 DEF Bankruptcy, Row
<1>8. entry[c] = row.bankroll
  BY <1>5, <1>7
<1> HIDE DEF rows, entry
<1> QED
  BY <1>1, <1>3, <1>4, <1>5, <1>6, <1>8, BankruptcyTallied

\* A market that has settled nothing has disabled nobody.
LEMMA BootstrapTallied ==
  ASSUME NEW tick \in Nat
  PROVE  Bootstrap(tick) \in Market /\ TalliedMarket(Bootstrap(tick))
<1>1. BootstrapRows \in Rows
  BY MarketAssumption DEF BootstrapRows, Rows, Row, CfgParams
<1>2. Bootstrap(tick) \in Market
  BY <1>1 DEF Bootstrap, Market
<1>3. Len(<<>>) = 0 /\ DOMAIN <<>> = {}
  OBVIOUS
<1>4. ASSUME NEW c \in Campaigns
      PROVE  Tallied(BootstrapRows[c], <<>>, c)
  <2>1. BootstrapRows[c].disabled = FALSE /\ BootstrapRows[c].streak = 0
    BY DEF BootstrapRows
  <2>2. ~Ruined(<<>>, c)
    BY <1>3 DEF Ruined
  <2> QED
    BY <2>1, <2>2, <1>3 DEF Tallied
<1> QED
  BY <1>2, <1>4 DEF TalliedMarket, Bootstrap

----------------------------------------------------------------------------
(* Steps and the files of the market                                       *)

\* Only a settlement and a selection write files of the market.
LEMMA MarketFrame ==
  ASSUME TickInv, [Next]_vars,
         \A d \in Daemons : ~Settle(d) /\ ~Select(d)
  PROVE  \A i \in Dirs : /\ disk'[i].markets = disk[i].markets
                         /\ disk'[i].selections = disk[i].selections
<1>1. disk \in [Dirs -> Files]
  BY DEF TickInv, TickTypeOK
<1>2. CASE UNCHANGED disk
  BY <1>2
<1>3. ASSUME NEW d \in Daemons, NEW S,
             disk' = [disk EXCEPT ![Own(d)].states = S]
      PROVE  \A i \in Dirs : /\ disk'[i].markets = disk[i].markets
                             /\ disk'[i].selections = disk[i].selections
  BY <1>1, <1>3 DEF Files
<1>4. ASSUME NEW d \in Daemons, Step(d)
      PROVE  \A i \in Dirs : /\ disk'[i].markets = disk[i].markets
                             /\ disk'[i].selections = disk[i].selections
  <2>1. CASE Load(d)
    BY <2>1, <1>3 DEF Load
  <2>2. CASE WriteState(d)
    BY <2>2, <1>3 DEF WriteState
  <2>3. CASE Enter(d) \/ Decide(d) \/ Dispatch(d) \/ Promote(d) \/ Leave(d)
    BY <2>3, <1>2 DEF Enter, Decide, Dispatch, Promote, Leave
  <2> QED
    BY <1>4, <2>1, <2>2, <2>3 DEF Step
<1> QED
  BY <1>2, <1>4 DEF Next, EditPolicy, Raise, Crash, vars

\* What a settlement and a selection write, and where.
LEMMA SettleWrites ==
  ASSUME TickInv, NEW d \in Daemons, Settle(d)
  PROVE  LET prev == Prev(run[d].tick) IN
         \E m \in Loaded(prev.markets, Bootstrap(run[d].tick - 1)),
            sel \in Loaded(prev.selections, NoSelection),
            known \in BOOLEAN, delta \in Deltas :
           LET after == Settlement(m, sel, run[d].tick, known, delta) IN
           /\ m \in Market /\ sel \in Selection /\ delta \in Int
           /\ \A i \in Dirs \ {Own(d)} : disk'[i] = disk[i]
           /\ disk'[Own(d)].markets
                = disk[Own(d)].markets \cup ({m} \cap prev.markets) \cup {after}
           /\ disk'[Own(d)].selections
                = disk[Own(d)].selections \cup ({sel} \cap prev.selections)
<1> DEFINE prev == Prev(run[d].tick)
<1>1. PICK m \in Loaded(prev.markets, Bootstrap(run[d].tick - 1)),
           sel \in Loaded(prev.selections, NoSelection),
           known \in BOOLEAN, delta \in Deltas :
        LET after == Settlement(m, sel, run[d].tick, known, delta)
        IN disk' = [disk EXCEPT
                      ![Own(d)].markets = @ \cup ({m} \cap prev.markets)
                                            \cup {after},
                      ![Own(d)].selections = @ \cup ({sel} \cap prev.selections)]
  BY DEF Settle
<1>2. /\ run[d].tick \in Dirs /\ Own(d) \in Dirs
      /\ disk[Own(d)] \in Files /\ prev \in Files
  BY DirTypes
<1>3. run[d].tick - 1 \in Nat
  BY <1>2, TickAssumption DEF Dirs
<1>4. m \in Market
  BY <1>2, <1>3, BootstrapTallied DEF Loaded, Latest, Files
<1>5. sel \in Selection
  BY <1>2 DEF Loaded, Latest, Files, NoSelection, Selection
<1>6. delta \in Int
  BY TickAssumption
<1>7. disk \in [Dirs -> Files]
  BY DEF TickInv, TickTypeOK
<1> DEFINE after == Settlement(m, sel, run[d].tick, known, delta)
<1> HIDE DEF prev
<1>8. /\ \A i \in Dirs \ {Own(d)} : disk'[i] = disk[i]
      /\ disk'[Own(d)].markets
           = disk[Own(d)].markets \cup ({m} \cap prev.markets) \cup {after}
      /\ disk'[Own(d)].selections
           = disk[Own(d)].selections \cup ({sel} \cap prev.selections)
  <2> HIDE DEF after
  <2>1. disk' = [disk EXCEPT
                   ![Own(d)].markets = @ \cup ({m} \cap prev.markets)
                                         \cup {after},
                   ![Own(d)].selections = @ \cup ({sel} \cap prev.selections)]
    BY <1>1 DEF after
  <2> QED
    BY <2>1, <1>2, <1>7 DEF Files
<1> QED
  BY <1>4, <1>5, <1>6, <1>8 DEF prev

\* A selection adds its receipt, and the plan runs its winner.
LEMMA SelectWrites ==
  ASSUME TickInv, NEW d \in Daemons, Select(d)
  PROVE  \E winner \in Campaigns \cup {NoCampaign} :
           LET sel == [tick |-> run[d].tick, winner |-> winner] IN
           /\ sel \in Selection
           /\ \A i \in Dirs \ {Own(d)} : disk'[i] = disk[i]
           /\ disk'[Own(d)].markets = disk[Own(d)].markets
           /\ disk'[Own(d)].selections = disk[Own(d)].selections \cup {sel}
           /\ Plan(d, [NoPlan EXCEPT !.campaign = winner])
<1>1. PICK winner \in Winners(run[d].market.rows, run[d].tick,
                              run[d].st.cooldown, run[d].st.budget) :
        /\ disk' = [disk EXCEPT ![Own(d)].selections =
                      @ \cup {[tick |-> run[d].tick, winner |-> winner]}]
        /\ Plan(d, [NoPlan EXCEPT !.campaign = winner])
  BY DEF Select
<1>2. /\ run[d].tick \in Dirs /\ Own(d) \in Dirs
  BY DirTypes
<1>3. disk \in [Dirs -> Files]
  BY DEF TickInv, TickTypeOK
<1>4. winner \in Campaigns \cup {NoCampaign}
  BY <1>1 DEF Winners, Eligible
<1>5. [tick |-> run[d].tick, winner |-> winner] \in Selection
  BY <1>2, <1>4, TickAssumption DEF Selection, Dirs
<1> DEFINE sel == [tick |-> run[d].tick, winner |-> winner]
<1> HIDE DEF sel
<1>6. /\ \A i \in Dirs \ {Own(d)} : disk'[i] = disk[i]
      /\ disk'[Own(d)].markets = disk[Own(d)].markets
      /\ disk'[Own(d)].selections = disk[Own(d)].selections \cup {sel}
  <2>1. disk' = [disk EXCEPT ![Own(d)].selections = @ \cup {sel}]
    BY <1>1 DEF sel
  <2> QED
    BY <2>1, <1>2, <1>3 DEF Files
<1> QED
  BY <1>1, <1>4, <1>5, <1>6 DEF sel

TallyInv == \A i \in Dirs : \A m \in disk[i].markets : TalliedMarket(m)

\* Every market file is tallied, whatever daemons wrote it.
LEMMA TallyNext ==
  ASSUME TickInv, TallyInv, [Next]_vars
  PROVE  TallyInv'
<1>1. CASE \A d \in Daemons : ~Settle(d) /\ ~Select(d)
  BY <1>1, MarketFrame DEF TallyInv
<1>2. ASSUME NEW d \in Daemons, Settle(d)
      PROVE  TallyInv'
  <2> DEFINE prev == Prev(run[d].tick)
  <2>1. PICK m \in Loaded(prev.markets, Bootstrap(run[d].tick - 1)),
             sel \in Selection,
             known \in BOOLEAN, delta \in Int :
           LET after == Settlement(m, sel, run[d].tick, known, delta) IN
           /\ m \in Market
           /\ \A i \in Dirs \ {Own(d)} : disk'[i] = disk[i]
           /\ disk'[Own(d)].markets
                = disk[Own(d)].markets \cup ({m} \cap prev.markets) \cup {after}
    BY <1>2, SettleWrites
  <2>2. run[d].tick \in Dirs
    BY DirTypes
  <2>3. run[d].tick - 1 \in Nat
    BY <2>2, TickAssumption DEF Dirs
  <2>4. \A e \in prev.markets : TalliedMarket(e)
    BY PrevIn DEF TallyInv, NoFiles
  <2>5. TalliedMarket(m)
    BY <2>1, <2>3, <2>4, BootstrapTallied DEF Loaded, Latest
  <2>6. TalliedMarket(Settlement(m, sel, run[d].tick, known, delta))
    BY <2>1, <2>5, SettlementTallied
  <2> QED
    BY <2>1, <2>5, <2>6 DEF TallyInv
<1>3. ASSUME NEW d \in Daemons, Select(d)
      PROVE  TallyInv'
  <2>1. \A i \in Dirs : disk'[i].markets = disk[i].markets
    BY <1>3, SelectWrites
  <2> QED
    BY <2>1 DEF TallyInv
<1> QED
  BY <1>1, <1>2, <1>3

\* A campaign is disabled exactly when disable_after successive settlements
\* left its bankroll below the threshold, and is never enabled again
\* (_apply_bankruptcy_rules), whatever ticks died, were run again, or raced.
THEOREM DisabledOnlyForCause == TickSpec => []DisabledForCause
<1>1. Init => TallyInv
  BY DEF Init, TallyInv, NoFiles
<1>2. TallyInv => DisabledForCause
  BY DEF TallyInv, TalliedMarket, Tallied, Ruined, Below, DisabledForCause
<1> QED
  BY <1>1, <1>2, TickInvariant, TallyNext, PTL DEF TickSpec

----------------------------------------------------------------------------
(* In which order selections are settled                                   *)

\* Ticks share a directory only if one daemon runs them.
OneIfShared ==
  (\E m \in Modes : m.shared) => \A d, e \in Daemons : d = e

\* Phases of a tick that has not settled, or not selected, in this attempt.
Unsettled  == {"idle", "load", "settle", "raised"}
Unselected == Unsettled \cup {"select"}

\* A market file of tick t settled the selections of the ticks 1 .. t - 1.
InOrder(m) ==
  /\ m.tick >= 1
  /\ Len(m.settled) = m.tick - 1
  /\ \A j \in DOMAIN m.settled : m.settled[j].tick = j

HasMarket(t)    == \E m \in disk[Dir(t)].markets : m.tick = t
HasSelection(t) == \E s \in disk[Dir(t)].selections : s.tick = t

\* The files of a directory of one tick are of that tick or the one before.
FilesInOrder ==
  \A i \in Dirs :
    /\ \A m \in disk[i].markets : InOrder(m) /\ (~mode.shared => m.tick <= i)
    /\ \A s \in disk[i].selections : s.tick >= 1 /\ (~mode.shared => s.tick <= i)

\* The ticks a daemon has done have left their files, and a directory of all
\* ticks holds nothing of a tick to come.
Orderly(r) ==
  /\ mode.market =>
       /\ \A t \in 1 .. (r.tick - 1) : HasMarket(t) /\ HasSelection(t)
       /\ r.pc \notin Unsettled => HasMarket(r.tick)
       /\ r.pc \notin Unselected => HasSelection(r.tick)
       /\ r.pc # "decide"
  /\ mode.shared =>
       /\ \A m \in disk[1].markets :
            m.tick <= r.tick /\ (r.pc \in Unsettled => m.tick < r.tick)
       /\ \A s \in disk[1].selections :
            s.tick <= r.tick /\ (r.pc \in Unselected => s.tick < r.tick)

OrderInv ==
  (mode.shared => deaths = 0) =>
    FilesInOrder /\ \A d \in Daemons : Orderly(run[d])

\* What is loaded at a settlement is of the tick before.
LEMMA LoadedBefore ==
  ASSUME TickInv, FilesInOrder, NEW d \in Daemons, Orderly(run[d]),
         Here(d, "settle"),
         NEW m \in Loaded(Prev(run[d].tick).markets, Bootstrap(run[d].tick - 1)),
         NEW sel \in Loaded(Prev(run[d].tick).selections, NoSelection)
  PROVE  /\ run[d].tick = 1 => m = Bootstrap(0) /\ sel = NoSelection
         /\ run[d].tick # 1 =>
              /\ InOrder(m) /\ m.tick = run[d].tick - 1
              /\ sel.tick = run[d].tick - 1
<1> DEFINE t == run[d].tick
<1>1. t \in Nat \ {0} /\ t \in Dirs
  BY DirTypes, TickAssumption DEF Dirs
<1>2. mode.market
  BY DEF TickInv, GoodRun, Here
<1>3. CASE t = 1
  <2>1. Prev(t) = NoFiles
    BY <1>3, PrevIn
  <2> QED
    BY <2>1, <1>3 DEF Loaded, NoFiles
<1>4. CASE t # 1
  <2> DEFINE prev == disk[Dir(t - 1)]
  <2>1. /\ t - 1 \in Dirs /\ Dir(t - 1) \in Dirs /\ Prev(t) = prev
        /\ t - 1 \in 1 .. (t - 1) /\ t - 1 \in Nat /\ t - 1 >= 1
    BY <1>1, <1>4, PrevIn
  <2>2. prev \in Files
    BY <2>1 DEF TickInv, TickTypeOK
  <2>3. HasMarket(t - 1) /\ HasSelection(t - 1)
    BY <1>2, <2>1 DEF Orderly
  <2>4. mode.shared => Dir(t - 1) = 1
    BY DEF Dir
  <2>5. ~mode.shared => Dir(t - 1) = t - 1
    BY DEF Dir
  <2>6. \A e \in prev.markets : e.tick \in Nat /\ e.tick <= t - 1 /\ InOrder(e)
    <3>1. \A e \in prev.markets : e.tick \in Nat /\ InOrder(e)
      BY <2>1, <2>2 DEF FilesInOrder, Files, Market
    <3>2. CASE mode.shared
      BY <3>1, <3>2, <2>4, <1>1 DEF Orderly, Unsettled, Here
    <3>3. CASE ~mode.shared
      BY <3>1, <3>3, <2>1, <2>5 DEF FilesInOrder
    <3> QED
      BY <3>1, <3>2, <3>3
  <2>7. \A e \in prev.selections : e.tick \in Nat /\ e.tick <= t - 1
    <3>1. \A e \in prev.selections : e.tick \in Nat
      BY <2>2 DEF Files, Selection
    <3>2. CASE mode.shared
      BY <3>1, <3>2, <2>4, <1>1 DEF Orderly, Unselected, Unsettled, Here
    <3>3. CASE ~mode.shared
      BY <3>1, <3>3, <2>1, <2>5 DEF FilesInOrder
    <3> QED
      BY <3>1, <3>2, <3>3
  <2> HIDE DEF t, prev
  <2>8. m \in prev.markets /\ m.tick = t - 1
    <3>1. PICK e \in prev.markets : e.tick = t - 1
      BY <2>3 DEF HasMarket, prev
    <3>2. m \in prev.markets /\ e.tick <= m.tick
      BY <3>1, <2>1 DEF Loaded, Latest, t
    <3> QED
      BY <3>1, <3>2, <2>1, <2>6
  <2>9. sel.tick = t - 1
    <3>1. PICK e \in prev.selections : e.tick = t - 1
      BY <2>3 DEF HasSelection, prev
    <3>2. sel \in prev.selections /\ e.tick <= sel.tick
      BY <3>1, <2>1 DEF Loaded, Latest, t
    <3> QED
      BY <3>1, <3>2, <2>1, <2>7
  <2> QED
    BY <2>6, <2>8, <2>9, <1>4 DEF t
<1> QED
  BY <1>3, <1>4

\* Then the settlement is in order again.
LEMMA SettlementInOrder ==
  ASSUME TickInv, FilesInOrder, NEW d \in Daemons, Orderly(run[d]),
         Here(d, "settle"),
         NEW m \in Loaded(Prev(run[d].tick).markets, Bootstrap(run[d].tick - 1)),
         NEW sel \in Loaded(Prev(run[d].tick).selections, NoSelection),
         m \in Market, sel \in Selection, NEW known, NEW delta
  PROVE  LET after == Settlement(m, sel, run[d].tick, known, delta)
         IN InOrder(after) /\ after.tick = run[d].tick
<1> DEFINE t == run[d].tick
           after == Settlement(m, sel, t, known, delta)
<1>1. t \in Nat \ {0}
  BY DirTypes, TickAssumption DEF Dirs
<1>2. after.tick = t
  BY DEF Settlement
<1>3. after.settled = IF sel = NoSelection THEN m.settled
                                           ELSE Append(m.settled, sel)
  BY DEF Settlement
<1>4. m.settled \in Seq(Selection)
  BY DEF Market
<1> HIDE DEF after
<1>5. CASE t = 1
  <2>0. sel = NoSelection /\ m = Bootstrap(0)
    BY <1>5, LoadedBefore
  <2>1. sel = NoSelection /\ m.settled = <<>>
    BY <2>0 DEF Bootstrap
  <2> QED
    BY <2>1, <1>2, <1>3, <1>5 DEF InOrder, after
<1>6. CASE t # 1
  <2>1. InOrder(m) /\ m.tick = t - 1 /\ sel.tick = t - 1
    BY <1>6, LoadedBefore
  <2>2. sel # NoSelection
    BY <2>1, <1>1, <1>6 DEF NoSelection
  <2>3. Len(m.settled) = t - 2 /\ \A j \in DOMAIN m.settled : m.settled[j].tick = j
    BY <2>1, <1>1 DEF InOrder
  <2>4. /\ Len(after.settled) = t - 1
        /\ \A j \in DOMAIN after.settled : after.settled[j].tick = j
    <3> DEFINE old == m.settled
               new == after.settled
    <3>1. new = Append(old, sel) /\ old \in Seq(Selection)
      BY <2>2, <1>3, <1>4
    <3>2. Len(old) = t - 2 /\ \A j \in DOMAIN old : old[j].tick = j
      BY <2>3
    <3> HIDE DEF old, new
    <3>3. /\ Len(new) = t - 1 /\ DOMAIN new = 1 .. (t - 1)
          /\ new[t - 1] = sel /\ \A j \in 1 .. (t - 2) : new[j] = old[j]
      BY <3>1, <3>2, <1>1, <1>6
    <3>4. \A j \in DOMAIN new : new[j].tick = j
      BY <3>1, <3>2, <3>3, <2>1, <1>1, <1>6
    <3> QED
      BY <3>3, <3>4 DEF new
  <2> QED
    BY <2>4, <1>1, <1>2 DEF InOrder, after
<1> QED
  BY <1>5, <1>6

\* A step that leaves the market's files alone, and the daemon in order.
LEMMA OrderFrame ==
  ASSUME TickInv, FilesInOrder, \A e \in Daemons : Orderly(run[e]),
         NEW d \in Daemons, NEW r \in Tick, Become(d, r), Orderly(r),
         mode' = mode,
         \A i \in Dirs : /\ disk'[i].markets = disk[i].markets
                         /\ disk'[i].selections = disk[i].selections
  PROVE  FilesInOrder' /\ \A e \in Daemons : Orderly(run[e])'
<1>1. run \in [Daemons -> Tick]
  BY DEF TickInv, TickTypeOK
<1>2. FilesInOrder'
  BY DEF FilesInOrder, InOrder
<1>3. ASSUME NEW q, q.tick \in Dirs, Orderly(q)
      PROVE  Orderly(q)'
  <2>1. 1 \in Dirs /\ \A t \in Dirs : Dir(t) \in Dirs
    BY TickAssumption DEF Dir, Dirs
  <2>2. \A t \in Dirs : /\ HasMarket(t) => HasMarket(t)'
                        /\ HasSelection(t) => HasSelection(t)'
    BY <2>1 DEF HasMarket, HasSelection, Dir
  <2>3. 1 .. (q.tick - 1) \subseteq Dirs
    BY <1>3, TickAssumption DEF Dirs
  <2> QED
    BY <1>3, <2>1, <2>2, <2>3 DEF Orderly
<1>4. ASSUME NEW e \in Daemons
      PROVE  Orderly(run[e])'
  <2>1. CASE e = d
    <3>1. run'[e] = r /\ r.tick \in Dirs
      BY <2>1, <1>1 DEF Become, Tick
    <3> QED
      BY <3>1, <1>3 DEF Orderly, HasMarket, HasSelection, Dir
  <2>2. CASE e # d
    <3>1. run'[e] = run[e] /\ run[e].tick \in Dirs
      BY <2>2, <1>1 DEF Become, Tick
    <3> QED
      BY <3>1, <1>3 DEF Orderly, HasMarket, HasSelection, Dir
  <2> QED
    BY <2>1, <2>2
<1> QED
  BY <1>2, <1>4

\* A daemon that goes on to a phase with no other obligations is in order.
LEMMA OrderlyMove ==
  ASSUME TickInv, NEW d \in Daemons, Orderly(run[d]), NEW r \in Tick,
         r.tick = run[d].tick, mode.market => r.pc # "decide",
         r.pc \in Unsettled \/ run[d].pc \notin Unsettled,
         r.pc \in Unselected \/ run[d].pc \notin Unselected,
         mode.shared => /\ run[d].pc \in Unsettled \/ r.pc \notin Unsettled
                        /\ run[d].pc \in Unselected \/ r.pc \notin Unselected
  PROVE  Orderly(r)
BY DEF Orderly

\* Steps that neither settle nor select leave the daemon in order.
LEMMA QuietOrderly ==
  ASSUME TickInv, NEW d \in Daemons, Orderly(run[d]),
         Step(d) \/ Raise(d) \/ Crash(d), ~Settle(d), ~Select(d),
         mode.shared => deaths' = 0
  PROVE  /\ Become(d, run'[d]) /\ run'[d] \in Tick
         /\ Orderly(run'[d])
<1>1. run \in [Daemons -> Tick] /\ run[d] \in Tick /\ run[d].tick \in Dirs
  BY DirTypes DEF TickInv, TickTypeOK
<1>2. deaths \in Nat /\ GoodRun(mode.market, run[d])
  BY DEF TickInv, TickTypeOK
<1>3. run'[d] \in Tick
  <2>1. TickInv'
    BY TickNext DEF Next
  <2> QED
    BY <2>1 DEF TickInv, TickTypeOK
<1>4. ASSUME NEW r, Become(d, r)
      PROVE  run'[d] = r /\ Become(d, run'[d])
  BY <1>1, <1>4 DEF Become
<1>5. CASE Enter(d)
  <2>1. \E pc \in {"load", "raised"} : Become(d, [run[d] EXCEPT !.pc = pc])
    BY <1>5 DEF Enter, Goto
  <2>2. PICK pc \in {"load", "raised"} : run'[d] = [run[d] EXCEPT !.pc = pc]
                                            /\ Become(d, run'[d])
    BY <2>1, <1>4
  <2>3. run'[d].pc \in Unsettled /\ run'[d].tick = run[d].tick
          /\ run'[d].pc # "decide" /\ run[d].pc \in Unsettled
    BY <2>2, <1>1, <1>5 DEF Unsettled, Tick, Enter, Here
  <2> QED
    BY <2>2, <2>3, <1>1, <1>3, OrderlyMove DEF Unselected
<1>6. CASE Load(d)
  <2>1. Become(d, run'[d]) /\ run'[d].tick = run[d].tick
          /\ run'[d].pc = IF mode.market THEN "settle" ELSE "decide"
    <3>1. PICK st : Become(d, [run[d] EXCEPT
                                 !.pc = IF mode.market THEN "settle" ELSE "decide",
                                 !.policy = policy, !.st = st])
      BY <1>6 DEF Load
    <3>2. /\ run'[d] = [run[d] EXCEPT
                          !.pc = IF mode.market THEN "settle" ELSE "decide",
                          !.policy = policy, !.st = st]
          /\ Become(d, run'[d])
      BY <3>1, <1>4
    <3> QED
      BY <3>2, <1>1 DEF Tick
  <2>2. run[d].pc = "load"
    BY <1>6 DEF Load, Here
  <2>3. CASE mode.market
    BY <2>1, <2>2, <2>3, <1>1, <1>3, OrderlyMove DEF Unsettled, Unselected
  <2>4. CASE ~mode.market
    BY <2>1, <2>2, <2>4, <1>1, <1>3 DEF Orderly, Unsettled, Unselected
  <2> QED
    BY <2>3, <2>4
<1>7. CASE Decide(d)
  <2>1. Become(d, run'[d]) /\ run'[d].tick = run[d].tick
          /\ run'[d].pc \in {"write", "dispatch"}
    <3>1. PICK plan : Become(d, [run[d] EXCEPT
             !.pc = IF plan.campaign = NoCampaign THEN "write" ELSE "dispatch",
             !.plan = plan, !.outcome = IF plan.halt THEN "halt" ELSE "nothing"])
      BY <1>7 DEF Decide, Plan
    <3>2. /\ run'[d] = [run[d] EXCEPT
             !.pc = IF plan.campaign = NoCampaign THEN "write" ELSE "dispatch",
             !.plan = plan, !.outcome = IF plan.halt THEN "halt" ELSE "nothing"]
          /\ Become(d, run'[d])
      BY <3>1, <1>4
    <3> QED
      BY <3>2, <1>1 DEF Tick
  <2>2. run[d].pc = "decide"
    BY <1>7 DEF Decide, Here
  <2> QED
    BY <2>1, <2>2, <1>1, <1>3, OrderlyMove DEF Unsettled, Unselected
<1>8. CASE Dispatch(d) \/ Promote(d) \/ WriteState(d)
  <2>1. Become(d, run'[d]) /\ run'[d].tick = run[d].tick
          /\ run'[d].pc \in {"promote", "write", "emit"}
    <3>1. ASSUME NEW pc \in {"promote", "write", "emit"}, NEW o,
                 \/ Become(d, [run[d] EXCEPT !.pc = pc])
                 \/ Become(d, [run[d] EXCEPT !.pc = pc, !.outcome = o])
          PROVE  Become(d, run'[d]) /\ run'[d].tick = run[d].tick
                   /\ run'[d].pc \in {"promote", "write", "emit"}
      <4>1. /\ Become(d, run'[d])
            /\ \/ run'[d] = [run[d] EXCEPT !.pc = pc]
               \/ run'[d] = [run[d] EXCEPT !.pc = pc, !.outcome = o]
        BY <3>1, <1>4
      <4> QED
        BY <4>1, <1>1 DEF Tick
    <3>2. CASE Dispatch(d) \/ WriteState(d)
      BY <3>1, <3>2 DEF Dispatch, WriteState, Goto
    <3>3. CASE Promote(d)
      BY <3>1, <3>3 DEF Promote
    <3> QED
      BY <1>8, <3>2, <3>3
  <2>2. run[d].pc \in {"dispatch", "promote", "write"}
    BY <1>8 DEF Dispatch, Promote, WriteState, Here
  <2> QED
    BY <2>1, <2>2, <1>1, <1>3, OrderlyMove DEF Unsettled, Unselected
<1>9. CASE Leave(d)
  <2>1. CASE run[d].pc = "emit"
    <3>1. Become(d, run'[d]) /\ run'[d] = Between(run[d].tick + 1)
      BY <2>1, <1>4, <1>9 DEF Leave, Here
    <3>2. run'[d].tick = run[d].tick + 1 /\ run'[d].pc = "idle"
      BY <3>1 DEF Between
    <3>3. run[d].tick \in Nat \ {0}
      BY <1>1, TickAssumption DEF Dirs
    <3>4. 1 .. (run'[d].tick - 1) = 1 .. (run[d].tick - 1) \cup {run[d].tick}
      BY <3>2, <3>3
    <3>5. mode.market =>
            \A t \in 1 .. (run'[d].tick - 1) : HasMarket(t) /\ HasSelection(t)
      BY <3>4, <2>1 DEF Orderly, Unsettled, Unselected
    <3>6. mode.shared =>
            /\ \A m \in disk[1].markets : m.tick < run'[d].tick
            /\ \A s \in disk[1].selections : s.tick < run'[d].tick
      <4>1. 1 \in Dirs
        BY TickAssumption DEF Dirs
      <4>2. /\ \A m \in disk[1].markets : m.tick \in Nat
            /\ \A s \in disk[1].selections : s.tick \in Nat
        BY <4>1 DEF TickInv, TickTypeOK, Files, Market, Selection
      <4> QED
        BY <4>2, <3>2, <3>3 DEF Orderly
    <3>7. mode.shared =>
            /\ \A m \in disk[1].markets : m.tick <= run'[d].tick
            /\ \A s \in disk[1].selections : s.tick <= run'[d].tick
      <4>1. 1 \in Dirs
        BY TickAssumption DEF Dirs
      <4>2. /\ \A m \in disk[1].markets : m.tick \in Nat
            /\ \A s \in disk[1].selections : s.tick \in Nat
        BY <4>1 DEF TickInv, TickTypeOK, Files, Market, Selection
      <4> QED
        BY <4>2, <3>2, <3>3, <3>6
    <3>8. "idle" \in Unsettled /\ "idle" \in Unselected /\ "idle" # "decide"
      BY DEF Unsettled, Unselected
    <3>9. Orderly(run'[d])
      BY <3>2, <3>5, <3>6, <3>7, <3>8 DEF Orderly
    <3> QED
      BY <3>1, <3>9, <1>3
  <2>2. CASE run[d].pc = "raised"
    <3>1. Become(d, run'[d]) /\ run'[d] = Between(run[d].tick)
      BY <2>2, <1>4, <1>9 DEF Leave, Here
    <3>2. run'[d].tick = run[d].tick /\ run'[d].pc = "idle"
      BY <3>1 DEF Between
    <3> QED
      BY <3>1, <3>2, <2>2, <1>1, <1>3, OrderlyMove DEF Unsettled, Unselected
  <2> QED
    BY <2>1, <2>2, <1>9 DEF Leave
<1>10. CASE Raise(d) \/ Crash(d)
  <2>1. deaths' # 0
    BY <1>2, <1>10 DEF Raise, Crash
  <2>2. Become(d, run'[d]) /\ run'[d].tick = run[d].tick
          /\ run'[d].pc \in {"raised", "idle"}
    BY <1>1, <1>4, <1>10 DEF Raise, Crash, Goto, Between, Tick
  <2> QED
    BY <2>1, <2>2, <1>1, <1>3, OrderlyMove DEF Unsettled, Unselected
<1> QED
  BY <1>5, <1>6, <1>7, <1>8, <1>9, <1>10 DEF Step

\* A step that adds files to the market in order: only the daemon that shares
\* the directory has to be looked at again.
LEMMA OrderAdd ==
  ASSUME TickInv, FilesInOrder, \A e \in Daemons : Orderly(run[e]), OneIfShared,
         NEW d \in Daemons, NEW r \in Tick, Become(d, r), mode' = mode,
         Orderly(r)', FilesInOrder',
         \A i \in Dirs : /\ disk[i].markets \subseteq disk'[i].markets
                         /\ disk[i].selections \subseteq disk'[i].selections
  PROVE  \A e \in Daemons : Orderly(run[e])'
<1>1. run \in [Daemons -> Tick] /\ mode \in Modes
  BY DEF TickInv, TickTypeOK
<1>2. \A t \in Dirs : Dir(t) \in Dirs
  BY TickAssumption DEF Dir, Dirs
<1>3. ASSUME NEW e \in Daemons
      PROVE  Orderly(run[e])'
  <2>1. CASE e = d
    <3>1. run'[e] = r
      BY <2>1, <1>1 DEF Become
    <3> QED
      BY <3>1 DEF Orderly, HasMarket, HasSelection, Dir
  <2>2. CASE e # d
    <3>1. run'[e] = run[e] /\ run[e].tick \in Dirs
      BY <2>2, <1>1 DEF Become, Tick
    <3>2. ~mode.shared
      BY <2>2, <1>1 DEF OneIfShared
    <3>3. \A t \in Dirs : /\ HasMarket(t) => HasMarket(t)'
                          /\ HasSelection(t) => HasSelection(t)'
      BY <1>2 DEF HasMarket, HasSelection, Dir
    <3>4. 1 .. (run[e].tick - 1) \subseteq Dirs
      BY <3>1, TickAssumption DEF Dirs
    <3>5. Orderly(run[e])
      OBVIOUS
    <3> QED
      BY <3>1, <3>2, <3>3, <3>4, <3>5 DEF Orderly
  <2> QED
    BY <2>1, <2>2
<1> QED
  BY <1>3

\* A settlement adds a market file of this tick, and a copy of each of the
\* files of the last one that it looked at.
LEMMA SettleOrder ==
  ASSUME TickInv, FilesInOrder, \A e \in Daemons : Orderly(run[e]), OneIfShared,
         NEW d \in Daemons, Settle(d)
  PROVE  FilesInOrder' /\ \A e \in Daemons : Orderly(run[e])'
<1>0. PICK t \in Dirs : t = run[d].tick
  BY DirTypes
<1> DEFINE prev == Prev(t)
<1>1. PICK m \in Loaded(prev.markets, Bootstrap(t - 1)),
           sel \in Loaded(prev.selections, NoSelection),
           known \in BOOLEAN, delta \in Deltas :
        LET after == Settlement(m, sel, t, known, delta) IN
        /\ m \in Market /\ sel \in Selection
        /\ \A i \in Dirs \ {Own(d)} : disk'[i] = disk[i]
        /\ disk'[Own(d)].markets
             = disk[Own(d)].markets \cup ({m} \cap prev.markets) \cup {after}
        /\ disk'[Own(d)].selections
             = disk[Own(d)].selections \cup ({sel} \cap prev.selections)
  BY <1>0, SettleWrites
<1> DEFINE after == Settlement(m, sel, t, known, delta)
<1>2. /\ t \in Nat \ {0} /\ t \in Dirs /\ Own(d) \in Dirs /\ Own(d) = Dir(t)
      /\ run[d] \in Tick
  BY <1>0, DirTypes, TickAssumption DEF Dirs, Own
<1>3. Here(d, "settle") /\ mode' = mode
  BY DEF Settle
<1>4. mode.market /\ run[d].pc = "settle"
  BY <1>3 DEF TickInv, GoodRun, Here
<1>5. Orderly(run[d])
  OBVIOUS
<1>6. InOrder(after) /\ after.tick = t
  BY <1>0, <1>1, <1>3, <1>5, SettlementInOrder
<1>7. /\ m \in prev.markets => InOrder(m) /\ m.tick = t - 1
      /\ sel \in prev.selections => sel.tick = t - 1 /\ sel.tick >= 1
  <2>1. CASE t = 1
    BY <2>1, <1>0, PrevIn DEF NoFiles
  <2>2. CASE t # 1
    <3>1. InOrder(m) /\ m.tick = t - 1 /\ sel.tick = t - 1
      BY <2>2, <1>0, <1>1, <1>3, <1>5, LoadedBefore
    <3>2. t - 1 >= 1
      BY <2>2, <1>2
    <3> QED
      BY <3>1, <3>2
  <2> QED
    BY <2>1, <2>2
<1> HIDE DEF after, prev
<1>8. PICK r \in Tick : /\ Become(d, r) /\ r.tick = t /\ r.pc = "select"
  <2>1. PICK a : Become(d, [run[d] EXCEPT !.pc = "select", !.market = a])
    BY DEF Settle
  <2>2. run'[d] = [run[d] EXCEPT !.pc = "select", !.market = a]
    BY <2>1 DEF Become, TickInv, TickTypeOK
  <2>3. run'[d] \in Tick
    BY SettleInv DEF TickInv, TickTypeOK
  <2> QED
    BY <2>1, <2>2, <2>3, <1>0, <1>2 DEF Tick
<1>9. \A i \in Dirs : /\ disk[i].markets \subseteq disk'[i].markets
                      /\ disk[i].selections \subseteq disk'[i].selections
  BY <1>1 DEF after
<1>10. FilesInOrder'
  <2> SUFFICES ASSUME NEW i \in Dirs
               PROVE  /\ \A e \in disk'[i].markets :
                           InOrder(e) /\ (~mode.shared => e.tick <= i)
                      /\ \A s \in disk'[i].selections :
                           s.tick >= 1 /\ (~mode.shared => s.tick <= i)
    BY <1>3 DEF FilesInOrder, InOrder
  <2>1. CASE i # Own(d)
    BY <2>1, <1>1 DEF FilesInOrder
  <2>2. CASE i = Own(d)
    <3>1. ~mode.shared => i = t
      BY <2>2, <1>2 DEF Dir
    <3>2. \A e \in disk'[i].markets :
            e \in disk[i].markets \/ (InOrder(e) /\ e.tick \in {t, t - 1})
      BY <2>2, <1>1, <1>6, <1>7 DEF after
    <3>3. \A s \in disk'[i].selections :
            s \in disk[i].selections \/ (s.tick = t - 1 /\ s.tick >= 1)
      BY <2>2, <1>1, <1>7
    <3>4. /\ \A e \in disk[i].markets :
               InOrder(e) /\ (~mode.shared => e.tick <= i)
          /\ \A s \in disk[i].selections :
               s.tick >= 1 /\ (~mode.shared => s.tick <= i)
      BY DEF FilesInOrder
    <3>5. t <= t /\ t - 1 <= t
      BY <1>2
    <3> QED
      BY <3>1, <3>2, <3>3, <3>4, <3>5
  <2> QED
    BY <2>1, <2>2
<1>11. Orderly(r)'
  <2>1. \A u \in Dirs : Dir(u) \in Dirs
    BY TickAssumption DEF Dir, Dirs
  <2>2. \A u \in Dirs : /\ HasMarket(u) => HasMarket(u)'
                        /\ HasSelection(u) => HasSelection(u)'
    BY <2>1, <1>3, <1>9 DEF HasMarket, HasSelection, Dir
  <2>3. 1 .. (t - 1) \subseteq Dirs
    BY <1>2, TickAssumption DEF Dirs
  <2>4. \A u \in 1 .. (t - 1) : HasMarket(u)' /\ HasSelection(u)'
    BY <2>2, <2>3, <1>0, <1>4, <1>5 DEF Orderly
  <2>5. HasMarket(t)'
    BY <1>1, <1>2, <1>3, <1>6 DEF HasMarket, Dir, after
  <2>6. mode.shared =>
          /\ \A e \in disk'[1].markets : e.tick <= t
          /\ \A s \in disk'[1].selections : s.tick < t /\ s.tick <= t
    <3> SUFFICES ASSUME mode.shared
                 PROVE  /\ \A e \in disk'[1].markets : e.tick <= t
                        /\ \A s \in disk'[1].selections : s.tick < t /\ s.tick <= t
      OBVIOUS
    <3>1. Own(d) = 1
      BY <1>2 DEF Dir
    <3>2. /\ \A e \in disk[1].markets : e.tick \in Nat /\ e.tick <= t
          /\ \A s \in disk[1].selections : s.tick \in Nat /\ s.tick < t
      <4>1. /\ \A e \in disk[1].markets : e.tick \in Nat
            /\ \A s \in disk[1].selections : s.tick \in Nat
        BY <3>1, <1>2 DEF TickInv, TickTypeOK, Files, Market, Selection
      <4> QED
        BY <4>1, <1>0, <1>4, <1>5 DEF Orderly, Unselected, Unsettled
    <3>3. \A e \in disk'[1].markets : e \in disk[1].markets \/ e.tick \in {t, t - 1}
      BY <3>1, <1>1, <1>6, <1>7 DEF after
    <3>4. \A s \in disk'[1].selections : s \in disk[1].selections \/ s.tick = t - 1
      BY <3>1, <1>1, <1>7
    <3> QED
      BY <3>2, <3>3, <3>4, <1>2
  <2>7. "select" \notin Unsettled /\ "select" \in Unselected
    BY DEF Unsettled, Unselected
  <2> QED
    BY <2>4, <2>5, <2>6, <2>7, <1>3, <1>4, <1>8 DEF Orderly
<1> QED
  BY <1>3, <1>8, <1>9, <1>10, <1>11, OrderAdd

\* A selection adds a file of this tick.
LEMMA SelectOrder ==
  ASSUME TickInv, FilesInOrder, \A e \in Daemons : Orderly(run[e]), OneIfShared,
         NEW d \in Daemons, Select(d)
  PROVE  FilesInOrder' /\ \A e \in Daemons : Orderly(run[e])'
<1>0. PICK t \in Dirs : t = run[d].tick
  BY DirTypes
<1>1. PICK winner \in Campaigns \cup {NoCampaign} :
        LET sel == [tick |-> t, winner |-> winner] IN
        /\ \A i \in Dirs \ {Own(d)} : disk'[i] = disk[i]
        /\ disk'[Own(d)].markets = disk[Own(d)].markets
        /\ disk'[Own(d)].selections = disk[Own(d)].selections \cup {sel}
        /\ Plan(d, [NoPlan EXCEPT !.campaign = winner])
  BY <1>0, SelectWrites
<1> DEFINE sel == [tick |-> t, winner |-> winner]
<1>2. /\ t \in Nat \ {0} /\ Own(d) \in Dirs /\ Own(d) = Dir(t)
      /\ run[d] \in Tick
  BY <1>0, DirTypes, TickAssumption DEF Dirs, Own
<1>3. Here(d, "select") /\ mode' = mode
  BY DEF Select
<1>4. mode.market /\ run[d].pc = "select"
  BY <1>3 DEF TickInv, GoodRun, Here
<1>5. Orderly(run[d])
  OBVIOUS
<1>6. sel.tick = t
  OBVIOUS
<1> HIDE DEF sel
<1>7. /\ \A i \in Dirs : disk'[i].markets = disk[i].markets
      /\ \A i \in Dirs \ {Own(d)} : disk'[i].selections = disk[i].selections
      /\ disk'[Own(d)].selections = disk[Own(d)].selections \cup {sel}
  BY <1>1 DEF sel
<1>8. PICK r \in Tick : /\ Become(d, r) /\ r.tick = t
                        /\ r.pc \in {"write", "dispatch"}
  <2>1. PICK plan : Become(d, [run[d] EXCEPT
             !.pc = IF plan.campaign = NoCampaign THEN "write" ELSE "dispatch",
             !.plan = plan, !.outcome = IF plan.halt THEN "halt" ELSE "nothing"])
    BY <1>1 DEF Plan
  <2>2. run'[d] = [run[d] EXCEPT
             !.pc = IF plan.campaign = NoCampaign THEN "write" ELSE "dispatch",
             !.plan = plan, !.outcome = IF plan.halt THEN "halt" ELSE "nothing"]
    BY <2>1 DEF Become, TickInv, TickTypeOK
  <2>3. run'[d] \in Tick
    BY SelectInv DEF TickInv, TickTypeOK
  <2>4. Become(d, run'[d])
    BY <2>1, <2>2
  <2>5. run'[d].tick = t /\ run'[d].pc \in {"write", "dispatch"}
    BY <2>2, <1>0, <1>2 DEF Tick
  <2> QED
    BY <2>3, <2>4, <2>5
<1>9. \A i \in Dirs : /\ disk[i].markets \subseteq disk'[i].markets
                      /\ disk[i].selections \subseteq disk'[i].selections
  BY <1>7
<1>10. FilesInOrder'
  <2> SUFFICES ASSUME NEW i \in Dirs
               PROVE  /\ \A e \in disk'[i].markets :
                           InOrder(e) /\ (~mode.shared => e.tick <= i)
                      /\ \A s \in disk'[i].selections :
                           s.tick >= 1 /\ (~mode.shared => s.tick <= i)
    BY <1>3 DEF FilesInOrder, InOrder
  <2>1. ~mode.shared /\ i = Own(d) => i = t
    BY <1>2 DEF Dir
  <2>2. t >= 1 /\ t <= t
    BY <1>2
  <2>3. \A s \in disk'[i].selections :
          s \in disk[i].selections \/ (s = sel /\ i = Own(d))
    BY <1>7
  <2> QED
    BY <2>1, <2>2, <2>3, <1>6, <1>7 DEF FilesInOrder
<1>11. Orderly(r)'
  <2>1. \A u \in Dirs : Dir(u) \in Dirs
    BY TickAssumption DEF Dir, Dirs
  <2>2. \A u \in Dirs : /\ HasMarket(u) => HasMarket(u)'
                        /\ HasSelection(u) => HasSelection(u)'
    BY <2>1, <1>3, <1>9 DEF HasMarket, HasSelection, Dir
  <2>3. 1 .. (t - 1) \subseteq Dirs
    BY <1>2, TickAssumption DEF Dirs
  <2>4. \A u \in 1 .. (t - 1) : HasMarket(u)' /\ HasSelection(u)'
    BY <2>2, <2>3, <1>0, <1>4, <1>5 DEF Orderly
  <2>5. HasMarket(t)'
    BY <2>2, <1>0, <1>4, <1>5 DEF Orderly, Unsettled
  <2>6. HasSelection(t)'
    BY <1>2, <1>3, <1>6, <1>7 DEF HasSelection, Dir
  <2>7. mode.shared =>
          /\ \A e \in disk'[1].markets : e.tick <= t
          /\ \A s \in disk'[1].selections : s.tick <= t
    <3> SUFFICES ASSUME mode.shared
                 PROVE  /\ \A e \in disk'[1].markets : e.tick <= t
                        /\ \A s \in disk'[1].selections : s.tick <= t
      OBVIOUS
    <3>1. Own(d) = 1
      BY <1>2 DEF Dir
    <3>2. /\ \A e \in disk[1].markets : e.tick <= t
          /\ \A s \in disk[1].selections : s.tick <= t
      BY <1>0, <1>5 DEF Orderly
    <3>3. t <= t
      BY <1>2
    <3> QED
      BY <3>1, <3>2, <3>3, <1>2, <1>6, <1>7
  <2>8. r.pc \notin Unsettled /\ r.pc \notin Unselected /\ r.pc # "decide"
    BY <1>8 DEF Unsettled, Unselected
  <2> QED
    BY <2>4, <2>5, <2>6, <2>7, <2>8, <1>3, <1>8 DEF Orderly
<1> QED
  BY <1>3, <1>8, <1>9, <1>10, <1>11, OrderAdd

\* Every step keeps the files and the daemons in order.
LEMMA OrderNext ==
  ASSUME TickInv, OrderInv, OneIfShared, [Next]_vars
  PROVE  OrderInv'
<1> SUFFICES ASSUME (mode.shared => deaths = 0)'
             PROVE  FilesInOrder' /\ \A e \in Daemons : Orderly(run[e])'
  BY DEF OrderInv
<1>1. mode' = mode /\ deaths \in Nat /\ (deaths' = deaths \/ deaths' = deaths + 1)
  BY DEF TickInv, TickTypeOK, Next, Step, Enter, Load, Settle, Select, Decide,
         Dispatch, Promote, WriteState, Leave, Raise, Crash, EditPolicy, vars
<1>2. mode.shared => deaths = 0 /\ deaths' = 0
  BY <1>1
<1>3. FilesInOrder /\ \A e \in Daemons : Orderly(run[e])
  BY <1>2 DEF OrderInv
<1>4. ASSUME NEW d \in Daemons, Settle(d)
      PROVE  FilesInOrder' /\ \A e \in Daemons : Orderly(run[e])'
  BY <1>3, <1>4, SettleOrder
<1>5. ASSUME NEW d \in Daemons, Select(d)
      PROVE  FilesInOrder' /\ \A e \in Daemons : Orderly(run[e])'
  BY <1>3, <1>5, SelectOrder
<1>6. CASE \A d \in Daemons : ~Settle(d) /\ ~Select(d)
  <2>1. \A i \in Dirs : /\ disk'[i].markets = disk[i].markets
                        /\ disk'[i].selections = disk[i].selections
    BY <1>6, MarketFrame
  <2>2. ASSUME NEW d \in Daemons, Step(d) \/ Raise(d) \/ Crash(d)
        PROVE  FilesInOrder' /\ \A e \in Daemons : Orderly(run[e])'
    <3>1. /\ Become(d, run'[d]) /\ run'[d] \in Tick
          /\ Orderly(run'[d])
      BY <2>2, <1>2, <1>3, <1>6, QuietOrderly
    <3>2. PICK r \in Tick : Become(d, r) /\ Orderly(r)
      BY <3>1
    <3> QED
      BY <3>2, <2>1, <1>1, <1>3, OrderFrame
  <2>3. CASE UNCHANGED vars \/ EditPolicy
    <3>1. UNCHANGED <<mode, run, disk>>
      BY <2>3 DEF vars, EditPolicy
    <3> QED
      BY <3>1, <1>3 DEF FilesInOrder, InOrder, Orderly, HasMarket, HasSelection, Dir
  <2> QED
    BY <2>2, <2>3 DEF Next
<1> QED
  BY <1>4, <1>5, <1>6

\* A run starts without files.
LEMMA OrderInit ==
  Init => OrderInv
<1> SUFFICES ASSUME Init PROVE FilesInOrder /\ \A d \in Daemons : Orderly(run[d])
  BY DEF OrderInv
<1>1. \A i \in Dirs : disk[i].markets = {} /\ disk[i].selections = {}
  BY DEF Init, NoFiles
<1>2. 1 \in Dirs /\ 1 .. (1 - 1) = {}
  BY TickAssumption DEF Dirs
<1>3. \A d \in Daemons : run[d].tick = 1 /\ run[d].pc = "idle"
  BY DEF Init, Between
<1> QED
  BY <1>1, <1>2, <1>3 DEF FilesInOrder, Orderly, Unsettled, Unselected

\* The market of a run settles the selection of every tick exactly once and in
\* the order of the ticks (settle_and_advance_market_state), for any number of
\* daemons and deaths with a directory per tick, and for one daemon whose ticks
\* do not die in a directory for all.
THEOREM SettledInOrder ==
  ASSUME OneIfShared
  PROVE  TickSpec => []SettledOnce
<1>1. OrderInv => SettledOnce
  BY DEF OrderInv, FilesInOrder, InOrder, SettledOnce
<1>2. TickInv /\ OrderInv /\ [Next]_vars => OrderInv'
  BY OrderNext
<1> QED
  BY <1>1, <1>2, OrderInit, TickInvariant, PTL DEF TickSpec

----------------------------------------------------------------------------
(* What is settled has run                                                 *)

\* The campaign a selection names was dispatched in its tick, or is about to.
Happened(sel)    == \E k \in DOMAIN ran : ran[k] = <<sel.tick, sel.winner>>
Promised(r, sel) == /\ r.pc = "dispatch" /\ r.tick = sel.tick
                    /\ r.plan.campaign = sel.winner

SelectedRuns ==
  \A i \in Dirs : \A sel \in disk[i].selections :
    sel.winner # NoCampaign =>
      Happened(sel) \/ \E d \in Daemons : Promised(run[d], sel)

SettledRan(m) ==
  \A j \in DOMAIN m.settled :
    m.settled[j].winner # NoCampaign => Happened(m.settled[j])

RanInv ==
  deaths = 0 =>
    SelectedRuns /\ \A i \in Dirs : \A m \in disk[i].markets : SettledRan(m)

\* While no campaign is about to be dispatched, all that were selected have run.
LEMMA NonePromised ==
  ASSUME OneDaemon, SelectedRuns, NEW d \in Daemons, run[d].pc # "dispatch"
  PROVE  \A i \in Dirs : \A sel \in disk[i].selections :
           sel.winner # NoCampaign => Happened(sel)
BY DEF OneDaemon, SelectedRuns, Promised

\* A settlement reads selections that have run.
LEMMA SettleRan ==
  ASSUME TickInv, OneDaemon, SelectedRuns,
         \A i \in Dirs : \A m \in disk[i].markets : SettledRan(m),
         NEW d \in Daemons, Settle(d)
  PROVE  /\ SelectedRuns'
         /\ (\A i \in Dirs : \A m \in disk[i].markets : SettledRan(m))'
<1> DEFINE t == run[d].tick
           prev == Prev(t)
<1>1. PICK m \in Loaded(prev.markets, Bootstrap(t - 1)),
           sel \in Loaded(prev.selections, NoSelection),
           known \in BOOLEAN, delta \in Deltas :
        LET after == Settlement(m, sel, t, known, delta) IN
        /\ m \in Market /\ sel \in Selection
        /\ \A i \in Dirs \ {Own(d)} : disk'[i] = disk[i]
        /\ disk'[Own(d)].markets
             = disk[Own(d)].markets \cup ({m} \cap prev.markets) \cup {after}
        /\ disk'[Own(d)].selections
             = disk[Own(d)].selections \cup ({sel} \cap prev.selections)
  BY SettleWrites
<1>2. PICK after : /\ after.settled = IF sel = NoSelection
                                        THEN m.settled ELSE Append(m.settled, sel)
                   /\ after = Settlement(m, sel, t, known, delta)
  BY DEF Settlement
<1>3. \A i \in Dirs : \A e \in disk[i].selections :
        e.winner # NoCampaign => Happened(e)
  BY NonePromised DEF Settle, Here
<1>4. /\ \A e \in prev.selections : e.winner # NoCampaign => Happened(e)
      /\ \A e \in prev.markets : SettledRan(e)
  <2>1. CASE t = 1
    BY <2>1, PrevIn DEF NoFiles
  <2>2. CASE t # 1
    BY <2>2, <1>3, PrevIn
  <2> QED
    BY <2>1, <2>2
<1>5. sel.winner # NoCampaign => Happened(sel)
  BY <1>1, <1>4 DEF Loaded, Latest, NoSelection
<1>6. SettledRan(m)
  <2>1. m \in prev.markets \/ m = Bootstrap(t - 1)
    BY <1>1 DEF Loaded, Latest
  <2>2. SettledRan(Bootstrap(t - 1))
    BY DEF SettledRan, Bootstrap
  <2> QED
    BY <2>1, <2>2, <1>4
<1>7. SettledRan(after)
  <2>1. m.settled \in Seq(Selection) /\ sel \in Selection
    BY <1>1 DEF Market
  <2>2. CASE sel = NoSelection
    BY <2>2, <1>2, <1>6 DEF SettledRan
  <2>3. CASE sel # NoSelection
    <3>1. after.settled = Append(m.settled, sel)
      BY <2>3, <1>2
    <3>2. \A j \in DOMAIN after.settled :
            \/ after.settled[j] = sel
            \/ j \in DOMAIN m.settled /\ after.settled[j] = m.settled[j]
      <4> DEFINE old == m.settled
                 new == after.settled
      <4>1. new = Append(old, sel) /\ old \in Seq(Selection) /\ sel \in Selection
        BY <3>1, <2>1
      <4> HIDE DEF old, new
      <4>2. \A j \in DOMAIN new :
              new[j] = sel \/ (j \in DOMAIN old /\ new[j] = old[j])
        BY <4>1
      <4> QED
        BY <4>2 DEF old, new
    <3> QED
      BY <3>2, <1>5, <1>6 DEF SettledRan
  <2> QED
    BY <2>2, <2>3
<1>8. ran' = ran
  BY DEF Settle
<1>9. \A e : Happened(e) => Happened(e)'
  BY <1>8 DEF Happened
<1>10. \A e : SettledRan(e) => SettledRan(e)'
  BY <1>8 DEF SettledRan, Happened
<1> HIDE DEF prev, t
<1>11. \A i \in Dirs : \A e \in disk'[i].markets : SettledRan(e)
  <2> SUFFICES ASSUME NEW i \in Dirs, NEW e \in disk'[i].markets
               PROVE  SettledRan(e)
    OBVIOUS
  <2>1. e \in disk[i].markets \/ e = m \/ e = after
    BY <1>1, <1>2
  <2> QED
    BY <2>1, <1>6, <1>7
<1>12. \A i \in Dirs : \A e \in disk'[i].selections :
         e.winner # NoCampaign => Happened(e)
  <2> SUFFICES ASSUME NEW i \in Dirs, NEW e \in disk'[i].selections,
                      e.winner # NoCampaign
               PROVE  Happened(e)
    OBVIOUS
  <2>1. e \in disk[i].selections \/ e = sel
    BY <1>1
  <2> QED
    BY <2>1, <1>3, <1>5
<1> QED
  BY <1>9, <1>10, <1>11, <1>12, <1>8 DEF SelectedRuns, SettledRan, Happened

\* The winner of a selection is the campaign of the plan.
LEMMA SelectRan ==
  ASSUME TickInv, OneDaemon, SelectedRuns,
         \A i \in Dirs : \A m \in disk[i].markets : SettledRan(m),
         NEW d \in Daemons, Select(d)
  PROVE  /\ SelectedRuns'
         /\ (\A i \in Dirs : \A m \in disk[i].markets : SettledRan(m))'
<1>1. PICK winner \in Campaigns \cup {NoCampaign} :
        LET sel == [tick |-> run[d].tick, winner |-> winner] IN
        /\ \A i \in Dirs \ {Own(d)} : disk'[i] = disk[i]
        /\ disk'[Own(d)].markets = disk[Own(d)].markets
        /\ disk'[Own(d)].selections = disk[Own(d)].selections \cup {sel}
        /\ Plan(d, [NoPlan EXCEPT !.campaign = winner])
  BY SelectWrites
<1>2. PICK sel : sel = [tick |-> run[d].tick, winner |-> winner]
  OBVIOUS
<1>2a. sel.tick = run[d].tick /\ sel.winner = winner
  BY <1>2
<1>3. \A i \in Dirs : \A e \in disk[i].selections :
        e.winner # NoCampaign => Happened(e)
  BY NonePromised DEF Select, Here
<1>4. ran' = ran
  BY DEF Select
<1>5. winner # NoCampaign => Promised(run'[d], sel)
  <2> HAVE winner # NoCampaign
  <2>1. [NoPlan EXCEPT !.campaign = winner].campaign = winner
    BY DEF NoPlan
  <2>2. run[d] \in Tick /\ run \in [Daemons -> Tick]
    BY DirTypes DEF TickInv, TickTypeOK
  <2>3. PICK plan, o : /\ plan.campaign = winner
                       /\ Become(d, [run[d] EXCEPT !.pc = "dispatch",
                                       !.plan = plan, !.outcome = o])
    BY <2>1, <1>1 DEF Plan
  <2>4. run'[d] = [run[d] EXCEPT !.pc = "dispatch", !.plan = plan, !.outcome = o]
    BY <2>2, <2>3 DEF Become
  <2> QED
    BY <2>2, <2>3, <2>4, <1>2a DEF Promised, Tick
<1>6. \A i \in Dirs : disk'[i].markets = disk[i].markets
  BY <1>1
<1>7. \A i \in Dirs : \A e \in disk'[i].selections :
         e.winner # NoCampaign => Happened(e) \/ Promised(run'[d], e)
  <2> SUFFICES ASSUME NEW i \in Dirs, NEW e \in disk'[i].selections,
                      e.winner # NoCampaign
               PROVE  Happened(e) \/ Promised(run'[d], e)
    OBVIOUS
  <2>1. e \in disk[i].selections \/ e = sel
    BY <1>1, <1>2
  <2> QED
    BY <2>1, <1>2a, <1>3, <1>5
<1>8. SelectedRuns'
  BY <1>4, <1>7 DEF SelectedRuns, Happened, Promised
<1> QED
  BY <1>4, <1>6, <1>8 DEF SettledRan, Happened

\* No other step writes files of the market; a dispatch keeps its promise.
LEMMA QuietRan ==
  ASSUME TickInv, OneDaemon, SelectedRuns,
         \A i \in Dirs : \A m \in disk[i].markets : SettledRan(m),
         [Next]_vars, \A d \in Daemons : ~Settle(d) /\ ~Select(d), deaths' = 0
  PROVE  /\ SelectedRuns'
         /\ (\A i \in Dirs : \A m \in disk[i].markets : SettledRan(m))'
<1>1. \A i \in Dirs : /\ disk'[i].markets = disk[i].markets
                      /\ disk'[i].selections = disk[i].selections
  BY MarketFrame
<1>2. run \in [Daemons -> Tick] /\ ran \in Seq((1 .. MaxTick) \X Campaigns)
        /\ deaths \in Nat
  BY DEF TickInv, TickTypeOK
<1>3. CASE \E d \in Daemons : Dispatch(d)
  <2>1. PICK d \in Daemons : Dispatch(d)
    BY <1>3
  <2>2. ran' = Append(ran, <<run[d].tick, run[d].plan.campaign>>)
    BY <2>1 DEF Dispatch
  <2>3. \A e : Happened(e) => Happened(e)'
    <3>1. \A k \in DOMAIN ran : k \in DOMAIN ran' /\ ran'[k] = ran[k]
      BY <2>2, <1>2
    <3> QED
      BY <3>1 DEF Happened
  <2>4. \A e : Promised(run[d], e) => Happened(e)'
    <3>1. Len(ran) + 1 \in DOMAIN ran'
            /\ ran'[Len(ran) + 1] = <<run[d].tick, run[d].plan.campaign>>
      BY <2>2, <1>2
    <3> QED
      BY <3>1 DEF Promised, Happened
  <2>5. \A i \in Dirs : \A e \in disk[i].selections :
          e.winner # NoCampaign => Happened(e)'
    BY <2>3, <2>4 DEF OneDaemon, SelectedRuns
  <2>6. SelectedRuns'
    BY <2>5, <1>1 DEF SelectedRuns, Happened, Promised
  <2>7. \A m : SettledRan(m) => SettledRan(m)'
    BY <2>3 DEF SettledRan, Happened
  <2> QED
    BY <2>6, <2>7, <1>1 DEF SettledRan, Happened
<1>4. CASE ~ \E d \in Daemons : Dispatch(d)
  <2>1. ran' = ran
    BY <1>4 DEF Next, Step, Enter, Load, Settle, Select, Decide, Promote,
         WriteState, Leave, Raise, Crash, EditPolicy, vars
  <2>2. \A d \in Daemons : run[d].pc = "dispatch" => run'[d] = run[d]
    <3>1. ASSUME NEW d \in Daemons, Step(d), run[d].pc = "dispatch"
          PROVE  FALSE
      BY <3>1, <1>4 DEF Step, Here, Enter, Load, Settle, Select, Decide, Promote,
           WriteState, Leave
    <3>2. \A d \in Daemons : ~Raise(d) /\ ~Crash(d)
      BY <1>2 DEF Raise, Crash
    <3>3. CASE \E d \in Daemons : Step(d)
      BY <3>1, <3>3 DEF OneDaemon
    <3>4. CASE UNCHANGED vars \/ EditPolicy
      BY <3>4 DEF vars, EditPolicy
    <3> QED
      BY <3>2, <3>3, <3>4 DEF Next
  <2>3. SelectedRuns'
    BY <2>1, <2>2, <1>1 DEF SelectedRuns, Happened, Promised
  <2> QED
    BY <2>1, <2>3, <1>1 DEF SettledRan, Happened
<1> QED
  BY <1>3, <1>4

\* The invariant of what has run.
LEMMA RanNext ==
  ASSUME TickInv, RanInv, OneDaemon, [Next]_vars
  PROVE  RanInv'
<1> SUFFICES ASSUME deaths' = 0
             PROVE  /\ SelectedRuns'
                    /\ (\A i \in Dirs : \A m \in disk[i].markets : SettledRan(m))'
  BY DEF RanInv
<1>1. deaths \in Nat /\ (deaths' = deaths \/ deaths' = deaths + 1)
  BY DEF TickInv, TickTypeOK, Next, Step, Enter, Load, Settle, Select, Decide,
         Dispatch, Promote, WriteState, Leave, Raise, Crash, EditPolicy, vars
<1>2. SelectedRuns /\ \A i \in Dirs : \A m \in disk[i].markets : SettledRan(m)
  BY <1>1 DEF RanInv
<1> QED
  BY <1>2, SettleRan, SelectRan, QuietRan

\* While no tick of the one daemon dies, the winner a market settles is a
\* campaign that was dispatched in the tick it was selected in (the prediction
\* of a campaign that did not run is never held against it).
THEOREM SettledHasRun ==
  ASSUME OneDaemon
  PROVE  TickSpec => []SettlesWhatRan
<1>1. Init => RanInv
  BY DEF Init, NoFiles, RanInv, SelectedRuns
<1>2. RanInv => SettlesWhatRan
  BY DEF RanInv, SettledRan, Happened, SettlesWhatRan
<1>3. TickInv /\ RanInv /\ [Next]_vars => RanInv'
  BY RanNext
<1> QED
  BY <1>1, <1>2, <1>3, TickInvariant, PTL DEF TickSpec
=============================================================================
