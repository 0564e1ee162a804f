----------------------- MODULE EntryPlacement_proofs -----------------------
(***************************************************************************)
(* Proofs about EntryPlacement for every set of leads, every quantity and  *)
(* bound and every set of disturbances.                                    *)
(***************************************************************************)
EXTENDS EntryPlacement, SequenceTheorems, TLAPS

NoTradeFor(l) == \A t \in trades : LeadOf(t) # l

Buying == {"buy", "wait", "check", "cancel", "protect", "verify", "defend", "commit"}
Bought == (Buying \ {"buy"}) \cup {"mark"}
Counted == Bought \ {"wait", "mark"}

\* The orders behind the trades exist, and a lead with a trade is off the queue.
TradesOK ==
    /\ \A t \in trades : t.buy \in 1..Len(buys)
    /\ \A s \in sells : s.buy \in 1..Len(buys)
    /\ \A t \in trades : lead[LeadOf(t)] \in {"picked", "placed", "deleted"}

\* The leads the tick has listed have no trade, each is taken once, and one it
\* skips is no longer considered.
LeadsOK ==
    /\ pl.cur \notin pl.todo \cup pl.skipped
    /\ pl.todo \cap pl.skipped = {}
    /\ \A l \in pl.todo \cup pl.skipped : NoTradeFor(l)
    /\ pl.pc \in {"idle", "list"} => pl.todo = {} /\ pl.skipped = {}
    /\ pl.pc \in {"idle", "list", "next"} => pl.cur = NoLead

\* While the placer deals with a lead it holds the write lock, so that what it
\* found of the lead and its underlying stays true until its commit.
BuyingOK ==
    /\ pl.pc \in Buying =>
          locked /\ pl.cur \in Leads /\ NoTradeFor(pl.cur) /\ ~Blocked(pl.cur)
    /\ pl.pc = "mark" => pl.skipped = {} /\ \E t \in trades : LeadOf(t) = pl.cur

\* The order it has placed, what it read of it, and the stop-loss it placed.
OrdersOK ==
    /\ pl.pc \in Bought =>
          pl.cur \in Leads /\ pl.buy \in 1..Len(buys) /\ buys[pl.buy].lead = pl.cur
    /\ pl.pc \in Counted => pl.got <= buys[pl.buy].filled
    /\ pl.pc \in {"protect", "verify", "defend", "commit"} => pl.got >= 1
    /\ pl.pc \in {"wait", "check", "cancel", "protect"} => \A s \in sells : s.buy # pl.buy
    /\ pl.pc \in {"verify", "commit"} =>
          /\ \E s \in sells : s.buy = pl.buy /\ s.kind = "sl" /\ s.qty = pl.got
          /\ \A s \in sells : s.buy = pl.buy => s.qty = pl.got

IInv == /\ TypeOK /\ TradesOK /\ LeadsOK /\ BuyingOK /\ OrdersOK
        /\ TradeBacked /\ OneOpenPerUnderlying /\ AcceptedIffTraded

-----------------------------------------------------------------------------
(* The order book: no BUY disappears, changes hands or loses a fill. *)

BuysStep ==
    /\ buys' \in Seq(Buy)
    /\ Len(buys') <= MaxBuys
    /\ Len(buys') >= Len(buys)
    /\ \A o \in 1..Len(buys) :
          buys'[o].lead = buys[o].lead /\ buys'[o].filled >= buys[o].filled

LEMMA BuyTypes ==
    ASSUME TypeOK
    PROVE  /\ Len(buys) \in Nat
           /\ \A o \in 1..Len(buys) : buys[o] \in Buy /\ buys[o].filled \in 0..Qty
<1>1. buys \in Seq(Buy)
  BY DEF TypeOK
<1>2. Len(buys) \in Nat /\ \A o \in 1..Len(buys) : buys[o] \in Buy
  BY <1>1, LenProperties, ElementOfSeq
<1> QED
  BY <1>2 DEF Buy

LEMMA BuysSame == ASSUME TypeOK, UNCHANGED buys PROVE BuysStep
BY BuyTypes, LeadsAssumption DEF BuysStep, TypeOK

LEMMA BuysAppend ==
    ASSUME TypeOK, NEW l \in Leads, Len(buys) < MaxBuys,
           buys' = Append(buys, [lead |-> l, filled |-> 0, status |-> "live"])
    PROVE  /\ BuysStep
           /\ Len(buys') = Len(buys) + 1
           /\ buys'[Len(buys) + 1] = [lead |-> l, filled |-> 0, status |-> "live"]
<1> DEFINE e == [lead |-> l, filled |-> 0, status |-> "live"]
<1>1. e \in Buy
  BY LeadsAssumption DEF Buy
<1>2. buys \in Seq(Buy) /\ buys' = Append(buys, e)
  BY DEF TypeOK
<1> HIDE DEF e
<1>3. /\ buys' \in Seq(Buy) /\ Len(buys') = Len(buys) + 1
      /\ \A i \in 1..Len(buys) : buys'[i] = buys[i]
      /\ buys'[Len(buys) + 1] = e
  BY <1>1, <1>2, AppendProperties
<1>4. BuysStep
  BY <1>3, BuyTypes, LeadsAssumption, BoundsAssumption DEF BuysStep
<1> QED
  BY <1>3, <1>4 DEF e

LEMMA BuysUpdate ==
    ASSUME TypeOK, NEW o \in 1..Len(buys), NEW e \in Buy,
           e.lead = buys[o].lead, e.filled >= buys[o].filled,
           buys' = [buys EXCEPT ![o] = e]
    PROVE  BuysStep
<1>1. buys' \in Seq(Buy) /\ Len(buys') = Len(buys)
      /\ \A i \in 1..Len(buys) : buys'[i] = IF i = o THEN e ELSE buys[i]
  BY ExceptSeq DEF TypeOK
<1> QED
  BY <1>1, BuyTypes, LeadsAssumption DEF BuysStep, TypeOK

LEMMA FillStep == ASSUME TypeOK, NEW o \in 1..Len(buys), NEW n \in 1..Qty, FillBuy(o, n) PROVE BuysStep
<1> DEFINE done == IF buys[o].filled + n = Qty THEN "complete" ELSE buys[o].status
           e == [buys[o] EXCEPT !.filled = @ + n, !.status = done]
<1>1. buys[o] \in Buy /\ buys[o].filled \in 0..Qty /\ buys[o].filled + n <= Qty
  BY BuyTypes DEF FillBuy
<1>2. done \in {"live", "complete", "dead"}
  BY <1>1 DEF Buy
<1>3. buys[o].filled + n \in 0..Qty /\ buys[o].filled + n >= buys[o].filled
  BY <1>1, LeadsAssumption
<1>4. buys' = [buys EXCEPT ![o] = e]
  BY <1>1 DEF FillBuy, TypeOK
<1> HIDE DEF done
<1>5. e \in Buy /\ e.lead = buys[o].lead /\ e.filled = buys[o].filled + n
  BY <1>1, <1>2, <1>3 DEF Buy
<1> HIDE DEF e
<1> QED
  BY <1>3, <1>4, <1>5, BuysUpdate

LEMMA DeadStep ==
    ASSUME TypeOK, NEW o \in 1..Len(buys), buys' = [buys EXCEPT ![o].status = "dead"]
    PROVE  BuysStep
<1> DEFINE e == [buys[o] EXCEPT !.status = "dead"]
<1>1. buys[o] \in Buy /\ buys[o].filled \in 0..Qty
  BY BuyTypes
<1>2. buys' = [buys EXCEPT ![o] = e]
  BY DEF TypeOK
<1>3. e \in Buy /\ e.lead = buys[o].lead /\ e.filled = buys[o].filled
  BY <1>1 DEF Buy
<1>4. e.filled >= buys[o].filled
  BY <1>1, <1>3, LeadsAssumption
<1> HIDE DEF e
<1> QED
  BY <1>2, <1>3, <1>4, BuysUpdate

-----------------------------------------------------------------------------
(* The placer's record *)

LEMMA IdleType == Idle \in Placer
<1>1. 0 \in BuyIds /\ 0 \in 0..Qty
  BY LeadsAssumption, BoundsAssumption DEF BuyIds
<1>2. "idle" \in PlacerPc
  BY DEF PlacerPc
<1>3. {} \in SUBSET Leads /\ NoLead \in Leads \cup {NoLead}
  OBVIOUS
<1> QED
  BY <1>1, <1>2, <1>3, Zenon DEF Idle, Placer

LEMMA PlFields ==
    ASSUME TypeOK
    PROVE  /\ pl \in Placer /\ pl.pc \in PlacerPc /\ pl.todo \subseteq Leads
           /\ pl.skipped \subseteq Leads /\ pl.cur \in Leads \cup {NoLead}
           /\ pl.buy \in BuyIds /\ pl.got \in 0..Qty
BY DEF TypeOK, Placer

LEMMA GotoType ==
    ASSUME TypeOK, NEW pc \in PlacerPc, Goto(pc)
    PROVE  /\ pl' \in Placer /\ pl'.pc = pc
           /\ pl'.todo = pl.todo /\ pl'.skipped = pl.skipped /\ pl'.cur = pl.cur
           /\ pl'.buy = pl.buy /\ pl'.got = pl.got
BY PlFields DEF Goto, Placer

LEMMA NextLeadType ==
    ASSUME TypeOK
    PROVE  /\ NextLead \in Placer /\ NextLead.pc = "next" /\ NextLead.cur = NoLead
           /\ NextLead.todo = pl.todo /\ NextLead.skipped = pl.skipped
<1>1. 0 \in BuyIds /\ 0 \in 0..Qty /\ "next" \in PlacerPc
  BY LeadsAssumption, BoundsAssumption DEF BuyIds, PlacerPc
<1> QED
  BY <1>1, PlFields DEF NextLead, Placer

LEMMA SkipType ==
    ASSUME TypeOK, pl.cur \in Leads, SkipLead
    PROVE  /\ pl' \in Placer /\ pl'.pc = "next" /\ pl'.cur = NoLead
           /\ pl'.todo = pl.todo /\ pl'.skipped = pl.skipped \cup {pl.cur}
BY NextLeadType, PlFields DEF SkipLead, Placer

-----------------------------------------------------------------------------
(* The types *)

\* All of TypeOK but the order book and the placer's record.
RestOK ==
    /\ lead \in [Leads -> LeadStatus]
    /\ trades \subseteq Trade
    /\ sells \subseteq Sell
    /\ killed \in BOOLEAN /\ window \in BOOLEAN /\ locked \in BOOLEAN
    /\ kill \in {"ready", "done", "failed"}
    /\ disturbed \in 0..MaxDisturbances

LEMMA DisturbType ==
    ASSUME TypeOK, Calm \/ (\E d \in Disturbances : Disturb(d))
    PROVE  disturbed' \in 0..MaxDisturbances
BY BoundsAssumption DEF TypeOK, Calm, Disturb

LEMMA TypeParts == ASSUME TypeOK, BuysStep, RestOK', pl' \in Placer PROVE TypeOK'
BY DEF TypeOK, RestOK, BuysStep

LEMMA WorldType == ASSUME TypeOK, World PROVE TypeOK' /\ BuysStep
<1> USE DEF Market, Unlocked
<1>1. ASSUME NEW o \in 1..Len(buys), NEW n \in 1..Qty, FillBuy(o, n) PROVE TypeOK' /\ BuysStep
  <2>1. BuysStep
    BY <1>1, FillStep
  <2> QED
    BY <1>1, <2>1, TypeParts DEF FillBuy, Calm, TypeOK, RestOK
<1>2. ASSUME NEW o \in 1..Len(buys), RejectBuy(o) PROVE TypeOK' /\ BuysStep
  <2>1. BuysStep
    BY <1>2, DeadStep DEF RejectBuy
  <2>2. disturbed' \in 0..MaxDisturbances
    BY <1>2, DisturbType DEF RejectBuy, Disturb
  <2> QED
    BY <1>2, <2>1, <2>2, TypeParts DEF RejectBuy, TypeOK, RestOK
<1>3. ASSUME NEW t \in trades, TradeCloses(t) PROVE TypeOK' /\ BuysStep
  <2>1. t \in Trade /\ [t EXCEPT !.open = FALSE] \in Trade
    BY DEF TypeOK, Trade
  <2>2. trades' \subseteq Trade
    BY <1>3, <2>1 DEF TradeCloses, TypeOK
  <2> QED
    BY <1>3, <2>2, BuysSame, TypeParts DEF TradeCloses, Calm, TypeOK, RestOK
<1>4. ASSUME NEW l \in Leads, DeleteLead(l) PROVE TypeOK' /\ BuysStep
  <2>1. lead' \in [Leads -> LeadStatus]
    BY <1>4 DEF DeleteLead, TypeOK, LeadStatus
  <2>2. disturbed' \in 0..MaxDisturbances
    BY <1>4, DisturbType DEF DeleteLead, Disturb
  <2> QED
    BY <1>4, <2>1, <2>2, BuysSame, TypeParts DEF DeleteLead, TypeOK, RestOK
<1>5. ASSUME WindowCloses PROVE TypeOK' /\ BuysStep
  BY <1>5, BuysSame, TypeParts DEF WindowCloses, Calm, TypeOK, RestOK
<1>6. ASSUME KillActivate PROVE TypeOK' /\ BuysStep
  BY <1>6, BuysSame, TypeParts DEF KillActivate, Calm, TypeOK, RestOK
<1>7. ASSUME KillBusy PROVE TypeOK' /\ BuysStep
  <2>1. disturbed' \in 0..MaxDisturbances
    BY <1>7, DisturbType DEF KillBusy, Disturb
  <2> QED
    BY <1>7, <2>1, BuysSame, TypeParts DEF KillBusy, TypeOK, RestOK
<1>8. ASSUME Crash PROVE TypeOK' /\ BuysStep
  <2>1. disturbed' \in 0..MaxDisturbances
    BY <1>8, DisturbType DEF Crash, Disturb
  <2> QED
    BY <1>8, <2>1, IdleType, BuysSame, TypeParts DEF Crash, TypeOK, RestOK
<1> QED
  BY <1>1, <1>2, <1>3, <1>4, <1>5, <1>6, <1>7, <1>8 DEF World

\* The steps of process_lead that write no row.
LEMMA QuietRest ==
    ASSUME TypeOK, UNCHANGED <<killed, kill, window, lead, trades>>, locked' \in BOOLEAN,
           sells' \subseteq Sell, Calm \/ (\E d \in Disturbances : Disturb(d))
    PROVE  RestOK'
<1>1. disturbed' \in 0..MaxDisturbances
  BY DisturbType
<1> QED
  BY <1>1 DEF TypeOK, RestOK

LEMMA SellType ==
    ASSUME TypeOK, OrdersOK, pl.pc \in Bought, pl.got >= 1, NEW kind \in {"sl", "sqoff"},
           PlaceSell(kind)
    PROVE  sells' \subseteq Sell
<1>1. pl.buy \in 1..MaxBuys /\ pl.got \in 1..Qty
  BY PlFields, BuyTypes, LeadsAssumption, BoundsAssumption DEF OrdersOK, TypeOK
<1> QED
  BY <1>1 DEF PlaceSell, Sell, TypeOK

Quiet == UNCHANGED <<killed, kill, window, lead, trades>>

LEMMA PickType == ASSUME TypeOK, NEW l \in pl.todo, Pick(l) PROVE TypeOK' /\ BuysStep
<1> DEFINE picked == [pl EXCEPT !.cur = l, !.todo = @ \ {l}]
<1>1. l \in Leads /\ picked \in Placer
  BY PlFields DEF Placer
<1>2. pl' \in Placer
  <2>1. CASE GiveUp
    BY <2>1, IdleType DEF GiveUp
  <2>2. CASE pl' = [picked EXCEPT !.cur = NoLead, !.skipped = @ \cup {l}]
    BY <1>1, <2>2, PlFields DEF Placer
  <2>3. CASE pl' = [picked EXCEPT !.pc = "buy"]
    BY <1>1, <2>3, PlFields DEF Placer, PlacerPc
  <2> QED
    BY <2>1, <2>2, <2>3 DEF Pick
<1>3. Quiet /\ UNCHANGED <<buys, sells>> /\ locked' \in BOOLEAN
  BY DEF Pick, At, Quiet, GiveUp, TypeOK
<1>4. Calm \/ (\E d \in Disturbances : Disturb(d))
  BY DEF Pick, Disturb
<1> QED
  BY <1>2, <1>3, <1>4, QuietRest, BuysSame, TypeParts DEF Quiet, TypeOK

LEMMA BuyType == ASSUME IInv, PlaceBuy PROVE TypeOK' /\ BuysStep
<1> USE DEF IInv
<1>1. pl.cur \in Leads
  BY DEF PlaceBuy, At, BuyingOK, Buying
<1>2. CASE /\ Len(buys) < MaxBuys
           /\ buys' = Append(buys, [lead |-> pl.cur, filled |-> 0, status |-> "live"])
           /\ \/ Calm /\ pl' = [pl EXCEPT !.pc = "wait", !.buy = Len(buys) + 1]
              \/ Disturb("lost") /\ SkipLead
  <2>1. BuysStep
    BY <1>1, <1>2, BuysAppend
  <2>2. Len(buys) + 1 \in BuyIds
    BY <1>2, BuyTypes, BoundsAssumption DEF BuyIds
  <2>3. pl' \in Placer
    BY <1>1, <1>2, <2>2, SkipType, PlFields DEF Placer, PlacerPc
  <2>4. Calm \/ (\E d \in Disturbances : Disturb(d))
    BY <1>2 DEF Disturb
  <2>5. UNCHANGED <<killed, kill, window, lead, trades, locked, sells>>
    BY DEF PlaceBuy, At, Same
  <2> QED
    BY <2>1, <2>3, <2>4, <2>5, QuietRest, TypeParts DEF TypeOK
<1>3. CASE Disturb("place") /\ UNCHANGED buys /\ SkipLead
  <2>1. \E d \in Disturbances : Disturb(d)
    BY <1>3 DEF Disturb
  <2>2. UNCHANGED <<killed, kill, window, lead, trades, locked, sells>>
    BY DEF PlaceBuy, At, Same
  <2> QED
    BY <1>1, <1>3, <2>1, <2>2, SkipType, BuysSame, QuietRest, TypeParts DEF TypeOK
<1> QED
  BY <1>2, <1>3 DEF PlaceBuy

\* What the wait ends with: the lead given up, or a quantity that was filled, 0
\* if nobody tells its price.
LEMMA WaitEnds ==
    ASSUME WaitForFill
    PROVE  \/ SkipLead
           \/ \E pc \in {"check", "protect"} : \E n \in {0, buys[pl.buy].filled} :
                 /\ pl' = [pl EXCEPT !.pc = pc, !.got = n]
                 /\ pc = "protect" => n = buys[pl.buy].filled /\ buys[pl.buy].filled > 0
BY DEF WaitForFill, FilledQty

LEMMA WaitType == ASSUME IInv, WaitForFill PROVE TypeOK' /\ BuysStep
<1> USE DEF IInv
<1>1. pl.cur \in Leads /\ pl.buy \in 1..Len(buys)
  BY DEF WaitForFill, At, OrdersOK, Bought, Buying
<1>2. \A n \in {0, buys[pl.buy].filled} : n \in 0..Qty
  BY <1>1, BuyTypes, LeadsAssumption
<1>3. ASSUME NEW pc \in {"check", "protect"}, NEW n \in {0, buys[pl.buy].filled},
             pl' = [pl EXCEPT !.pc = pc, !.got = n]
      PROVE  pl' \in Placer
  BY <1>2, <1>3, PlFields DEF Placer, PlacerPc
<1>4. pl' \in Placer
  BY <1>1, <1>3, SkipType, WaitEnds
<1>5. Calm \/ (\E d \in Disturbances : Disturb(d))
  BY DEF WaitForFill, Disturb
<1>6. UNCHANGED <<killed, kill, window, lead, trades, locked, buys, sells>>
  BY DEF WaitForFill, At, Same
<1> QED
  BY <1>4, <1>5, <1>6, QuietRest, BuysSame, TypeParts DEF TypeOK

LEMMA AfterCancelType ==
    ASSUME TypeOK, pl.cur \in Leads, AfterCancel
    PROVE  pl' \in Placer
BY SkipType, GotoType DEF AfterCancel, PlacerPc

LEMMA CheckType == ASSUME IInv, CheckEntry PROVE TypeOK' /\ BuysStep
<1> USE DEF IInv
<1>1. pl.cur \in Leads
  BY DEF CheckEntry, At, OrdersOK, Bought, Buying
<1>2. pl' \in Placer
  BY <1>1, AfterCancelType, GotoType DEF CheckEntry, PlacerPc
<1>3. Calm \/ (\E d \in Disturbances : Disturb(d))
  BY DEF CheckEntry, Disturb
<1>4. UNCHANGED <<killed, kill, window, lead, trades, locked, buys, sells>>
  BY DEF CheckEntry, At, Same
<1> QED
  BY <1>2, <1>3, <1>4, QuietRest, BuysSame, TypeParts DEF TypeOK

LEMMA CancelType == ASSUME IInv, CancelEntry PROVE TypeOK' /\ BuysStep
<1> USE DEF IInv
<1>1. pl.cur \in Leads /\ pl.buy \in 1..Len(buys)
  BY DEF CancelEntry, At, OrdersOK, Bought, Buying
<1>2. pl' \in Placer
  BY <1>1, AfterCancelType DEF CancelEntry
<1>3. BuysStep
  BY <1>1, BuysSame, DeadStep DEF CancelEntry
<1>4. UNCHANGED <<killed, kill, window, lead, trades, locked, sells>>
  BY DEF CancelEntry, At, Same
<1>5. Calm \/ (\E d \in Disturbances : Disturb(d))
  BY DEF CancelEntry, Disturb
<1> QED
  BY <1>2, <1>3, <1>4, <1>5, QuietRest, TypeParts DEF TypeOK

LEMMA ProtectType == ASSUME IInv, Protect PROVE TypeOK' /\ BuysStep
<1> USE DEF IInv
<1>1. pl' \in Placer
  BY GotoType DEF Protect, PlacerPc
<1>2. pl.pc \in Bought /\ pl.got >= 1
  BY DEF Protect, At, OrdersOK, Bought, Buying
<1>3. sells' \subseteq Sell
  BY <1>2, SellType DEF Protect, TypeOK
<1>4. Calm \/ (\E d \in Disturbances : Disturb(d))
  BY DEF Protect, Disturb
<1>5. UNCHANGED <<killed, kill, window, lead, trades, locked, buys>>
  BY DEF Protect, At, Same
<1> QED
  BY <1>1, <1>3, <1>4, <1>5, QuietRest, BuysSame, TypeParts DEF TypeOK

LEMMA VerifyType == ASSUME TypeOK, Verify PROVE TypeOK' /\ BuysStep
<1>1. pl' \in Placer
  BY GotoType DEF Verify, PlacerPc
<1>2. Calm \/ (\E d \in Disturbances : Disturb(d))
  BY DEF Verify, Disturb
<1>3. UNCHANGED <<killed, kill, window, lead, trades, locked, buys, sells>>
  BY DEF Verify, At, Same
<1> QED
  BY <1>1, <1>2, <1>3, QuietRest, BuysSame, TypeParts DEF TypeOK

LEMMA DefendType == ASSUME IInv, Defend PROVE TypeOK' /\ BuysStep
<1> USE DEF IInv
<1>1. pl.pc \in Bought /\ pl.got >= 1 /\ pl.cur \in Leads
  BY DEF Defend, At, OrdersOK, Bought, Buying
<1>2. pl' \in Placer
  BY <1>1, SkipType DEF Defend
<1>3. sells' \subseteq Sell
  BY <1>1, SellType DEF Defend, TypeOK
<1>4. Calm \/ (\E d \in Disturbances : Disturb(d))
  BY DEF Defend, Disturb
<1>5. UNCHANGED <<killed, kill, window, lead, trades, locked, buys>>
  BY DEF Defend, At, Same
<1> QED
  BY <1>2, <1>3, <1>4, <1>5, QuietRest, BuysSame, TypeParts DEF TypeOK

LEMMA CommitLeadsType == ASSUME TypeOK PROVE CommitLeads \in [Leads -> LeadStatus]
BY DEF CommitLeads, TypeOK, LeadStatus

LEMMA CommitType == ASSUME IInv, CommitTrade PROVE TypeOK' /\ BuysStep
<1> USE DEF IInv
<1>1. pl.buy \in 1..Len(buys) /\ pl.got >= 1
  BY DEF CommitTrade, At, OrdersOK, Bought, Buying
<1>2. pl.buy \in 1..MaxBuys /\ pl.got \in 1..Qty
  BY <1>1, PlFields, BuyTypes, LeadsAssumption, BoundsAssumption DEF TypeOK
<1>3. trades' \subseteq Trade
  <2>1. [buy |-> pl.buy, qty |-> pl.got, open |-> TRUE] \in Trade
    BY <1>2 DEF Trade
  <2>2. trades \subseteq Trade
    BY DEF TypeOK
  <2> QED
    BY <2>1, <2>2, Zenon DEF CommitTrade
<1>4. pl' \in Placer
  BY PlFields DEF CommitTrade, Placer, PlacerPc
<1>5. lead' \in [Leads -> LeadStatus]
  BY CommitLeadsType DEF CommitTrade
<1>6. UNCHANGED <<killed, kill, window, buys, sells, disturbed>> /\ locked' = FALSE
  BY DEF CommitTrade, At, Calm
<1>7. RestOK'
  BY <1>3, <1>5, <1>6 DEF RestOK, TypeOK
<1> QED
  BY <1>4, <1>6, <1>7, BuysSame, TypeParts

LEMMA MarkType == ASSUME IInv, MarkPlaced PROVE TypeOK' /\ BuysStep
<1> USE DEF IInv
<1>1. pl' \in Placer
  BY NextLeadType DEF MarkPlaced
<1>2. lead' \in [Leads -> LeadStatus]
  BY DEF MarkPlaced, TypeOK, LeadStatus
<1>3. disturbed' \in 0..MaxDisturbances
  <2>1. Calm \/ (\E d \in Disturbances : Disturb(d))
    BY DEF MarkPlaced, Disturb
  <2> QED
    BY <2>1, DisturbType
<1>4. UNCHANGED <<killed, kill, window, buys, sells, trades, locked>>
  BY DEF MarkPlaced, At
<1>5. RestOK'
  BY <1>2, <1>3, <1>4 DEF RestOK, TypeOK
<1> QED
  BY <1>1, <1>4, <1>5, BuysSame, TypeParts

LEMMA EndType == ASSUME TypeOK, TickEnd PROVE TypeOK' /\ BuysStep
<1>1. lead' \in [Leads -> LeadStatus] /\ pl' \in Placer
  BY CommitLeadsType, IdleType DEF TickEnd
<1>2. UNCHANGED <<killed, kill, window, buys, sells, trades, disturbed>> /\ locked' = FALSE
  BY DEF TickEnd, At, Calm
<1>3. RestOK'
  BY <1>1, <1>2 DEF RestOK, TypeOK
<1> QED
  BY <1>1, <1>2, <1>3, BuysSame, TypeParts

LEMMA BeginType == ASSUME TypeOK, TickBegin PROVE TypeOK' /\ BuysStep
<1>1. pl' \in Placer
  BY GotoType DEF TickBegin, PlacerPc
<1>2. UNCHANGED <<killed, kill, window, lead, trades, locked, buys, sells>> /\ Calm
  BY DEF TickBegin, At, Same
<1> QED
  BY <1>1, <1>2, QuietRest, BuysSame, TypeParts DEF TypeOK

LEMMA ListType == ASSUME TypeOK, TickList PROVE TypeOK' /\ BuysStep
<1>1. pl' \in Placer
  BY PlFields DEF TickList, Placer, PlacerPc
<1>2. UNCHANGED <<killed, kill, window, lead, trades, locked, buys, sells>> /\ Calm
  BY DEF TickList, At, Same
<1> QED
  BY <1>1, <1>2, QuietRest, BuysSame, TypeParts DEF TypeOK

LEMMA TypeStep == ASSUME IInv, [Next]_vars PROVE TypeOK' /\ BuysStep
<1>1. CASE World
  BY <1>1, WorldType DEF IInv
<1>2. CASE PlacerStep
  BY <1>2, BeginType, ListType, PickType, BuyType, WaitType, CheckType, CancelType,
     ProtectType, VerifyType, DefendType, CommitType, MarkType, EndType DEF PlacerStep, IInv
<1>3. CASE UNCHANGED vars
  <2>1. BuysStep /\ UNCHANGED vars
    BY <1>3, BuysSame DEF IInv, vars
  <2> QED
    BY <2>1 DEF IInv, TypeOK, vars
<1> QED
  BY <1>1, <1>2, <1>3 DEF Next

-----------------------------------------------------------------------------
(* What a step that commits no trade keeps of the trades *)

LEMMA SameLead == ASSUME TradesOK, BuysStep, NEW t \in trades PROVE LeadOf(t)' = LeadOf(t)
BY DEF TradesOK, BuysStep, LeadOf

LEMMA StillNone ==
    ASSUME TradesOK, BuysStep, UNCHANGED trades, NEW l, NoTradeFor(l)
    PROVE  NoTradeFor(l)'
BY SameLead DEF NoTradeFor

LEMMA StillUnblocked ==
    ASSUME TradesOK, BuysStep, UNCHANGED trades, NEW l, ~Blocked(l)
    PROVE  ~Blocked(l)'
BY SameLead DEF Blocked

\* The order of a lead without a trade has no trade.
LEMMA NoTradeOfOrder ==
    ASSUME NEW l, NoTradeFor(l), NEW o, buys[o].lead = l
    PROVE  \A t \in trades : t.buy # o
BY DEF NoTradeFor, LeadOf

\* A stop-loss is only added for an order without a trade, and a lead changes to
\* deleted, to skipped if it has no trade, or to accepted if it has one.
LeadMoves ==
    \A l \in Leads :
        \/ lead'[l] = lead[l]
        \/ lead'[l] = "deleted"
        \/ lead'[l] = "skipped" /\ NoTradeFor(l)
        \/ lead'[l] \in {"picked", "placed"} /\ ~NoTradeFor(l)
SellsGrow ==
    /\ sells \subseteq sells'
    /\ \A s \in sells' \ sells : s.buy \in 1..Len(buys) /\ \A t \in trades : t.buy # s.buy

TradesAreRight == TradesOK /\ TradeBacked /\ OneOpenPerUnderlying /\ AcceptedIffTraded

LEMMA LeadOfType == ASSUME TypeOK, TradesOK, NEW t \in trades PROVE LeadOf(t) \in Leads
<1>1. buys[t.buy] \in Buy
  BY BuyTypes DEF TradesOK
<1> QED
  BY <1>1 DEF LeadOf, Buy

LEMMA BackedKept ==
    ASSUME TypeOK, TradesOK, TradeBacked, BuysStep, UNCHANGED trades, SellsGrow
    PROVE  TradeBacked'
<1> SUFFICES ASSUME NEW t \in trades
             PROVE  /\ t.qty <= buys'[t.buy].filled
                    /\ \E s \in sells' : s.buy = t.buy /\ s.kind = "sl" /\ s.qty = t.qty
                    /\ \A s \in sells' : s.buy = t.buy => s.qty = t.qty
  BY DEF TradeBacked
<1>1. t.buy \in 1..Len(buys) /\ t.qty \in Nat
  BY LeadsAssumption DEF TradesOK, TypeOK, Trade
<1>2. t.qty <= buys[t.buy].filled /\ buys[t.buy].filled \in Nat
  BY <1>1, BuyTypes, LeadsAssumption DEF TradeBacked
<1>3. buys'[t.buy].filled >= buys[t.buy].filled /\ buys'[t.buy].filled \in Nat
  <2>1. buys' \in Seq(Buy) /\ t.buy \in 1..Len(buys')
    BY <1>1, BuyTypes, LenProperties DEF BuysStep
  <2>2. buys'[t.buy] \in Buy
    BY <2>1, ElementOfSeq
  <2> QED
    BY <1>1, <2>2, LeadsAssumption DEF BuysStep, Buy
<1>4. t.qty <= buys'[t.buy].filled
  BY <1>1, <1>2, <1>3
<1> QED
  BY <1>4 DEF TradeBacked, SellsGrow

LEMMA TradesKept ==
    ASSUME TypeOK, TradesAreRight, BuysStep, UNCHANGED trades, SellsGrow, LeadMoves
    PROVE  TradesAreRight'
<1> USE DEF TradesAreRight
<1>1. TradeBacked'
  BY BackedKept
<1>2. OneOpenPerUnderlying'
  BY SameLead DEF OneOpenPerUnderlying
<1>3. \A l \in Leads : Accepted(l)' => \E t \in trades : LeadOf(t) = l
  BY DEF LeadMoves, Accepted, NoTradeFor, AcceptedIffTraded
<1>4. AcceptedIffTraded'
  BY <1>3, SameLead DEF AcceptedIffTraded
<1>5. \A t \in trades : lead'[LeadOf(t)] \in {"picked", "placed", "deleted"}
  BY LeadOfType DEF TradesOK, LeadMoves, NoTradeFor
<1>6. \A t \in trades' : (lead[LeadOf(t)])' \in {"picked", "placed", "deleted"}
  BY <1>5, SameLead
<1>7. Len(buys) \in Nat /\ Len(buys') \in Nat /\ Len(buys') >= Len(buys)
  BY BuyTypes, LenProperties DEF BuysStep
<1>8. (\A t \in trades : t.buy \in 1..Len(buys))' /\ (\A s \in sells : s.buy \in 1..Len(buys))'
  BY <1>7 DEF TradesOK, SellsGrow
<1> QED
  BY <1>1, <1>2, <1>4, <1>6, <1>8 DEF TradesOK

-----------------------------------------------------------------------------
(* The other actors *)

PlacerIsRight == LeadsOK /\ BuyingOK /\ OrdersOK

LEMMA FilledGrows ==
    ASSUME TypeOK, BuysStep, NEW o \in 1..Len(buys)
    PROVE  /\ o \in 1..Len(buys') /\ buys'[o].lead = buys[o].lead
           /\ buys[o].filled \in Nat /\ buys'[o].filled \in Nat
           /\ buys[o].filled <= buys'[o].filled
<1>1. buys' \in Seq(Buy) /\ o \in 1..Len(buys')
  BY BuyTypes, LenProperties DEF BuysStep
<1>2. buys'[o] \in Buy /\ buys[o] \in Buy
  BY <1>1, ElementOfSeq, BuyTypes
<1> QED
  BY <1>1, <1>2, LeadsAssumption DEF BuysStep, Buy

LEMMA OrdersKept ==
    ASSUME TypeOK, OrdersOK, BuysStep, UNCHANGED <<pl, sells>>
    PROVE  OrdersOK'
<1>1. CASE pl.pc \notin Bought
  BY <1>1 DEF OrdersOK, Bought, Counted, Buying
<1>2. CASE pl.pc \in Bought
  <2>1. pl.buy \in 1..Len(buys)
    BY <1>2 DEF OrdersOK
  <2>2. pl.got \in Nat
    BY PlFields, LeadsAssumption
  <2>3. pl.pc \in Counted => pl.got <= buys'[pl.buy].filled
    BY <2>1, <2>2, FilledGrows DEF OrdersOK
  <2> QED
    BY <1>2, <2>1, <2>3, FilledGrows DEF OrdersOK
<1> QED
  BY <1>1, <1>2

LEMMA PlacerKept ==
    ASSUME TypeOK, TradesOK, PlacerIsRight, BuysStep, UNCHANGED <<pl, sells, trades, locked>>
    PROVE  PlacerIsRight'
<1> USE DEF PlacerIsRight
<1>1. OrdersOK'
  BY OrdersKept
<1>2. LeadsOK'
  BY StillNone DEF LeadsOK
<1>3. pl.pc = "mark" => \E t \in trades : LeadOf(t)' = pl.cur
  BY SameLead DEF BuyingOK
<1>4. BuyingOK'
  BY <1>3, StillNone, StillUnblocked DEF BuyingOK
<1> QED
  BY <1>1, <1>2, <1>4

LEMMA IdleIsRight == ASSUME pl' = Idle PROVE PlacerIsRight'
<1>1. pl'.pc = "idle" /\ pl'.todo = {} /\ pl'.skipped = {} /\ pl'.cur = NoLead
  BY DEF Idle
<1>2. "idle" \notin Buying \cup Bought \cup Counted
  BY DEF Buying, Bought, Counted
<1> QED
  BY <1>1, <1>2 DEF PlacerIsRight, LeadsOK, BuyingOK, OrdersOK

\* A trade that closes keeps its order, its quantity and its lead.
Closed(t) == [t EXCEPT !.open = FALSE]

LEMMA ClosedTrade ==
    ASSUME TypeOK, NEW t \in trades, TradeCloses(t)
    PROVE  /\ Closed(t).buy = t.buy /\ Closed(t).qty = t.qty /\ Closed(t).open = FALSE
           /\ trades' = (trades \ {t}) \cup {Closed(t)}
           /\ UNCHANGED <<lead, buys, sells, locked, pl>> /\ ~locked
<1>1. t \in Trade
  BY DEF TypeOK
<1> QED
  BY <1>1 DEF TradeCloses, Unlocked, Trade, Closed

LEMMA CloseKeeps == ASSUME IInv, NEW t \in trades, TradeCloses(t) PROVE TradesAreRight' /\ PlacerIsRight'
<1> USE DEF IInv
<1> HIDE DEF Closed
<1>1. \A u \in trades' : \E v \in trades : v.buy = u.buy /\ v.qty = u.qty
  BY ClosedTrade
<1>2. \A v \in trades : \E u \in trades' : v.buy = u.buy /\ v.qty = u.qty
  <2>1. Closed(t) \in trades' /\ Closed(t).buy = t.buy /\ Closed(t).qty = t.qty
    BY ClosedTrade
  <2>2. ASSUME NEW v \in trades, v # t PROVE v \in trades'
    BY <2>2, ClosedTrade
  <2> QED
    BY <2>1, <2>2
<1>3. UNCHANGED <<lead, buys, sells, locked, pl>> /\ ~locked
  BY ClosedTrade
<1>4. \A u : LeadOf(u)' = LeadOf(u)
  BY <1>3 DEF LeadOf
<1>5. TradesOK'
  BY <1>1, <1>3 DEF TradesOK, LeadOf
<1>6. TradeBacked'
  BY <1>1, <1>3 DEF TradeBacked
<1>7. OneOpenPerUnderlying'
  BY <1>4, ClosedTrade DEF OneOpenPerUnderlying
<1>8. LeadOf(Closed(t)) = LeadOf(t)
  BY ClosedTrade DEF LeadOf
<1>9. AcceptedIffTraded'
  <2>1. \A l \in Leads : Accepted(l) => \E u \in trades' : LeadOf(u) = l
    BY <1>2 DEF AcceptedIffTraded, LeadOf
  <2>2. ASSUME NEW u \in trades', NEW v \in trades', LeadOf(u) = LeadOf(v), LeadOf(u) \in Leads
        PROVE  u = v
    <3>1. \A x, y \in trades : LeadOf(x) = LeadOf(u) /\ LeadOf(y) = LeadOf(u) => x = y
      BY <2>2 DEF AcceptedIffTraded
    <3>2. (u \in trades /\ u # t) \/ u = Closed(t)
      BY ClosedTrade
    <3>3. (v \in trades /\ v # t) \/ v = Closed(t)
      BY ClosedTrade
    <3> QED
      BY <1>8, <2>2, <3>1, <3>2, <3>3
  <2> QED
    BY <1>3, <1>4, <2>1, <2>2 DEF AcceptedIffTraded, Accepted
<1>10. \A l : NoTradeFor(l) => NoTradeFor(l)'
  BY <1>1, <1>4 DEF NoTradeFor, LeadOf
<1>11. LeadsOK'
  BY <1>3, <1>10 DEF LeadsOK
<1>12. BuyingOK'
  BY <1>2, <1>3 DEF BuyingOK, LeadOf
<1>13. OrdersOK'
  BY <1>3 DEF OrdersOK
<1> QED
  BY <1>5, <1>6, <1>7, <1>9, <1>11, <1>12, <1>13 DEF TradesAreRight, PlacerIsRight

LEMMA WorldKeeps == ASSUME IInv, World PROVE TradesAreRight' /\ PlacerIsRight'
<1> USE DEF IInv, TradesAreRight, PlacerIsRight, Market, Unlocked
<1>1. BuysStep
  BY WorldType
<1>2. CASE /\ UNCHANGED <<trades, sells, locked, pl>> /\ LeadMoves
  BY <1>1, <1>2, TradesKept, PlacerKept DEF SellsGrow
<1>3. CASE \E o \in 1..Len(buys) : RejectBuy(o) \/ \E n \in 1..Qty : FillBuy(o, n)
  BY <1>2, <1>3 DEF RejectBuy, FillBuy, LeadMoves
<1>4. CASE \E t \in trades : TradeCloses(t)
  BY <1>4, CloseKeeps
<1>5. CASE \E l \in Leads : DeleteLead(l)
  BY <1>2, <1>5 DEF DeleteLead, LeadMoves, TypeOK
<1>6. CASE WindowCloses \/ KillActivate \/ KillBusy
  BY <1>2, <1>6 DEF WindowCloses, KillActivate, KillBusy, LeadMoves
<1>7. CASE Crash
  <2>1. UNCHANGED <<lead, trades, buys, sells>> /\ pl' = Idle
    BY <1>7 DEF Crash
  <2>2. TradesAreRight'
    BY <1>1, <2>1, TradesKept DEF SellsGrow, LeadMoves
  <2>3. PlacerIsRight'
    BY <2>1, IdleIsRight
  <2> QED
    BY <2>2, <2>3
<1> QED
  BY <1>3, <1>4, <1>5, <1>6, <1>7 DEF World

-----------------------------------------------------------------------------
(* The placer, between the lead it takes and the trade it commits *)

LEMMA RowsKept ==
    ASSUME IInv, BuysStep, UNCHANGED <<lead, trades>>, SellsGrow
    PROVE  TradesAreRight'
BY TradesKept DEF IInv, TradesAreRight, LeadMoves

LEMMA SkipKeeps ==
    ASSUME IInv, BuysStep, Same, pl.cur \in Leads, NoTradeFor(pl.cur), SkipLead
    PROVE  PlacerIsRight'
<1> USE DEF IInv, Same
<1>1. /\ pl'.pc = "next" /\ pl'.cur = NoLead
      /\ pl'.todo = pl.todo /\ pl'.skipped = pl.skipped \cup {pl.cur}
  BY SkipType
<1>2. pl'.todo \subseteq Leads /\ pl'.skipped \subseteq Leads
  BY <1>1, PlFields
<1>3. LeadsOK'
  BY <1>1, <1>2, StillNone, LeadsAssumption DEF LeadsOK
<1>4. "next" \notin Buying \cup Bought \cup Counted
  BY DEF Buying, Bought, Counted
<1>5. BuyingOK' /\ OrdersOK'
  BY <1>1, <1>4 DEF BuyingOK, OrdersOK
<1> QED
  BY <1>3, <1>5 DEF PlacerIsRight

LEMMA StayBuying ==
    ASSUME IInv, BuysStep, Same, pl.pc \in Buying, pl'.pc \in Buying,
           pl'.cur = pl.cur, pl'.todo = pl.todo, pl'.skipped = pl.skipped
    PROVE  LeadsOK' /\ BuyingOK'
<1> USE DEF IInv, Same
<1>1. pl'.pc \notin {"idle", "list", "next", "mark"}
  BY DEF Buying
<1>2. LeadsOK'
  BY <1>1, StillNone DEF LeadsOK
<1>3. BuyingOK'
  BY <1>1, StillNone, StillUnblocked DEF BuyingOK
<1> QED
  BY <1>2, <1>3

\* The lead and the order the placer is dealing with.
LEMMA InHand ==
    ASSUME IInv, pl.pc \in Buying \ {"buy"}
    PROVE  /\ pl.cur \in Leads /\ NoTradeFor(pl.cur) /\ pl.pc \in Bought
           /\ pl.buy \in 1..Len(buys) /\ buys[pl.buy].lead = pl.cur
           /\ \A t \in trades : t.buy # pl.buy
           /\ pl.got \in Nat
<1> USE DEF IInv
<1>1. pl.cur \in Leads /\ NoTradeFor(pl.cur) /\ pl.pc \in Bought
  BY DEF BuyingOK, Bought, Buying
<1>2. pl.buy \in 1..Len(buys) /\ buys[pl.buy].lead = pl.cur
  BY <1>1 DEF OrdersOK
<1>3. \A t \in trades : t.buy # pl.buy
  BY <1>1, <1>2, NoTradeOfOrder
<1>4. pl.got \in Nat
  BY PlFields, LeadsAssumption
<1> QED
  BY <1>1, <1>2, <1>3, <1>4

\* A step to pc with the same order and no more than it has filled.
LEMMA StageKeeps ==
    ASSUME IInv, BuysStep, Same, pl.pc \in Buying \ {"buy"}, NEW pc \in Counted,
           pl'.pc = pc, pl'.cur = pl.cur, pl'.buy = pl.buy,
           pl'.todo = pl.todo, pl'.skipped = pl.skipped,
           pl'.got \in Nat, pl'.got <= buys[pl.buy].filled,
           pc \in {"protect", "verify", "defend", "commit"} => pl'.got >= 1,
           pc \in {"check", "cancel", "protect"} => \A s \in sells' : s.buy # pl.buy,
           pc \in {"verify", "commit"} =>
              /\ \E s \in sells' : s.buy = pl.buy /\ s.kind = "sl" /\ s.qty = pl'.got
              /\ \A s \in sells' : s.buy = pl.buy => s.qty = pl'.got
    PROVE  PlacerIsRight'
<1> USE DEF IInv
<1>1. pc \in Buying /\ pc \in Bought /\ pc # "wait" /\ pl.pc \in Buying
  BY DEF Counted, Bought, Buying
<1>2. LeadsOK' /\ BuyingOK'
  BY <1>1, StayBuying
<1>3. /\ pl.buy \in 1..Len(buys') /\ buys'[pl.buy].lead = pl.cur
      /\ pl'.got <= buys'[pl.buy].filled
  BY InHand, FilledGrows
<1>4. OrdersOK'
  BY <1>1, <1>3, InHand DEF OrdersOK
<1> QED
  BY <1>2, <1>4 DEF PlacerIsRight

Keeps == TradesAreRight' /\ PlacerIsRight'

LEMMA BeginKeeps == ASSUME IInv, TickBegin PROVE Keeps
<1> USE DEF IInv
<1>1. /\ pl'.pc = "list" /\ pl.pc = "idle"
      /\ pl'.todo = pl.todo /\ pl'.skipped = pl.skipped /\ pl'.cur = pl.cur
  BY GotoType DEF TickBegin, At, PlacerPc
<1>2. UNCHANGED <<lead, trades, buys, sells>> /\ BuysStep
  BY BeginType DEF TickBegin, Same
<1>3. LeadsOK'
  BY <1>1 DEF LeadsOK
<1>4. "list" \notin Buying \cup Bought \cup Counted
  BY DEF Buying, Bought, Counted
<1>5. BuyingOK' /\ OrdersOK'
  BY <1>1, <1>4 DEF BuyingOK, OrdersOK
<1> QED
  BY <1>2, <1>3, <1>5, RowsKept DEF SellsGrow, PlacerIsRight, Keeps

LEMMA ListKeeps == ASSUME IInv, TickList PROVE Keeps
<1> USE DEF IInv
<1>1. /\ pl'.pc = "next" /\ pl.pc = "list" /\ pl'.skipped = pl.skipped /\ pl'.cur = pl.cur
      /\ pl'.todo = {l \in Leads : lead[l] = "queued"}
  BY PlFields DEF TickList, At, Placer
<1>2. UNCHANGED <<lead, trades, buys, sells>> /\ BuysStep
  BY ListType DEF TickList, Same
<1>3. \A l \in Leads : lead[l] = "queued" => NoTradeFor(l)
  BY DEF TradesOK, NoTradeFor
<1>4. \A l \in Leads : lead[l] = "queued" => NoTradeFor(l)'
  BY <1>2, <1>3, StillNone
<1>5. LeadsOK'
  BY <1>1, <1>4, LeadsAssumption DEF LeadsOK
<1>6. "next" \notin Buying \cup Bought \cup Counted
  BY DEF Buying, Bought, Counted
<1>7. BuyingOK' /\ OrdersOK'
  BY <1>1, <1>6 DEF BuyingOK, OrdersOK
<1> QED
  BY <1>2, <1>5, <1>7, RowsKept DEF SellsGrow, PlacerIsRight, Keeps

LEMMA PickKeeps == ASSUME IInv, NEW l \in pl.todo, Pick(l) PROVE Keeps
<1> DEFINE picked == [pl EXCEPT !.cur = l, !.todo = @ \ {l}]
<1> USE DEF IInv
<1>1. UNCHANGED <<lead, trades, buys, sells>> /\ BuysStep /\ pl.pc = "next"
  BY PickType DEF Pick, At, GiveUp
<1>2. l \in Leads /\ NoTradeFor(l) /\ l \notin pl.skipped /\ pl.cur = NoLead
  BY <1>1, PlFields DEF LeadsOK
<1>3. \A k \in pl.todo \cup pl.skipped : NoTradeFor(k)'
  BY <1>1, StillNone DEF LeadsOK
<1>4. pl.todo \cap pl.skipped = {} /\ pl.todo \subseteq Leads /\ pl.skipped \subseteq Leads
  BY PlFields DEF LeadsOK
<1>5. TradesAreRight'
  BY <1>1, RowsKept DEF SellsGrow
<1>6. CASE GiveUp
  BY <1>5, <1>6, IdleIsRight DEF GiveUp, Keeps
<1>7. CASE pl' = [picked EXCEPT !.cur = NoLead, !.skipped = @ \cup {l}]
  <2>1. /\ pl'.pc = "next" /\ pl'.cur = NoLead /\ pl'.todo = pl.todo \ {l}
        /\ pl'.skipped = pl.skipped \cup {l}
    BY <1>1, <1>7, PlFields DEF Placer
  <2>2. LeadsOK'
    BY <1>2, <1>3, <1>4, <2>1, LeadsAssumption DEF LeadsOK
  <2>3. "next" \notin Buying \cup Bought \cup Counted
    BY DEF Buying, Bought, Counted
  <2>4. BuyingOK' /\ OrdersOK'
    BY <2>1, <2>3 DEF BuyingOK, OrdersOK
  <2> QED
    BY <1>5, <2>2, <2>4 DEF PlacerIsRight, Keeps
<1>8. CASE locked' = TRUE /\ ~Blocked(l) /\ pl' = [picked EXCEPT !.pc = "buy"]
  <2>1. /\ pl'.pc = "buy" /\ pl'.cur = l /\ pl'.todo = pl.todo \ {l}
        /\ pl'.skipped = pl.skipped
    BY <1>8, PlFields DEF Placer
  <2>2. LeadsOK'
    BY <1>2, <1>3, <1>4, <2>1 DEF LeadsOK
  <2>3. NoTradeFor(l)' /\ ~Blocked(l)'
    BY <1>1, <1>3, <1>8, StillUnblocked
  <2>4. BuyingOK'
    BY <1>2, <1>8, <2>1, <2>3 DEF BuyingOK
  <2>5. "buy" \notin Bought \cup Counted
    BY DEF Buying, Bought, Counted
  <2>6. OrdersOK'
    BY <2>1, <2>5 DEF OrdersOK
  <2> QED
    BY <1>5, <2>2, <2>4, <2>6 DEF PlacerIsRight, Keeps
<1> QED
  BY <1>6, <1>7, <1>8 DEF Pick

LEMMA BuyKeeps == ASSUME IInv, PlaceBuy PROVE Keeps
<1> USE DEF IInv
<1>1. Same /\ UNCHANGED <<lead, trades, sells>> /\ BuysStep /\ pl.pc = "buy"
  BY BuyType DEF PlaceBuy, At, Same
<1>2. pl.cur \in Leads /\ NoTradeFor(pl.cur) /\ pl.pc \in Buying
  BY <1>1 DEF BuyingOK, Buying
<1>3. TradesAreRight'
  BY <1>1, RowsKept DEF SellsGrow
<1>4. CASE SkipLead
  BY <1>1, <1>2, <1>3, <1>4, SkipKeeps DEF Keeps
<1>5. CASE /\ Len(buys) < MaxBuys
           /\ buys' = Append(buys, [lead |-> pl.cur, filled |-> 0, status |-> "live"])
           /\ pl' = [pl EXCEPT !.pc = "wait", !.buy = Len(buys) + 1]
  <2>1. /\ pl'.pc = "wait" /\ pl'.cur = pl.cur /\ pl'.buy = Len(buys) + 1
        /\ pl'.todo = pl.todo /\ pl'.skipped = pl.skipped
    BY <1>5, PlFields DEF Placer
  <2>2. "wait" \in Buying /\ "wait" \in Bought /\ "wait" \notin Counted
    BY DEF Buying, Bought, Counted
  <2>3. LeadsOK' /\ BuyingOK'
    BY <1>1, <1>2, <2>1, <2>2, StayBuying
  <2>4. /\ Len(buys') = Len(buys) + 1 /\ Len(buys) \in Nat
        /\ buys'[Len(buys) + 1].lead = pl.cur
    BY <1>2, <1>5, BuysAppend, BuyTypes
  <2>5. pl'.buy \in 1..Len(buys') /\ \A s \in sells : s.buy # pl'.buy
    BY <2>1, <2>4 DEF TradesOK
  <2>6. OrdersOK'
    BY <1>1, <1>2, <2>1, <2>2, <2>4, <2>5 DEF OrdersOK
  <2> QED
    BY <1>3, <2>3, <2>6 DEF PlacerIsRight, Keeps
<1> QED
  BY <1>4, <1>5 DEF PlaceBuy

LEMMA WaitKeeps == ASSUME IInv, WaitForFill PROVE Keeps
<1> USE DEF IInv
<1>1. /\ Same /\ UNCHANGED <<lead, trades, sells, buys>> /\ BuysStep
      /\ pl.pc = "wait" /\ pl.pc \in Buying \ {"buy"}
  BY WaitType DEF WaitForFill, At, Same, Buying
<1>2. TradesAreRight'
  BY <1>1, RowsKept DEF SellsGrow
<1>3. CASE SkipLead
  BY <1>1, <1>2, <1>3, InHand, SkipKeeps DEF Keeps
<1>4. buys[pl.buy].filled \in Nat
  BY <1>1, InHand, BuyTypes, LeadsAssumption
<1>5. ASSUME NEW pc \in {"check", "protect"}, NEW n \in {0, buys[pl.buy].filled},
             pl' = [pl EXCEPT !.pc = pc, !.got = n],
             pc = "protect" => n = buys[pl.buy].filled /\ buys[pl.buy].filled > 0
      PROVE  PlacerIsRight'
  <2>1. /\ pl'.pc = pc /\ pl'.cur = pl.cur /\ pl'.buy = pl.buy
        /\ pl'.todo = pl.todo /\ pl'.skipped = pl.skipped
        /\ pl'.got = n
    BY <1>5, PlFields DEF Placer
  <2>2. pc \in Counted /\ pc \notin {"verify", "defend", "commit"}
    BY DEF Counted, Bought, Buying
  <2>3. \A s \in sells : s.buy # pl.buy
    BY <1>1 DEF OrdersOK
  <2>4. pl'.got \in Nat /\ pl'.got <= buys[pl.buy].filled /\ (pc = "protect" => pl'.got >= 1)
    BY <1>4, <1>5, <2>1
  <2> QED
    BY <1>1, <2>1, <2>2, <2>3, <2>4, StageKeeps
<1> QED
  BY <1>2, <1>3, <1>5, WaitEnds DEF Keeps

\* On with what was filled, with no stop-loss at the broker yet.
LEMMA AfterCancelKeeps ==
    ASSUME IInv, BuysStep, Same, UNCHANGED sells, pl.pc \in {"check", "cancel"}, AfterCancel
    PROVE  Keeps
<1> USE DEF IInv
<1>1. pl.pc \in Buying \ {"buy"} /\ pl.pc \in Counted
  BY DEF Counted, Bought, Buying
<1>2. TradesAreRight'
  BY RowsKept DEF SellsGrow, Same
<1>3. CASE SkipLead
  BY <1>1, <1>2, <1>3, InHand, SkipKeeps DEF Keeps
<1>4. CASE pl.got # 0 /\ Goto("protect")
  <2>1. "protect" \in PlacerPc /\ "protect" \in Counted
    BY DEF PlacerPc, Counted, Bought, Buying
  <2>2. /\ pl'.pc = "protect" /\ pl'.cur = pl.cur /\ pl'.buy = pl.buy
        /\ pl'.todo = pl.todo /\ pl'.skipped = pl.skipped /\ pl'.got = pl.got
    BY <1>4, <2>1, GotoType
  <2>3. pl.got \in Nat /\ pl.got >= 1 /\ pl.got <= buys[pl.buy].filled
    BY <1>1, <1>4, InHand DEF OrdersOK
  <2>4. \A s \in sells : s.buy # pl.buy
    BY DEF OrdersOK
  <2> QED
    BY <1>1, <1>2, <2>1, <2>2, <2>3, <2>4, StageKeeps DEF Keeps
<1> QED
  BY <1>3, <1>4 DEF AfterCancel

LEMMA CheckKeeps == ASSUME IInv, CheckEntry PROVE Keeps
<1> USE DEF IInv
<1>1. BuysStep /\ Same /\ UNCHANGED <<sells, buys>> /\ pl.pc = "check"
  BY CheckType DEF CheckEntry, At
<1>2. pl.pc \in Buying \ {"buy"} /\ pl.pc \in Counted
  BY <1>1 DEF Counted, Bought, Buying
<1>3. CASE AfterCancel
  BY <1>1, <1>3, AfterCancelKeeps
<1>4. CASE Goto("cancel")
  <2>1. "cancel" \in PlacerPc /\ "cancel" \in Counted
    BY DEF PlacerPc, Counted, Bought, Buying
  <2>2. /\ pl'.pc = "cancel" /\ pl'.cur = pl.cur /\ pl'.buy = pl.buy
        /\ pl'.todo = pl.todo /\ pl'.skipped = pl.skipped /\ pl'.got = pl.got
    BY <1>4, <2>1, GotoType
  <2>3. pl.got \in Nat /\ pl.got <= buys[pl.buy].filled
    BY <1>2, InHand DEF OrdersOK
  <2>4. \A s \in sells : s.buy # pl.buy
    BY <1>1 DEF OrdersOK
  <2>5. PlacerIsRight'
    BY <1>1, <1>2, <2>1, <2>2, <2>3, <2>4, StageKeeps
  <2> QED
    BY <1>1, <2>5, RowsKept DEF SellsGrow, Same, Keeps
<1> QED
  BY <1>3, <1>4 DEF CheckEntry

LEMMA CancelKeeps == ASSUME IInv, CancelEntry PROVE Keeps
BY CancelType, AfterCancelKeeps DEF CancelEntry, At

\* The sale it adds is for an order without a trade.
LEMMA SaleAdded ==
    ASSUME IInv, pl.pc \in Buying \ {"buy"}, NEW kind, PlaceSell(kind)
    PROVE  /\ SellsGrow
           /\ \E s \in sells' : s.buy = pl.buy /\ s.kind = kind /\ s.qty = pl.got
           /\ (\A s \in sells : s.buy # pl.buy) =>
                 \A s \in sells' : s.buy = pl.buy => s.qty = pl.got
<1>1. pl.buy \in 1..Len(buys) /\ \A t \in trades : t.buy # pl.buy
  BY InHand
<1> DEFINE e == [buy |-> pl.buy, kind |-> kind, qty |-> pl.got]
<1>2. sells' = sells \cup {e} /\ e.buy = pl.buy /\ e.kind = kind /\ e.qty = pl.got
  BY DEF PlaceSell
<1> HIDE DEF e
<1>3. SellsGrow
  BY <1>1, <1>2 DEF SellsGrow
<1> QED
  BY <1>2, <1>3

LEMMA ProtectKeeps == ASSUME IInv, Protect PROVE Keeps
<1> USE DEF IInv
<1>1. BuysStep /\ Same /\ UNCHANGED <<buys, lead, trades>> /\ pl.pc = "protect"
  BY ProtectType DEF Protect, At, Same
<1>2. pl.pc \in Buying \ {"buy"} /\ pl.pc \in Counted
  BY <1>1 DEF Counted, Bought, Buying
<1>3. pl.got \in Nat /\ pl.got >= 1 /\ pl.got <= buys[pl.buy].filled
  BY <1>1, <1>2, InHand DEF OrdersOK
<1>4. \A s \in sells : s.buy # pl.buy
  BY <1>1 DEF OrdersOK
<1>5. SellsGrow
  BY <1>2, SaleAdded DEF Protect, SellsGrow
<1>6. ASSUME NEW pc \in {"verify", "defend"}, Goto(pc), pc = "verify" => PlaceSell("sl")
      PROVE  PlacerIsRight'
  <2>1. pc \in PlacerPc /\ pc \in Counted
    BY DEF PlacerPc, Counted, Bought, Buying
  <2>2. /\ pl'.pc = pc /\ pl'.cur = pl.cur /\ pl'.buy = pl.buy
        /\ pl'.todo = pl.todo /\ pl'.skipped = pl.skipped /\ pl'.got = pl.got
    BY <1>6, <2>1, GotoType
  <2>3. pc = "verify" =>
           /\ \E s \in sells' : s.buy = pl.buy /\ s.kind = "sl" /\ s.qty = pl.got
           /\ \A s \in sells' : s.buy = pl.buy => s.qty = pl.got
    BY <1>2, <1>4, <1>6, SaleAdded
  <2> QED
    BY <1>1, <1>2, <1>3, <2>1, <2>2, <2>3, StageKeeps
<1>7. PlacerIsRight'
  BY <1>6 DEF Protect
<1> QED
  BY <1>1, <1>5, <1>7, RowsKept DEF Keeps

LEMMA VerifyKeeps == ASSUME IInv, Verify PROVE Keeps
<1> USE DEF IInv
<1>1. BuysStep /\ Same /\ UNCHANGED <<sells, buys, lead, trades>> /\ pl.pc = "verify"
  BY VerifyType DEF Verify, At, Same
<1>2. pl.pc \in Buying \ {"buy"} /\ pl.pc \in Counted
  BY <1>1 DEF Counted, Bought, Buying
<1>3. pl.got \in Nat /\ pl.got >= 1 /\ pl.got <= buys[pl.buy].filled
  BY <1>1, <1>2, InHand DEF OrdersOK
<1>4. ASSUME NEW pc \in {"commit", "defend"}, Goto(pc) PROVE PlacerIsRight'
  <2>1. pc \in PlacerPc /\ pc \in Counted
    BY DEF PlacerPc, Counted, Bought, Buying
  <2>2. /\ pl'.pc = pc /\ pl'.cur = pl.cur /\ pl'.buy = pl.buy
        /\ pl'.todo = pl.todo /\ pl'.skipped = pl.skipped /\ pl'.got = pl.got
    BY <1>4, <2>1, GotoType
  <2>3. /\ \E s \in sells : s.buy = pl.buy /\ s.kind = "sl" /\ s.qty = pl.got
        /\ \A s \in sells : s.buy = pl.buy => s.qty = pl.got
    BY <1>1 DEF OrdersOK
  <2> QED
    BY <1>1, <1>2, <1>3, <2>1, <2>2, <2>3, StageKeeps
<1>5. PlacerIsRight'
  BY <1>4 DEF Verify
<1> QED
  BY <1>1, <1>5, RowsKept DEF SellsGrow, Keeps

LEMMA DefendKeeps == ASSUME IInv, Defend PROVE Keeps
<1> USE DEF IInv
<1>1. BuysStep /\ Same /\ UNCHANGED <<buys, lead, trades>> /\ pl.pc = "defend" /\ SkipLead
  BY DefendType DEF Defend, At, Same
<1>2. pl.pc \in Buying \ {"buy"}
  BY <1>1 DEF Buying
<1>3. SellsGrow
  BY <1>2, SaleAdded DEF Defend, SellsGrow
<1> QED
  BY <1>1, <1>2, <1>3, InHand, SkipKeeps, RowsKept DEF Keeps

-----------------------------------------------------------------------------
(* The commits *)

\* The trade it commits is the only one of its lead, the only open one of its
\* underlying, and has its stop-loss.
LEMMA CommitKeeps == ASSUME IInv, CommitTrade PROVE Keeps
<1> DEFINE e == [buy |-> pl.buy, qty |-> pl.got, open |-> TRUE]
<1> USE DEF IInv
<1>1. UNCHANGED <<buys, sells>> /\ lead' = CommitLeads /\ trades' = trades \cup {e} /\ pl.pc = "commit"
  BY DEF CommitTrade, At
<1>2. e.buy = pl.buy /\ e.qty = pl.got /\ e.open
  OBVIOUS
<1> HIDE DEF e
<1>3. pl.pc \in Buying \ {"buy"} /\ pl.pc \in Counted
  BY <1>1 DEF Counted, Bought, Buying
<1>4. pl.cur \in Leads /\ NoTradeFor(pl.cur) /\ ~Blocked(pl.cur) /\ LeadOf(e) = pl.cur
  BY <1>2, <1>3, InHand DEF BuyingOK, LeadOf
<1>5. \A t : LeadOf(t)' = LeadOf(t)
  BY <1>1 DEF LeadOf
<1>6. \A l \in pl.skipped : NoTradeFor(l) /\ l # pl.cur
  BY DEF LeadsOK
<1>7. /\ \A l \in Leads : l \notin pl.skipped \cup {pl.cur} => lead'[l] = lead[l]
      /\ \A l \in Leads : l \in pl.skipped => lead'[l] = "skipped"
      /\ lead'[pl.cur] = "picked"
  BY <1>1, <1>4, <1>6 DEF CommitLeads
<1>8. TradesOK'
  <2>1. \A t \in trades' : t.buy \in 1..Len(buys)
    BY <1>1, <1>2, <1>3, InHand DEF TradesOK
  <2>2. \A t \in trades : lead'[LeadOf(t)] \in {"picked", "placed", "deleted"}
    BY <1>4, <1>6, <1>7, LeadOfType DEF TradesOK, NoTradeFor
  <2>3. \A t \in trades' : lead'[LeadOf(t)] \in {"picked", "placed", "deleted"}
    BY <1>1, <1>4, <1>7, <2>2
  <2> QED
    BY <1>1, <1>5, <2>1, <2>3 DEF TradesOK
<1>9. TradeBacked'
  <2>1. e.qty <= buys[e.buy].filled
    BY <1>2, <1>3 DEF OrdersOK
  <2>2. /\ \E s \in sells : s.buy = e.buy /\ s.kind = "sl" /\ s.qty = e.qty
        /\ \A s \in sells : s.buy = e.buy => s.qty = e.qty
    BY <1>1, <1>2 DEF OrdersOK
  <2> QED
    BY <1>1, <2>1, <2>2 DEF TradeBacked
<1>10. OneOpenPerUnderlying'
  BY <1>1, <1>4, <1>5 DEF OneOpenPerUnderlying, Blocked
<1>11. AcceptedIffTraded'
  <2>1. \A l \in Leads : Accepted(l)' => \E t \in trades' : LeadOf(t) = l
    <3>1. SUFFICES ASSUME NEW l \in Leads, Accepted(l)', l # pl.cur
                   PROVE  \E t \in trades' : LeadOf(t) = l
      BY <1>1, <1>4
    <3>2. l \notin pl.skipped
      BY <1>7, <3>1 DEF Accepted
    <3>3. Accepted(l)
      BY <1>7, <3>1, <3>2 DEF Accepted
    <3> QED
      BY <1>1, <3>3 DEF AcceptedIffTraded
  <2>2. \A l \in Leads : \A t, u \in trades' : LeadOf(t) = l /\ LeadOf(u) = l => t = u
    BY <1>1, <1>4 DEF AcceptedIffTraded, NoTradeFor
  <2> QED
    BY <1>5, <2>1, <2>2 DEF AcceptedIffTraded
<1>12. /\ pl'.pc = "mark" /\ pl'.skipped = {} /\ pl'.cur = pl.cur
       /\ pl'.todo = pl.todo /\ pl'.buy = pl.buy
  BY PlFields DEF CommitTrade, Placer
<1>13. \A l \in pl.todo : NoTradeFor(l)'
  BY <1>1, <1>4, <1>5 DEF LeadsOK, NoTradeFor
<1>14. LeadsOK'
  BY <1>12, <1>13 DEF LeadsOK
<1>15. "mark" \notin Buying /\ "mark" \in Bought /\ "mark" \notin Counted
  BY DEF Buying, Bought, Counted
<1>16. BuyingOK'
  BY <1>1, <1>4, <1>5, <1>12, <1>15 DEF BuyingOK
<1>17. OrdersOK'
  BY <1>1, <1>3, <1>12, <1>15, InHand DEF OrdersOK
<1> QED
  BY <1>8, <1>9, <1>10, <1>11, <1>14, <1>16, <1>17 DEF Keeps, TradesAreRight, PlacerIsRight

LEMMA MarkKeeps == ASSUME IInv, MarkPlaced PROVE Keeps
<1> USE DEF IInv
<1>1. BuysStep /\ UNCHANGED <<trades, buys, sells, locked>> /\ pl.pc = "mark" /\ pl' = NextLead
  BY MarkType DEF MarkPlaced, At
<1>2. pl.cur \in Leads /\ ~NoTradeFor(pl.cur)
  BY <1>1 DEF OrdersOK, BuyingOK, Bought, NoTradeFor
<1>3. LeadMoves
  BY <1>1, <1>2 DEF MarkPlaced, LeadMoves, TypeOK
<1>4. TradesAreRight'
  BY <1>1, <1>3, TradesKept DEF SellsGrow, TradesAreRight
<1>5. /\ pl'.pc = "next" /\ pl'.cur = NoLead /\ pl'.todo = pl.todo
      /\ pl'.skipped = pl.skipped
  BY <1>1, NextLeadType
<1>6. pl.todo \subseteq Leads /\ pl.skipped \subseteq Leads
  BY PlFields
<1>7. LeadsOK'
  BY <1>1, <1>5, <1>6, StillNone, LeadsAssumption DEF LeadsOK
<1>8. "next" \notin Buying \cup Bought \cup Counted
  BY DEF Buying, Bought, Counted
<1>9. BuyingOK' /\ OrdersOK'
  BY <1>5, <1>8 DEF BuyingOK, OrdersOK
<1> QED
  BY <1>4, <1>7, <1>9 DEF Keeps, PlacerIsRight

LEMMA EndKeeps == ASSUME IInv, TickEnd PROVE Keeps
<1> USE DEF IInv
<1>1. BuysStep /\ UNCHANGED <<trades, buys, sells>> /\ pl' = Idle /\ lead' = CommitLeads
  BY EndType DEF TickEnd
<1>2. pl.cur = NoLead
  BY DEF TickEnd, At, LeadsOK
<1>3. \A l \in pl.skipped : NoTradeFor(l)
  BY DEF LeadsOK
<1>4. LeadMoves
  BY <1>1, <1>2, <1>3, LeadsAssumption DEF LeadMoves, CommitLeads
<1>5. TradesAreRight'
  BY <1>1, <1>4, TradesKept DEF SellsGrow, TradesAreRight
<1> QED
  BY <1>1, <1>5, IdleIsRight DEF Keeps

-----------------------------------------------------------------------------
(* Induction *)

LEMMA InitInv == Init => IInv
<1> SUFFICES ASSUME Init PROVE IInv
  OBVIOUS
<1>1. TypeOK
  <2>1. buys \in Seq(Buy) /\ Len(buys) <= MaxBuys
    BY EmptySeq, BoundsAssumption DEF Init
  <2>2. lead \in [Leads -> LeadStatus]
    BY DEF Init, LeadStatus
  <2>3. pl \in Placer
    BY IdleType DEF Init
  <2>4. disturbed \in 0..MaxDisturbances
    BY BoundsAssumption DEF Init
  <2>5. trades = {} /\ sells = {} /\ killed = FALSE /\ window = TRUE /\ locked = FALSE /\ kill = "ready"
    BY DEF Init
  <2> QED
    BY <2>1, <2>2, <2>3, <2>4, <2>5 DEF TypeOK
<1>2. TradesOK /\ TradeBacked /\ OneOpenPerUnderlying /\ AcceptedIffTraded
  BY DEF Init, TradesOK, TradeBacked, OneOpenPerUnderlying, AcceptedIffTraded, Accepted
<1>3. pl.pc = "idle" /\ pl.todo = {} /\ pl.skipped = {} /\ pl.cur = NoLead
  BY DEF Init, Idle
<1>4. "idle" \notin Buying \cup Bought \cup Counted
  BY DEF Buying, Bought, Counted
<1>5. LeadsOK /\ BuyingOK /\ OrdersOK
  BY <1>3, <1>4 DEF LeadsOK, BuyingOK, OrdersOK
<1> QED
  BY <1>1, <1>2, <1>5 DEF IInv

LEMMA Inductive == ASSUME IInv, [Next]_vars PROVE IInv'
<1>1. TypeOK'
  BY TypeStep
<1>2. CASE Next
  <2>1. CASE World
    BY <1>1, <2>1, WorldKeeps DEF IInv, TradesAreRight, PlacerIsRight
  <2>2. CASE PlacerStep
    <3>1. Keeps
      BY <2>2, BeginKeeps, ListKeeps, PickKeeps, BuyKeeps, WaitKeeps, CheckKeeps, CancelKeeps,
         ProtectKeeps, VerifyKeeps, DefendKeeps, CommitKeeps, MarkKeeps, EndKeeps DEF PlacerStep
    <3> QED
      BY <1>1, <3>1 DEF Keeps, IInv, TradesAreRight, PlacerIsRight
  <2> QED
    BY <1>2, <2>1, <2>2 DEF Next
<1>3. CASE UNCHANGED vars
  <2>1. TradesOK' /\ TradeBacked' /\ OneOpenPerUnderlying' /\ AcceptedIffTraded'
    BY <1>3 DEF vars, IInv, TradesOK, TradeBacked, OneOpenPerUnderlying, AcceptedIffTraded,
       Accepted, LeadOf
  <2>2. LeadsOK' /\ BuyingOK' /\ OrdersOK'
    BY <1>3 DEF vars, IInv, LeadsOK, BuyingOK, OrdersOK, NoTradeFor, Blocked, LeadOf
  <2> QED
    BY <1>1, <2>1, <2>2 DEF IInv
<1> QED
  BY <1>2, <1>3

LEMMA Invariant == Spec => []IInv
BY InitInv, Inductive, PTL DEF Spec

\* The variables keep their types: the placer's record, the order book and the
\* rows of the database (order_placer.py).
THEOREM EntryTypeCorrect == Spec => []TypeOK
<1>1. IInv => TypeOK
  BY DEF IInv
<1> QED
  BY <1>1, Invariant, PTL

\* The placer never has two trades open on one underlying: the write lock taken
\* by the flush of a picked lead makes has_open_trade_for_underlying hold until
\* the commit.
THEOREM OneOpen == Spec => []OneOpenPerUnderlying
<1>1. IInv => OneOpenPerUnderlying
  BY DEF IInv
<1> QED
  BY <1>1, Invariant, PTL

\* Every committed trade is covered by what its BUY filled and by a stop-loss of
\* its size, and no sale of another size was placed for it.
THEOREM Backed == Spec => []TradeBacked
<1>1. IInv => TradeBacked
  BY DEF IInv
<1> QED
  BY <1>1, Invariant, PTL

\* A lead is accepted only by the commit of its trade, and no lead is traded
\* twice, although it is marked placed in a session of its own.
THEOREM TradedOnce == Spec => []AcceptedIffTraded
<1>1. IInv => AcceptedIffTraded
  BY DEF IInv
<1> QED
  BY <1>1, Invariant, PTL

-----------------------------------------------------------------------------
(* EntryPlacement implements LeadDesk. *)

\* What the tick has listed, marked or taken is still queued when it commits: a
\* lead marked or taken is deleted by nobody else while the lock is held.
HeldOK ==
    /\ pl.skipped # {} => locked
    /\ \A l \in pl.todo : lead[l] \in {"queued", "deleted"}
    /\ \A l \in pl.skipped : lead[l] = "queued"
    /\ pl.pc \in Buying => lead[pl.cur] = "queued"
    /\ pl.pc = "mark" => lead[pl.cur] \in {"picked", "deleted"}

DInv == IInv /\ HeldOK

LEMMA InitHeld == Init => HeldOK
<1> SUFFICES ASSUME Init PROVE HeldOK
  OBVIOUS
<1>1. pl.pc = "idle" /\ pl.todo = {} /\ pl.skipped = {}
  BY DEF Init, Idle
<1>2. "idle" \notin Buying
  BY DEF Buying
<1> QED
  BY <1>1, <1>2 DEF HeldOK

\* A lead that a rollback, a crash or the end of a tick lets go is no concern.
LEMMA IdleHolds == ASSUME pl' = Idle PROVE HeldOK'
<1>1. pl'.pc = "idle" /\ pl'.todo = {} /\ pl'.skipped = {}
  BY DEF Idle
<1>2. "idle" \notin Buying
  BY DEF Buying
<1> QED
  BY <1>1, <1>2 DEF HeldOK

LEMMA SkipHolds ==
    ASSUME DInv, pl.pc \in Buying, UNCHANGED <<lead, locked>>, SkipLead
    PROVE  HeldOK'
<1> USE DEF DInv, IInv
<1>1. pl.cur \in Leads /\ locked /\ lead[pl.cur] = "queued"
  BY DEF BuyingOK, HeldOK
<1>2. pl'.pc = "next" /\ pl'.todo = pl.todo /\ pl'.skipped = pl.skipped \cup {pl.cur}
  BY <1>1, SkipType
<1>3. "next" \notin Buying
  BY DEF Buying
<1> QED
  BY <1>1, <1>2, <1>3 DEF HeldOK

\* The steps in which the placer keeps the lead it has taken.
LEMMA StayHolds ==
    ASSUME DInv, UNCHANGED <<lead, locked>>, pl.pc \in Buying, pl'.pc \in Buying,
           pl'.cur = pl.cur, pl'.todo = pl.todo, pl'.skipped = pl.skipped
    PROVE  HeldOK'
<1>1. "mark" \notin Buying
  BY DEF Buying
<1> QED
  BY <1>1 DEF DInv, HeldOK

LEMMA GotoHolds ==
    ASSUME DInv, UNCHANGED <<lead, locked>>, pl.pc \in Buying, NEW pc \in Buying, Goto(pc)
    PROVE  HeldOK'
<1>1. pc \in PlacerPc
  BY DEF Buying, PlacerPc
<1> QED
  BY <1>1, GotoType, StayHolds DEF DInv, IInv

LEMMA WorldHolds == ASSUME DInv, World PROVE HeldOK'
<1> USE DEF DInv, IInv, Market, Unlocked
<1>1. CASE UNCHANGED <<lead, locked, pl>>
  BY <1>1 DEF HeldOK
<1>2. CASE \E o \in 1..Len(buys) : RejectBuy(o) \/ \E n \in 1..Qty : FillBuy(o, n)
  BY <1>1, <1>2 DEF RejectBuy, FillBuy
<1>3. CASE \E t \in trades : TradeCloses(t)
  BY <1>1, <1>3 DEF TradeCloses
<1>4. ASSUME NEW l \in Leads, DeleteLead(l) PROVE HeldOK'
  <2>1. ~locked /\ UNCHANGED <<locked, pl>> /\ lead' = [lead EXCEPT ![l] = "deleted"]
    BY <1>4 DEF DeleteLead
  <2>2. pl.skipped = {} /\ pl.pc \notin Buying
    BY <2>1 DEF HeldOK, BuyingOK
  <2>3. \A k \in Leads : lead'[k] = lead[k] \/ lead'[k] = "deleted"
    BY <2>1 DEF TypeOK
  <2>4. pl.todo \subseteq Leads /\ (pl.pc = "mark" => pl.cur \in Leads)
    BY PlFields DEF OrdersOK, Bought
  <2> QED
    BY <2>1, <2>2, <2>3, <2>4 DEF HeldOK
<1>5. CASE WindowCloses \/ KillActivate \/ KillBusy
  BY <1>1, <1>5 DEF WindowCloses, KillActivate, KillBusy
<1>6. CASE Crash
  BY <1>6, IdleHolds DEF Crash
<1> QED
  BY <1>2, <1>3, <1>4, <1>5, <1>6 DEF World

LEMMA PickHolds == ASSUME DInv, NEW l \in pl.todo, Pick(l) PROVE HeldOK'
<1> DEFINE picked == [pl EXCEPT !.cur = l, !.todo = @ \ {l}]
<1> USE DEF DInv, IInv
<1>1. UNCHANGED lead
  BY DEF Pick, GiveUp
<1>2. CASE GiveUp
  BY <1>2, IdleHolds DEF GiveUp
<1>3. CASE lead[l] # "deleted" /\ locked'
           /\ \/ pl' = [picked EXCEPT !.cur = NoLead, !.skipped = @ \cup {l}]
              \/ pl' = [picked EXCEPT !.pc = "buy"]
  <2>1. lead[l] = "queued" /\ pl.pc = "next"
    BY <1>3 DEF HeldOK, Pick, At
  <2>2. /\ pl'.todo = pl.todo \ {l}
        /\ \/ pl'.pc = "next" /\ pl'.skipped = pl.skipped \cup {l}
           \/ pl'.pc = "buy" /\ pl'.skipped = pl.skipped /\ pl'.cur = l
    BY <1>3, <2>1, PlFields DEF Placer
  <2>3. "next" \notin Buying /\ "buy" \in Buying
    BY DEF Buying
  <2> QED
    BY <1>1, <1>3, <2>1, <2>2, <2>3 DEF HeldOK
<1> QED
  BY <1>2, <1>3 DEF Pick

LEMMA CommitHolds == ASSUME DInv, CommitTrade PROVE HeldOK'
<1> USE DEF DInv, IInv
<1>1. pl.pc = "commit" /\ lead' = CommitLeads
  BY DEF CommitTrade, At
<1>2. /\ pl'.pc = "mark" /\ pl'.skipped = {} /\ pl'.cur = pl.cur /\ pl'.todo = pl.todo
  BY PlFields DEF CommitTrade, Placer
<1>3. pl.cur \in Leads /\ pl.cur \notin pl.skipped /\ pl.todo \subseteq Leads
  BY <1>1, PlFields DEF BuyingOK, Buying, LeadsOK
<1>4. \A l \in pl.todo : lead'[l] = lead[l]
  BY <1>1, <1>3 DEF CommitLeads, LeadsOK
<1>5. lead'[pl.cur] = "picked"
  BY <1>1, <1>3 DEF CommitLeads
<1>6. "mark" \notin Buying
  BY DEF Buying
<1> QED
  BY <1>2, <1>4, <1>5, <1>6 DEF HeldOK

LEMMA MarkHolds == ASSUME DInv, MarkPlaced PROVE HeldOK'
<1> USE DEF DInv, IInv
<1>1. pl.pc = "mark" /\ pl' = NextLead /\ pl.skipped = {}
  BY DEF MarkPlaced, At, BuyingOK
<1>2. pl'.pc = "next" /\ pl'.todo = pl.todo /\ pl'.skipped = {} /\ pl.todo \subseteq Leads
  BY <1>1, NextLeadType, PlFields
<1>3. \A l \in Leads : lead'[l] = lead[l] \/ l = pl.cur
  BY DEF MarkPlaced, TypeOK
<1>4. pl.cur \notin pl.todo /\ "next" \notin Buying
  BY DEF LeadsOK, Buying
<1> QED
  BY <1>2, <1>3, <1>4 DEF HeldOK

LEMMA PlacerHolds == ASSUME DInv, PlacerStep PROVE HeldOK'
<1> USE DEF DInv, IInv
<1>1. CASE TickBegin
  <2>1. /\ pl'.pc = "list" /\ pl.pc = "idle" /\ pl'.todo = pl.todo /\ pl'.skipped = pl.skipped
    BY <1>1, GotoType DEF TickBegin, At, PlacerPc
  <2>2. UNCHANGED <<lead, locked>> /\ "list" \notin Buying
    BY <1>1 DEF TickBegin, Same, Buying
  <2> QED
    BY <2>1, <2>2 DEF HeldOK
<1>2. CASE TickList
  <2>1. /\ pl'.pc = "next" /\ pl'.skipped = pl.skipped
        /\ pl'.todo = {l \in Leads : lead[l] = "queued"}
    BY <1>2, PlFields DEF TickList, At, Placer
  <2>2. UNCHANGED <<lead, locked>> /\ "next" \notin Buying
    BY <1>2 DEF TickList, Same, Buying
  <2> QED
    BY <2>1, <2>2 DEF HeldOK
<1>3. CASE PlaceBuy
  <2>1. UNCHANGED <<lead, locked>> /\ pl.pc \in Buying
    BY <1>3 DEF PlaceBuy, At, Same, Buying
  <2>2. CASE SkipLead
    BY <2>1, <2>2, SkipHolds
  <2>3. CASE pl' = [pl EXCEPT !.pc = "wait", !.buy = Len(buys) + 1]
    <3>1. pl'.pc = "wait" /\ pl'.cur = pl.cur /\ pl'.todo = pl.todo /\ pl'.skipped = pl.skipped
      BY <2>3, PlFields DEF Placer
    <3>2. "wait" \in Buying
      BY DEF Buying
    <3> QED
      BY <2>1, <3>1, <3>2, StayHolds
  <2> QED
    BY <1>3, <2>2, <2>3 DEF PlaceBuy
<1>4. CASE WaitForFill
  <2>1. UNCHANGED <<lead, locked>> /\ pl.pc \in Buying
    BY <1>4 DEF WaitForFill, At, Same, Buying
  <2>2. ASSUME NEW pc \in {"check", "protect"}, NEW n \in {0, buys[pl.buy].filled},
               pl' = [pl EXCEPT !.pc = pc, !.got = n]
        PROVE  HeldOK'
    <3>1. pl'.pc = pc /\ pl'.cur = pl.cur /\ pl'.todo = pl.todo /\ pl'.skipped = pl.skipped
      BY <2>2, PlFields DEF Placer
    <3>2. pc \in Buying
      BY DEF Buying
    <3> QED
      BY <2>1, <3>1, <3>2, StayHolds
  <2> QED
    BY <1>4, <2>1, <2>2, SkipHolds, WaitEnds
<1>5. CASE CheckEntry \/ CancelEntry
  <2>1. UNCHANGED <<lead, locked>> /\ pl.pc \in Buying
    BY <1>5 DEF CheckEntry, CancelEntry, At, Same, Buying
  <2>2. SkipLead \/ Goto("protect") \/ Goto("cancel")
    BY <1>5 DEF CheckEntry, CancelEntry, AfterCancel
  <2>3. "protect" \in Buying /\ "cancel" \in Buying
    BY DEF Buying
  <2> QED
    BY <2>1, <2>2, <2>3, SkipHolds, GotoHolds
<1>6. CASE Protect \/ Verify \/ Defend
  <2>1. UNCHANGED <<lead, locked>> /\ pl.pc \in Buying
    BY <1>6 DEF Protect, Verify, Defend, At, Same, Buying
  <2>2. SkipLead \/ Goto("verify") \/ Goto("defend") \/ Goto("commit")
    BY <1>6 DEF Protect, Verify, Defend
  <2>3. "verify" \in Buying /\ "defend" \in Buying /\ "commit" \in Buying
    BY DEF Buying
  <2> QED
    BY <2>1, <2>2, <2>3, SkipHolds, GotoHolds
<1>7. CASE TickEnd
  BY <1>7, IdleHolds DEF TickEnd
<1> QED
  BY <1>1, <1>2, <1>3, <1>4, <1>5, <1>6, <1>7, PickHolds, CommitHolds, MarkHolds DEF PlacerStep

LEMMA DeskInvariant == Spec => []DInv
<1>1. Init => DInv
  BY InitInv, InitHeld DEF DInv
<1>2. DInv /\ [Next]_vars => DInv'
  <2> SUFFICES ASSUME DInv, [Next]_vars PROVE DInv'
    OBVIOUS
  <2>1. IInv'
    BY Inductive DEF DInv
  <2>2. HeldOK'
    <3>1. CASE UNCHANGED vars
      BY <3>1 DEF DInv, HeldOK, vars
    <3> QED
      BY <3>1, WorldHolds, PlacerHolds DEF Next
  <2> QED
    BY <2>1, <2>2 DEF DInv
<1> QED
  BY <1>1, <1>2, PTL DEF Spec

\* What the desk shows of a lead and of the trades made for it.
StatusOf(l) == IF Accepted(l) THEN "accepted" ELSE lead[l]
Mine(l) == {t \in trades : LeadOf(t) = l}
TradeShown(l) == IF Mine(l) = {} THEN "none"
                 ELSE IF \E t \in Mine(l) : t.open THEN "open" ELSE "closed"

LEMMA DeskShows ==
    /\ DeskStatus = [l \in Leads |-> StatusOf(l)]
    /\ DeskTrade = [l \in Leads |-> TradeShown(l)]
BY DEF DeskStatus, DeskTrade, StatusOf, TradeShown, Mine

LEMMA DeskShowsNext ==
    /\ DeskStatus' = [l \in Leads |-> StatusOf(l)']
    /\ DeskTrade' = [l \in Leads |-> TradeShown(l)']
BY DEF DeskStatus, DeskTrade, StatusOf, TradeShown, Mine

LEMMA SameMine ==
    ASSUME TradesOK, BuysStep, UNCHANGED trades, NEW l
    PROVE  TradeShown(l)' = TradeShown(l)
<1>1. \A t \in trades : LeadOf(t)' = LeadOf(t)
  BY SameLead
<1>2. Mine(l)' = Mine(l)
  BY <1>1 DEF Mine
<1> QED
  BY <1>2 DEF TradeShown

\* Orders, sales, the lock and the placer's place do not show.
LEMMA NothingShows ==
    ASSUME DInv, BuysStep, UNCHANGED trades, \A l \in Leads : StatusOf(l)' = StatusOf(l)
    PROVE  UNCHANGED Desk!deskVars
<1>1. \A l \in Leads : TradeShown(l)' = TradeShown(l)
  BY SameMine DEF DInv, IInv
<1>2. DeskStatus' = DeskStatus /\ DeskTrade' = DeskTrade
  BY <1>1, DeskShows, DeskShowsNext
<1> QED
  BY <1>2 DEF Desk!deskVars

LEMMA DeskStart == Init => Desk!DeskInit
<1> SUFFICES ASSUME Init PROVE Desk!DeskInit
  OBVIOUS
<1>1. \A l \in Leads : StatusOf(l) = "queued" /\ TradeShown(l) = "none"
  BY DEF Init, StatusOf, Accepted, TradeShown, Mine
<1>2. DeskStatus \in [Leads -> {"none", "queued"}] /\ DeskTrade = [l \in Leads |-> "none"]
  BY <1>1, DeskShows
<1> QED
  BY <1>2 DEF Desk!DeskInit

LEMMA DeleteShows == ASSUME DInv, NEW l \in Leads, DeleteLead(l) PROVE Desk!Delete({l})
<1> USE DEF DInv, IInv
<1>1. lead' = [lead EXCEPT ![l] = "deleted"] /\ UNCHANGED <<trades, buys>> /\ BuysStep
  BY BuysSame DEF DeleteLead, Unlocked
<1>2. \A k \in Leads : StatusOf(k)' = IF k \in {l} THEN "deleted" ELSE StatusOf(k)
  BY <1>1 DEF StatusOf, Accepted, TypeOK
<1>3. \A k \in Leads : TradeShown(k)' = TradeShown(k)
  BY <1>1, SameMine
<1>4. StatusOf(l) # "none"
  <2>1. lead[l] \in LeadStatus
    BY DEF TypeOK
  <2> QED
    BY <2>1 DEF StatusOf, LeadStatus
<1>5. DeskStatus' = [k \in Leads |-> IF k \in {l} THEN "deleted" ELSE DeskStatus[k]]
  BY <1>2, DeskShows, DeskShowsNext
<1>6. DeskTrade' = DeskTrade
  BY <1>3, DeskShows, DeskShowsNext
<1>7. \A k \in {l} : DeskStatus[k] # "none"
  BY <1>4, DeskShows
<1> QED
  BY <1>5, <1>6, <1>7 DEF Desk!Delete

\* The trade that closes is the only one of its lead.
LEMMA CloseShows == ASSUME DInv, NEW t \in trades, TradeCloses(t) PROVE Desk!Close(LeadOf(t))
<1> USE DEF DInv, IInv
<1> HIDE DEF Closed
<1>0. PICK l \in Leads : l = LeadOf(t)
  BY LeadOfType
<1>1. \A u \in trades : LeadOf(u) = l => u = t
  BY <1>0 DEF AcceptedIffTraded
<1>2. /\ UNCHANGED <<lead, buys>> /\ trades' = (trades \ {t}) \cup {Closed(t)}
      /\ Closed(t).buy = t.buy /\ Closed(t).open = FALSE
  BY ClosedTrade
<1>3. \A u : LeadOf(u)' = LeadOf(u)
  BY <1>2 DEF LeadOf
<1>4. LeadOf(Closed(t)) = l
  BY <1>0, <1>2 DEF LeadOf
<1>5. t.open
  BY DEF TradeCloses
<1>6. Mine(l) = {t} /\ Mine(l)' = {Closed(t)}
  BY <1>0, <1>1, <1>2, <1>3, <1>4 DEF Mine
<1>7. TradeShown(l) = "open" /\ TradeShown(l)' = "closed"
  BY <1>2, <1>5, <1>6 DEF TradeShown
<1>8. \A k \in Leads : k # l => TradeShown(k)' = TradeShown(k)
  <2>1. SUFFICES ASSUME NEW k \in Leads, k # l PROVE Mine(k)' = Mine(k)
    BY DEF TradeShown
  <2> QED
    BY <1>0, <1>2, <1>3, <1>4, <2>1 DEF Mine
<1>9. \A k \in Leads : StatusOf(k)' = StatusOf(k)
  BY <1>2 DEF StatusOf, Accepted
<1>10. DeskStatus' = DeskStatus
  BY <1>9, DeskShows, DeskShowsNext
<1>11. DeskTrade' = [DeskTrade EXCEPT ![l] = "closed"] /\ DeskTrade[l] = "open"
  BY <1>7, <1>8, DeskShows, DeskShowsNext
<1> QED
  BY <1>0, <1>10, <1>11 DEF Desk!Close

\* The trade's commit decides the lead in hand and those marked skipped before it.
LEMMA CommitShows ==
    ASSUME DInv, CommitTrade
    PROVE  pl.cur \in Leads /\ pl.skipped \subseteq Leads /\ Desk!Decide(pl.skipped, {pl.cur})
<1> DEFINE e == [buy |-> pl.buy, qty |-> pl.got, open |-> TRUE]
<1> USE DEF DInv, IInv
<1>1. UNCHANGED buys /\ lead' = CommitLeads /\ trades' = trades \cup {e} /\ pl.pc = "commit"
  BY DEF CommitTrade, At
<1>2. e.buy = pl.buy /\ e.open
  OBVIOUS
<1> HIDE DEF e
<1>3. pl.pc \in Buying \ {"buy"}
  BY <1>1 DEF Buying
<1>4. pl.cur \in Leads /\ NoTradeFor(pl.cur) /\ ~Blocked(pl.cur) /\ LeadOf(e) = pl.cur
  BY <1>2, <1>3, InHand DEF BuyingOK, LeadOf
<1>5. pl.skipped \subseteq Leads /\ pl.cur \notin pl.skipped
  BY PlFields DEF LeadsOK
<1>6. \A l \in pl.skipped \cup {pl.cur} : StatusOf(l) = "queued"
  BY <1>3 DEF HeldOK, StatusOf, Accepted
<1>7. \A l \in Leads : StatusOf(l)' = IF l \in pl.skipped THEN "skipped"
                                     ELSE IF l \in {pl.cur} THEN "accepted" ELSE StatusOf(l)
  BY <1>1 DEF CommitLeads, StatusOf, Accepted
<1>8. \A u : LeadOf(u)' = LeadOf(u)
  BY <1>1 DEF LeadOf
<1>0. PICK c \in Leads : c = pl.cur
  BY <1>4
<1>9. TradeShown(c)' = "open"
  <2>1. Mine(c)' = {e}
    BY <1>0, <1>1, <1>4, <1>8 DEF Mine, NoTradeFor
  <2> QED
    BY <1>2, <2>1 DEF TradeShown
<1>10. \A l \in Leads : l # pl.cur => TradeShown(l)' = TradeShown(l)
  <2>1. SUFFICES ASSUME NEW l \in Leads, l # pl.cur PROVE Mine(l)' = Mine(l)
    BY DEF TradeShown
  <2> QED
    BY <1>1, <1>4, <1>8, <2>1 DEF Mine
<1>11. \A m \in Leads : Underlying[m] = Underlying[pl.cur] => TradeShown(m) # "open"
  BY <1>4 DEF Blocked, TradeShown, Mine
<1>12. DeskStatus' = [l \in Leads |-> IF l \in pl.skipped THEN "skipped"
                                     ELSE IF l \in {pl.cur} THEN "accepted" ELSE DeskStatus[l]]
  BY <1>7, DeskShows, DeskShowsNext
<1>13. DeskTrade' = [l \in Leads |-> IF l \in {pl.cur} THEN "open" ELSE DeskTrade[l]]
  BY <1>0, <1>9, <1>10, DeskShows, DeskShowsNext
<1>14. \A l \in pl.skipped \cup {pl.cur} : DeskStatus[l] = "queued"
  BY <1>4, <1>5, <1>6, DeskShows
<1>15. \A m \in Leads : Underlying[m] = Underlying[pl.cur] => DeskTrade[m] # "open"
  BY <1>11, DeskShows
<1>16. Desk!Decide(pl.skipped, {pl.cur})
  BY <1>5, <1>12, <1>13, <1>14, <1>15 DEF Desk!Decide
<1> QED
  BY <1>4, <1>5, <1>16

LEMMA EndShows ==
    ASSUME DInv, TickEnd
    PROVE  pl.skipped \subseteq Leads /\ Desk!Decide(pl.skipped, {})
<1> USE DEF DInv, IInv
<1>1. BuysStep /\ UNCHANGED <<trades, buys>> /\ lead' = CommitLeads /\ pl.cur = NoLead
  BY EndType DEF TickEnd, At, LeadsOK
<1>2. pl.skipped \subseteq Leads
  BY PlFields
<1>3. \A l \in Leads : StatusOf(l)' = IF l \in pl.skipped THEN "skipped"
                                     ELSE IF l \in {} THEN "accepted" ELSE StatusOf(l)
  BY <1>1, LeadsAssumption DEF CommitLeads, StatusOf, Accepted
<1>4. \A l \in Leads : TradeShown(l)' = TradeShown(l)
  BY <1>1, SameMine
<1>5. \A l \in pl.skipped : StatusOf(l) = "queued"
  BY DEF HeldOK, StatusOf, Accepted
<1>6. DeskStatus' = [l \in Leads |-> IF l \in pl.skipped THEN "skipped"
                                    ELSE IF l \in {} THEN "accepted" ELSE DeskStatus[l]]
  BY <1>3, DeskShows, DeskShowsNext
<1>7. DeskTrade' = [l \in Leads |-> IF l \in {} THEN "open" ELSE DeskTrade[l]]
  BY <1>4, DeskShows, DeskShowsNext
<1>8. \A l \in pl.skipped \cup {} : DeskStatus[l] = "queued"
  BY <1>2, <1>5, DeskShows
<1>9. Desk!Decide(pl.skipped, {})
  BY <1>6, <1>7, <1>8 DEF Desk!Decide
<1> QED
  BY <1>2, <1>9

\* "picked" and "placed" look alike.
LEMMA MarkShows == ASSUME DInv, MarkPlaced PROVE UNCHANGED Desk!deskVars
<1> USE DEF DInv, IInv
<1>1. BuysStep /\ UNCHANGED trades /\ pl.pc = "mark"
  BY MarkType DEF MarkPlaced, At
<1>2. \/ lead' = lead
      \/ lead' = [lead EXCEPT ![pl.cur] = "placed"] /\ lead[pl.cur] = "picked"
  BY <1>1 DEF MarkPlaced, HeldOK
<1>3. \A l \in Leads : StatusOf(l)' = StatusOf(l)
  BY <1>2 DEF StatusOf, Accepted, TypeOK
<1> QED
  BY <1>1, <1>3, NothingShows

LEMMA DeskStep == DInv /\ [Next]_vars => [Desk!DeskNext]_(Desk!deskVars)
<1> SUFFICES ASSUME DInv, [Next]_vars
             PROVE  Desk!DeskNext \/ UNCHANGED Desk!deskVars
  OBVIOUS
<1>1. BuysStep
  BY TypeStep DEF DInv
<1>2. ASSUME UNCHANGED <<lead, trades>> PROVE UNCHANGED Desk!deskVars
  <2>1. \A l \in Leads : StatusOf(l)' = StatusOf(l)
    BY <1>2 DEF StatusOf, Accepted
  <2> QED
    BY <1>1, <1>2, <2>1, NothingShows
<1>3. ASSUME NEW t \in trades, TradeCloses(t) PROVE Desk!DeskNext
  <2>1. LeadOf(t) \in Leads
    BY LeadOfType DEF DInv, IInv
  <2> QED
    BY <1>3, <2>1, CloseShows DEF Desk!DeskNext
<1>4. ASSUME NEW l \in Leads, DeleteLead(l) PROVE Desk!DeskNext
  BY <1>4, DeleteShows, {l} \in SUBSET Leads DEF Desk!DeskNext
<1>5. CASE World
  <2>1. CASE \E o \in 1..Len(buys) : RejectBuy(o) \/ \E n \in 1..Qty : FillBuy(o, n)
    BY <1>2, <2>1 DEF RejectBuy, FillBuy, Market
  <2>2. CASE WindowCloses \/ KillActivate \/ KillBusy \/ Crash
    BY <1>2, <2>2 DEF WindowCloses, KillActivate, KillBusy, Crash
  <2> QED
    BY <1>3, <1>4, <1>5, <2>1, <2>2 DEF World
<1>6. CASE CommitTrade
  <2>1. {pl.cur} \in SUBSET Leads /\ pl.skipped \in SUBSET Leads /\ Desk!Decide(pl.skipped, {pl.cur})
    BY <1>6, CommitShows
  <2> QED
    BY <2>1, Zenon DEF Desk!DeskNext
<1>7. CASE TickEnd
  <2>1. {} \in SUBSET Leads /\ pl.skipped \in SUBSET Leads /\ Desk!Decide(pl.skipped, {})
    BY <1>7, EndShows
  <2> QED
    BY <2>1, Zenon DEF Desk!DeskNext
<1>8. CASE MarkPlaced
  BY <1>8, MarkShows
<1>9. CASE \/ TickBegin \/ TickList \/ PlaceBuy \/ WaitForFill \/ CheckEntry \/ CancelEntry
           \/ Protect \/ Verify \/ Defend \/ \E l \in pl.todo : Pick(l)
  BY <1>2, <1>9 DEF TickBegin, TickList, PlaceBuy, WaitForFill, CheckEntry, CancelEntry,
     Protect, Verify, Defend, Pick, GiveUp, Same
<1>10. CASE UNCHANGED vars
  BY <1>2, <1>10 DEF vars
<1> QED
  BY <1>5, <1>6, <1>7, <1>8, <1>9, <1>10 DEF Next, PlacerStep

\* Whatever the placer, the broker and the other writers do in between, to the
\* tables a lead is decided once and accepted together with its one trade, on an
\* underlying without another: process_lead implements LeadDesk.
THEOREM DeskRefined == Spec => DeskAsPromised
<1>1. Init => Desk!DeskInit
  BY DeskStart
<1>2. DInv /\ [Next]_vars => [Desk!DeskNext]_(Desk!deskVars)
  BY DeskStep
<1>3. Spec => Desk!DeskInit /\ [][Desk!DeskNext]_(Desk!deskVars)
  BY <1>1, <1>2, DeskInvariant, PTL DEF Spec
<1> QED
  BY <1>3 DEF DeskAsPromised, Desk!DeskSpec
=============================================================================
