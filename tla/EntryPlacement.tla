--------------------------- MODULE EntryPlacement ---------------------------
(***************************************************************************)
(* From a queued lead to an open trade: the order placer's tick            *)
(* (app/scheduler/order_placer.py) beside the broker, the killswitch and   *)
(* whoever deletes leads.  A tick checks the killswitch, lists the queued  *)
(* leads, and takes them one by one: BUY, wait for the fill, cancel what   *)
(* did not fill, place the stop-loss, verify it, commit the trade, mark    *)
(* the lead in a session of its own.                                       *)
(*                                                                         *)
(* The session's first flush takes SQLite's write lock, and the lock is    *)
(* held, across every broker call, until the next commit.                  *)
(*                                                                         *)
(* Leads are taken in any order: the ranking only decides which goes       *)
(* first.  How a trade goes on and closes is TradeExit's and StopLoss's;   *)
(* here it closes in one step.                                             *)
(*                                                                         *)
(* What may go wrong is the set Disturbances, at most MaxDisturbances      *)
(* times:                                                                  *)
(*   "read"    get_order_book raises                                       *)
(*   "price"   a fill without a price: neither get_trades_by_order nor the *)
(*             order tells it                                              *)
(*   "cancel"  cancel_order raises and the BUY stays live                  *)
(*   "place"   the broker refuses an order                                 *)
(*   "lost"    place_order raises although the broker has taken the order  *)
(*   "reject"  the broker rejects or cancels a live BUY                    *)
(*   "verify"  the stop-loss at the broker is not as intended              *)
(*   "busy"    SQLite's busy timeout                                       *)
(*   "delete"  a lead is deleted by the cleanup job, the API or a new scan *)
(*   "crash"   the process dies                                            *)
(***************************************************************************)
EXTENDS Integers, Sequences, FiniteSets

CONSTANTS Leads,
          NoLead,
          Underlying,       \* Underlying[l] is the underlying of lead l
          Qty,              \* units a BUY asks for
          MaxBuys,          \* bound on BUY orders
          Disturbances,
          MaxDisturbances

ASSUME LeadsAssumption == NoLead \notin Leads /\ Qty \in Nat \ {0}
ASSUME BoundsAssumption == MaxBuys \in Nat \ {0} /\ MaxDisturbances \in Nat

VARIABLES lead,        \* lead[l] is the committed status of lead l
          trades,      \* the committed trades
          buys,        \* BUY orders at the broker
          sells,       \* SELL orders the placer has placed
          killed,      \* a killswitch row is active
          kill,        \* the request that activates it
          window,      \* the trade placing window is open
          locked,      \* the placer's session holds the write lock
          pl,          \* the placer's place in its tick
          disturbed    \* disturbances so far

vars == <<lead, trades, buys, sells, killed, kill, window, locked, pl, disturbed>>

LeadStatus == {"queued", "picked", "placed", "skipped", "deleted"}
BuyIds == 0..MaxBuys          \* 0: none
Buy == [lead: Leads, filled: 0..Qty, status: {"live", "complete", "dead"}]
Sell == [buy: 1..MaxBuys, kind: {"sl", "sqoff"}, qty: 1..Qty]
Trade == [buy: 1..MaxBuys, qty: 1..Qty, open: BOOLEAN]
PlacerPc == {"idle", "list", "next", "buy", "wait", "check", "cancel",
             "protect", "verify", "defend", "commit", "mark"}
Placer == [pc: PlacerPc,
           todo: SUBSET Leads,      \* listed and not yet processed
           skipped: SUBSET Leads,   \* marked skipped, not committed
           cur: Leads \cup {NoLead},
           buy: BuyIds,
           got: 0..Qty]             \* filled quantity as last read
Idle == [pc |-> "idle", todo |-> {}, skipped |-> {}, cur |-> NoLead, buy |-> 0, got |-> 0]

Init ==
    /\ lead = [l \in Leads |-> "queued"]
    /\ trades = {}
    /\ buys = <<>>
    /\ sells = {}
    /\ killed = FALSE
    /\ kill = "ready"
    /\ window = TRUE
    /\ locked = FALSE
    /\ pl = Idle
    /\ disturbed = 0

Disturb(d) ==
    /\ d \in Disturbances
    /\ disturbed < MaxDisturbances
    /\ disturbed' = disturbed + 1
Calm == UNCHANGED disturbed

LeadOf(t) == buys[t.buy].lead

\* has_open_trade_for_underlying
NeverBlocked(l) == FALSE
Blocked(l) == \E t \in trades : t.open /\ Underlying[LeadOf(t)] = Underlying[l]

-----------------------------------------------------------------------------
(* The broker, the killswitch and the other writers *)

Market == UNCHANGED <<lead, trades, sells, killed, kill, window, locked, pl>>
Unlocked == ~locked /\ UNCHANGED <<buys, sells, window, locked, pl>>

FillBuy(o, n) ==
    /\ buys[o].status = "live"
    /\ buys[o].filled + n <= Qty
    /\ buys' = [buys EXCEPT ![o].filled = @ + n,
                            ![o].status = IF buys[o].filled + n = Qty THEN "complete" ELSE @]
    /\ Calm
    /\ Market

RejectBuy(o) ==
    /\ buys[o].status = "live"
    /\ Disturb("reject")
    /\ buys' = [buys EXCEPT ![o].status = "dead"]
    /\ Market

WindowCloses ==
    /\ window
    /\ window' = FALSE
    /\ Calm
    /\ UNCHANGED <<lead, trades, buys, sells, killed, kill, locked, pl>>

TradeCloses(t) ==
    /\ t.open
    /\ Unlocked
    /\ trades' = (trades \ {t}) \cup {[t EXCEPT !.open = FALSE]}
    /\ Calm
    /\ UNCHANGED <<lead, killed, kill>>

DeleteLead(l) ==
    /\ lead[l] # "deleted"
    /\ Unlocked
    /\ Disturb("delete")
    /\ lead' = [lead EXCEPT ![l] = "deleted"]
    /\ UNCHANGED <<trades, killed, kill>>

\* activate_killswitch: INSERT and commit.
KillActivate ==
    /\ kill = "ready"
    /\ Unlocked
    /\ killed' = TRUE
    /\ kill' = "done"
    /\ Calm
    /\ UNCHANGED <<lead, trades>>

\* ... or the busy timeout, while the placer's session keeps the lock.
KillBusy ==
    /\ kill = "ready"
    /\ locked
    /\ Disturb("busy")
    /\ kill' = "failed"
    /\ UNCHANGED <<lead, trades, buys, sells, killed, window, locked, pl>>

Crash ==
    /\ pl.pc # "idle"
    /\ Disturb("crash")
    /\ pl' = Idle
    /\ locked' = FALSE
    /\ UNCHANGED <<lead, trades, buys, sells, killed, kill, window>>

World ==
    \/ \E o \in 1..Len(buys) : RejectBuy(o) \/ \E n \in 1..Qty : FillBuy(o, n)
    \/ \E t \in trades : TradeCloses(t)
    \/ \E l \in Leads : DeleteLead(l)
    \/ WindowCloses \/ KillActivate \/ KillBusy \/ Crash

-----------------------------------------------------------------------------
(* run_order_placer and process_lead *)

At(pc) == pl.pc = pc /\ UNCHANGED <<killed, kill, window>>
Same == UNCHANGED <<lead, trades, locked>>
Goto(pc) == pl' = [pl EXCEPT !.pc = pc]
NextLead == [pl EXCEPT !.pc = "next", !.cur = NoLead, !.buy = 0, !.got = 0]
\* The lead is marked skipped in the session, by process_lead or by the handler
\* of its exception.
SkipForgotten == pl' = NextLead
SkipLead == pl' = [NextLead EXCEPT !.skipped = @ \cup {pl.cur}]
\* The session is rolled back and the tick given up.
GiveUp == pl' = Idle /\ locked' = FALSE /\ UNCHANGED <<lead, trades>>

TickBegin ==
    /\ At("idle")
    /\ window
    /\ ~killed
    /\ Goto("list")
    /\ Calm
    /\ Same
    /\ UNCHANGED <<buys, sells>>

TickList ==
    /\ At("list")
    /\ pl' = [pl EXCEPT !.pc = "next", !.todo = {l \in Leads : lead[l] = "queued"}]
    /\ Calm
    /\ Same
    /\ UNCHANGED <<buys, sells>>

\* The lead is marked picked, and the query for open trades flushes that: the
\* flush takes the lock, or times out, or finds the lead gone.  Then the price,
\* the expiry, the contract and the margin may each rule it out.
Pick(l) ==
    LET picked == [pl EXCEPT !.cur = l, !.todo = @ \ {l}]
    IN  /\ At("next")
        /\ UNCHANGED <<buys, sells>>
        /\ \/ lead[l] = "deleted" /\ Calm /\ GiveUp
           \/ ~locked /\ Disturb("busy") /\ GiveUp
           \/ /\ lead[l] # "deleted"
              /\ Calm
              /\ locked' = TRUE
              /\ UNCHANGED <<lead, trades>>
              /\ \/ pl' = [picked EXCEPT !.cur = NoLead, !.skipped = @ \cup {l}]
                 \/ ~Blocked(l) /\ pl' = [picked EXCEPT !.pc = "buy"]

PlaceBuy ==
    /\ At("buy")
    /\ Same
    /\ UNCHANGED sells
    /\ LET placed == /\ Len(buys) < MaxBuys
                     /\ buys' = Append(buys, [lead |-> pl.cur, filled |-> 0, status |-> "live"])
       IN  \/ placed /\ Calm /\ pl' = [pl EXCEPT !.pc = "wait", !.buy = Len(buys) + 1]
           \/ placed /\ Disturb("lost") /\ SkipLead
           \/ Disturb("place") /\ UNCHANGED buys /\ SkipLead

\* _wait_for_fill: the poll that ends the wait.  A read that raises leaves
\* process_lead at once, and a fill without a price is taken for none.
AskedQty(o) == Qty
FilledQty(o) == buys[o].filled
WaitForFill ==
    LET b == buys[pl.buy]
        Got(pc, n) == pl' = [pl EXCEPT !.pc = pc, !.got = n]
        NoPrice == b.filled > 0 /\ Disturb("price")
    IN  /\ At("wait")
        /\ Same
        /\ UNCHANGED <<buys, sells>>
        /\ \/ b.status = "live" /\ Calm /\ Got("check", FilledQty(pl.buy))
           \/ b.status = "live" /\ NoPrice /\ Got("check", 0)
           \/ b.status # "live" /\ b.filled > 0 /\ Calm /\ Got("protect", FilledQty(pl.buy))
           \/ b.status # "live" /\ b.filled = 0 /\ Calm /\ SkipLead
           \/ b.status # "live" /\ NoPrice /\ SkipLead
           \/ Disturb("read") /\ SkipLead

\* _safe_cancel_if_open: look, then cancel.  Afterwards a BUY without fills is
\* given up, and a partial one goes on with the quantity read before.
GoOn == Goto("protect")
AfterCancel == IF pl.got = 0 THEN SkipLead ELSE Goto("protect")
CheckEntry ==
    /\ At("check")
    /\ Same
    /\ UNCHANGED <<buys, sells>>
    /\ \/ buys[pl.buy].status = "live" /\ Calm /\ Goto("cancel")
       \/ buys[pl.buy].status # "live" /\ Calm /\ AfterCancel
       \/ Disturb("read") /\ AfterCancel

CancelEntry ==
    /\ At("cancel")
    /\ Same
    /\ UNCHANGED sells
    /\ \/ /\ Calm
          /\ IF buys[pl.buy].status = "live"
               THEN buys' = [buys EXCEPT ![pl.buy].status = "dead"]
               ELSE UNCHANGED buys
       \/ Disturb("cancel") /\ UNCHANGED buys
    /\ AfterCancel

PlaceSell(kind) == sells' = sells \cup {[buy |-> pl.buy, kind |-> kind, qty |-> pl.got]}

Protect ==
    /\ At("protect")
    /\ Same
    /\ UNCHANGED buys
    /\ \/ PlaceSell("sl") /\ Calm /\ Goto("verify")
       \/ PlaceSell("sl") /\ Disturb("lost") /\ Goto("defend")
       \/ Disturb("place") /\ UNCHANGED sells /\ Goto("defend")

\* verify_sl_placed: a failed read counts as a mismatch.
Verify ==
    /\ At("verify")
    /\ Same
    /\ UNCHANGED <<buys, sells>>
    /\ \/ Calm /\ Goto("commit")
       \/ (Disturb("verify") \/ Disturb("read")) /\ Goto("defend")

Defend ==
    /\ At("defend")
    /\ Same
    /\ UNCHANGED buys
    /\ SkipLead
    /\ \/ PlaceSell("sqoff") /\ Calm
       \/ Disturb("place") /\ UNCHANGED sells

\* What a commit of the placer's session does to the leads.
CommitTradeOnly == [l \in Leads |-> IF l \in pl.skipped THEN "skipped" ELSE lead[l]]
CommitLeads ==
    [l \in Leads |-> IF l \in pl.skipped THEN "skipped"
                     ELSE IF l = pl.cur THEN "picked" ELSE lead[l]]

CommitTrade ==
    /\ At("commit")
    /\ trades' = trades \cup {[buy |-> pl.buy, qty |-> pl.got, open |-> TRUE]}
    /\ lead' = CommitLeads
    /\ locked' = FALSE
    /\ pl' = [pl EXCEPT !.pc = "mark", !.skipped = {}]
    /\ Calm
    /\ UNCHANGED <<buys, sells>>

\* The lead is marked placed in a session of its own, whose failure is only
\* logged.
MarkPlaced ==
    /\ At("mark")
    /\ pl' = NextLead
    /\ UNCHANGED <<trades, buys, sells, locked>>
    /\ \/ /\ lead[pl.cur] # "deleted"
          /\ Calm
          /\ lead' = [lead EXCEPT ![pl.cur] = "placed"]
       \/ lead[pl.cur] = "deleted" /\ Calm /\ UNCHANGED lead
       \/ Disturb("busy") /\ UNCHANGED lead

TickEnd ==
    /\ At("next")
    /\ pl.todo = {}
    /\ lead' = CommitLeads
    /\ locked' = FALSE
    /\ pl' = Idle
    /\ Calm
    /\ UNCHANGED <<trades, buys, sells>>

PlacerStep ==
    \/ TickBegin \/ TickList
    \/ \E l \in pl.todo : Pick(l)
    \/ PlaceBuy \/ WaitForFill \/ CheckEntry \/ CancelEntry
    \/ Protect \/ Verify \/ Defend \/ CommitTrade \/ MarkPlaced \/ TickEnd

Next == World \/ PlacerStep

Spec == Init /\ [][Next]_vars

\* The placer runs every 30 s (manager.py), and every wait in it is bounded.
FairSpec == Spec /\ WF_vars(PlacerStep)

-----------------------------------------------------------------------------
(* Properties *)

\* Every variable has its type.
TypeOK ==
    /\ lead \in [Leads -> LeadStatus]
    /\ trades \subseteq Trade
    /\ buys \in Seq(Buy) /\ Len(buys) <= MaxBuys
    /\ sells \subseteq Sell
    /\ killed \in BOOLEAN /\ window \in BOOLEAN /\ locked \in BOOLEAN
    /\ kill \in {"ready", "done", "failed"}
    /\ pl \in Placer
    /\ disturbed \in 0..MaxDisturbances

\* At most one open trade per underlying, whatever was rolled back, deleted or
\* bought again after a crash.
OneOpenPerUnderlying ==
    \A t, u \in trades :
        t.open /\ u.open /\ Underlying[LeadOf(t)] = Underlying[LeadOf(u)] => t = u

\* A trade is never larger than what its BUY filled, and its stop-loss is of the
\* same size: selling it cannot take the account short.
TradeBacked ==
    \A t \in trades :
        /\ t.qty <= buys[t.buy].filled
        /\ \E s \in sells : s.buy = t.buy /\ s.kind = "sl" /\ s.qty = t.qty
        /\ \A s \in sells : s.buy = t.buy => s.qty = t.qty

\* A lead is accepted exactly when a trade was committed for it, so that a tick
\* that starts over after a failure does not buy a lead that has its trade.
Accepted(l) == lead[l] \in {"picked", "placed"}
AcceptedIffTraded ==
    \A l \in Leads :
        /\ Accepted(l) => \E t \in trades : LeadOf(t) = l
        /\ \A t, u \in trades : LeadOf(t) = l /\ LeadOf(u) = l => t = u

\* The placement of a lead, with all its orders, commits and failures, is to the
\* tables one decision: nothing shows of a lead that was given up, rolled back or
\* overtaken by a crash, and no trade is seen without its lead's acceptance.
DeskStatus == [l \in Leads |-> IF Accepted(l) THEN "accepted" ELSE lead[l]]
DeskTrade ==
    [l \in Leads |-> LET mine == {t \in trades : LeadOf(t) = l}
                     IN  IF mine = {} THEN "none"
                         ELSE IF \E t \in mine : t.open THEN "open" ELSE "closed"]
Desk == INSTANCE LeadDesk WITH status <- DeskStatus, trade <- DeskTrade
DeskAsPromised == Desk!DeskSpec

\* A queued lead is eventually decided, unless the placer is halted.
LeadsAreDecided ==
    \A l \in Leads : (lead[l] = "queued") ~> (lead[l] # "queued" \/ killed \/ ~window)

-----------------------------------------------------------------------------
(* What the repository says and the code does not do *)

\* No unit is bought that no trade or defensive sale accounts for.
Covered(o) ==
    \/ \E t \in trades : t.buy = o /\ t.qty >= buys[o].filled
    \/ \E s \in sells : s.buy = o /\ s.kind = "sqoff" /\ s.qty >= buys[o].filled
NoOrphan == \A o \in 1..Len(buys) : buys[o].filled > 0 /\ pl.buy # o => Covered(o)

=============================================================================
