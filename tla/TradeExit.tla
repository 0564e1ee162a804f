----------------------------- MODULE TradeExit -----------------------------
(***************************************************************************)
(* How an open trade ends.  The trade tracker (app/scheduler/              *)
(* trade_tracker.py), the position reconciler (app/services/               *)
(* recon_service.py) and the killswitch (app/services/                     *)
(* killswitch_service.py) each read the trade row, talk to the broker for  *)
(* seconds, and write the row back, with no lock around the three.  Every  *)
(* broker call is a step of its own, so the broker, the user and the other *)
(* actors may act between any two of them.                                 *)
(*                                                                         *)
(* Prices are left to module StopLoss: a stop-loss fill, a trailing move   *)
(* and a rejection may happen whenever the broker could report them.       *)
(* Every trade has an instrument and one unit of quantity of its own.      *)
(*                                                                         *)
(* What the outside world may do to the program is the set Disturbances,   *)
(* at most MaxDisturbances of them in a behaviour:                         *)
(*   "read"    a read-only broker call raises                              *)
(*   "place"   place_order, modify_order or the LTP before it raises       *)
(*   "lost"    place_order raises although the broker took the order       *)
(*   "cancel"  cancel_order raises although the order was live             *)
(*   "reject"  the broker rejects or cancels a live stop-loss later on     *)
(*   "user"    the user sells the position in the broker's own UI          *)
(*   "session" the session end passes                                      *)
(*   "lock"    SQLite's 5 s busy timeout expires                           *)
(*   "crash"   the process dies and restarts                               *)
(***************************************************************************)
EXTENDS Integers, Sequences, FiniteSets

CONSTANTS Trades,          \* trades the order placer may open
          NoTrade,         \* "no current trade" of an idle actor
          Reconcilers,     \* threads that may run reconcile_open_trades
          KillThreads,     \* requests that activate the killswitch
          MaxOrders,       \* bound on SELL orders at the broker
          Disturbances,    \* see above
          MaxDisturbances  \* bound on them

ASSUME TradesAssumption == NoTrade \notin Trades
ASSUME BoundsAssumption == MaxOrders \in Nat /\ MaxDisturbances \in Nat

VARIABLES db,         \* trades table: the committed row of each trade
          book,       \* the broker's SELL orders, in order of placement
          pos,        \* units of each trade's option the account holds
          age,        \* how old the entry is, as positions and the clock see it
          clock,      \* "trading", then "ended" once session_end has passed
          disturbed,  \* disturbances so far
          locked,     \* the tracker's session holds SQLite's write lock
          tk,         \* the tracker's place in its tick
          base,       \* rows as the tracker's session loaded them
          work,       \* rows as its identity map has them now
          rc,         \* each reconciler
          ks          \* each killswitch request

vars == <<db, book, pos, age, clock, disturbed, locked, tk, base, work, rc, ks>>
trackerVars == <<tk, base, work, locked>>
worldVars == <<pos, age, clock>>

Causes == {"none", "sl_hit", "trailing_sl", "no_sl_sqoff", "sqoff_session",
           "recon_user_exit", "recon_user_sl_filled"}
OrderIds == 0..MaxOrders      \* 0 stands for sl_order_id = NULL

Row == [status: {"none", "open", "closed"},
        sl: OrderIds,
        stage: {"none", "sl_pending", "sl_active", "trailing", "exiting", "closed"},
        trail: BOOLEAN,       \* trail_state # "at_initial"
        cause: Causes]
SellOrder == [trade: Trades, kind: {"sl", "exit"},
              status: {"live", "complete", "dead"}]

NoRow == [status |-> "none", sl |-> 0, stage |-> "none", trail |-> FALSE,
          cause |-> "none"]
NewRow(o) == [status |-> "open", sl |-> o, stage |-> "sl_active",
              trail |-> FALSE, cause |-> "none"]

TrackerPc == {"idle", "pick", "sync", "ensure", "verify", "scrap", "defend",
              "settle", "trail", "reread", "position", "candidate",
              "sqCancel", "sqSell", "sqClose"}
TrackerState == [pc: TrackerPc, todo: SUBSET Trades, cur: Trades \cup {NoTrade},
                 ord: OrderIds,      \* the stop-loss being placed
                 moved: BOOLEAN,     \* modify_order returned normally
                 late: BOOLEAN]      \* the session had ended when the tick began
ReconState == [pc: {"idle", "next", "held", "candidate", "commit"},
               todo: SUBSET Trades, cur: Trades \cup {NoTrade}, base: Row, cause: Causes]
KillState == [pc: {"ready", "next", "cancel", "sell", "close", "done"},
              todo: SUBSET Trades, cur: Trades \cup {NoTrade}, base: Row]
TrackerIdle == [pc |-> "idle", todo |-> {}, cur |-> NoTrade, ord |-> 0,
                moved |-> FALSE, late |-> FALSE]
ReconIdle == [pc |-> "idle", todo |-> {}, cur |-> NoTrade, base |-> NoRow,
              cause |-> "none"]
KillReady == [pc |-> "ready", todo |-> {}, cur |-> NoTrade, base |-> NoRow]
KillDone == [KillReady EXCEPT !.pc = "done"]

Init ==
    /\ db = [t \in Trades |-> NoRow]
    /\ book = <<>>
    /\ pos = [t \in Trades |-> 0]
    /\ age = [t \in Trades |-> "fresh"]
    /\ clock = "trading"
    /\ disturbed = 0
    /\ locked = FALSE
    /\ tk = TrackerIdle
    /\ base = [t \in Trades |-> NoRow]
    /\ work = [t \in Trades |-> NoRow]
    /\ rc = [r \in Reconcilers |-> ReconIdle]
    /\ ks = [k \in KillThreads |-> KillReady]

-----------------------------------------------------------------------------
(* Shared pieces *)

Disturb(d) ==
    /\ d \in Disturbances
    /\ disturbed < MaxDisturbances
    /\ disturbed' = disturbed + 1
Calm == UNCHANGED disturbed

OpenTrades == {t \in Trades : db[t].status = "open"}

\* An UPDATE writes the columns the session changed since it loaded the row,
\* and no others: there is no version column.
MergeWholeRow(row, old, new) == IF new = old THEN row ELSE new
Merge(row, old, new) ==
    [status |-> IF new.status # old.status THEN new.status ELSE row.status,
     sl     |-> IF new.sl # old.sl THEN new.sl ELSE row.sl,
     stage  |-> IF new.stage # old.stage THEN new.stage ELSE row.stage,
     trail  |-> IF new.trail # old.trail THEN new.trail ELSE row.trail,
     cause  |-> IF new.cause # old.cause THEN new.cause ELSE row.cause]

\* close_trade on an in-memory row.
CloseTradeKilled(row, why) ==
    [row EXCEPT !.status = "killed", !.stage = "closed", !.cause = why]
CloseTradeStageOnly(row, why) == [row EXCEPT !.stage = "closed"]
CloseTrade(row, why) ==
    [row EXCEPT !.status = "closed", !.stage = "closed", !.cause = why]

\* What sync_order_status and the branches after it make of an order.
FilledOrDead(o) == book[o].status \in {"complete", "dead"}
Filled(o) == book[o].status = "complete"
NotFilled(o) == book[o].status # "complete"
NeverDead(o) == FALSE
Dead(o) == book[o].status = "dead"

\* place_order reaches the broker.
PlaceSell(t, kind) ==
    /\ Len(book) < MaxOrders
    /\ book' = Append(book, [trade |-> t, kind |-> kind, status |-> "live"])

\* cancel_order: only a live order can still be cancelled; the caller swallows
\* the error either way.
CancelSell(o) ==
    \/ /\ book' = IF o # 0 /\ book[o].status = "live"
                    THEN [book EXCEPT ![o].status = "dead"] ELSE book
       /\ Calm
    \/ /\ Disturb("cancel")
       /\ UNCHANGED book

\* _is_held: the positions API, or TRUE when it fails.  A fresh entry may not
\* have reached the positions API yet.
HeldOnErrorFalse == FALSE
HeldOnError == TRUE
IsHeldReads(t, held) ==
    \/ held = (pos[t] > 0 /\ age[t] # "fresh") /\ Calm
    \/ held = HeldOnError /\ Disturb("read")

OldEnough(t) == age[t] = "aged"

OwnFilled(sl) == sl # 0 /\ Filled(sl)
FilledSells(t) == {o \in 1..Len(book) : book[o].trade = t /\ Filled(o)}

\* closure_cause of a trade whose position is gone, from _candidate_exit and
\* its two callers: our own SL's fill is reported as "sl_hit"/"trailing_sl",
\* which neither caller maps to anything but recon_user_exit.
ReconCause(t, sl) ==
    IF ~OwnFilled(sl) /\ FilledSells(t) # {}
      THEN "recon_user_sl_filled" ELSE "recon_user_exit"
\* Without an order book there is no SELL to be found.
ReconCauseReads(t, sl, why) ==
    \/ why = ReconCause(t, sl) /\ Calm
    \/ why = "recon_user_exit" /\ Disturb("read")

SlCause(row) == IF row.trail THEN "trailing_sl" ELSE "sl_hit"

-----------------------------------------------------------------------------
(* The order placer commits a new trade (module EntryPlacement has the rest) *)

OpenTrade(t) ==
    /\ db[t].status = "none"
    /\ clock = "trading"
    /\ ~locked
    /\ PlaceSell(t, "sl")
    /\ db' = [db EXCEPT ![t] = NewRow(Len(book) + 1)]
    /\ pos' = [pos EXCEPT ![t] = 1]
    /\ Calm
    /\ UNCHANGED <<age, clock, trackerVars, rc, ks>>

-----------------------------------------------------------------------------
(* The broker, the user and the clock *)

Fill(o) ==
    /\ book[o].status = "live"
    /\ book' = [book EXCEPT ![o].status = "complete"]
    /\ pos' = [pos EXCEPT ![book[o].trade] = @ - 1]
    /\ Calm
    /\ UNCHANGED <<db, age, clock, trackerVars, rc, ks>>

Reject(o) ==
    /\ book[o].status = "live"
    /\ book[o].kind = "sl"
    /\ Disturb("reject")
    /\ book' = [book EXCEPT ![o].status = "dead"]
    /\ UNCHANGED <<db, worldVars, trackerVars, rc, ks>>

\* The user's order is not in the book, which is of the bot's orders; a fill of his
\* is told from a position that is gone by the label recon_user_sl_filled only.
UserExit(t) ==
    /\ pos[t] > 0
    /\ Disturb("user")
    /\ pos' = [pos EXCEPT ![t] = @ - 1]
    /\ UNCHANGED <<db, book, age, clock, trackerVars, rc, ks>>

\* The entry shows in get_positions before it is reconciler_min_age_minutes old.
GrowOlder(t) ==
    /\ db[t].status # "none"
    /\ \/ age[t] = "fresh" /\ age' = [age EXCEPT ![t] = "seen"]
       \/ age[t] = "seen" /\ age' = [age EXCEPT ![t] = "aged"]
    /\ Calm
    /\ UNCHANGED <<db, book, pos, clock, trackerVars, rc, ks>>

EndSession ==
    /\ clock = "trading"
    /\ Disturb("session")
    /\ clock' = "ended"
    /\ UNCHANGED <<db, book, pos, age, trackerVars, rc, ks>>

Crash ==
    /\ Disturb("crash")
    /\ tk' = TrackerIdle
    /\ base' = [t \in Trades |-> NoRow]
    /\ work' = [t \in Trades |-> NoRow]
    /\ locked' = FALSE
    /\ rc' = [r \in Reconcilers |-> ReconIdle]
    /\ ks' = [k \in KillThreads |-> IF ks[k].pc = "ready" THEN ks[k] ELSE KillDone]
    /\ UNCHANGED <<db, book, worldVars>>

World ==
    \/ \E t \in Trades : OpenTrade(t) \/ UserExit(t) \/ GrowOlder(t)
    \/ \E o \in 1..Len(book) : Fill(o) \/ Reject(o)
    \/ EndSession
    \/ Crash

-----------------------------------------------------------------------------
(* trade_tracker.run_trade_tracker / process_trade.  All the trades of a tick *)
(* share one session: their changes are committed together at its end.        *)

Cur == work[tk.cur]
Set(row) == work' = [work EXCEPT ![tk.cur] = row]
Goto(pc) == tk' = [tk EXCEPT !.pc = pc]
NextTrade == tk' = [tk EXCEPT !.pc = "pick", !.cur = NoTrade, !.ord = 0, !.moved = FALSE]
\* A flush takes the write lock; it stays until the tick's commit.
Flush == locked' = TRUE
\* The end of process_trade promotes the lifecycle stage.
Promote(row) ==
    IF row.trail /\ row.stage \in {"sl_active", "trailing"}
      THEN [row EXCEPT !.stage = "trailing"] ELSE row
Finish(row) == Set(Promote(row)) /\ NextTrade
Tracker(pc) == tk.pc = pc /\ UNCHANGED <<db, worldVars, rc, ks, base>>

TickBegin ==
    /\ tk.pc = "idle"
    /\ OpenTrades # {}
    /\ base' = [t \in Trades |-> IF t \in OpenTrades THEN db[t] ELSE NoRow]
    /\ work' = base'
    /\ tk' = [TrackerIdle EXCEPT !.pc = "pick", !.todo = OpenTrades, !.late = (clock = "ended")]
    /\ Calm
    /\ UNCHANGED <<db, book, worldVars, locked, rc, ks>>

TickPick(t) ==
    /\ Tracker("pick")
    /\ t \in tk.todo
    /\ UNCHANGED <<book, locked>>
    /\ \/ /\ tk.late
          /\ Calm
          /\ work' = [work EXCEPT ![t].stage = "exiting"]
          /\ tk' = [tk EXCEPT !.todo = @ \ {t}, !.cur = t,
                              !.pc = IF work[t].sl # 0 THEN "sqCancel" ELSE "sqSell"]
       \/ /\ ~tk.late
          /\ Calm
          /\ work' = [work EXCEPT ![t].stage = IF @ = "sl_pending" THEN "sl_active" ELSE @]
          /\ tk' = [tk EXCEPT !.todo = @ \ {t}, !.cur = t,
                              !.pc = IF work[t].sl # 0 THEN "sync" ELSE "ensure"]
       \/ /\ ~tk.late                     \* no LTP: the trade is skipped
          /\ Disturb("read")
          /\ tk' = [tk EXCEPT !.todo = @ \ {t}]
          /\ UNCHANGED work

\* sync_order_status on our stop-loss and the branches on its answer.
TickSync ==
    /\ Tracker("sync")
    /\ UNCHANGED book
    /\ \/ /\ Disturb("read")              \* get_order_book failed: "missing"
          /\ Set([Cur EXCEPT !.sl = 0])
          /\ Goto("ensure")
          /\ UNCHANGED locked
       \/ /\ Filled(Cur.sl)               \* _close_from_sl_fill
          /\ Flush
          /\ \/ Calm /\ Set(CloseTrade(Cur, SlCause(Cur)))
             \/ Disturb("read") /\ UNCHANGED work   \* fills or LTP raised
          /\ NextTrade
       \/ /\ Dead(Cur.sl)
          /\ Calm
          /\ Flush
          /\ Set([Cur EXCEPT !.sl = 0])
          /\ Goto("ensure")
       \/ /\ ~Filled(Cur.sl) /\ ~Dead(Cur.sl)
          /\ Calm
          /\ Flush
          /\ Goto("trail")
          /\ UNCHANGED work

\* place_initial_sl: place_stop_loss ...
TickEnsure ==
    /\ Tracker("ensure")
    /\ UNCHANGED <<work, locked>>
    /\ \/ /\ Calm
          /\ PlaceSell(tk.cur, "sl")
          /\ tk' = [tk EXCEPT !.pc = "verify", !.ord = Len(book) + 1]
       \/ /\ Disturb("place")
          /\ Goto("defend")
          /\ UNCHANGED book
       \/ /\ Disturb("lost")
          /\ PlaceSell(tk.cur, "sl")
          /\ Goto("defend")

\* ... then verify_sl_placed, which compares the order but not its status.
TickVerify ==
    /\ Tracker("verify")
    /\ UNCHANGED book
    /\ \/ /\ Calm
          /\ Flush
          /\ Set([Cur EXCEPT !.sl = tk.ord, !.stage = "sl_active"])
          /\ Goto("trail")
       \/ /\ Disturb("read")
          /\ Goto("scrap")
          /\ UNCHANGED <<work, locked>>

TickScrap ==
    /\ Tracker("scrap")
    /\ CancelSell(tk.ord)
    /\ Goto("defend")
    /\ UNCHANGED <<work, locked>>

\* _ensure_sl_or_sqoff's except branch: place_defensive_sqoff ...
TickDefend ==
    /\ Tracker("defend")
    /\ UNCHANGED <<work, locked>>
    /\ \/ /\ Calm
          /\ PlaceSell(tk.cur, "exit")
          /\ Goto("settle")
       \/ /\ Disturb("place")
          /\ Goto("position")
          /\ UNCHANGED book
       \/ /\ Disturb("lost")
          /\ PlaceSell(tk.cur, "exit")
          /\ Goto("position")

\* ... then derive_exit_price, record_order and close_trade.
TickSettle ==
    /\ Tracker("settle")
    /\ NextTrade
    /\ UNCHANGED book
    /\ \/ /\ Calm
          /\ Flush
          /\ Set(CloseTrade(Cur, "no_sl_sqoff"))
       \/ /\ Disturb("read")
          /\ UNCHANGED <<work, locked>>

\* The trailing rule: leave the trigger alone, or modify_order, which only a
\* live order accepts.
TickTrail ==
    /\ Tracker("trail")
    /\ UNCHANGED <<book, work, locked>>
    /\ \/ Calm /\ Goto("position")
       \/ /\ Calm
          /\ tk' = [tk EXCEPT !.pc = "reread", !.moved = (book[Cur.sl].status = "live")]
       \/ /\ Disturb("place")
          /\ Goto("reread")

\* _modify_sl_safely after modify_order returned (moved) or raised.
TickReread ==
    /\ Tracker("reread")
    /\ UNCHANGED <<book, locked>>
    /\ \/ /\ Filled(Cur.sl)
          /\ \/ Calm /\ Set(CloseTrade(Cur, SlCause(Cur)))
             \/ Disturb("read") /\ UNCHANGED work
          /\ NextTrade
       \/ /\ Dead(Cur.sl)
          /\ Calm
          /\ Set(IF tk.moved THEN [Cur EXCEPT !.sl = 0] ELSE Cur)
          /\ Goto("position")
       \/ /\ \/ ~Filled(Cur.sl) /\ ~Dead(Cur.sl) /\ Calm
             \/ Disturb("read")           \* get_order_book failed
          /\ Set(IF tk.moved THEN [Cur EXCEPT !.trail = TRUE] ELSE Cur)
          /\ Goto("position")

\* _reconcile_position: _is_held ...
TickPosition ==
    /\ Tracker("position")
    /\ UNCHANGED <<book, locked>>
    /\ \/ ~OldEnough(tk.cur) /\ Calm /\ Finish(Cur)
       \/ OldEnough(tk.cur) /\ IsHeldReads(tk.cur, TRUE) /\ Finish(Cur)
       \/ OldEnough(tk.cur) /\ IsHeldReads(tk.cur, FALSE) /\ Goto("candidate") /\ UNCHANGED work

\* ... then _candidate_exit; our own SL's fill is left to the next tick.
TickCandidate ==
    /\ Tracker("candidate")
    /\ UNCHANGED book
    /\ \/ /\ OwnFilled(Cur.sl)
          /\ Calm
          /\ Finish(Cur)
          /\ UNCHANGED locked
       \/ /\ ~OwnFilled(Cur.sl)
          /\ Flush
          /\ \E why \in Causes :
                ReconCauseReads(tk.cur, Cur.sl, why) /\ Finish(CloseTrade(Cur, why))
       \/ /\ Disturb("read")              \* get_trades_by_order raised
          /\ NextTrade
          /\ UNCHANGED <<work, locked>>

\* Session end: trade_service.square_off in the tracker's session.
TickSqCancel ==
    /\ Tracker("sqCancel")
    /\ CancelSell(Cur.sl)
    /\ Set([Cur EXCEPT !.sl = 0])
    /\ Goto("sqSell")
    /\ UNCHANGED locked

TickSqSell ==
    /\ Tracker("sqSell")
    /\ UNCHANGED <<work, locked>>
    /\ \/ Calm /\ PlaceSell(tk.cur, "exit") /\ Goto("sqClose")
       \/ Disturb("place") /\ NextTrade /\ UNCHANGED book
       \/ Disturb("lost") /\ PlaceSell(tk.cur, "exit") /\ NextTrade

TickSqClose ==
    /\ Tracker("sqClose")
    /\ NextTrade
    /\ UNCHANGED book
    /\ \/ /\ Calm
          /\ Flush
          /\ Set(CloseTrade(Cur, "sqoff_session"))
       \/ /\ Disturb("read")
          /\ UNCHANGED <<work, locked>>

\* session_scope's commit, or its rollback after a busy timeout: a failed flush
\* makes the session unusable for the rest of the tick.
TickEnd(commit) ==
    /\ db' = IF commit THEN [t \in Trades |-> Merge(db[t], base[t], work[t])] ELSE db
    /\ tk' = TrackerIdle
    /\ base' = [t \in Trades |-> NoRow]
    /\ work' = [t \in Trades |-> NoRow]
    /\ locked' = FALSE
    /\ UNCHANGED <<book, worldVars, rc, ks>>

TickCommit == tk.pc = "pick" /\ tk.todo = {} /\ Calm /\ TickEnd(TRUE)
\* A flush that fails ends the tick.  It has rolled the session back and left its
\* transaction inactive, so the handler's first look at the row (trade.id, for the
\* log) raises again: no defensive order is placed, and no other trade is reached.
TickBusy ==
    /\ \/ tk.pc \in {"sync", "verify", "settle", "candidate", "sqClose"}
       \/ tk.pc = "pick" /\ tk.todo = {}
    /\ ~locked
    /\ Disturb("lock")
    /\ TickEnd(FALSE)

TrackerStep ==
    \/ TickBegin \/ (\E t \in Trades : TickPick(t))
    \/ TickSync \/ TickEnsure \/ TickVerify \/ TickScrap \/ TickDefend \/ TickSettle
    \/ TickTrail \/ TickReread \/ TickPosition \/ TickCandidate
    \/ TickSqCancel \/ TickSqSell \/ TickSqClose \/ TickCommit

-----------------------------------------------------------------------------
(* recon_service.reconcile_open_trades, from the scheduler or the API *)

Recon(r, pc) == rc[r].pc = pc /\ UNCHANGED <<book, worldVars, trackerVars, ks>>
ReconNext(r) == rc' = [rc EXCEPT ![r] = [ReconIdle EXCEPT !.pc = "next", !.todo = rc[r].todo]]

\* The ages are measured once, when the run starts.
ReconList(r) ==
    LET targets == {t \in OpenTrades : OldEnough(t)}
    IN  /\ Recon(r, "idle")
        /\ targets # {}
        /\ rc' = [rc EXCEPT ![r] = [ReconIdle EXCEPT !.pc = "next", !.todo = targets]]
        /\ Calm
        /\ UNCHANGED db

ReconLoad(r, t) ==
    /\ Recon(r, "next")
    /\ t \in rc[r].todo
    /\ rc' = [rc EXCEPT ![r] =
                IF db[t].status = "open"
                  THEN [rc[r] EXCEPT !.pc = "held", !.todo = rc[r].todo \ {t},
                                     !.cur = t, !.base = db[t]]
                  ELSE [rc[r] EXCEPT !.todo = rc[r].todo \ {t}]]
    /\ Calm
    /\ UNCHANGED db

ReconHeld(r) ==
    /\ Recon(r, "held")
    /\ \/ IsHeldReads(rc[r].cur, TRUE) /\ ReconNext(r)
       \/ IsHeldReads(rc[r].cur, FALSE) /\ rc' = [rc EXCEPT ![r].pc = "candidate"]
    /\ UNCHANGED db

ReconCandidate(r) ==
    /\ Recon(r, "candidate")
    /\ \/ \E why \in Causes :
             /\ ReconCauseReads(rc[r].cur, rc[r].base.sl, why)
             /\ rc' = [rc EXCEPT ![r].pc = "commit", ![r].cause = why]
       \/ /\ Disturb("read")              \* get_trades_by_order raised
          /\ ReconNext(r)
    /\ UNCHANGED db

ReconCommit(r) ==
    /\ Recon(r, "commit")
    /\ ~locked
    /\ db' = [db EXCEPT ![rc[r].cur] =
                Merge(@, rc[r].base, CloseTrade(rc[r].base, rc[r].cause))]
    /\ Calm
    /\ ReconNext(r)

\* The busy timeout poisons the session: the whole run is abandoned.
ReconBusy(r) ==
    /\ Recon(r, "commit")
    /\ locked
    /\ Disturb("lock")
    /\ rc' = [rc EXCEPT ![r] = ReconIdle]
    /\ UNCHANGED db

ReconEnd(r) ==
    /\ Recon(r, "next")
    /\ rc[r].todo = {}
    /\ rc' = [rc EXCEPT ![r] = ReconIdle]
    /\ Calm
    /\ UNCHANGED db

ReconStep(r) ==
    \/ ReconList(r) \/ (\E t \in Trades : ReconLoad(r, t)) \/ ReconHeld(r)
    \/ ReconCandidate(r) \/ ReconCommit(r) \/ ReconEnd(r)

-----------------------------------------------------------------------------
(* killswitch_service.square_off_all_open_trades, one session per trade *)

Kill(k, pc) == ks[k].pc = pc /\ UNCHANGED <<worldVars, trackerVars, rc>>
KillNext(k) == ks' = [ks EXCEPT ![k] = [KillReady EXCEPT !.pc = "next", !.todo = ks[k].todo]]

KillList(k) ==
    /\ Kill(k, "ready")
    /\ OpenTrades # {}
    /\ ks' = [ks EXCEPT ![k] = [KillReady EXCEPT !.pc = "next", !.todo = OpenTrades]]
    /\ Calm
    /\ UNCHANGED <<db, book>>

\* session.get, then square_off: nothing looks at the row's status.
KillLoad(k, t) ==
    /\ Kill(k, "next")
    /\ t \in ks[k].todo
    /\ ks' = [ks EXCEPT ![k] = [pc |-> IF db[t].sl # 0 THEN "cancel" ELSE "sell",
                                todo |-> ks[k].todo \ {t}, cur |-> t, base |-> db[t]]]
    /\ Calm
    /\ UNCHANGED <<db, book>>

KillCancel(k) ==
    /\ Kill(k, "cancel")
    /\ CancelSell(ks[k].base.sl)
    /\ ks' = [ks EXCEPT ![k].pc = "sell"]
    /\ UNCHANGED db

KillSell(k) ==
    /\ Kill(k, "sell")
    /\ \/ Calm /\ PlaceSell(ks[k].cur, "exit") /\ ks' = [ks EXCEPT ![k].pc = "close"]
       \/ Disturb("place") /\ KillNext(k) /\ UNCHANGED book
       \/ Disturb("lost") /\ PlaceSell(ks[k].cur, "exit") /\ KillNext(k)
    /\ UNCHANGED db

KillClose(k) ==
    /\ Kill(k, "close")
    /\ ~locked
    /\ \/ /\ Calm
          /\ db' = [db EXCEPT ![ks[k].cur] =
                      Merge(@, ks[k].base,
                            CloseTrade([ks[k].base EXCEPT !.sl = 0], "sqoff_session"))]
       \/ /\ Disturb("read")
          /\ UNCHANGED db
    /\ KillNext(k)
    /\ UNCHANGED book

KillBusy(k) ==
    /\ Kill(k, "close")
    /\ locked
    /\ Disturb("lock")
    /\ KillNext(k)
    /\ UNCHANGED <<db, book>>

KillEnd(k) ==
    /\ Kill(k, "next")
    /\ ks[k].todo = {}
    /\ ks' = [ks EXCEPT ![k] = KillDone]
    /\ Calm
    /\ UNCHANGED <<db, book>>

KillStep(k) ==
    \/ KillList(k) \/ (\E t \in Trades : KillLoad(k, t)) \/ KillCancel(k)
    \/ KillSell(k) \/ KillClose(k) \/ KillEnd(k)

-----------------------------------------------------------------------------
Next ==
    \/ World
    \/ TrackerStep \/ TickBusy
    \/ \E r \in Reconcilers : ReconStep(r) \/ ReconBusy(r)
    \/ \E k \in KillThreads : KillStep(k) \/ KillBusy(k)

Spec == Init /\ [][Next]_vars

\* The tracker runs every 30 s and the reconciler every 60 s, one instance of
\* each (max_instances=1); a broker works off an exit order; a request thread
\* runs to its end.
Fairness ==
    /\ WF_vars(TrackerStep)
    /\ \A r \in Reconcilers : WF_vars(ReconStep(r))
    /\ \A k \in KillThreads : WF_vars(KillStep(k))
    /\ \A t \in Trades : WF_vars(GrowOlder(t))
FairSpec == Spec /\ Fairness

-----------------------------------------------------------------------------
(* Properties *)

\* Every variable has its type.
TypeOK ==
    /\ db \in [Trades -> Row]
    /\ book \in Seq(SellOrder)
    /\ Len(book) <= MaxOrders
    /\ pos \in [Trades -> Int]
    /\ age \in [Trades -> {"fresh", "seen", "aged"}]
    /\ clock \in {"trading", "ended"}
    /\ disturbed \in 0..MaxDisturbances
    /\ locked \in BOOLEAN
    /\ tk \in TrackerState
    /\ base \in [Trades -> Row]
    /\ work \in [Trades -> Row]
    /\ rc \in [Reconcilers -> ReconState]
    /\ ks \in [KillThreads -> KillState]

\* A row that some actor has closed stays closed, although actors that loaded
\* it while it was open still write to it.
ClosedStaysClosed ==
    [][\A t \in Trades : db[t].status = "closed" => db'[t].status = "closed"]_db

\* status and closure_cause reach the table together: no interleaving of the
\* column-wise UPDATEs leaves a closed row without its cause or an open row
\* with one.
CauseIffClosed ==
    \A t \in Trades : (db[t].status = "closed") <=> (db[t].cause # "none")

\* A trade the reconciliation closed is one whose position really is gone: it
\* never writes off a position the account still holds, whatever reads fail
\* and however young the entry is.
ReconClosesOnlyGone ==
    \A t \in Trades :
        db[t].cause \in {"recon_user_exit", "recon_user_sl_filled"} => pos[t] <= 0

\* A trade recorded as stopped out had a bot stop-loss that filled: a rejected
\* or cancelled stop-loss never counts as an exit.
StoppedOutMeansFilled ==
    \A t \in Trades :
        db[t].cause \in {"sl_hit", "trailing_sl"} =>
            \E o \in 1..Len(book) :
                book[o].trade = t /\ book[o].kind = "sl" /\ book[o].status = "complete"

\* The bot never has more SELL orders live for a trade than units it holds, so
\* that no fill can take the account short.  (What keeps it so is that each new
\* order is placed only after the previous one is known to be dead.)
LiveSells(t) == {o \in 1..Len(book) : book[o].trade = t /\ book[o].status = "live"}
SellsCovered == \A t \in Trades : Cardinality(LiveSells(t)) <= pos[t]

\* A stop-loss that filled is eventually recorded: its trade is closed.
FilledStopIsRecorded ==
    \A o \in 1..MaxOrders : \A t \in Trades :
        (o <= Len(book) /\ book[o].trade = t /\ Filled(o) /\ db[t].sl = o)
            ~> (db[t].status = "closed")

\* After the session end every open trade is eventually squared off.
SessionEndCloses ==
    \A t \in Trades :
        (clock = "ended" /\ db[t].status = "open") ~> (db[t].status = "closed")

\* A trade that lost its stop-loss is eventually protected by a live one again,
\* or closed, or no longer held.
Protected(t) == db[t].sl # 0 /\ book[db[t].sl].status = "live"
NakedIsHealed ==
    \A t \in Trades :
        (db[t].status = "open" /\ ~Protected(t))
            ~> (Protected(t) \/ db[t].status = "closed" \/ pos[t] <= 0)

-----------------------------------------------------------------------------
(* What the repository says and the code does not do *)

\* square_off "Cancels the open SL first to prevent a double-exit": the account
\* never goes short.
NoDoubleExit == \A t \in Trades : pos[t] >= 0
=============================================================================
