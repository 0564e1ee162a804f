------------------------------ MODULE StopLoss ------------------------------
(***************************************************************************)
(* Where the stop-loss of one open trade stands.  The trade tracker keeps  *)
(* a floor, trade.current_sl, beside the trigger prices of the orders at   *)
(* the broker, and a tick reads the market, then the order book, then      *)
(* modifies the order, while the market, the broker and the user, who may  *)
(* edit or add stop-losses in the broker's own UI, move on.  Rows are      *)
(* committed when the tick ends (app/scheduler/trade_tracker.py,           *)
(* app/services/trade_service.py).                                         *)
(*                                                                         *)
(* Prices are whole numbers of ticks.  Who closes the trade when, and the  *)
(* orders that exit it, are module TradeExit's; here a trade closes when   *)
(* the tracker sees a fill or places a defensive exit.                     *)
(*                                                                         *)
(* What may go wrong is the set Disturbances, at most MaxDisturbances      *)
(* times:                                                                  *)
(*   "read"    get_order_book raises                                       *)
(*   "place"   the broker refuses a new stop-loss                          *)
(*   "modify"  modify_order raises, done or not                            *)
(*   "round"   the broker sets a trigger one tick above the one asked for  *)
(*   "drop"    the broker rejects or cancels a live order                  *)
(*   "user"    the user places, edits or cancels a stop-loss               *)
(*   "crash"   the tick's changes are lost: the process dies, or SQLite's  *)
(*             busy timeout rolls the session back                         *)
(***************************************************************************)
EXTENDS Integers, Sequences, FiniteSets

CONSTANTS Entry,         \* fill price of the entry
          MaxPrice,      \* no price is higher
          Quotes,        \* prices the market trades at and the user asks for
          SlPct,         \* setting initial_sl_pct
          ActivatePct,   \* setting trail_activate_pct
          GapPct,        \* setting trail_gap_pct
          MaxOrders,     \* bound on orders at the broker
          Disturbances,
          MaxDisturbances

ASSUME PricesAssumption ==
    /\ MaxPrice \in Nat /\ Entry \in 2..MaxPrice
    /\ Quotes \subseteq 1..MaxPrice
    /\ SlPct \in 1..99 /\ GapPct \in 1..99 /\ ActivatePct \in Nat
ASSUME BoundsAssumption == MaxOrders \in Nat \ {0} /\ MaxDisturbances \in Nat

VARIABLES ltp,        \* last traded price of the option
          book,       \* SELL stop-losses at the broker, in order of placement
          held,       \* the account holds the position
          row,        \* the trade as the tracker's session has it
          db,         \* the committed row
          tk,         \* the tracker's place in its tick
          disturbed   \* disturbances so far

vars == <<ltp, book, held, row, db, tk, disturbed>>

Prices == 0..MaxPrice
OrderIds == 0..MaxOrders         \* 0 stands for sl_order_id = NULL
Stop == [by: {"bot", "user"}, trigger: Prices, status: {"live", "complete", "dead"}]
Row == [open: BOOLEAN, sl: OrderIds, cur: Prices, trail: BOOLEAN, source: {"bot", "user"}]
TrackerPc == {"idle", "sync", "ensure", "drift", "adopt", "trail", "reread", "position"}
TrackerState == [pc: TrackerPc, ltp: Prices, asked: Prices, moved: BOOLEAN]
Idle == [pc |-> "idle", ltp |-> 0, asked |-> 0, moved |-> FALSE]

-----------------------------------------------------------------------------
(* Prices *)

Larger(a, b) == IF a >= b THEN a ELSE b

\* round_to_tick of n/d ticks: Python rounds a half to the even neighbour.
Nearest(n, d) ==
    LET q == n \div d
        r == n % d
    IN  IF 2 * r < d THEN q ELSE IF 2 * r > d THEN q + 1 ELSE q + (q % 2)

\* initial_sl_for
InitialSl(entry) ==
    LET snapped == Nearest(entry * (100 - SlPct), 100)
    IN  IF snapped >= entry THEN entry - 1 ELSE snapped

\* compute_trailing_sl: the trigger for a market at price p.
TrailUncapped(p) == Nearest(p * (100 - GapPct), 100)
TrailAbove(p) == Nearest(p * (100 + GapPct), 100)
TrailSl(p) ==
    LET snapped == Nearest(p * (100 - GapPct), 100)
        cap == p - 1
    IN  IF snapped >= cap THEN Larger(cap - 1, 1) ELSE snapped
Activated(p) == p * 100 >= InitialSl(Entry) * (100 + ActivatePct)
NewSl(r, p) ==
    IF ~r.trail
      THEN IF Activated(p) THEN TrailSl(p) ELSE r.cur
      ELSE Larger(TrailSl(p), r.cur)

\* drift_broker_sl and adopt_external_sl only ever raise the floor.
FollowBroker(r, trigger) == [r EXCEPT !.cur = trigger]
RaiseTo(r, trigger) == [r EXCEPT !.cur = Larger(@, trigger)]

-----------------------------------------------------------------------------
Init ==
    LET initial == [open |-> TRUE, sl |-> 1, cur |-> InitialSl(Entry),
                    trail |-> FALSE, source |-> "bot"]
    IN  /\ ltp = Entry
        /\ book = <<[by |-> "bot", trigger |-> InitialSl(Entry), status |-> "live"]>>
        /\ held = TRUE
        /\ row = initial
        /\ db = initial
        /\ tk = Idle
        /\ disturbed = 0

Disturb(d) ==
    /\ d \in Disturbances
    /\ disturbed < MaxDisturbances
    /\ disturbed' = disturbed + 1
Calm == UNCHANGED disturbed

Live(o) == book[o].status = "live"
PlaceStop(by, trigger) ==
    /\ Len(book) < MaxOrders
    /\ book' = Append(book, [by |-> by, trigger |-> trigger, status |-> "live"])
SetTrigger(o, trigger) == book' = [book EXCEPT ![o].trigger = trigger]
SetStatus(o, status) == book' = [book EXCEPT ![o].status = status]

-----------------------------------------------------------------------------
(* The market, the broker and the user *)

MarketMoves(p) ==
    /\ ltp' = p
    /\ Calm
    /\ UNCHANGED <<book, held, row, db, tk>>

\* A live SELL stop-loss triggers at or above the market.
Fill(o) ==
    /\ Live(o)
    /\ book[o].trigger >= ltp
    /\ SetStatus(o, "complete")
    /\ held' = FALSE
    /\ Calm
    /\ UNCHANGED <<ltp, row, db, tk>>

Drop(o) ==
    /\ Live(o)
    /\ Disturb("drop")
    /\ SetStatus(o, "dead")
    /\ UNCHANGED <<ltp, held, row, db, tk>>

UserPlaces(p) ==
    /\ held
    /\ p < ltp
    /\ Disturb("user")
    /\ PlaceStop("user", p)
    /\ UNCHANGED <<ltp, held, row, db, tk>>

UserEdits(o, p) ==
    /\ Live(o)
    /\ p < ltp
    /\ p # book[o].trigger
    /\ Disturb("user")
    /\ SetTrigger(o, p)
    /\ UNCHANGED <<ltp, held, row, db, tk>>

UserCancels(o) ==
    /\ Live(o)
    /\ Disturb("user")
    /\ SetStatus(o, "dead")
    /\ UNCHANGED <<ltp, held, row, db, tk>>

Crash ==
    /\ tk.pc # "idle"
    /\ Disturb("crash")
    /\ row' = db
    /\ tk' = Idle
    /\ UNCHANGED <<ltp, book, held, db>>

World ==
    \/ \E p \in Quotes : MarketMoves(p) \/ UserPlaces(p)
    \/ \E o \in 1..Len(book) :
          \/ Fill(o) \/ Drop(o) \/ UserCancels(o)
          \/ \E p \in Quotes : UserEdits(o, p)
    \/ Crash

-----------------------------------------------------------------------------
(* process_trade, one broker call at a time *)

Tracker(pc) == tk.pc = pc /\ UNCHANGED <<ltp, held>>
Goto(pc) == tk' = [Idle EXCEPT !.pc = pc, !.ltp = tk.ltp] /\ UNCHANGED db
\* The tick ends and its session commits.
Commit(r) == row' = r /\ db' = r /\ tk' = Idle
Close(r) == Commit([r EXCEPT !.open = FALSE])

TickBegin ==
    /\ Tracker("idle")
    /\ db.open
    /\ row' = db
    /\ tk' = [Idle EXCEPT !.pc = IF db.sl # 0 THEN "sync" ELSE "ensure", !.ltp = ltp]
    /\ Calm
    /\ UNCHANGED <<book, db>>

TickSync ==
    /\ Tracker("sync")
    /\ UNCHANGED book
    /\ \/ Disturb("read") /\ row' = [row EXCEPT !.sl = 0] /\ Goto("ensure")
       \/ book[row.sl].status = "complete" /\ Calm /\ Close(row)
       \/ book[row.sl].status = "dead" /\ Calm /\ row' = [row EXCEPT !.sl = 0] /\ Goto("ensure")
       \/ Live(row.sl) /\ Calm /\ Goto("drift") /\ UNCHANGED row

\* place_initial_sl starts over from the initial stop-loss; when it fails the
\* position is sold.  TradeExit takes placing, verifying and selling apart.
TickEnsure ==
    /\ Tracker("ensure")
    /\ \/ /\ Calm
          /\ PlaceStop("bot", InitialSl(Entry))
          /\ row' = [row EXCEPT !.sl = Len(book) + 1, !.cur = InitialSl(Entry)]
          /\ Goto("drift")
       \/ /\ Disturb("place")
          /\ Close(row)
          /\ UNCHANGED book

\* drift_broker_sl on our own order ...
TickDrift ==
    /\ Tracker("drift")
    /\ UNCHANGED book
    /\ \/ Calm /\ row' = RaiseTo(row, book[row.sl].trigger) /\ Goto("adopt")
       \/ Disturb("read") /\ UNCHANGED row /\ Goto("trail")

\* ... then adopt_external_sl on every other live SELL stop-loss.
TighterTagged == {o \in 1..Len(book) : Live(o) /\ o # row.sl /\ book[o].trigger > row.cur
                                        /\ book[o].by = "bot"}
Tighter == {o \in 1..Len(book) : Live(o) /\ o # row.sl /\ book[o].trigger > row.cur}
TickAdopt ==
    /\ Tracker("adopt")
    /\ UNCHANGED book
    /\ Goto("trail")
    /\ \/ \E o \in Tighter :
             /\ \A p \in Tighter : book[o].trigger >= book[p].trigger
             /\ Calm
             /\ row' = [row EXCEPT !.cur = book[o].trigger, !.source = "user"]
       \/ Tighter = {} /\ Calm /\ UNCHANGED row
       \/ Disturb("read") /\ UNCHANGED row

\* The trailing rule; modify_order needs a live order.
TickTrail ==
    LET asked == NewSl(row, tk.ltp)
        Reread(moved) == /\ tk' = [tk EXCEPT !.pc = "reread", !.asked = asked, !.moved = moved]
                         /\ UNCHANGED db
        trails == row.source = "bot" /\ asked # row.cur
    IN  /\ Tracker("trail")
        /\ UNCHANGED row
        /\ \/ ~trails /\ Calm /\ Goto("position") /\ UNCHANGED book
           \/ trails /\ Live(row.sl) /\ Calm /\ SetTrigger(row.sl, asked) /\ Reread(TRUE)
           \/ trails /\ Live(row.sl) /\ Disturb("round") /\ SetTrigger(row.sl, asked + 1) /\ Reread(TRUE)
           \/ trails /\ Live(row.sl) /\ Disturb("modify") /\ SetTrigger(row.sl, asked) /\ Reread(FALSE)
           \/ trails /\ Live(row.sl) /\ Disturb("modify") /\ UNCHANGED book /\ Reread(FALSE)
           \/ trails /\ ~Live(row.sl) /\ Calm /\ UNCHANGED book /\ Reread(FALSE)

\* _modify_sl_safely after modify_order returned or raised.
TickReread ==
    LET seen == RaiseTo(row, book[row.sl].trigger)
        Done(r) == IF tk.moved THEN [RaiseTo(r, tk.asked) EXCEPT !.trail = TRUE] ELSE r
    IN  /\ Tracker("reread")
        /\ UNCHANGED book
        /\ \/ book[row.sl].status = "complete" /\ Calm /\ Close(seen)
           \/ /\ book[row.sl].status = "dead"
              /\ Calm
              /\ row' = IF tk.moved THEN [seen EXCEPT !.sl = 0] ELSE seen
              /\ Goto("position")
           \/ Live(row.sl) /\ Calm /\ row' = Done(seen) /\ Goto("position")
           \/ Disturb("read") /\ row' = Done(row) /\ Goto("position")

\* _reconcile_position: our own stop-loss's fill is left to the next tick.
TickPosition ==
    /\ Tracker("position")
    /\ UNCHANGED book
    /\ Calm
    /\ IF ~held /\ ~(row.sl # 0 /\ book[row.sl].status = "complete")
         THEN Close(row) ELSE Commit(row)

TrackerStep ==
    \/ TickBegin \/ TickSync \/ TickEnsure \/ TickDrift \/ TickAdopt
    \/ TickTrail \/ TickReread \/ TickPosition

Next == World \/ TrackerStep

Spec == Init /\ [][Next]_vars

\* The tracker runs every 30 s (manager.py).
FairSpec == Spec /\ WF_vars(TrackerStep)

-----------------------------------------------------------------------------
(* Properties *)

\* Every variable has its type.
TypeOK ==
    /\ ltp \in 1..MaxPrice
    /\ book \in Seq(Stop) /\ Len(book) <= MaxOrders
    /\ held \in BOOLEAN
    /\ row \in Row
    /\ db \in Row
    /\ tk \in TrackerState
    /\ disturbed \in 0..MaxDisturbances

\* The ratchet: while the same order of ours stands, the committed floor never
\* falls, whatever the market, the broker, the user or a crash did to the order
\* in between.
FloorNeverFalls ==
    [][db.sl # 0 /\ db'.sl = db.sl => db'.cur >= db.cur]_db

\* A trigger the trailing rule asks for leaves room below the market it was
\* computed from: the trigger is below it by two ticks, the limit of a
\* stop-loss-limit order by three.
TrailLeavesRoom == tk.pc = "reread" => tk.asked <= tk.ltp - 2

\* A live stop-loss tighter than the floor, ours or the user's, does not stay
\* so: the tracker takes its trigger over as the floor, or the order is gone or
\* the trade closed.
Behind == db.open /\ \E o \in 1..Len(book) : Live(o) /\ book[o].trigger > db.cur
TighterIsAdopted == []<>(~Behind)

=============================================================================
