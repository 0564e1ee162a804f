------------------------- MODULE TradeExit_proofs -------------------------
(***************************************************************************)
(* Proofs about TradeExit for every set of trades, reconcilers and         *)
(* killswitch requests, every bound and every set of disturbances.         *)
(***************************************************************************)
EXTENDS TradeExit, SequenceTheorems, FiniteSetTheorems, TLAPS

(* What the order book may do in a step: no order disappears, changes hands *)
(* or comes back from complete.                                            *)
BookStep ==
    /\ book' \in Seq(SellOrder)
    /\ Len(book') <= MaxOrders
    /\ Len(book') >= Len(book)
    /\ \A o \in 1..Len(book) :
          /\ book'[o].trade = book[o].trade
          /\ book'[o].kind = book[o].kind
          /\ book[o].status = "complete" => book'[o].status = "complete"

BookOK == book \in Seq(SellOrder) /\ Len(book) <= MaxOrders

LEMMA LenBookNat == ASSUME BookOK PROVE Len(book) \in Nat /\ \A o \in 1..Len(book) : book[o] \in SellOrder
BY LenProperties, ElementOfSeq DEF BookOK

LEMMA BookSame == ASSUME BookOK, UNCHANGED book PROVE BookStep
BY LenBookNat DEF BookOK, BookStep

\* placing an order appends it
LEMMA PlaceSellBook ==
    ASSUME BookOK, NEW t \in Trades, NEW kind \in {"sl", "exit"}, PlaceSell(t, kind)
    PROVE  /\ BookStep
           /\ Len(book') = Len(book) + 1
           /\ book'[Len(book) + 1] = [trade |-> t, kind |-> kind, status |-> "live"]
<1> DEFINE e == [trade |-> t, kind |-> kind, status |-> "live"]
<1>1. e \in SellOrder
  BY DEF SellOrder
<1>2. book' = Append(book, e) /\ Len(book) < MaxOrders
  BY DEF PlaceSell
<1>3. /\ book' \in Seq(SellOrder)
      /\ Len(book') = Len(book) + 1
      /\ \A i \in 1..Len(book) : book'[i] = book[i]
      /\ book'[Len(book) + 1] = e
  BY <1>1, <1>2, AppendProperties DEF BookOK
<1> QED
  BY <1>2, <1>3, LenBookNat, BoundsAssumption DEF BookStep, BookOK

\* changing the status of an order that is not complete
LEMMA SetStatusBook ==
    ASSUME BookOK, NEW o \in 1..Len(book), NEW s \in {"complete", "dead"},
           book[o].status = "live",
           book' = [book EXCEPT ![o].status = s]
    PROVE  BookStep /\ Len(book') = Len(book) /\ book'[o].status = s
<1> DEFINE e == [book[o] EXCEPT !.status = s]
<1>1. book[o] \in SellOrder
  BY LenBookNat
<1>2. e \in SellOrder /\ e.trade = book[o].trade /\ e.kind = book[o].kind /\ e.status = s
  BY <1>1 DEF SellOrder
<1>3. book' = [book EXCEPT ![o] = e]
  OBVIOUS
<1>4. /\ book' \in Seq(SellOrder)
      /\ Len(book') = Len(book)
      /\ \A j \in 1..Len(book) : book'[j] = IF j = o THEN e ELSE book[j]
  BY <1>2, <1>3, ExceptSeq DEF BookOK
<1> QED
  BY <1>2, <1>4, LenBookNat DEF BookStep, BookOK

LEMMA CancelSellBook ==
    ASSUME BookOK, NEW o \in 0..Len(book), CancelSell(o)
    PROVE  BookStep
<1>1. CASE UNCHANGED book
  BY <1>1, BookSame
<1>2. CASE o # 0 /\ book[o].status = "live" /\ book' = [book EXCEPT ![o].status = "dead"]
  <2>1. o \in 1..Len(book)
    BY <1>2, LenBookNat
  <2> QED
    BY <1>2, <2>1, SetStatusBook
<1> QED
  BY <1>1, <1>2 DEF CancelSell

-----------------------------------------------------------------------------
(* Type correctness.  TypeOK is not inductive by itself: cancelling an order   *)
(* keeps book a sequence because the order ids the actors hold point into it,  *)
(* and an actor in the middle of a trade has one.                              *)
Refs ==
    /\ \A t \in Trades : db[t].sl <= Len(book) /\ work[t].sl <= Len(book)
    /\ tk.ord <= Len(book)
    /\ tk.pc \notin {"idle", "pick"} => tk.cur \in Trades
    /\ \A r \in Reconcilers : rc[r].pc \notin {"idle", "next"} => rc[r].cur \in Trades
    /\ \A k \in KillThreads :
          /\ ks[k].base.sl <= Len(book)
          /\ ks[k].pc \notin {"ready", "next", "done"} => ks[k].cur \in Trades

TypeInv == TypeOK /\ Refs

LEMMA IdleTypes ==
    /\ NoRow \in Row /\ NoRow.sl = 0
    /\ TrackerIdle \in TrackerState /\ ReconIdle \in ReconState
    /\ KillReady \in KillState /\ KillDone \in KillState
<1>1. NoRow \in Row /\ NoRow.sl = 0
  BY BoundsAssumption DEF NoRow, Row, OrderIds, Causes
<1>2. TrackerIdle \in TrackerState
  BY BoundsAssumption DEF TrackerIdle, TrackerState, TrackerPc, OrderIds
<1>3. ReconIdle \in ReconState
  BY <1>1 DEF ReconIdle, ReconState, Causes
<1>4. KillReady \in KillState /\ KillDone \in KillState
  BY <1>1 DEF KillReady, KillState, KillDone
<1> QED
  BY <1>1, <1>2, <1>3, <1>4

LEMMA TypeInit == Init => TypeInv
<1> SUFFICES ASSUME Init PROVE TypeInv
  OBVIOUS
<1>1. book \in Seq(SellOrder) /\ Len(book) = 0
  BY EmptySeq DEF Init
<1>2. locked \in BOOLEAN
  BY DEF Init
<1>3. TypeOK
  BY <1>1, <1>2, IdleTypes, BoundsAssumption DEF Init, TypeOK
<1>4. Refs
  BY <1>1 DEF Init, Refs, NoRow, TrackerIdle, ReconIdle, KillReady
<1> QED
  BY <1>3, <1>4 DEF TypeInv

LEMMA MergeType ==
    ASSUME NEW row \in Row, NEW old \in Row, NEW new \in Row
    PROVE  /\ Merge(row, old, new) \in Row
           /\ Merge(row, old, new).sl \in {row.sl, new.sl}
BY DEF Merge, Row

LEMMA CloseTradeType ==
    ASSUME NEW row \in Row, NEW why \in Causes
    PROVE  /\ CloseTrade(row, why) \in Row
           /\ CloseTrade(row, why).sl = row.sl
           /\ CloseTrade(row, why).status = "closed"
           /\ CloseTrade(row, why).cause = why
BY DEF CloseTrade, Row

LEMMA TypeWorld == ASSUME TypeInv, World PROVE TypeInv'
<1> USE DEF TypeInv
<1>0. BookOK
  BY DEF TypeOK, BookOK
<1>1. ASSUME NEW t \in Trades, OpenTrade(t) PROVE TypeInv'
  <2>1. BookStep /\ Len(book') = Len(book) + 1
    BY <1>0, <1>1, PlaceSellBook DEF OpenTrade
  <2>2. NewRow(Len(book) + 1) \in Row /\ NewRow(Len(book) + 1).sl = Len(book) + 1
    BY <1>0, <2>1, LenBookNat, BoundsAssumption DEF NewRow, Row, OrderIds, Causes, BookStep
  <2>3. TypeOK'
    BY <1>1, <2>1, <2>2 DEF OpenTrade, TypeOK, BookStep, trackerVars, Calm
  <2>4. Refs'
    BY <1>0, <1>1, <2>1, <2>2, LenBookNat DEF OpenTrade, Refs, TypeOK, TrackerState, KillState, Row, OrderIds, trackerVars
  <2> QED
    BY <2>3, <2>4
<1>2. ASSUME NEW o \in 1..Len(book), Fill(o) PROVE TypeInv'
  <2>1. BookStep
    BY <1>0, <1>2, SetStatusBook DEF Fill
  <2>2. book[o].trade \in Trades
    BY <1>0, LenBookNat DEF SellOrder
  <2>3. TypeOK'
    BY <1>2, <2>1, <2>2 DEF Fill, TypeOK, BookStep, trackerVars, Calm
  <2>4. Refs'
    BY <1>0, <1>2, <2>1, LenBookNat DEF Fill, Refs, TypeOK, Row, OrderIds, trackerVars, BookStep
  <2> QED
    BY <2>3, <2>4
<1>3. ASSUME NEW o \in 1..Len(book), Reject(o) PROVE TypeInv'
  <2>1. BookStep
    BY <1>0, <1>3, SetStatusBook DEF Reject
  <2>3. TypeOK'
    BY <1>3, <2>1, BoundsAssumption DEF Reject, TypeOK, BookStep, trackerVars, worldVars, Disturb
  <2>4. Refs'
    BY <1>0, <1>3, <2>1, LenBookNat DEF Reject, Refs, TypeOK, Row, OrderIds, trackerVars, BookStep
  <2> QED
    BY <2>3, <2>4
<1>4. ASSUME NEW t \in Trades, UserExit(t) PROVE TypeInv'
  BY <1>4, BoundsAssumption DEF UserExit, TypeOK, Refs, trackerVars, Disturb
<1>5. ASSUME NEW t \in Trades, GrowOlder(t) PROVE TypeInv'
  <2>1. age' \in [Trades -> {"fresh", "seen", "aged"}]
    BY <1>5 DEF GrowOlder, TypeOK
  <2> QED
    BY <1>5, <2>1 DEF GrowOlder, TypeOK, Refs, trackerVars, Calm
<1>6. ASSUME EndSession PROVE TypeInv'
  BY <1>6, BoundsAssumption DEF EndSession, TypeOK, Refs, trackerVars, Disturb
<1>7. ASSUME Crash PROVE TypeInv'
  <2>1. ks' \in [KillThreads -> KillState]
    BY <1>7, IdleTypes DEF Crash, TypeOK
  <2>4. locked' \in BOOLEAN
    BY <1>7 DEF Crash
  <2>2. TypeOK'
    BY <1>7, <2>1, <2>4, IdleTypes, BoundsAssumption DEF Crash, TypeOK, worldVars, Disturb
  <2>3. Refs'
    BY <1>0, <1>7, IdleTypes, LenBookNat
    DEF Crash, Refs, TypeOK, TrackerIdle, ReconIdle, KillReady, KillDone
  <2> QED
    BY <2>2, <2>3
<1> QED
  BY <1>1, <1>2, <1>3, <1>4, <1>5, <1>6, <1>7 DEF World

(* A tracker step is well typed when what it does to the book, to its rows and *)
(* to its place in the tick is.                                                *)
TkOK == /\ tk \in TrackerState
        /\ tk.ord <= Len(book)
        /\ tk.pc \notin {"idle", "pick"} => tk.cur \in Trades
WorkOK == /\ work \in [Trades -> Row]
          /\ \A t \in Trades : work[t].sl <= Len(book)

LEMMA TrackerFrame ==
    ASSUME TypeInv, BookStep, UNCHANGED <<db, worldVars, rc, ks, base>>,
           NEW d, Calm \/ Disturb(d), locked' \in BOOLEAN, TkOK', WorkOK'
    PROVE  TypeInv'
<1>1. disturbed' \in 0..MaxDisturbances
  BY BoundsAssumption DEF TypeInv, TypeOK, Calm, Disturb
<1>2. TypeOK'
  BY <1>1 DEF TypeInv, TypeOK, BookStep, worldVars, TkOK, WorkOK
<1>3. Len(book) \in Nat /\ Len(book') \in Nat
  BY LenProperties DEF TypeInv, TypeOK, BookStep
<1>4. Refs'
  BY <1>3 DEF TypeInv, TypeOK, Refs, BookStep, worldVars, TkOK, WorkOK, Row, OrderIds, KillState
<1> QED
  BY <1>2, <1>4 DEF TypeInv

LEMMA TkGoto ==
    ASSUME TypeInv, BookStep, tk.cur \in Trades, NEW pc \in TrackerPc, Goto(pc)
    PROVE  TkOK'
<1>1. Len(book) \in Nat /\ Len(book') \in Nat /\ Len(book) <= Len(book')
  BY LenProperties DEF TypeInv, TypeOK, BookStep
<1>2. tk' \in TrackerState
  BY DEF TypeInv, TypeOK, Goto, TrackerState
<1>3. tk'.ord = tk.ord /\ tk'.cur = tk.cur
  BY DEF TypeInv, TypeOK, Goto, TrackerState
<1> QED
  BY <1>1, <1>2, <1>3 DEF TypeInv, TypeOK, Refs, TkOK, TrackerState, OrderIds

LEMMA TkNextTrade == ASSUME TypeInv, BookStep, NextTrade PROVE TkOK'
<1>1. Len(book') \in Nat
  BY LenProperties DEF BookStep
<1>2. 0 \in OrderIds /\ "pick" \in TrackerPc
  BY BoundsAssumption DEF OrderIds, TrackerPc
<1>3. tk' \in TrackerState
  BY <1>2 DEF TypeInv, TypeOK, NextTrade, TrackerState
<1>4. tk'.ord = 0 /\ tk'.pc = "pick"
  BY DEF TypeInv, TypeOK, NextTrade, TrackerState
<1> QED
  BY <1>1, <1>3, <1>4 DEF TkOK

LEMMA WorkSame == ASSUME TypeInv, BookStep, UNCHANGED work PROVE WorkOK'
<1>1. Len(book) \in Nat /\ Len(book') \in Nat /\ Len(book) <= Len(book')
  BY LenProperties DEF TypeInv, TypeOK, BookStep
<1> QED
  BY <1>1 DEF TypeInv, TypeOK, Refs, WorkOK, Row, OrderIds

LEMMA WorkSet ==
    ASSUME TypeInv, BookStep, tk.cur \in Trades,
           NEW row \in Row, row.sl <= Len(book'), Set(row)
    PROVE  WorkOK'
<1>1. Len(book) \in Nat /\ Len(book') \in Nat /\ Len(book) <= Len(book')
  BY LenProperties DEF TypeInv, TypeOK, BookStep
<1> QED
  BY <1>1 DEF TypeInv, TypeOK, Refs, WorkOK, Set, Row, OrderIds

LEMMA CurType ==
    ASSUME TypeInv, tk.pc \notin {"idle", "pick"}
    PROVE  /\ BookOK
           /\ tk.cur \in Trades
           /\ tk.ord \in 0..Len(book)
           /\ Cur \in Row
           /\ Cur.sl \in 0..Len(book)
           /\ [Cur EXCEPT !.sl = 0] \in Row
           /\ \A why \in Causes : CloseTrade(Cur, why) \in Row /\ CloseTrade(Cur, why).sl = Cur.sl
           /\ Promote(Cur) \in Row /\ Promote(Cur).sl = Cur.sl
<1>1. BookOK /\ tk.cur \in Trades
  BY DEF TypeInv, TypeOK, Refs, BookOK
<1>2. Len(book) \in Nat
  BY <1>1, LenBookNat
<1>3. Cur \in Row /\ Cur.sl \in 0..Len(book)
  BY <1>1, <1>2 DEF Cur, TypeInv, TypeOK, Refs, Row, OrderIds
<1>4. tk.ord \in 0..Len(book)
  BY <1>2 DEF TypeInv, TypeOK, Refs, TrackerState, OrderIds
<1>5. [Cur EXCEPT !.sl = 0] \in Row
  BY <1>3, BoundsAssumption DEF Row, OrderIds
<1>6. Promote(Cur) \in Row /\ Promote(Cur).sl = Cur.sl
  BY <1>3 DEF Promote, Row
<1> QED
  BY <1>1, <1>3, <1>4, <1>5, <1>6, CloseTradeType

\* updates of single fields and of two at once
LEMMA RowFields ==
    ASSUME NEW row \in Row, NEW o \in OrderIds
    PROVE  /\ [row EXCEPT !.sl = o, !.stage = "sl_active"] \in Row
           /\ [row EXCEPT !.sl = o, !.stage = "sl_active"].sl = o
           /\ [row EXCEPT !.sl = o] \in Row
           /\ [row EXCEPT !.sl = o].sl = o
           /\ [row EXCEPT !.trail = TRUE] \in Row
           /\ [row EXCEPT !.trail = TRUE].sl = row.sl
BY DEF Row

LEMMA OrdField ==
    ASSUME NEW x \in TrackerState, NEW o \in OrderIds
    PROVE  /\ [x EXCEPT !.pc = "verify", !.ord = o] \in TrackerState
           /\ [x EXCEPT !.pc = "verify", !.ord = o].ord = o
           /\ [x EXCEPT !.pc = "verify", !.ord = o].cur = x.cur
BY DEF TrackerState, TrackerPc

LEMMA MovedField ==
    ASSUME NEW x \in TrackerState, NEW b \in BOOLEAN
    PROVE  /\ [x EXCEPT !.pc = "reread", !.moved = b] \in TrackerState
           /\ [x EXCEPT !.pc = "reread", !.moved = b].ord = x.ord
           /\ [x EXCEPT !.pc = "reread", !.moved = b].cur = x.cur
BY DEF TrackerState, TrackerPc

LEMMA PromoteType ==
    ASSUME NEW row \in Row
    PROVE  /\ Promote(row) \in Row
           /\ Promote(row).sl = row.sl
           /\ Promote(row).status = row.status
           /\ Promote(row).cause = row.cause
           /\ Promote(row).trail = row.trail
BY DEF Promote, Row

LEMMA SlCauseType == ASSUME NEW row PROVE SlCause(row) \in Causes
BY DEF SlCause, Causes
LEMMA TickEndType ==
    ASSUME TypeInv, NEW commit \in BOOLEAN, TickEnd(commit), NEW d, Calm \/ Disturb(d)
    PROVE  TypeInv'
<1>1. BookStep
  BY BookSame DEF TickEnd, TypeInv, TypeOK, BookOK
<1>2. /\ db' \in [Trades -> Row]
      /\ \A t \in Trades : db'[t].sl <= Len(book)
  <2>1. \A t \in Trades : /\ Merge(db[t], base[t], work[t]) \in Row
                          /\ Merge(db[t], base[t], work[t]).sl \in {db[t].sl, work[t].sl}
    BY MergeType DEF TypeInv, TypeOK
  <2> QED
    BY <2>1 DEF TickEnd, TypeInv, TypeOK, Refs
<1>3. locked' \in BOOLEAN
  BY DEF TickEnd
<1>4. disturbed' \in 0..MaxDisturbances
  BY BoundsAssumption DEF TypeInv, TypeOK, Calm, Disturb
<1>5. TypeOK'
  BY <1>2, <1>3, <1>4, IdleTypes DEF TickEnd, TypeInv, TypeOK, worldVars
<1>6. Len(book) \in Nat
  BY LenProperties DEF TypeInv, TypeOK
<1>7. tk'.ord = 0 /\ tk'.pc = "idle"
  BY DEF TickEnd, TrackerIdle
<1>8. \A t \in Trades : work'[t].sl = 0
  BY IdleTypes DEF TickEnd
<1>9. Refs'
  BY <1>2, <1>6, <1>7, <1>8 DEF TickEnd, TypeInv, Refs
<1> QED
  BY <1>5, <1>9 DEF TypeInv

LEMMA TypeTracker == ASSUME TypeInv, TrackerStep \/ TickBusy PROVE TypeInv'
<1>0. BookOK /\ locked \in BOOLEAN
  BY DEF TypeInv, TypeOK, BookOK
<1>1. ASSUME TickBegin PROVE TypeInv'
  <2>1. BookStep
    BY <1>0, <1>1, BookSame DEF TickBegin
  <2>2. OpenTrades \subseteq Trades
    BY DEF OpenTrades
  <2>3. base' \in [Trades -> Row] /\ \A t \in Trades : base'[t].sl <= Len(book)
    BY <1>1, <1>0, IdleTypes, LenBookNat DEF TickBegin, TypeInv, TypeOK, Refs
  <2>4. tk' \in TrackerState /\ tk'.ord = 0 /\ tk'.pc = "pick"
    BY <1>1, <2>2, IdleTypes DEF TickBegin, TrackerIdle, TrackerState, TrackerPc
  <2>5. TypeOK'
    BY <1>1, <2>3, <2>4 DEF TickBegin, TypeInv, TypeOK, worldVars, Calm
  <2>6. Refs'
    BY <1>0, <1>1, <2>3, <2>4, LenBookNat DEF TickBegin, TypeInv, Refs
  <2> QED
    BY <2>5, <2>6 DEF TypeInv
<1>2. ASSUME NEW t \in Trades, TickPick(t) PROVE TypeInv'
  <2>1. BookStep
    BY <1>0, <1>2, BookSame DEF TickPick
  <2>2. WorkOK'
    <3>1. CASE UNCHANGED work
      BY <2>1, <3>1, WorkSame
    <3>2. CASE \E s \in {"exiting", "sl_active", work[t].stage} : work' = [work EXCEPT ![t].stage = s]
      <4>1. PICK s \in {"exiting", "sl_active", work[t].stage} : work' = [work EXCEPT ![t].stage = s]
        BY <3>2
      <4>2. [work[t] EXCEPT !.stage = s] \in Row /\ [work[t] EXCEPT !.stage = s].sl = work[t].sl
        BY DEF TypeInv, TypeOK, Row
      <4> QED
        BY <1>2, <4>1, <4>2 DEF TypeInv, TypeOK, Refs, WorkOK, TickPick
    <3> QED
      BY <1>2, <3>1, <3>2 DEF TickPick
  <2>3. TkOK'
    <3>0. \/ \E pc \in TrackerPc : tk' = [tk EXCEPT !.todo = tk.todo \ {t}, !.cur = t, !.pc = pc]
          \/ tk' = [tk EXCEPT !.todo = tk.todo \ {t}]
      <4>1. (IF work[t].sl # 0 THEN "sqCancel" ELSE "sqSell") \in TrackerPc
            /\ (IF work[t].sl # 0 THEN "sync" ELSE "ensure") \in TrackerPc
        BY DEF TrackerPc
      <4> QED
        BY <1>2, <4>1 DEF TickPick
    <3>1. tk' \in TrackerState
      <4>1. tk \in TrackerState /\ tk.todo \ {t} \in SUBSET Trades
        BY DEF TypeInv, TypeOK, TrackerState
      <4>2. ASSUME NEW pc \in TrackerPc, tk' = [tk EXCEPT !.todo = tk.todo \ {t}, !.cur = t, !.pc = pc]
            PROVE  tk' \in TrackerState
        BY <4>1, <4>2 DEF TrackerState
      <4>3. CASE tk' = [tk EXCEPT !.todo = tk.todo \ {t}]
        BY <4>1, <4>3 DEF TrackerState
      <4> QED
        BY <3>0, <4>2, <4>3
    <3>2. tk'.ord = tk.ord /\ (tk'.cur = t \/ tk'.pc = "pick")
      BY <1>2 DEF TickPick, Tracker, TypeInv, TypeOK, TrackerState
    <3> QED
      BY <1>2, <3>1, <3>2 DEF TickPick, TypeInv, Refs, TkOK
  <2>4. \E d : Calm \/ Disturb(d)
    BY <1>2 DEF TickPick
  <2> QED
    BY <1>0, <1>2, <2>1, <2>2, <2>3, <2>4, TrackerFrame DEF TickPick, Tracker
<1>3. ASSUME TickSync PROVE TypeInv'
  <2>1. BookStep /\ tk.cur \in Trades
    BY <1>0, <1>3, BookSame, CurType DEF TickSync, Tracker
  <2>2. WorkOK'
    <3>1. ASSUME NEW row \in Row, row.sl \in {0, Cur.sl}, Set(row) PROVE WorkOK'
      BY <1>0, <1>3, <2>1, <3>1, CurType, LenBookNat, WorkSet DEF TickSync, Tracker, BookStep
    <3>2. /\ [Cur EXCEPT !.sl = 0] \in Row /\ [Cur EXCEPT !.sl = 0].sl = 0
          /\ CloseTrade(Cur, SlCause(Cur)) \in Row /\ CloseTrade(Cur, SlCause(Cur)).sl = Cur.sl
      BY <1>3, CurType, SlCauseType DEF TickSync, Tracker, Row
    <3> QED
      BY <1>3, <2>1, <3>1, <3>2, WorkSame DEF TickSync
  <2>3. TkOK'
    BY <1>3, <2>1, TkGoto, TkNextTrade DEF TickSync, TrackerPc
  <2>4. locked' \in BOOLEAN
    BY <1>0, <1>3 DEF TickSync, Flush
  <2>5. \E d : Calm \/ Disturb(d)
    BY <1>3 DEF TickSync
  <2> QED
    BY <1>3, <2>1, <2>2, <2>3, <2>4, <2>5, TrackerFrame DEF TickSync, Tracker
<1>4. ASSUME TickEnsure PROVE TypeInv'
  <2>1. tk.cur \in Trades
    BY <1>4, CurType DEF TickEnsure, Tracker
  <2>2. BookStep
    BY <1>0, <1>4, <2>1, BookSame, PlaceSellBook DEF TickEnsure
  <2>3. WorkOK'
    BY <1>4, <2>2, WorkSame DEF TickEnsure
  <2>4. TkOK'
    <3>1. CASE PlaceSell(tk.cur, "sl") /\ tk' = [tk EXCEPT !.pc = "verify", !.ord = Len(book) + 1]
      <4>1. Len(book') = Len(book) + 1 /\ Len(book') <= MaxOrders /\ Len(book) \in Nat
        BY <1>0, <2>1, <3>1, PlaceSellBook, LenBookNat DEF BookStep
      <4>2. Len(book') \in OrderIds /\ tk \in TrackerState
        BY <4>1, BoundsAssumption DEF OrderIds, TypeInv, TypeOK
      <4>3. tk' \in TrackerState /\ tk'.ord = Len(book') /\ tk'.cur = tk.cur
        BY <3>1, <4>1, <4>2, OrdField
      <4> QED
        BY <2>1, <4>1, <4>3 DEF TkOK
    <3>2. CASE Goto("defend")
      BY <2>1, <2>2, <3>2, TkGoto DEF TrackerPc
    <3> QED
      BY <1>4, <3>1, <3>2 DEF TickEnsure
  <2>5. \E d : Calm \/ Disturb(d)
    BY <1>4 DEF TickEnsure
  <2> QED
    BY <1>0, <1>4, <2>2, <2>3, <2>4, <2>5, TrackerFrame DEF TickEnsure, Tracker
<1>5. ASSUME TickVerify PROVE TypeInv'
  <2>1. BookStep /\ tk.cur \in Trades
    BY <1>0, <1>5, BookSame, CurType DEF TickVerify, Tracker
  <2>2. WorkOK'
    <3>1. CASE Set([Cur EXCEPT !.sl = tk.ord, !.stage = "sl_active"])
      <4> DEFINE row == [Cur EXCEPT !.sl = tk.ord, !.stage = "sl_active"]
      <4>1. Cur \in Row /\ tk.ord \in 0..Len(book) /\ Len(book) \in Nat /\ Len(book) <= MaxOrders
        BY <1>0, <1>5, CurType, LenBookNat DEF TickVerify, Tracker, BookOK
      <4>2. tk.ord \in OrderIds /\ tk \in TrackerState
        BY <4>1, BoundsAssumption DEF OrderIds, TypeInv, TypeOK
      <4>4. row \in Row /\ row.sl = tk.ord
        BY <4>1, <4>2, RowFields
      <4>3. row.sl <= Len(book')
        BY <1>5, <4>1, <4>4 DEF TickVerify
      <4> QED
        BY <2>1, <3>1, <4>4, <4>3, WorkSet
    <3> QED
      BY <1>5, <2>1, <3>1, WorkSame DEF TickVerify
  <2>3. TkOK'
    BY <1>5, <2>1, TkGoto DEF TickVerify, TrackerPc
  <2>4. locked' \in BOOLEAN
    BY <1>0, <1>5 DEF TickVerify, Flush
  <2>5. \E d : Calm \/ Disturb(d)
    BY <1>5 DEF TickVerify
  <2> QED
    BY <1>5, <2>1, <2>2, <2>3, <2>4, <2>5, TrackerFrame DEF TickVerify, Tracker
<1>6. ASSUME TickScrap PROVE TypeInv'
  <2>1. tk.cur \in Trades
    BY <1>6, CurType DEF TickScrap, Tracker
  <2>2. BookStep
    BY <1>0, <1>6, CancelSellBook, CurType DEF TickScrap, Tracker
  <2>3. WorkOK'
    BY <1>6, <2>2, WorkSame DEF TickScrap
  <2>4. TkOK'
    BY <1>6, <2>1, <2>2, TkGoto DEF TickScrap, TrackerPc
  <2>5. \E d : Calm \/ Disturb(d)
    BY <1>6 DEF TickScrap, CancelSell
  <2> QED
    BY <1>0, <1>6, <2>2, <2>3, <2>4, <2>5, TrackerFrame DEF TickScrap, Tracker
<1>7. ASSUME TickDefend PROVE TypeInv'
  <2>1. tk.cur \in Trades
    BY <1>7, CurType DEF TickDefend, Tracker
  <2>2. BookStep
    BY <1>0, <1>7, <2>1, BookSame, PlaceSellBook DEF TickDefend
  <2>3. WorkOK'
    BY <1>7, <2>2, WorkSame DEF TickDefend
  <2>4. TkOK'
    BY <1>7, <2>1, <2>2, TkGoto DEF TickDefend, TrackerPc
  <2>5. \E d : Calm \/ Disturb(d)
    BY <1>7 DEF TickDefend
  <2> QED
    BY <1>0, <1>7, <2>2, <2>3, <2>4, <2>5, TrackerFrame DEF TickDefend, Tracker
<1>8. ASSUME TickSettle PROVE TypeInv'
  <2>1. BookStep /\ tk.cur \in Trades
    BY <1>0, <1>8, BookSame, CurType DEF TickSettle, Tracker
  <2>2. WorkOK'
    <3>1. ASSUME NEW row \in Row, row.sl \in {0, Cur.sl}, Set(row) PROVE WorkOK'
      BY <1>0, <1>8, <2>1, <3>1, CurType, LenBookNat, WorkSet DEF TickSettle, Tracker, BookStep
    <3>2. CloseTrade(Cur, "no_sl_sqoff") \in Row /\ CloseTrade(Cur, "no_sl_sqoff").sl = Cur.sl
      BY <1>8, CurType DEF TickSettle, Tracker, Row, Causes
    <3> QED
      BY <1>8, <2>1, <3>1, <3>2, WorkSame DEF TickSettle
  <2>3. TkOK'
    BY <1>8, <2>1, TkGoto, TkNextTrade DEF TickSettle, TrackerPc
  <2>4. locked' \in BOOLEAN
    BY <1>0, <1>8 DEF TickSettle, Flush
  <2>5. \E d : Calm \/ Disturb(d)
    BY <1>8 DEF TickSettle
  <2> QED
    BY <1>8, <2>1, <2>2, <2>3, <2>4, <2>5, TrackerFrame DEF TickSettle, Tracker
<1>9. ASSUME TickTrail PROVE TypeInv'
  <2>1. BookStep /\ tk.cur \in Trades
    BY <1>0, <1>9, BookSame, CurType DEF TickTrail, Tracker
  <2>2. WorkOK'
    BY <1>9, <2>1, WorkSame DEF TickTrail
  <2>3. TkOK'
    <3>1. CASE tk' = [tk EXCEPT !.pc = "reread", !.moved = (book[Cur.sl].status = "live")]
      <4>1. tk' \in TrackerState /\ tk'.ord = tk.ord /\ tk'.cur = tk.cur
        BY <3>1, MovedField DEF TypeInv, TypeOK
      <4> QED
        BY <1>0, <1>9, <2>1, <4>1 DEF TkOK, TypeInv, Refs, TickTrail
    <3> QED
      BY <1>9, <2>1, <3>1, TkGoto DEF TickTrail, TrackerPc
  <2>4. locked' \in BOOLEAN
    BY <1>0, <1>9 DEF TickTrail
  <2>5. \E d : Calm \/ Disturb(d)
    BY <1>9 DEF TickTrail
  <2> QED
    BY <1>9, <2>1, <2>2, <2>3, <2>4, <2>5, TrackerFrame DEF TickTrail, Tracker
<1>10. ASSUME TickReread PROVE TypeInv'
  <2>1. BookStep /\ tk.cur \in Trades
    BY <1>0, <1>10, BookSame, CurType DEF TickReread, Tracker
  <2>2. WorkOK'
    <3>1. ASSUME NEW row \in Row, row.sl \in {0, Cur.sl}, Set(row) PROVE WorkOK'
      BY <1>0, <1>10, <2>1, <3>1, CurType, LenBookNat, WorkSet DEF TickReread, Tracker, BookStep
    <3>2. 0 \in OrderIds /\ Cur \in Row
      BY <1>10, CurType, BoundsAssumption DEF TickReread, Tracker, OrderIds
    <3>3. /\ [Cur EXCEPT !.sl = 0] \in Row /\ [Cur EXCEPT !.sl = 0].sl = 0
          /\ [Cur EXCEPT !.trail = TRUE] \in Row /\ [Cur EXCEPT !.trail = TRUE].sl = Cur.sl
      BY <3>2, RowFields
    <3>4. CloseTrade(Cur, SlCause(Cur)) \in Row /\ CloseTrade(Cur, SlCause(Cur)).sl = Cur.sl
      BY <3>2, CloseTradeType, SlCauseType
    <3> QED
      BY <1>10, <2>1, <3>1, <3>2, <3>3, <3>4, WorkSame DEF TickReread
  <2>3. TkOK'
    BY <1>10, <2>1, TkGoto, TkNextTrade DEF TickReread, TrackerPc
  <2>4. locked' \in BOOLEAN
    BY <1>0, <1>10 DEF TickReread
  <2>5. \E d : Calm \/ Disturb(d)
    BY <1>10 DEF TickReread
  <2> QED
    BY <1>10, <2>1, <2>2, <2>3, <2>4, <2>5, TrackerFrame DEF TickReread, Tracker
<1>11. ASSUME TickPosition PROVE TypeInv'
  <2>1. BookStep /\ tk.cur \in Trades
    BY <1>0, <1>11, BookSame, CurType DEF TickPosition, Tracker
  <2>2. WorkOK'
    <3>1. ASSUME NEW row \in Row, row.sl \in {0, Cur.sl}, Set(row) PROVE WorkOK'
      BY <1>0, <1>11, <2>1, <3>1, CurType, LenBookNat, WorkSet DEF TickPosition, Tracker, BookStep
    <3>2. Promote(Cur) \in Row /\ Promote(Cur).sl = Cur.sl
      BY <1>11, CurType DEF TickPosition, Tracker, Row, Causes
    <3> QED
      BY <1>11, <2>1, <3>1, <3>2, WorkSame DEF TickPosition, Finish
  <2>3. TkOK'
    BY <1>11, <2>1, TkGoto, TkNextTrade DEF TickPosition, TrackerPc, Finish
  <2>4. locked' \in BOOLEAN
    BY <1>0, <1>11 DEF TickPosition
  <2>5. \E d : Calm \/ Disturb(d)
    BY <1>11 DEF TickPosition, IsHeldReads
  <2> QED
    BY <1>11, <2>1, <2>2, <2>3, <2>4, <2>5, TrackerFrame DEF TickPosition, Tracker
<1>12. ASSUME TickCandidate PROVE TypeInv'
  <2>1. BookStep /\ tk.cur \in Trades
    BY <1>0, <1>12, BookSame, CurType DEF TickCandidate, Tracker
  <2>2. WorkOK'
    <3>1. ASSUME NEW row \in Row, row.sl \in {0, Cur.sl}, Set(row) PROVE WorkOK'
      BY <1>0, <1>12, <2>1, <3>1, CurType, LenBookNat, WorkSet DEF TickCandidate, Tracker, BookStep
    <3>2. /\ Promote(Cur) \in Row /\ Promote(Cur).sl = Cur.sl
          /\ \A why \in Causes : /\ Promote(CloseTrade(Cur, why)) \in Row
                                 /\ Promote(CloseTrade(Cur, why)).sl = Cur.sl
      BY <1>12, CurType, PromoteType DEF TickCandidate, Tracker, Row, Causes
    <3> QED
      BY <1>12, <2>1, <3>1, <3>2, WorkSame DEF TickCandidate, Finish
  <2>3. TkOK'
    BY <1>12, <2>1, TkGoto, TkNextTrade DEF TickCandidate, TrackerPc, Finish
  <2>4. locked' \in BOOLEAN
    BY <1>0, <1>12 DEF TickCandidate, Flush
  <2>5. \E d : Calm \/ Disturb(d)
    BY <1>12 DEF TickCandidate, ReconCauseReads
  <2> QED
    BY <1>12, <2>1, <2>2, <2>3, <2>4, <2>5, TrackerFrame DEF TickCandidate, Tracker
<1>13. ASSUME TickSqCancel PROVE TypeInv'
  <2>1. BookStep /\ tk.cur \in Trades
    BY <1>0, <1>13, CancelSellBook, CurType DEF TickSqCancel, Tracker
  <2>2. WorkOK'
    <3>1. ASSUME NEW row \in Row, row.sl \in {0, Cur.sl}, Set(row) PROVE WorkOK'
      BY <1>0, <1>13, <2>1, <3>1, CurType, LenBookNat, WorkSet DEF TickSqCancel, Tracker, BookStep
    <3>2. [Cur EXCEPT !.sl = 0] \in Row /\ [Cur EXCEPT !.sl = 0].sl = 0
      BY <1>13, CurType DEF TickSqCancel, Tracker, Row, Causes
    <3> QED
      BY <1>13, <2>1, <3>1, <3>2, WorkSame DEF TickSqCancel
  <2>3. TkOK'
    BY <1>13, <2>1, TkGoto, TkNextTrade DEF TickSqCancel, TrackerPc
  <2>4. locked' \in BOOLEAN
    BY <1>0, <1>13 DEF TickSqCancel
  <2>5. \E d : Calm \/ Disturb(d)
    BY <1>13 DEF TickSqCancel, CancelSell
  <2> QED
    BY <1>13, <2>1, <2>2, <2>3, <2>4, <2>5, TrackerFrame DEF TickSqCancel, Tracker
<1>14. ASSUME TickSqSell PROVE TypeInv'
  <2>0. tk.cur \in Trades
    BY <1>14, CurType DEF TickSqSell, Tracker
  <2>1. BookStep /\ tk.cur \in Trades
    BY <1>0, <1>14, <2>0, PlaceSellBook, BookSame DEF TickSqSell
  <2>2. WorkOK'
    BY <1>14, <2>1, WorkSame DEF TickSqSell
  <2>3. TkOK'
    BY <1>14, <2>1, TkGoto, TkNextTrade DEF TickSqSell, TrackerPc
  <2>4. locked' \in BOOLEAN
    BY <1>0, <1>14 DEF TickSqSell
  <2>5. \E d : Calm \/ Disturb(d)
    BY <1>14 DEF TickSqSell
  <2> QED
    BY <1>14, <2>1, <2>2, <2>3, <2>4, <2>5, TrackerFrame DEF TickSqSell, Tracker
<1>15. ASSUME TickSqClose PROVE TypeInv'
  <2>1. BookStep /\ tk.cur \in Trades
    BY <1>0, <1>15, BookSame, CurType DEF TickSqClose, Tracker
  <2>2. WorkOK'
    <3>1. ASSUME NEW row \in Row, row.sl \in {0, Cur.sl}, Set(row) PROVE WorkOK'
      BY <1>0, <1>15, <2>1, <3>1, CurType, LenBookNat, WorkSet DEF TickSqClose, Tracker, BookStep
    <3>2. CloseTrade(Cur, "sqoff_session") \in Row /\ CloseTrade(Cur, "sqoff_session").sl = Cur.sl
      BY <1>15, CurType DEF TickSqClose, Tracker, Row, Causes
    <3> QED
      BY <1>15, <2>1, <3>1, <3>2, WorkSame DEF TickSqClose
  <2>3. TkOK'
    BY <1>15, <2>1, TkGoto, TkNextTrade DEF TickSqClose, TrackerPc
  <2>4. locked' \in BOOLEAN
    BY <1>0, <1>15 DEF TickSqClose, Flush
  <2>5. \E d : Calm \/ Disturb(d)
    BY <1>15 DEF TickSqClose
  <2> QED
    BY <1>15, <2>1, <2>2, <2>3, <2>4, <2>5, TrackerFrame DEF TickSqClose, Tracker
<1>16. ASSUME TickCommit PROVE TypeInv'
  BY <1>16, TickEndType DEF TickCommit
<1>17. ASSUME TickBusy PROVE TypeInv'
  BY <1>17, TickEndType DEF TickBusy
<1> QED
  BY <1>1, <1>2, <1>3, <1>4, <1>5, <1>6, <1>7, <1>8, <1>9, <1>10, <1>11, <1>12, <1>13,
     <1>14, <1>15, <1>16, <1>17 DEF TrackerStep

(* A step that leaves the tracker and the world alone is well typed when what  *)
(* it does to the table, the book and its own state is.                        *)
LEMMA ThreadFrame ==
    ASSUME TypeInv, BookStep, UNCHANGED <<worldVars, trackerVars>>,
           NEW d, Calm \/ Disturb(d),
           db' \in [Trades -> Row], \A t \in Trades : db'[t].sl <= Len(book'),
           rc' \in [Reconcilers -> ReconState], ks' \in [KillThreads -> KillState],
           \A r \in Reconcilers : rc'[r].pc \notin {"idle", "next"} => rc'[r].cur \in Trades,
           \A k \in KillThreads :
              /\ ks'[k].base.sl <= Len(book')
              /\ ks'[k].pc \notin {"ready", "next", "done"} => ks'[k].cur \in Trades
    PROVE  TypeInv'
<1>1. disturbed' \in 0..MaxDisturbances
  BY BoundsAssumption DEF TypeInv, TypeOK, Calm, Disturb
<1>2. TypeOK'
  BY <1>1 DEF TypeInv, TypeOK, BookStep, worldVars, trackerVars
<1>3. Len(book) \in Nat /\ Len(book') \in Nat
  BY LenProperties DEF TypeInv, TypeOK, BookStep
<1>4. Refs'
  BY <1>3 DEF TypeInv, TypeOK, Refs, BookStep, worldVars, trackerVars, Row, OrderIds, TrackerState
<1> QED
  BY <1>2, <1>4 DEF TypeInv

LEMMA ReconDropField ==
    ASSUME NEW x \in ReconState, NEW todo \in SUBSET Trades
    PROVE  LET y == [x EXCEPT !.todo = todo]
           IN  y \in ReconState /\ y.pc = x.pc /\ y.cur = x.cur /\ y.base = x.base
BY DEF ReconState

LEMMA ReconPcField ==
    ASSUME NEW x \in ReconState
    PROVE  LET y == [x EXCEPT !.pc = "candidate"]
           IN  y \in ReconState /\ y.pc = "candidate" /\ y.cur = x.cur /\ y.base = x.base
BY DEF ReconState

LEMMA ReconCauseField ==
    ASSUME NEW x \in ReconState, NEW why \in Causes
    PROVE  LET y == [x EXCEPT !.pc = "commit", !.cause = why]
           IN  /\ y \in ReconState /\ y.pc = "commit" /\ y.cur = x.cur
               /\ y.base = x.base /\ y.cause = why
BY DEF ReconState

LEMMA TypeRecon ==
    ASSUME TypeInv, NEW r \in Reconcilers, ReconStep(r) \/ ReconBusy(r)
    PROVE  TypeInv'
<1> DEFINE Mine(x) == x \in ReconState /\ (x.pc \notin {"idle", "next"} => x.cur \in Trades)
<1>1. /\ BookStep /\ UNCHANGED <<book, worldVars, trackerVars, ks>> /\ Len(book) \in Nat
      /\ \E d : Calm \/ Disturb(d)
  BY BookSame, LenBookNat
  DEF TypeInv, TypeOK, BookOK, ReconStep, ReconBusy, ReconList, ReconLoad, ReconHeld,
      ReconCandidate, ReconCommit, ReconEnd, Recon, IsHeldReads, ReconCauseReads
<1>2. /\ rc[r] \in ReconState /\ rc[r].todo \in SUBSET Trades /\ OpenTrades \in SUBSET Trades
      /\ rc[r].base \in Row /\ rc[r].cause \in Causes
      /\ rc[r].pc \notin {"idle", "next"} => rc[r].cur \in Trades
  BY DEF TypeInv, TypeOK, Refs, ReconState, OpenTrades
<1>3. /\ NoRow \in Row /\ "none" \in Causes /\ Mine(ReconIdle)
      /\ \A todo \in SUBSET Trades : Mine([ReconIdle EXCEPT !.pc = "next", !.todo = todo])
  <2>1. \A todo \in SUBSET Trades : [ReconIdle EXCEPT !.pc = "next", !.todo = todo].pc = "next"
    BY DEF ReconIdle
  <2>2. \A todo \in SUBSET Trades :
           [ReconIdle EXCEPT !.pc = "next", !.todo = todo] \in ReconState
    BY IdleTypes DEF ReconState
  <2> QED
    BY <2>1, <2>2, IdleTypes DEF Causes, ReconIdle
<1>4. ASSUME db' \in [Trades -> Row], \A t \in Trades : db'[t].sl <= Len(book),
             NEW x, Mine(x), rc' = [rc EXCEPT ![r] = x]
      PROVE  TypeInv'
  <2>2. /\ rc' \in [Reconcilers -> ReconState]
        /\ \A q \in Reconcilers : rc'[q].pc \notin {"idle", "next"} => rc'[q].cur \in Trades
    BY <1>4 DEF TypeInv, TypeOK, Refs
  <2>3. ks' \in [KillThreads -> KillState] /\ \A k \in KillThreads :
              /\ ks'[k].base.sl <= Len(book')
              /\ ks'[k].pc \notin {"ready", "next", "done"} => ks'[k].cur \in Trades
    BY <1>1 DEF TypeInv, TypeOK, Refs
  <2> QED
    BY <1>1, <1>4, <2>2, <2>3, ThreadFrame
<1>5. UNCHANGED db => db' \in [Trades -> Row] /\ \A t \in Trades : db'[t].sl <= Len(book)
  BY DEF TypeInv, TypeOK, Refs
<1>6. CASE ReconList(r)
  <2> DEFINE targets == {t \in OpenTrades : OldEnough(t)}
  <2>1. targets \in SUBSET Trades
    BY <1>2
  <2> QED
    BY <1>3, <1>4, <1>5, <1>6, <2>1 DEF ReconList
<1>7. ASSUME NEW t \in Trades, ReconLoad(r, t) PROVE TypeInv'
  <2>1. rc[r].todo \ {t} \in SUBSET Trades /\ db[t] \in Row
    BY <1>2 DEF TypeInv, TypeOK
  <2>2. rc[r].pc = "next"
    BY <1>7 DEF ReconLoad, Recon
  <2> DEFINE held == [rc[r] EXCEPT !.pc = "held", !.todo = rc[r].todo \ {t}, !.cur = t, !.base = db[t]]
             drop == [rc[r] EXCEPT !.todo = rc[r].todo \ {t}]
  <2>3. Mine(held)
    <3>1. held \in ReconState /\ held.cur = t
      BY <1>2, <2>1 DEF ReconState
    <3> QED
      BY <3>1
  <2>4. Mine(drop)
    BY <1>2, <2>1, <2>2, ReconDropField
  <2>5. rc' = [rc EXCEPT ![r] = held] \/ rc' = [rc EXCEPT ![r] = drop]
    BY <1>7 DEF ReconLoad
  <2> QED
    BY <1>4, <1>5, <1>7, <2>3, <2>4, <2>5 DEF ReconLoad
<1>8. CASE ReconHeld(r)
  <2>1. rc[r].cur \in Trades
    BY <1>2, <1>8 DEF ReconHeld, Recon
  <2>2. Mine([rc[r] EXCEPT !.pc = "candidate"])
    BY <1>2, <2>1, ReconPcField
  <2> QED
    BY <1>2, <1>3, <1>4, <1>5, <1>8, <2>2 DEF ReconHeld, ReconNext
<1>9. CASE ReconCandidate(r)
  <2>1. rc[r].cur \in Trades
    BY <1>2, <1>9 DEF ReconCandidate, Recon
  <2>2. \A why \in Causes : Mine([rc[r] EXCEPT !.pc = "commit", !.cause = why])
    BY <1>2, <2>1, ReconCauseField
  <2>3. \/ \E why \in Causes : rc' = [rc EXCEPT ![r] = [rc[r] EXCEPT !.pc = "commit", !.cause = why]]
        \/ ReconNext(r)
    BY <1>9 DEF ReconCandidate, TypeInv, TypeOK
  <2> QED
    BY <1>2, <1>3, <1>4, <1>5, <1>9, <2>2, <2>3 DEF ReconCandidate, ReconNext
<1>10. CASE ReconCommit(r)
  <2>1. rc[r].cur \in Trades
    BY <1>2, <1>10 DEF ReconCommit, Recon
  <2> DEFINE new == CloseTrade(rc[r].base, rc[r].cause)
             row == Merge(db[rc[r].cur], rc[r].base, new)
  <2>2. row \in Row
    <3>1. new \in Row /\ db[rc[r].cur] \in Row
      BY <1>2, <2>1, CloseTradeType DEF TypeInv, TypeOK
    <3> QED
      BY <1>2, <3>1, MergeType
  <2>3. row.sl = db[rc[r].cur].sl
    BY <1>2, CloseTradeType DEF Merge
  <2>4. db' = [db EXCEPT ![rc[r].cur] = row]
    BY <1>10 DEF ReconCommit
  <2>5. db' \in [Trades -> Row] /\ \A t \in Trades : db'[t].sl <= Len(book)
    BY <2>1, <2>2, <2>3, <2>4 DEF TypeInv, TypeOK, Refs
  <2> QED
    BY <1>2, <1>3, <1>4, <1>10, <2>5 DEF ReconCommit, ReconNext
<1>11. CASE ReconEnd(r)
  BY <1>3, <1>4, <1>5, <1>11 DEF ReconEnd
<1>12. CASE ReconBusy(r)
  BY <1>3, <1>4, <1>5, <1>12 DEF ReconBusy
<1> QED
  BY <1>6, <1>7, <1>8, <1>9, <1>10, <1>11, <1>12 DEF ReconStep

LEMMA KillFields ==
    ASSUME NEW x \in KillState, NEW pc \in {"sell", "close"}
    PROVE  LET y == [x EXCEPT !.pc = pc]
           IN  y \in KillState /\ y.pc = pc /\ y.cur = x.cur /\ y.base = x.base
BY DEF KillState

LEMMA KillNextState ==
    ASSUME NEW todo \in SUBSET Trades
    PROVE  LET y == [KillReady EXCEPT !.pc = "next", !.todo = todo]
           IN  y \in KillState /\ y.pc = "next" /\ y.todo = todo /\ y.base = NoRow
<1>1. KillReady \in KillState /\ KillReady.base = NoRow
  BY IdleTypes DEF KillReady
<1> QED
  BY <1>1 DEF KillState

LEMMA TypeKill ==
    ASSUME TypeInv, NEW k \in KillThreads, KillStep(k) \/ KillBusy(k)
    PROVE  TypeInv'
<1> DEFINE Mine(x) == /\ x \in KillState /\ x.base.sl <= Len(book)
                      /\ x.pc \notin {"ready", "next", "done"} => x.cur \in Trades
<1>0. BookOK /\ Len(book) \in Nat
  BY LenBookNat DEF TypeInv, TypeOK, BookOK
<1>1. /\ ks[k] \in KillState /\ ks[k].todo \in SUBSET Trades /\ OpenTrades \in SUBSET Trades
      /\ ks[k].base \in Row /\ ks[k].base.sl \in 0..Len(book)
      /\ ks[k].pc \notin {"ready", "next", "done"} => ks[k].cur \in Trades
  BY <1>0 DEF TypeInv, TypeOK, Refs, KillState, OpenTrades, Row, OrderIds
<1>2. BookStep
  <2>1. CASE KillCancel(k)
    BY <1>0, <1>1, <2>1, CancelSellBook DEF KillCancel
  <2>2. CASE KillSell(k)
    <3>1. ks[k].cur \in Trades
      BY <1>1, <2>2 DEF KillSell, Kill
    <3> QED
      BY <1>0, <2>2, <3>1, PlaceSellBook, BookSame DEF KillSell
  <2>3. CASE UNCHANGED book
    BY <1>0, <2>3, BookSame
  <2> QED
    BY <2>1, <2>2, <2>3
    DEF KillStep, KillBusy, KillList, KillLoad, KillClose, KillEnd
<1>3. UNCHANGED <<worldVars, trackerVars, rc>> /\ \E d : Calm \/ Disturb(d)
  BY DEF KillStep, KillBusy, KillList, KillLoad, KillCancel, KillSell, KillClose, KillEnd,
         Kill, CancelSell
<1>4. ASSUME db' \in [Trades -> Row], \A t \in Trades : db'[t].sl <= Len(book),
             NEW x, Mine(x), ks' = [ks EXCEPT ![k] = x]
      PROVE  TypeInv'
  <2>1. Len(book') \in Nat /\ Len(book) <= Len(book')
    BY <1>2, LenProperties DEF BookStep
  <2>2. /\ ks' \in [KillThreads -> KillState]
        /\ \A q \in KillThreads :
              /\ ks'[q].base.sl <= Len(book)
              /\ ks'[q].pc \notin {"ready", "next", "done"} => ks'[q].cur \in Trades
    BY <1>4 DEF TypeInv, TypeOK, Refs
  <2>3. /\ \A q \in KillThreads : ks'[q].base.sl <= Len(book')
        /\ \A t \in Trades : db'[t].sl <= Len(book')
    BY <1>0, <1>4, <2>1, <2>2 DEF KillState, Row, OrderIds
  <2>4. /\ rc' \in [Reconcilers -> ReconState]
        /\ \A r \in Reconcilers : rc'[r].pc \notin {"idle", "next"} => rc'[r].cur \in Trades
    BY <1>3 DEF TypeInv, TypeOK, Refs
  <2> QED
    BY <1>2, <1>3, <1>4, <2>2, <2>3, <2>4, ThreadFrame
<1>5. UNCHANGED db => db' \in [Trades -> Row] /\ \A t \in Trades : db'[t].sl <= Len(book)
  BY DEF TypeInv, TypeOK, Refs
<1>6. ASSUME NEW todo \in SUBSET Trades
      PROVE  Mine([KillReady EXCEPT !.pc = "next", !.todo = todo])
  <2> DEFINE y == [KillReady EXCEPT !.pc = "next", !.todo = todo]
  <2>1. y \in KillState /\ y.pc = "next" /\ y.base = NoRow
    BY KillNextState
  <2> HIDE DEF y
  <2>2. Mine(y)
    BY <1>0, <2>1, IdleTypes
  <2> QED
    BY <2>2 DEF y
<1>7. CASE KillList(k)
  BY <1>1, <1>4, <1>5, <1>6, <1>7 DEF KillList
<1>8. ASSUME NEW t \in Trades, KillLoad(k, t) PROVE TypeInv'
  <2> DEFINE x == [pc |-> IF db[t].sl # 0 THEN "cancel" ELSE "sell",
                   todo |-> ks[k].todo \ {t}, cur |-> t, base |-> db[t]]
  <2>1. Mine(x)
    BY <1>1 DEF TypeInv, TypeOK, Refs, KillState
  <2> QED
    BY <1>4, <1>5, <1>8, <2>1 DEF KillLoad
<1>9. CASE KillCancel(k)
  <2>1. Mine([ks[k] EXCEPT !.pc = "sell"])
    <3> DEFINE y == [ks[k] EXCEPT !.pc = "sell"]
    <3>1. y \in KillState /\ y.cur = ks[k].cur /\ y.base = ks[k].base
      BY <1>1, KillFields
    <3>2. ks[k].cur \in Trades
      BY <1>1, <1>9 DEF KillCancel, Kill
    <3> HIDE DEF y
    <3>3. Mine(y)
      BY <1>0, <1>1, <3>1, <3>2
    <3> QED
      BY <3>3 DEF y
  <2> QED
    BY <1>4, <1>5, <1>9, <2>1 DEF KillCancel
<1>10. CASE KillSell(k)
  <2>1. Mine([ks[k] EXCEPT !.pc = "close"])
    <3> DEFINE y == [ks[k] EXCEPT !.pc = "close"]
    <3>1. y \in KillState /\ y.cur = ks[k].cur /\ y.base = ks[k].base
      BY <1>1, KillFields
    <3>2. ks[k].cur \in Trades
      BY <1>1, <1>10 DEF KillSell, Kill
    <3> HIDE DEF y
    <3>3. Mine(y)
      BY <1>0, <1>1, <3>1, <3>2
    <3> QED
      BY <3>3 DEF y
  <2> QED
    BY <1>1, <1>4, <1>5, <1>6, <1>10, <2>1 DEF KillSell, KillNext
<1>11. CASE KillClose(k)
  <2>1. ks[k].cur \in Trades
    BY <1>1, <1>11 DEF KillClose, Kill
  <2> DEFINE old == ks[k].base
             new == CloseTrade([old EXCEPT !.sl = 0], "sqoff_session")
             row == Merge(db[ks[k].cur], old, new)
  <2>2. [old EXCEPT !.sl = 0] \in Row /\ [old EXCEPT !.sl = 0].sl = 0
    <3>1. 0 \in OrderIds /\ old \in Row
      BY <1>1, BoundsAssumption DEF OrderIds
    <3> QED
      BY <3>1, RowFields
  <2>3. new \in Row /\ new.sl = 0
    <3>1. "sqoff_session" \in Causes
      BY DEF Causes
    <3> QED
      BY <2>2, <3>1, CloseTradeType
  <2>4. row \in Row /\ row.sl \in {db[ks[k].cur].sl, 0}
    <3>1. db[ks[k].cur] \in Row
      BY <2>1 DEF TypeInv, TypeOK
    <3> HIDE DEF new
    <3> QED
      BY <1>1, <2>3, <3>1, MergeType
  <2> HIDE DEF row, new
  <2>5. [db EXCEPT ![ks[k].cur] = row] \in [Trades -> Row]
        /\ \A t \in Trades : [db EXCEPT ![ks[k].cur] = row][t].sl <= Len(book)
    BY <1>0, <2>1, <2>4 DEF TypeInv, TypeOK, Refs
  <2>6. UNCHANGED db \/ db' = [db EXCEPT ![ks[k].cur] = row]
    BY <1>11 DEF KillClose, row, new
  <2> QED
    BY <1>1, <1>4, <1>5, <1>6, <1>11, <2>5, <2>6 DEF KillClose, KillNext
<1>12. CASE KillBusy(k)
  BY <1>1, <1>4, <1>5, <1>6, <1>12 DEF KillBusy, KillNext
<1>13. CASE KillEnd(k)
  <2>1. Mine(KillDone)
    BY <1>0, IdleTypes DEF KillDone, KillReady
  <2> QED
    BY <1>4, <1>5, <1>13, <2>1 DEF KillEnd
<1> QED
  BY <1>7, <1>8, <1>9, <1>10, <1>11, <1>12, <1>13 DEF KillStep

LEMMA TypeStep == TypeInv /\ [Next]_vars => TypeInv'
<1> SUFFICES ASSUME TypeInv, [Next]_vars PROVE TypeInv'
  OBVIOUS
<1>1. CASE UNCHANGED vars
  <2>1. locked' \in BOOLEAN
    BY <1>1 DEF TypeInv, TypeOK, vars, trackerVars
  <2> QED
    BY <1>1, <2>1 DEF TypeInv, TypeOK, Refs, vars
<1>2. CASE Next
  BY <1>2, TypeWorld, TypeTracker, TypeRecon, TypeKill DEF Next
<1> QED
  BY <1>1, <1>2

\* Every variable has its type in every reachable state, and every order id an
\* actor or a row holds is that of an order the broker knows.
THEOREM TypeCorrect == Spec => []TypeOK
<1>1. Spec => []TypeInv
  BY TypeInit, TypeStep, PTL DEF Spec
<1>2. TypeInv => TypeOK
  BY DEF TypeInv
<1> QED
  BY <1>1, <1>2, PTL

-----------------------------------------------------------------------------
(***************************************************************************)
(* What TradeExit keeps true of a trade's row, whatever the tracker, the   *)
(* reconcilers, the killswitch requests, the broker and the user do in     *)
(* between each other's steps, for every number of each.                   *)
(***************************************************************************)

ReconCauses == {"recon_user_exit", "recon_user_sl_filled"}
StopCauses == {"sl_hit", "trailing_sl"}

\* The inductive invariant speaks of rows and order books as values, so that the
\* same lemmas serve a row in the table and one in an actor's memory.
IsStop(bk, t, o) == o \in 1..Len(bk) /\ bk[o].trade = t /\ bk[o].kind = "sl"
StopFilled(bk, t) == \E o \in 1..Len(bk) : IsStop(bk, t, o) /\ bk[o].status = "complete"

\* A row of trade t that is consistent with book bk and position p.
RowGood(bk, p, t, row) ==
    /\ row.status = "closed" <=> row.cause # "none"
    /\ row.cause \in ReconCauses => p <= 0
    /\ row.cause \in StopCauses => StopFilled(bk, t)
    /\ row.sl # 0 => IsStop(bk, t, row.sl)

RowsOK == \A t \in Trades : /\ RowGood(book, pos[t], t, db[t])
                            /\ RowGood(book, pos[t], t, work[t])

\* The tracker works on rows that were open when it loaded them, each at most
\* once, and holds the order and the knowledge its next step relies on.
TrackerOK ==
    /\ \A t \in Trades :
          /\ base[t].status \in {"none", "open"}
          /\ base[t].cause = "none"
          /\ base[t].status = "open" => db[t].status # "none"
          /\ \/ work[t].status = base[t].status
             \/ base[t].status = "open" /\ work[t].status = "closed"
    /\ \A t \in tk.todo : work[t].status = "open"
    /\ tk.cur \notin tk.todo
    /\ tk.pc \notin {"idle", "pick"} => work[tk.cur].status = "open"
    /\ tk.pc \in {"sync", "trail", "reread", "sqCancel"} => work[tk.cur].sl # 0
    /\ tk.pc \in {"verify", "scrap"} => IsStop(book, tk.cur, tk.ord)
    /\ tk.pc = "candidate" => pos[tk.cur] <= 0

\* A reconciler that has found a position gone is right about it, now and later.
ReconOK ==
    \A r \in Reconcilers :
        /\ \A t \in rc[r].todo : age[t] = "aged" /\ db[t].status # "none"
        /\ rc[r].pc \in {"held", "candidate", "commit"} =>
              /\ rc[r].base.status = "open"
              /\ rc[r].base.cause = "none"
              /\ db[rc[r].cur].status # "none"
              /\ age[rc[r].cur] = "aged"
        /\ rc[r].pc \in {"candidate", "commit"} => pos[rc[r].cur] <= 0
        /\ rc[r].pc = "commit" => rc[r].cause \in ReconCauses

\* A killswitch request may hold a row that was closed before it loaded it.
KillOK ==
    \A k \in KillThreads :
        /\ \A t \in ks[k].todo : db[t].status # "none"
        /\ ks[k].pc \in {"cancel", "sell", "close"} =>
              /\ db[ks[k].cur].status # "none"
              /\ ks[k].base.status # "none"
              /\ ks[k].base.status = "closed" <=> ks[k].base.cause # "none"
              /\ ks[k].base.status = "closed" => db[ks[k].cur].status = "closed"

Safe == RowsOK /\ TrackerOK /\ ReconOK /\ KillOK
IInv == TypeInv /\ Safe

-----------------------------------------------------------------------------
(* Rows *)

\* Orders are never taken back and a position that is gone stays gone, so a
\* consistent row stays consistent.
LEMMA RowStable ==
    ASSUME BookOK, BookStep, NEW p, NEW q, p <= 0 => q <= 0,
           NEW t, NEW row, RowGood(book, p, t, row)
    PROVE  RowGood(book', q, t, row)
<1>1. Len(book) \in Nat /\ Len(book') \in Nat /\ Len(book) <= Len(book')
  BY LenProperties DEF BookOK, BookStep
<1>2. \A o \in 1..Len(book) : IsStop(book, t, o) => IsStop(book', t, o)
  BY <1>1 DEF IsStop, BookStep
<1>3. row.sl # 0 => IsStop(book', t, row.sl)
  BY <1>2 DEF RowGood, IsStop
<1>4. StopFilled(book, t) => StopFilled(book', t)
  <2>1. SUFFICES ASSUME NEW o \in 1..Len(book), IsStop(book, t, o), book[o].status = "complete"
                 PROVE  StopFilled(book', t)
    BY DEF StopFilled
  <2>2. o \in 1..Len(book') /\ book'[o].status = "complete" /\ IsStop(book', t, o)
    BY <1>1, <1>2, <2>1 DEF BookStep
  <2> QED
    BY <2>2 DEF StopFilled
<1> QED
  BY <1>3, <1>4 DEF RowGood

LEMMA StopStable ==
    ASSUME BookOK, BookStep, NEW t, NEW o, IsStop(book, t, o)
    PROVE  IsStop(book', t, o)
<1>1. Len(book) \in Nat /\ Len(book') \in Nat /\ Len(book) <= Len(book')
  BY LenProperties DEF BookOK, BookStep
<1> QED
  BY <1>1 DEF IsStop, BookStep

LEMMA NoRowGood == ASSUME NEW bk, NEW p, NEW t PROVE RowGood(bk, p, t, NoRow)
BY DEF RowGood, NoRow, ReconCauses, StopCauses

\* The column-wise UPDATE of a row that was open when it was loaded.
LEMMA MergeGood ==
    ASSUME NEW bk, NEW p, NEW t, NEW row \in Row, NEW old \in Row, NEW new \in Row,
           RowGood(bk, p, t, row), RowGood(bk, p, t, new),
           old.status # "closed", old.cause = "none",
           new.status \in {old.status, "closed"}
    PROVE  /\ RowGood(bk, p, t, Merge(row, old, new))
           /\ Merge(row, old, new).status \in {row.status, "closed"}
<1> DEFINE m == Merge(row, old, new)
<1>1. /\ m.status = IF new.status # old.status THEN new.status ELSE row.status
      /\ m.cause = IF new.cause # old.cause THEN new.cause ELSE row.cause
      /\ m.sl = IF new.sl # old.sl THEN new.sl ELSE row.sl
  BY DEF Merge
<1>2. m.status \in {row.status, "closed"}
  BY <1>1
<1>3. m.sl # 0 => IsStop(bk, t, m.sl)
  BY <1>1 DEF RowGood
<1>4. \/ m.status = "closed" /\ m.cause = new.cause /\ new.status = "closed"
      \/ m.status = row.status /\ m.cause = row.cause
  <2>1. CASE new.status = "closed"
    <3>1. new.cause # "none"
      BY <2>1 DEF RowGood
    <3> QED
      BY <1>1, <2>1, <3>1
  <2>2. CASE new.status # "closed"
    <3>1. new.cause = "none"
      BY <2>2 DEF RowGood
    <3> QED
      BY <1>1, <2>2, <3>1
  <2> QED
    BY <2>1, <2>2
<1> HIDE DEF m
<1>5. RowGood(bk, p, t, m)
  <2>1. CASE m.status = "closed" /\ m.cause = new.cause /\ new.status = "closed"
    BY <1>3, <2>1 DEF RowGood
  <2>2. CASE m.status = row.status /\ m.cause = row.cause
    BY <1>3, <2>2 DEF RowGood
  <2> QED
    BY <1>4, <2>1, <2>2
<1> QED
  BY <1>2, <1>5 DEF m

-----------------------------------------------------------------------------
LEMMA SafeInit == Init => Safe
<1> SUFFICES ASSUME Init PROVE Safe
  OBVIOUS
<1>1. RowsOK
  BY NoRowGood DEF Init, RowsOK
<1>2. TrackerOK
  BY DEF Init, TrackerOK, NoRow, TrackerIdle
<1>3. ReconOK /\ KillOK
  BY DEF Init, ReconOK, KillOK, ReconIdle, KillReady
<1> QED
  BY <1>1, <1>2, <1>3 DEF Safe

\* The world moving on by itself: fills, rejections, the user, the clock.
LEMMA QuietSafe ==
    ASSUME IInv, BookStep, UNCHANGED <<db, trackerVars, rc, ks>>,
           \A t \in Trades : pos[t] <= 0 => pos'[t] <= 0,
           \A t \in Trades : age[t] = "aged" => age'[t] = "aged"
    PROVE  Safe'
<1>1. BookOK
  BY DEF IInv, TypeInv, TypeOK, BookOK
<1>2. RowsOK'
  BY <1>1, RowStable DEF IInv, Safe, RowsOK, trackerVars
<1>3. TrackerOK'
  <2>1. IsStop(book, tk.cur, tk.ord) => IsStop(book', tk.cur, tk.ord)
    BY <1>1, StopStable
  <2>2. tk.pc = "candidate" => tk.cur \in Trades
    BY DEF IInv, TypeInv, Refs
  <2> QED
    BY <2>1, <2>2 DEF IInv, Safe, TrackerOK, trackerVars
<1>4. ReconOK'
  <2>1. \A r \in Reconcilers : /\ rc[r].todo \subseteq Trades
                               /\ rc[r].pc \notin {"idle", "next"} => rc[r].cur \in Trades
    BY DEF IInv, TypeInv, TypeOK, Refs, ReconState
  <2> QED
    BY <2>1 DEF IInv, Safe, ReconOK
<1>5. KillOK'
  BY DEF IInv, Safe, KillOK
<1> QED
  BY <1>2, <1>3, <1>4, <1>5 DEF Safe

LEMMA SafeWorld == ASSUME IInv, World PROVE Safe'
<1>0. BookOK /\ pos \in [Trades -> Int] /\ TypeInv
  BY DEF IInv, TypeInv, TypeOK, BookOK
<1>1. ASSUME NEW t \in Trades, OpenTrade(t) PROVE Safe'
  <2>1. /\ BookStep
        /\ IsStop(book', t, Len(book) + 1)
    <3>1. /\ BookStep /\ Len(book') = Len(book) + 1
          /\ book'[Len(book) + 1] = [trade |-> t, kind |-> "sl", status |-> "live"]
      BY <1>0, <1>1, PlaceSellBook DEF OpenTrade
    <3>2. Len(book) \in Nat
      BY <1>0, LenBookNat
    <3> QED
      BY <3>1, <3>2 DEF IsStop
  <2>2. /\ db[t].status = "none" /\ db' = [db EXCEPT ![t] = NewRow(Len(book) + 1)]
        /\ pos' = [pos EXCEPT ![t] = 1] /\ UNCHANGED <<age, trackerVars, rc, ks>>
        /\ db \in [Trades -> Row]
    BY <1>0, <1>1 DEF OpenTrade, TypeInv, TypeOK
  <2>3. NewRow(Len(book) + 1).status = "open" /\ RowGood(book', 1, t, NewRow(Len(book) + 1))
    BY <2>1 DEF NewRow, RowGood, ReconCauses, StopCauses
  <2>4. base[t].status = "none" /\ work[t].status = "none"
    BY <2>2 DEF IInv, Safe, TrackerOK
  <2>5. RowGood(book', 1, t, work[t])
    <3>1. work[t].cause = "none"
      BY <2>4 DEF IInv, Safe, RowsOK, RowGood
    <3>2. RowGood(book, 1, t, work[t])
      BY <3>1 DEF IInv, Safe, RowsOK, RowGood, ReconCauses
    <3> QED
      BY <1>0, <2>1, <3>2, RowStable
  <2>6. RowsOK'
    <3>1. ASSUME NEW u \in Trades PROVE RowGood(book', pos'[u], u, db'[u]) /\ RowGood(book', pos'[u], u, work'[u])
      <4>1. CASE u = t
        BY <1>0, <2>2, <2>3, <2>5, <4>1 DEF trackerVars
      <4>2. CASE u # t
        BY <1>0, <2>1, <2>2, <4>2, RowStable DEF IInv, Safe, RowsOK, trackerVars
      <4> QED
        BY <4>1, <4>2
    <3> QED
      BY <3>1 DEF RowsOK
  <2>7. TrackerOK'
    <3>1. IsStop(book, tk.cur, tk.ord) => IsStop(book', tk.cur, tk.ord)
      BY <1>0, <2>1, StopStable
    <3>2. tk.pc = "candidate" => tk.cur \in Trades /\ tk.cur # t
      BY <1>0, <2>4 DEF IInv, Safe, TrackerOK, TypeInv, Refs
    <3>3. \A u \in Trades : db[u].status # "none" => db'[u].status # "none"
      BY <2>2, <2>3
    <3>4. tk.pc = "candidate" => pos'[tk.cur] <= 0
      BY <1>0, <2>2, <3>2 DEF IInv, Safe, TrackerOK
    <3> QED
      BY <2>2, <3>1, <3>3, <3>4 DEF IInv, Safe, TrackerOK, trackerVars
  <2>8. ReconOK'
    <3>1. ASSUME NEW r \in Reconcilers
          PROVE  /\ rc[r].todo \subseteq Trades
                 /\ rc[r].pc \notin {"idle", "next"} => rc[r].cur \in Trades
      BY <1>0 DEF TypeInv, TypeOK, Refs, ReconState
    <3>2. \A u \in Trades : db[u].status # "none" => u # t /\ db'[u].status # "none" /\ pos'[u] = pos[u]
      BY <1>0, <2>2, <2>3
    <3> QED
      BY <2>2, <3>1, <3>2 DEF IInv, Safe, ReconOK
  <2>9. KillOK'
    <3>1. ASSUME NEW k \in KillThreads
          PROVE  /\ ks[k].todo \subseteq Trades
                 /\ ks[k].pc \notin {"ready", "next", "done"} => ks[k].cur \in Trades
      BY <1>0 DEF TypeInv, TypeOK, Refs, KillState
    <3>2. \A u \in Trades : db[u].status # "none" => db'[u] = db[u]
      BY <2>2
    <3> QED
      BY <2>2, <3>1, <3>2 DEF IInv, Safe, KillOK
  <2> QED
    BY <2>6, <2>7, <2>8, <2>9 DEF Safe
<1>2. ASSUME NEW o \in 1..Len(book), Fill(o) PROVE Safe'
  <2>1. BookStep /\ book[o].trade \in Trades
    BY <1>0, <1>2, SetStatusBook, LenBookNat DEF Fill, SellOrder
  <2>2. \A t \in Trades : pos[t] <= 0 => pos'[t] <= 0
    BY <1>0, <1>2, <2>1 DEF Fill
  <2> QED
    BY <1>2, <2>1, <2>2, QuietSafe DEF Fill
<1>3. ASSUME NEW o \in 1..Len(book), Reject(o) PROVE Safe'
  BY <1>0, <1>3, SetStatusBook, QuietSafe DEF Reject, worldVars
<1>4. ASSUME NEW t \in Trades, UserExit(t) PROVE Safe'
  <2>1. BookStep
    BY <1>0, <1>4, BookSame DEF UserExit
  <2>2. \A u \in Trades : pos[u] <= 0 => pos'[u] <= 0
    BY <1>0, <1>4 DEF UserExit
  <2> QED
    BY <1>4, <2>1, <2>2, QuietSafe DEF UserExit
<1>5. ASSUME NEW t \in Trades, GrowOlder(t) PROVE Safe'
  <2>1. BookStep
    BY <1>0, <1>5, BookSame DEF GrowOlder
  <2>2. \A u \in Trades : age[u] = "aged" => age'[u] = "aged"
    BY <1>0, <1>5 DEF GrowOlder, TypeInv, TypeOK
  <2> QED
    BY <1>5, <2>1, <2>2, QuietSafe DEF GrowOlder
<1>6. CASE EndSession
  BY <1>0, <1>6, BookSame, QuietSafe DEF EndSession
<1>7. CASE Crash
  <2>1. UNCHANGED <<db, book, pos, age>>
    BY <1>7 DEF Crash, worldVars
  <2>2. RowsOK'
    BY <1>7, <2>1, NoRowGood DEF Crash, IInv, Safe, RowsOK
  <2>3. TrackerOK'
    BY <1>7 DEF Crash, TrackerOK, TrackerIdle, NoRow
  <2>4. ReconOK'
    BY <1>7 DEF Crash, ReconOK, ReconIdle
  <2>5. KillOK'
    <3>1. KillDone.todo = {} /\ KillDone.pc = "done"
      BY DEF KillDone, KillReady
    <3>2. ASSUME NEW k \in KillThreads PROVE ks'[k] = KillDone \/ ks'[k] = ks[k]
      BY <1>7, <3>2 DEF Crash
    <3> QED
      BY <2>1, <3>1, <3>2 DEF KillOK, IInv, Safe
  <2> QED
    BY <2>2, <2>3, <2>4, <2>5 DEF Safe
<1> QED
  BY <1>1, <1>2, <1>3, <1>4, <1>5, <1>6, <1>7 DEF World

-----------------------------------------------------------------------------
(* The tracker *)

\* A step in the middle of a trade: what it makes of the row must be consistent,
\* and it either goes on with the open row or takes the next trade.
LEMMA TrackerSafe ==
    ASSUME IInv, BookStep, UNCHANGED <<db, worldVars, rc, ks, base>>,
           tk.pc \notin {"idle", "pick"},
           NEW row, RowGood(book', pos[tk.cur], tk.cur, row),
           row.status \in {"open", "closed"},
           work' = [work EXCEPT ![tk.cur] = row],
           tk'.todo = tk.todo,
           \/ tk'.pc = "pick" /\ tk'.cur = NoTrade
           \/ /\ row.status = "open" /\ tk'.cur = tk.cur
              /\ tk'.pc \in {"sync", "trail", "reread", "sqCancel"} => row.sl # 0
              /\ tk'.pc \in {"verify", "scrap"} => IsStop(book', tk.cur, tk'.ord)
              /\ tk'.pc = "candidate" => pos[tk.cur] <= 0
    PROVE  Safe'
<1>1. /\ BookOK /\ tk.cur \in Trades /\ work \in [Trades -> Row]
      /\ tk.todo \in SUBSET Trades /\ tk.cur \notin tk.todo
      /\ UNCHANGED <<pos, age>> /\ base[tk.cur].status = "open"
  BY DEF IInv, Safe, TrackerOK, TypeInv, TypeOK, Refs, BookOK, TrackerState, worldVars
<1>2. RowsOK'
  <2>1. ASSUME NEW t \in Trades PROVE RowGood(book', pos'[t], t, db'[t]) /\ RowGood(book', pos'[t], t, work'[t])
    <3>1. RowGood(book', pos[t], t, db[t]) /\ RowGood(book', pos[t], t, work[t])
      BY <1>1, RowStable DEF IInv, Safe, RowsOK
    <3> QED
      BY <1>1, <3>1
  <2> QED
    BY <2>1 DEF RowsOK
<1>3. TrackerOK'
  <2>1. ASSUME NEW t \in Trades
        PROVE  /\ base'[t].status \in {"none", "open"}
               /\ base'[t].cause = "none"
               /\ base'[t].status = "open" => db'[t].status # "none"
               /\ \/ work'[t].status = base'[t].status
                  \/ base'[t].status = "open" /\ work'[t].status = "closed"
    BY <1>1 DEF IInv, Safe, TrackerOK
  <2>2. \A t \in tk'.todo : work'[t].status = "open"
    BY <1>1 DEF IInv, Safe, TrackerOK
  <2>3. /\ tk'.cur \notin tk'.todo
        /\ tk'.pc \notin {"idle", "pick"} => work'[tk'.cur].status = "open"
        /\ tk'.pc \in {"sync", "trail", "reread", "sqCancel"} => work'[tk'.cur].sl # 0
        /\ tk'.pc \in {"verify", "scrap"} => IsStop(book', tk'.cur, tk'.ord)
        /\ tk'.pc = "candidate" => pos'[tk'.cur] <= 0
    BY <1>1, TradesAssumption
  <2> QED
    BY <2>1, <2>2, <2>3 DEF TrackerOK
<1>4. ReconOK' /\ KillOK'
  BY <1>1 DEF IInv, Safe, ReconOK, KillOK
<1> QED
  BY <1>2, <1>3, <1>4 DEF Safe

\* What the steps of process_trade may rely on, and the rows they may write.
LEMMA CurSafe ==
    ASSUME IInv, BookStep, tk.pc \notin {"idle", "pick"}
    PROVE  /\ tk.cur \in Trades /\ Cur \in Row /\ Cur.status = "open" /\ Cur.cause = "none"
           /\ RowGood(book', pos[tk.cur], tk.cur, Cur)
           /\ work = [work EXCEPT ![tk.cur] = Cur]
           /\ tk \in TrackerState
<1>1. tk.cur \in Trades /\ Cur \in Row /\ BookOK
  BY CurType DEF IInv
<1>2. RowGood(book, pos[tk.cur], tk.cur, Cur) /\ Cur.status = "open"
  BY <1>1 DEF IInv, Safe, RowsOK, TrackerOK, Cur
<1>3. RowGood(book', pos[tk.cur], tk.cur, Cur)
  BY <1>1, <1>2, RowStable
<1>4. work = [work EXCEPT ![tk.cur] = Cur] /\ tk \in TrackerState
  BY <1>1 DEF Cur, IInv, TypeInv, TypeOK
<1> QED
  BY <1>1, <1>2, <1>3, <1>4 DEF RowGood

\* fields of tk after Goto and NextTrade
LEMMA TkFields ==
    ASSUME tk \in TrackerState
    PROVE  /\ \A pc : Goto(pc) => /\ tk'.pc = pc /\ tk'.cur = tk.cur
                                  /\ tk'.todo = tk.todo /\ tk'.ord = tk.ord
           /\ NextTrade => tk'.pc = "pick" /\ tk'.cur = NoTrade /\ tk'.todo = tk.todo
BY DEF TrackerState, Goto, NextTrade

\* Leaving the row as it is.
LEMMA KeepSafe ==
    ASSUME IInv, BookStep, UNCHANGED <<db, worldVars, rc, ks, base, work>>,
           tk.pc \notin {"idle", "pick"},
           NEW pc, Goto(pc),
           pc \in {"sync", "trail", "reread", "sqCancel"} => Cur.sl # 0,
           pc \in {"verify", "scrap"} => IsStop(book', tk.cur, tk.ord),
           pc = "candidate" => pos[tk.cur] <= 0
    PROVE  Safe'
<1>1. /\ tk.cur \in Trades /\ Cur.status = "open" /\ tk \in TrackerState
      /\ RowGood(book', pos[tk.cur], tk.cur, Cur)
      /\ work' = [work EXCEPT ![tk.cur] = Cur]
  BY CurSafe
<1>2. tk'.pc = pc /\ tk'.cur = tk.cur /\ tk'.todo = tk.todo /\ tk'.ord = tk.ord
  BY <1>1, TkFields
<1> QED
  BY <1>1, <1>2, TrackerSafe

LEMMA NextSafe ==
    ASSUME IInv, BookStep, UNCHANGED <<db, worldVars, rc, ks, base, work>>,
           tk.pc \notin {"idle", "pick"}, NextTrade
    PROVE  Safe'
<1>1. /\ tk.cur \in Trades /\ Cur.status = "open" /\ tk \in TrackerState
      /\ RowGood(book', pos[tk.cur], tk.cur, Cur)
      /\ work' = [work EXCEPT ![tk.cur] = Cur]
  BY CurSafe
<1> QED
  BY <1>1, TkFields, TrackerSafe

\* Closing the row for a cause that is true.
LEMMA CloseSafe ==
    ASSUME IInv, BookStep, UNCHANGED <<db, worldVars, rc, ks, base>>,
           tk.pc \notin {"idle", "pick"}, NextTrade,
           NEW why \in Causes, why # "none",
           why \in ReconCauses => pos[tk.cur] <= 0,
           why \in StopCauses => StopFilled(book', tk.cur),
           NEW row, row.status = "closed", row.cause = why, row.sl = Cur.sl, Set(row)
    PROVE  Safe'
<1>1. /\ tk.cur \in Trades /\ tk \in TrackerState
      /\ RowGood(book', pos[tk.cur], tk.cur, Cur)
  BY CurSafe
<1>2. RowGood(book', pos[tk.cur], tk.cur, row)
  BY <1>1 DEF RowGood
<1>3. tk'.pc = "pick" /\ tk'.cur = NoTrade /\ tk'.todo = tk.todo
  BY <1>1, TkFields
<1> QED
  BY <1>2, <1>3, TrackerSafe DEF Set

\* Going on with an open row that differs in its stop-loss, stage or trail state.
LEMMA EditSafe ==
    ASSUME IInv, BookStep, UNCHANGED <<db, worldVars, rc, ks, base>>,
           tk.pc \notin {"idle", "pick"},
           NEW row, row.status = "open", row.cause = "none",
           row.sl # 0 => IsStop(book', tk.cur, row.sl), Set(row),
           \/ NextTrade
           \/ \E pc \in {"ensure", "position", "sqSell"} : Goto(pc)
           \/ Goto("trail") /\ row.sl # 0
    PROVE  Safe'
<1>1. tk.cur \in Trades /\ tk \in TrackerState
  BY CurSafe
<1>2. RowGood(book', pos[tk.cur], tk.cur, row)
  BY DEF RowGood, ReconCauses, StopCauses
<1>3. work' = [work EXCEPT ![tk.cur] = row]
  BY DEF Set
<1>4. CASE NextTrade
  BY <1>1, <1>2, <1>3, <1>4, TkFields, TrackerSafe
<1>5. CASE \E pc \in {"ensure", "position", "sqSell"} : Goto(pc)
  BY <1>1, <1>2, <1>3, <1>5, TkFields, TrackerSafe
<1>6. CASE Goto("trail") /\ row.sl # 0
  BY <1>1, <1>2, <1>3, <1>6, TkFields, TrackerSafe
<1> QED
  BY <1>4, <1>5, <1>6

LEMMA SafeTracker == ASSUME IInv, TrackerStep \/ TickBusy PROVE Safe'
<1>0. BookOK /\ TypeInv /\ Len(book) \in Nat /\ work \in [Trades -> Row]
  BY LenBookNat DEF IInv, TypeInv, TypeOK, BookOK
<1>1. ASSUME TickBegin PROVE Safe'
  <2>1. /\ BookStep /\ UNCHANGED <<db, pos, age, rc, ks, book>>
        /\ base' = [t \in Trades |-> IF t \in OpenTrades THEN db[t] ELSE NoRow]
        /\ work' = base'
        /\ tk'.pc = "pick" /\ tk'.todo = OpenTrades /\ tk'.cur = NoTrade
    BY <1>0, <1>1, BookSame DEF TickBegin, worldVars, TrackerIdle
  <2>2. \A t \in OpenTrades : t \in Trades /\ db[t].status = "open" /\ db[t].cause = "none"
    BY DEF OpenTrades, IInv, Safe, RowsOK, RowGood
  <2>3. RowsOK'
    BY <2>1, NoRowGood DEF IInv, Safe, RowsOK
  <2>4. TrackerOK'
    BY <2>1, <2>2, TradesAssumption DEF TrackerOK, NoRow
  <2> QED
    BY <2>1, <2>3, <2>4 DEF IInv, Safe, ReconOK, KillOK
<1>2. ASSUME NEW t \in Trades, TickPick(t) PROVE Safe'
  <2>1. /\ BookStep /\ UNCHANGED <<db, pos, age, rc, ks, base, book>>
        /\ t \in tk.todo /\ work[t].status = "open" /\ tk \in TrackerState
    BY <1>0, <1>2, BookSame DEF TickPick, Tracker, worldVars, IInv, Safe, TrackerOK, TypeInv, TypeOK
  <2>2. \/ work' = [work EXCEPT ![t].stage = "exiting"]
        \/ \E s : work' = [work EXCEPT ![t].stage = s]
        \/ work' = work
    BY <1>2 DEF TickPick
  <2>3. /\ \A u \in Trades : /\ work'[u].status = work[u].status
                             /\ work'[u].cause = work[u].cause
                             /\ work'[u].sl = work[u].sl
    BY <1>0, <2>2 DEF Row
  <2>4. RowsOK'
    BY <2>1, <2>3 DEF IInv, Safe, RowsOK, RowGood
  <2>5. /\ tk'.todo = tk.todo \ {t}
        /\ \/ tk'.pc = "pick" /\ tk'.cur = tk.cur
           \/ /\ tk'.pc \in {"sync", "ensure", "sqCancel", "sqSell"} /\ tk'.cur = t
              /\ tk'.pc \in {"sync", "sqCancel"} => work[t].sl # 0
    BY <1>2, <2>1 DEF TickPick, Tracker, TrackerState
  <2>6. TrackerOK'
    <3>1. ASSUME NEW u \in Trades
          PROVE  /\ base'[u].status \in {"none", "open"} /\ base'[u].cause = "none"
                 /\ base'[u].status = "open" => db'[u].status # "none"
                 /\ \/ work'[u].status = base'[u].status
                    \/ base'[u].status = "open" /\ work'[u].status = "closed"
      BY <2>1, <2>3 DEF IInv, Safe, TrackerOK
    <3>2. /\ \A u \in tk'.todo : work'[u].status = "open"
          /\ tk'.cur \notin tk'.todo
      BY <2>1, <2>3, <2>5 DEF IInv, Safe, TrackerOK, TrackerState
    <3>3. /\ tk'.pc \notin {"idle", "pick"} => work'[tk'.cur].status = "open"
          /\ tk'.pc \in {"sync", "trail", "reread", "sqCancel"} => work'[tk'.cur].sl # 0
          /\ tk'.pc \notin {"verify", "scrap", "candidate"}
      BY <2>1, <2>3, <2>5
    <3> QED
      BY <3>1, <3>2, <3>3 DEF TrackerOK
  <2> QED
    BY <2>1, <2>4, <2>6 DEF IInv, Safe, ReconOK, KillOK
<1>3. ASSUME tk.pc \notin {"idle", "pick"}, UNCHANGED book PROVE BookStep /\ Cur \in Row /\ Cur.status = "open" /\ Cur.cause = "none"
  BY <1>0, <1>3, BookSame, CurSafe
<1>4. ASSUME tk.pc \in {"sync", "reread"}, UNCHANGED book, Filled(Cur.sl)
      PROVE  StopFilled(book', tk.cur)
  <2>1. Cur.sl # 0 /\ RowGood(book', pos[tk.cur], tk.cur, Cur)
    BY <1>3, <1>4, CurSafe DEF IInv, Safe, TrackerOK, Cur
  <2> QED
    BY <1>4, <2>1 DEF RowGood, IsStop, StopFilled, Filled
<1>5. ASSUME tk.pc \in {"sync", "reread"}, UNCHANGED <<book, db, worldVars, rc, ks, base>>,
             Filled(Cur.sl), NextTrade, Set(CloseTrade(Cur, SlCause(Cur)))
      PROVE  Safe'
  <2>1. BookStep /\ Cur \in Row /\ StopFilled(book', tk.cur)
    BY <1>3, <1>4, <1>5
  <2>2. SlCause(Cur) \in Causes \ {"none"} /\ SlCause(Cur) \notin ReconCauses
    BY DEF SlCause, Causes, ReconCauses
  <2>3. LET row == CloseTrade(Cur, SlCause(Cur))
        IN  row.status = "closed" /\ row.cause = SlCause(Cur) /\ row.sl = Cur.sl
    BY <2>1, <2>2, CloseTradeType
  <2> QED
    BY <1>5, <2>1, <2>2, <2>3, CloseSafe
<1>6. CASE TickSync
  <2>1. /\ tk.pc = "sync" /\ UNCHANGED <<book, db, worldVars, rc, ks, base>>
        /\ Cur.sl # 0
    BY <1>6 DEF TickSync, Tracker, IInv, Safe, TrackerOK, Cur
  <2>2. BookStep /\ Cur \in Row /\ Cur.status = "open" /\ Cur.cause = "none"
    BY <1>3, <2>1
  <2>3. CASE Set([Cur EXCEPT !.sl = 0]) /\ Goto("ensure")
    <3>1. LET row == [Cur EXCEPT !.sl = 0]
          IN  row.status = "open" /\ row.cause = "none" /\ row.sl = 0
      BY <2>2 DEF Row
    <3> QED
      BY <2>1, <2>2, <2>3, <3>1, EditSafe
  <2>4. CASE Filled(Cur.sl) /\ Set(CloseTrade(Cur, SlCause(Cur))) /\ NextTrade
    BY <1>5, <2>1, <2>4
  <2>5. CASE UNCHANGED work /\ NextTrade
    BY <2>1, <2>2, <2>5, NextSafe
  <2>6. CASE UNCHANGED work /\ Goto("trail")
    BY <2>1, <2>2, <2>6, KeepSafe
  <2> QED
    BY <1>6, <2>3, <2>4, <2>5, <2>6 DEF TickSync
<1>7. CASE TickEnsure
  <2>1. tk.cur \in Trades /\ tk.pc = "ensure"
    BY <1>0, <1>7, CurType DEF TickEnsure, Tracker
  <2>2. CASE PlaceSell(tk.cur, "sl") /\ tk' = [tk EXCEPT !.pc = "verify", !.ord = Len(book) + 1]
    <3>1. BookStep /\ IsStop(book', tk.cur, Len(book) + 1)
      <4>1. /\ BookStep /\ Len(book') = Len(book) + 1
            /\ book'[Len(book) + 1] = [trade |-> tk.cur, kind |-> "sl", status |-> "live"]
        BY <1>0, <2>1, <2>2, PlaceSellBook
      <4>2. Len(book) \in Nat
        BY <1>0, LenBookNat
      <4> QED
        BY <4>1, <4>2 DEF IsStop
    <3>2. tk'.pc = "verify" /\ tk'.cur = tk.cur /\ tk'.todo = tk.todo /\ tk'.ord = Len(book) + 1
      BY <2>2 DEF IInv, TypeInv, TypeOK, TrackerState
    <3>3. /\ Cur.status = "open" /\ RowGood(book', pos[tk.cur], tk.cur, Cur)
          /\ work = [work EXCEPT ![tk.cur] = Cur]
      BY <2>1, <3>1, CurSafe
    <3>4. UNCHANGED <<db, worldVars, rc, ks, base, work>>
      BY <1>7 DEF TickEnsure, Tracker
    <3> QED
      BY <2>1, <3>1, <3>2, <3>3, <3>4, TrackerSafe
  <2>3. CASE Goto("defend")
    <3>1. BookStep
      BY <1>0, <1>7, <2>1, PlaceSellBook, BookSame DEF TickEnsure
    <3>2. UNCHANGED <<db, worldVars, rc, ks, base, work>>
      BY <1>7 DEF TickEnsure, Tracker
    <3> QED
      BY <2>1, <2>3, <3>1, <3>2, KeepSafe
  <2> QED
    BY <1>7, <2>2, <2>3 DEF TickEnsure
<1>8. CASE TickVerify
  <2>1. /\ tk.pc = "verify" /\ UNCHANGED <<book, db, worldVars, rc, ks, base>>
        /\ IsStop(book, tk.cur, tk.ord) /\ tk.ord # 0
    BY <1>0, <1>8 DEF TickVerify, Tracker, IInv, Safe, TrackerOK, IsStop
  <2>2. BookStep /\ Cur \in Row /\ Cur.status = "open" /\ Cur.cause = "none"
    BY <1>3, <2>1
  <2>3. CASE Set([Cur EXCEPT !.sl = tk.ord, !.stage = "sl_active"]) /\ Goto("trail")
    <3>1. LET row == [Cur EXCEPT !.sl = tk.ord, !.stage = "sl_active"]
          IN  row.status = "open" /\ row.cause = "none" /\ row.sl = tk.ord
      BY <2>2 DEF Row
    <3> QED
      BY <2>1, <2>2, <2>3, <3>1, EditSafe
  <2>4. CASE Goto("scrap") /\ UNCHANGED work
    BY <2>1, <2>2, <2>4, KeepSafe
  <2> QED
    BY <1>8, <2>3, <2>4 DEF TickVerify
<1>9. CASE TickScrap
  <2>1. BookStep
    BY <1>0, <1>9, CurType, CancelSellBook DEF TickScrap, Tracker
  <2> QED
    BY <1>9, <2>1, KeepSafe DEF TickScrap, Tracker
<1>10. CASE TickDefend
  <2>1. BookStep
    BY <1>0, <1>10, CurType, PlaceSellBook, BookSame DEF TickDefend, Tracker
  <2>2. CASE Goto("settle")
    BY <1>10, <2>1, <2>2, KeepSafe DEF TickDefend, Tracker
  <2>3. CASE Goto("position")
    BY <1>10, <2>1, <2>3, KeepSafe DEF TickDefend, Tracker
  <2> QED
    BY <1>10, <2>2, <2>3 DEF TickDefend
<1>11. ASSUME tk.pc \notin {"idle", "pick"}, UNCHANGED <<book, db, worldVars, rc, ks, base>>, NextTrade,
              NEW why \in {"no_sl_sqoff", "sqoff_session"}, Set(CloseTrade(Cur, why))
       PROVE  Safe'
  <2>1. BookStep /\ Cur \in Row
    BY <1>3, <1>11
  <2>2. why \in Causes /\ why # "none" /\ why \notin ReconCauses /\ why \notin StopCauses
    BY DEF Causes, ReconCauses, StopCauses
  <2>3. LET row == CloseTrade(Cur, why)
        IN  row.status = "closed" /\ row.cause = why /\ row.sl = Cur.sl
    BY <2>1, <2>2, CloseTradeType
  <2> QED
    BY <1>11, <2>1, <2>2, <2>3, CloseSafe
<1>12. CASE TickSettle
  <2>1. tk.pc = "settle" /\ UNCHANGED <<book, db, worldVars, rc, ks, base>> /\ NextTrade
    BY <1>12 DEF TickSettle, Tracker
  <2>2. BookStep
    BY <1>3, <2>1
  <2>3. CASE Set(CloseTrade(Cur, "no_sl_sqoff"))
    BY <1>11, <2>1, <2>3
  <2>4. CASE UNCHANGED work
    BY <2>1, <2>2, <2>4, NextSafe
  <2> QED
    BY <1>12, <2>3, <2>4 DEF TickSettle
<1>13. CASE TickTrail
  <2>1. tk.pc = "trail" /\ UNCHANGED <<book, db, worldVars, rc, ks, base, work>> /\ Cur.sl # 0
    BY <1>13 DEF TickTrail, Tracker, IInv, Safe, TrackerOK, Cur
  <2>2. BookStep
    BY <1>3, <2>1
  <2>3. CASE tk' = [tk EXCEPT !.pc = "reread", !.moved = (book[Cur.sl].status = "live")]
    <3>1. tk'.pc = "reread" /\ tk'.cur = tk.cur /\ tk'.todo = tk.todo
      BY <2>3 DEF IInv, TypeInv, TypeOK, TrackerState
    <3>2. /\ Cur.status = "open" /\ RowGood(book', pos[tk.cur], tk.cur, Cur)
          /\ work = [work EXCEPT ![tk.cur] = Cur]
      BY <2>1, <2>2, CurSafe
    <3> QED
      BY <2>1, <2>2, <3>1, <3>2, TrackerSafe
  <2>4. CASE Goto("position")
    BY <2>1, <2>2, <2>4, KeepSafe
  <2>5. CASE Goto("reread")
    BY <2>1, <2>2, <2>5, KeepSafe
  <2> QED
    BY <1>13, <2>3, <2>4, <2>5 DEF TickTrail
<1>14. CASE TickReread
  <2>1. tk.pc = "reread" /\ UNCHANGED <<book, db, worldVars, rc, ks, base>>
    BY <1>14 DEF TickReread, Tracker
  <2>2. BookStep /\ Cur \in Row /\ Cur.status = "open" /\ Cur.cause = "none"
    BY <1>3, <2>1
  <2>3. CASE Filled(Cur.sl) /\ Set(CloseTrade(Cur, SlCause(Cur))) /\ NextTrade
    BY <1>5, <2>1, <2>3
  <2>4. CASE UNCHANGED work /\ NextTrade
    BY <2>1, <2>2, <2>4, NextSafe
  <2>5. ASSUME NEW row \in {[Cur EXCEPT !.sl = 0], [Cur EXCEPT !.trail = TRUE], Cur},
               Set(row), Goto("position")
        PROVE  Safe'
    <3>1. row.status = "open" /\ row.cause = "none" /\ (row.sl = 0 \/ row.sl = Cur.sl)
      BY <2>2, <2>5 DEF Row
    <3>2. RowGood(book', pos[tk.cur], tk.cur, Cur)
      BY <2>1, <2>2, CurSafe
    <3>3. row.sl # 0 => IsStop(book', tk.cur, row.sl)
      BY <3>1, <3>2 DEF RowGood
    <3> QED
      BY <2>1, <2>2, <2>5, <3>1, <3>3, EditSafe
  <2>6. CASE Set(IF tk.moved THEN [Cur EXCEPT !.sl = 0] ELSE Cur) /\ Goto("position")
    BY <2>5, <2>6
  <2>7. CASE Set(IF tk.moved THEN [Cur EXCEPT !.trail = TRUE] ELSE Cur) /\ Goto("position")
    BY <2>5, <2>7
  <2> QED
    BY <1>14, <2>3, <2>4, <2>6, <2>7 DEF TickReread
<1>15. ASSUME tk.pc \notin {"idle", "pick"}, UNCHANGED <<book, db, worldVars, rc, ks, base>>,
              Finish(Cur)
       PROVE  Safe'
  <2>1. BookStep /\ Cur \in Row /\ Cur.status = "open" /\ Cur.cause = "none"
    BY <1>3, <1>15
  <2>2. LET row == Promote(Cur)
        IN  row.status = "open" /\ row.cause = "none" /\ row.sl = Cur.sl
    BY <2>1, PromoteType
  <2>3. RowGood(book', pos[tk.cur], tk.cur, Cur)
    BY <1>15, <2>1, CurSafe
  <2>4. Promote(Cur).sl # 0 => IsStop(book', tk.cur, Promote(Cur).sl)
    BY <2>2, <2>3 DEF RowGood
  <2> QED
    BY <1>15, <2>1, <2>2, <2>4, EditSafe DEF Finish
<1>16. CASE TickPosition
  <2>1. tk.pc = "position" /\ UNCHANGED <<book, db, worldVars, rc, ks, base>>
    BY <1>16 DEF TickPosition, Tracker
  <2>2. BookStep
    BY <1>3, <2>1
  <2>3. CASE Finish(Cur)
    BY <1>15, <2>1, <2>3
  <2>4. CASE OldEnough(tk.cur) /\ IsHeldReads(tk.cur, FALSE) /\ Goto("candidate") /\ UNCHANGED work
    <3>1. pos[tk.cur] <= 0
      BY <1>0, <2>1, <2>4, CurSafe, <2>2 DEF OldEnough, IsHeldReads, HeldOnError, IInv, TypeInv, TypeOK
    <3> QED
      BY <2>1, <2>2, <2>4, <3>1, KeepSafe
  <2> QED
    BY <1>16, <2>3, <2>4 DEF TickPosition
<1>17. CASE TickCandidate
  <2>1. /\ tk.pc = "candidate" /\ UNCHANGED <<book, db, worldVars, rc, ks, base>>
        /\ pos[tk.cur] <= 0
    BY <1>17 DEF TickCandidate, Tracker, IInv, Safe, TrackerOK
  <2>2. BookStep /\ Cur \in Row
    BY <1>3, <2>1
  <2>3. CASE Finish(Cur)
    BY <1>15, <2>1, <2>3
  <2>4. ASSUME NEW why \in Causes, ReconCauseReads(tk.cur, Cur.sl, why), Finish(CloseTrade(Cur, why))
        PROVE  Safe'
    <3> DEFINE row == Promote(CloseTrade(Cur, why))
    <3>1. why # "none" /\ why \notin StopCauses
      BY <2>4 DEF ReconCauseReads, ReconCause, StopCauses
    <3>2. CloseTrade(Cur, why) \in Row /\ CloseTrade(Cur, why).status = "closed"
          /\ CloseTrade(Cur, why).cause = why /\ CloseTrade(Cur, why).sl = Cur.sl
      BY <2>2, <3>1, CloseTradeType
    <3>3. row.status = "closed" /\ row.cause = why /\ row.sl = Cur.sl
      BY <3>2, PromoteType
    <3>4. Set(row) /\ NextTrade
      BY <2>4 DEF Finish
    <3> HIDE DEF row
    <3> QED
      BY <2>1, <2>2, <3>1, <3>3, <3>4, CloseSafe
  <2>5. CASE NextTrade /\ UNCHANGED work
    BY <2>1, <2>2, <2>5, NextSafe
  <2> QED
    BY <1>17, <2>3, <2>4, <2>5 DEF TickCandidate
<1>18. CASE TickSqCancel
  <2>1. BookStep
    BY <1>0, <1>18, CurType, CancelSellBook DEF TickSqCancel, Tracker
  <2>2. tk.pc = "sqCancel" /\ UNCHANGED <<db, worldVars, rc, ks, base>>
    BY <1>18 DEF TickSqCancel, Tracker
  <2>3. LET row == [Cur EXCEPT !.sl = 0]
        IN  row.status = "open" /\ row.cause = "none" /\ row.sl = 0
    BY <2>1, <2>2, CurSafe DEF Row
  <2> QED
    BY <1>18, <2>1, <2>2, <2>3, EditSafe DEF TickSqCancel
<1>19. CASE TickSqSell
  <2>1. BookStep
    BY <1>0, <1>19, CurType, PlaceSellBook, BookSame DEF TickSqSell, Tracker
  <2>2. CASE Goto("sqClose")
    BY <1>19, <2>1, <2>2, KeepSafe DEF TickSqSell, Tracker
  <2>3. CASE NextTrade
    BY <1>19, <2>1, <2>3, NextSafe DEF TickSqSell, Tracker
  <2> QED
    BY <1>19, <2>2, <2>3 DEF TickSqSell
<1>20. CASE TickSqClose
  <2>1. tk.pc = "sqClose" /\ UNCHANGED <<book, db, worldVars, rc, ks, base>> /\ NextTrade
    BY <1>20 DEF TickSqClose, Tracker
  <2>2. BookStep
    BY <1>3, <2>1
  <2>3. CASE Set(CloseTrade(Cur, "sqoff_session"))
    BY <1>11, <2>1, <2>3
  <2>4. CASE UNCHANGED work
    BY <2>1, <2>2, <2>4, NextSafe
  <2> QED
    BY <1>20, <2>3, <2>4 DEF TickSqClose
<1>21. ASSUME NEW commit \in BOOLEAN, TickEnd(commit) PROVE Safe'
  <2>1. UNCHANGED <<book, pos, age, rc, ks>>
    BY <1>21 DEF TickEnd, worldVars
  <2>2. ASSUME NEW t \in Trades
        PROVE  /\ RowGood(book, pos[t], t, db'[t])
               /\ db'[t].status \in {db[t].status, "closed"}
    <3>1. /\ db[t] \in Row /\ base[t] \in Row /\ work[t] \in Row
          /\ RowGood(book, pos[t], t, db[t]) /\ RowGood(book, pos[t], t, work[t])
          /\ base[t].status # "closed" /\ base[t].cause = "none"
          /\ work[t].status \in {base[t].status, "closed"}
      BY DEF IInv, TypeInv, TypeOK, Safe, RowsOK, TrackerOK
    <3>2. db'[t] = Merge(db[t], base[t], work[t]) \/ db'[t] = db[t]
      BY <1>21 DEF TickEnd
    <3> QED
      BY <3>1, <3>2, MergeGood
  <2>3. RowsOK'
    BY <1>21, <2>1, <2>2, NoRowGood DEF TickEnd, RowsOK
  <2>4. TrackerOK'
    BY <1>21 DEF TickEnd, TrackerOK, TrackerIdle, NoRow
  <2>5. ReconOK'
    <3>1. \A r \in Reconcilers : /\ rc[r].todo \subseteq Trades
                                 /\ rc[r].pc \notin {"idle", "next"} => rc[r].cur \in Trades
      BY DEF IInv, TypeInv, TypeOK, Refs, ReconState
    <3>2. \A t \in Trades : db[t].status # "none" => db'[t].status # "none"
      BY <2>2
    <3> QED
      BY <2>1, <3>1, <3>2 DEF IInv, Safe, ReconOK
  <2>6. KillOK'
    <3>1. \A k \in KillThreads : /\ ks[k].todo \subseteq Trades
                                 /\ ks[k].pc \notin {"ready", "next", "done"} => ks[k].cur \in Trades
      BY DEF IInv, TypeInv, TypeOK, Refs, KillState
    <3>2. \A t \in Trades : /\ db[t].status # "none" => db'[t].status # "none"
                            /\ db[t].status = "closed" => db'[t].status = "closed"
      BY <2>2
    <3> QED
      BY <2>1, <3>1, <3>2 DEF IInv, Safe, KillOK
  <2> QED
    BY <2>3, <2>4, <2>5, <2>6 DEF Safe
<1>22. CASE TickCommit
  BY <1>21, <1>22 DEF TickCommit
<1>23. CASE TickBusy
  BY <1>21, <1>23 DEF TickBusy
<1> QED
  BY <1>1, <1>2, <1>6, <1>7, <1>8, <1>9, <1>10, <1>12, <1>13, <1>14, <1>16, <1>17,
     <1>18, <1>19, <1>20, <1>22, <1>23 DEF TrackerStep
-----------------------------------------------------------------------------
(* The reconcilers *)

\* one row written, to a consistent one that does not reopen a closed trade
LEMMA WriteSafe ==
    ASSUME IInv, UNCHANGED <<book, worldVars, trackerVars>>,
           NEW t \in Trades, NEW row, db' = [db EXCEPT ![t] = row],
           RowGood(book, pos[t], t, row),
           db[t].status # "none", row.status \in {db[t].status, "closed"}
    PROVE  /\ RowsOK' /\ TrackerOK'
           /\ \A u \in Trades : db'[u].status \in {db[u].status, "closed"}
<1>1. /\ UNCHANGED <<book, pos, base, work, tk>> /\ db \in [Trades -> Row]
  BY DEF worldVars, trackerVars, IInv, TypeInv, TypeOK
<1>2. RowsOK'
  <2>1. ASSUME NEW u \in Trades PROVE RowGood(book, pos[u], u, db'[u])
    BY <1>1 DEF IInv, Safe, RowsOK
  <2> QED
    BY <1>1, <2>1 DEF IInv, Safe, RowsOK
<1>3. \A u \in Trades : db'[u].status \in {db[u].status, "closed"}
  BY <1>1
<1>4. TrackerOK'
  BY <1>1, <1>3 DEF IInv, Safe, TrackerOK
<1> QED
  BY <1>2, <1>3, <1>4

\* what the other actors know of a row survives a write that only closes
LEMMA WriteKeepsKill ==
    ASSUME IInv, UNCHANGED ks, \A u \in Trades : db'[u].status \in {db[u].status, "closed"}
    PROVE  KillOK'
<1>1. \A k \in KillThreads : /\ ks[k].todo \subseteq Trades
                             /\ ks[k].pc \notin {"ready", "next", "done"} => ks[k].cur \in Trades
  BY DEF IInv, TypeInv, TypeOK, Refs, KillState
<1>2. \A t \in Trades : /\ db[t].status # "none" => db'[t].status # "none"
                        /\ db[t].status = "closed" => db'[t].status = "closed"
  OBVIOUS
<1> QED
  BY <1>1, <1>2 DEF IInv, Safe, KillOK

LEMMA WriteKeepsRecon ==
    ASSUME IInv, UNCHANGED <<pos, age>>, NEW q \in Reconcilers, rc'[q] = rc[q],
           \A u \in Trades : db'[u].status \in {db[u].status, "closed"}
    PROVE  /\ \A t \in rc'[q].todo : age'[t] = "aged" /\ db'[t].status # "none"
           /\ rc'[q].pc \in {"held", "candidate", "commit"} =>
                 /\ rc'[q].base.status = "open"
                 /\ rc'[q].base.cause = "none"
                 /\ db'[rc'[q].cur].status # "none"
                 /\ age'[rc'[q].cur] = "aged"
           /\ rc'[q].pc \in {"candidate", "commit"} => pos'[rc'[q].cur] <= 0
           /\ rc'[q].pc = "commit" => rc'[q].cause \in ReconCauses
<1>1. /\ rc[q].todo \subseteq Trades
      /\ rc[q].pc \notin {"idle", "next"} => rc[q].cur \in Trades
  BY DEF IInv, TypeInv, TypeOK, Refs, ReconState
<1>2. \A t \in Trades : db[t].status # "none" => db'[t].status # "none"
  OBVIOUS
<1> QED
  BY <1>1, <1>2 DEF IInv, Safe, ReconOK

LEMMA SafeRecon ==
    ASSUME IInv, NEW r \in Reconcilers, ReconStep(r) \/ ReconBusy(r)
    PROVE  Safe'
<1>0. /\ UNCHANGED <<book, pos, age, clock, worldVars, trackerVars, ks>>
      /\ TypeInv /\ rc \in [Reconcilers -> ReconState] /\ rc[r] \in ReconState
      /\ db \in [Trades -> Row]
  BY DEF IInv, TypeInv, TypeOK, ReconStep, ReconBusy, ReconList, ReconLoad, ReconHeld,
         ReconCandidate, ReconCommit, ReconEnd, Recon, worldVars
\* A step that changes only this reconciler's own state, to one that knows no
\* more than it should.
<1>1. ASSUME UNCHANGED db, NEW s \in ReconState, rc' = [rc EXCEPT ![r] = s],
             \A t \in s.todo : age[t] = "aged" /\ db[t].status # "none",
             s.pc \in {"held", "candidate", "commit"} =>
                 /\ s.base.status = "open" /\ s.base.cause = "none"
                 /\ db[s.cur].status # "none" /\ age[s.cur] = "aged",
             s.pc \in {"candidate", "commit"} => pos[s.cur] <= 0,
             s.pc = "commit" => s.cause \in ReconCauses
      PROVE  Safe'
  <2>1. RowsOK' /\ TrackerOK' /\ KillOK'
    BY <1>0, <1>1 DEF IInv, Safe, RowsOK, TrackerOK, KillOK, trackerVars
  <2>2. \A q \in Reconcilers : rc'[q] = IF q = r THEN s ELSE rc[q]
    BY <1>0, <1>1
  <2>3. ReconOK'
    BY <1>0, <1>1, <2>2 DEF IInv, Safe, ReconOK
  <2> QED
    BY <2>1, <2>3 DEF Safe
<1>2. /\ \A t \in rc[r].todo : age[t] = "aged" /\ db[t].status # "none"
      /\ rc[r].pc \in {"held", "candidate", "commit"} =>
            /\ rc[r].base.status = "open" /\ rc[r].base.cause = "none"
            /\ db[rc[r].cur].status # "none" /\ age[rc[r].cur] = "aged"
            /\ rc[r].cur \in Trades
      /\ rc[r].pc \in {"candidate", "commit"} => pos[rc[r].cur] <= 0
      /\ rc[r].pc = "commit" => rc[r].cause \in ReconCauses
      /\ rc[r].todo \in SUBSET Trades /\ rc[r].base \in Row
  BY <1>0 DEF IInv, Safe, ReconOK, TypeInv, Refs, ReconState
<1>3. ASSUME NEW todo \in SUBSET Trades, NEW pc \in {"idle", "next"},
             UNCHANGED db, rc' = [rc EXCEPT ![r] = [ReconIdle EXCEPT !.pc = pc, !.todo = todo]],
             \A t \in todo : age[t] = "aged" /\ db[t].status # "none"
      PROVE  Safe'
  <2> DEFINE s == [ReconIdle EXCEPT !.pc = pc, !.todo = todo]
  <2>1. s \in ReconState /\ s.todo = todo /\ s.pc = pc
    BY IdleTypes DEF ReconState, ReconIdle
  <2> HIDE DEF s
  <2>2. rc' = [rc EXCEPT ![r] = s]
    BY <1>3 DEF s
  <2> QED
    BY <1>1, <1>3, <2>1, <2>2
<1>4. CASE ReconList(r)
  <2> DEFINE targets == {t \in OpenTrades : OldEnough(t)}
  <2>1. targets \in SUBSET Trades /\ \A t \in targets : age[t] = "aged" /\ db[t].status # "none"
    BY DEF OpenTrades, OldEnough
  <2> HIDE DEF targets
  <2>2. rc' = [rc EXCEPT ![r] = [ReconIdle EXCEPT !.pc = "next", !.todo = targets]] /\ UNCHANGED db
    BY <1>4 DEF ReconList, targets
  <2> QED
    BY <1>3, <2>1, <2>2
<1>5. ASSUME UNCHANGED db, ReconNext(r) PROVE Safe'
  BY <1>2, <1>3, <1>5 DEF ReconNext
<1>6. ASSUME NEW t \in Trades, ReconLoad(r, t) PROVE Safe'
  <2>1. UNCHANGED db /\ t \in rc[r].todo /\ db[t] \in Row /\ rc[r].pc = "next"
    BY <1>0, <1>6 DEF ReconLoad, Recon
  <2>2. CASE db[t].status = "open"
    <3> DEFINE s == [rc[r] EXCEPT !.pc = "held", !.todo = rc[r].todo \ {t}, !.cur = t, !.base = db[t]]
    <3>1. /\ s \in ReconState /\ s.pc = "held" /\ s.todo = rc[r].todo \ {t}
          /\ s.cur = t /\ s.base = db[t]
      BY <1>0, <2>1 DEF ReconState
    <3> HIDE DEF s
    <3>2. rc' = [rc EXCEPT ![r] = s]
      BY <1>6, <2>2 DEF ReconLoad, s
    <3>3. db[t].cause = "none"
      BY <2>2 DEF IInv, Safe, RowsOK, RowGood
    <3> QED
      BY <1>1, <1>2, <2>1, <2>2, <3>1, <3>2, <3>3
  <2>3. CASE db[t].status # "open"
    <3> DEFINE s == [rc[r] EXCEPT !.todo = rc[r].todo \ {t}]
    <3>1. /\ s \in ReconState /\ s.pc = "next" /\ s.todo = rc[r].todo \ {t}
      BY <1>0, <2>1 DEF ReconState
    <3> HIDE DEF s
    <3>2. rc' = [rc EXCEPT ![r] = s]
      BY <1>6, <2>3 DEF ReconLoad, s
    <3> QED
      BY <1>1, <1>2, <2>1, <3>1, <3>2
  <2> QED
    BY <2>2, <2>3
<1>7. CASE ReconHeld(r)
  <2>1. rc[r].pc = "held" /\ UNCHANGED db
    BY <1>7 DEF ReconHeld, Recon
  <2>2. CASE ReconNext(r)
    BY <1>5, <2>1, <2>2
  <2>3. CASE IsHeldReads(rc[r].cur, FALSE) /\ rc' = [rc EXCEPT ![r].pc = "candidate"]
    <3> DEFINE s == [rc[r] EXCEPT !.pc = "candidate"]
    <3>1. /\ s \in ReconState /\ s.pc = "candidate" /\ s.todo = rc[r].todo
          /\ s.cur = rc[r].cur /\ s.base = rc[r].base
      BY <1>0 DEF ReconState
    <3>2. rc' = [rc EXCEPT ![r] = s]
      BY <2>3
    <3> HIDE DEF s
    <3>3. pos[rc[r].cur] <= 0
      BY <1>0, <1>2, <2>1, <2>3 DEF IsHeldReads, HeldOnError, TypeInv, TypeOK
    <3> QED
      BY <1>1, <1>2, <2>1, <3>1, <3>2, <3>3
  <2> QED
    BY <1>7, <2>2, <2>3 DEF ReconHeld
<1>8. CASE ReconCandidate(r)
  <2>1. rc[r].pc = "candidate" /\ UNCHANGED db
    BY <1>8 DEF ReconCandidate, Recon
  <2>2. CASE ReconNext(r)
    BY <1>5, <2>1, <2>2
  <2>3. ASSUME NEW why \in Causes, ReconCauseReads(rc[r].cur, rc[r].base.sl, why),
               rc' = [rc EXCEPT ![r].pc = "commit", ![r].cause = why]
        PROVE  Safe'
    <3> DEFINE s == [rc[r] EXCEPT !.pc = "commit", !.cause = why]
    <3>1. why \in ReconCauses
      BY <2>3 DEF ReconCauseReads, ReconCause, ReconCauses
    <3>3. rc' = [rc EXCEPT ![r] = s]
      BY <1>0, <2>3
    <3>4. /\ s \in ReconState /\ s.pc = "commit" /\ s.todo = rc[r].todo
          /\ s.cur = rc[r].cur /\ s.base = rc[r].base /\ s.cause = why
      BY <1>0, <3>1 DEF ReconState
    <3> HIDE DEF s
    <3> QED
      BY <1>1, <1>2, <2>1, <3>1, <3>3, <3>4
  <2> QED
    BY <1>8, <2>2, <2>3 DEF ReconCandidate
<1>9. CASE ReconCommit(r)
  <2> DEFINE t == rc[r].cur
             old == rc[r].base
             why == rc[r].cause
             row == Merge(db[t], old, CloseTrade(old, why))
  <2>1. /\ rc[r].pc = "commit" /\ ReconNext(r) /\ db' = [db EXCEPT ![t] = row]
        /\ t \in Trades /\ old \in Row /\ db[t] \in Row
        /\ old.status = "open" /\ old.cause = "none" /\ db[t].status # "none"
        /\ pos[t] <= 0 /\ why \in ReconCauses
    BY <1>0, <1>2, <1>9 DEF ReconCommit, Recon
  <2>2. /\ CloseTrade(old, why).status = "closed" /\ CloseTrade(old, why).cause = why
        /\ CloseTrade(old, why).sl = old.sl
    BY <2>1, CloseTradeType DEF ReconCauses, Causes
  <2> HIDE DEF t, old, why
  <2>3. row.status = "closed" /\ row.cause = why /\ row.sl = db[t].sl
    BY <2>1, <2>2 DEF Merge, ReconCauses
  <2> HIDE DEF row
  <2>4. RowGood(book, pos[t], t, db[t])
    BY <2>1 DEF IInv, Safe, RowsOK
  <2>5. RowGood(book, pos[t], t, row)
    BY <2>1, <2>3, <2>4 DEF RowGood, ReconCauses, StopCauses
  <2>6. RowsOK' /\ TrackerOK' /\ \A u \in Trades : db'[u].status \in {db[u].status, "closed"}
    BY <1>0, <2>1, <2>3, <2>5, WriteSafe
  <2>7. KillOK'
    BY <1>0, <2>6, WriteKeepsKill
  <2>8. \A q \in Reconcilers : rc'[q] = IF q = r THEN [ReconIdle EXCEPT !.pc = "next", !.todo = rc[r].todo]
                                              ELSE rc[q]
    BY <1>0, <2>1 DEF ReconNext
  <2>9. [ReconIdle EXCEPT !.pc = "next", !.todo = rc[r].todo].pc = "next"
        /\ [ReconIdle EXCEPT !.pc = "next", !.todo = rc[r].todo].todo = rc[r].todo
    BY DEF ReconIdle
  <2>10. ReconOK'
    <3>1. ASSUME NEW q \in Reconcilers
          PROVE  /\ \A u \in rc'[q].todo : age'[u] = "aged" /\ db'[u].status # "none"
                 /\ rc'[q].pc \in {"held", "candidate", "commit"} =>
                       /\ rc'[q].base.status = "open"
                       /\ rc'[q].base.cause = "none"
                       /\ db'[rc'[q].cur].status # "none"
                       /\ age'[rc'[q].cur] = "aged"
                 /\ rc'[q].pc \in {"candidate", "commit"} => pos'[rc'[q].cur] <= 0
                 /\ rc'[q].pc = "commit" => rc'[q].cause \in ReconCauses
      <4>1. CASE q # r
        <5>1. rc'[q] = rc[q]
          BY <2>8, <4>1
        <5> QED
          BY <1>0, <2>6, <5>1, WriteKeepsRecon
      <4>2. CASE q = r
        <5>1. rc'[q].pc = "next" /\ rc'[q].todo = rc[r].todo
          BY <2>8, <2>9, <4>2
        <5>2. \A u \in rc[r].todo : age'[u] = "aged" /\ db'[u].status # "none"
          BY <1>0, <1>2, <2>6
        <5> QED
          BY <5>1, <5>2
      <4> QED
        BY <4>1, <4>2
    <3> QED
      BY <3>1 DEF ReconOK
  <2> QED
    BY <2>6, <2>7, <2>10 DEF Safe
<1>10. CASE ReconBusy(r) \/ ReconEnd(r)
  <2>1. UNCHANGED db /\ rc' = [rc EXCEPT ![r] = ReconIdle]
    BY <1>10 DEF ReconBusy, ReconEnd
  <2>2. ReconIdle \in ReconState /\ ReconIdle.todo = {} /\ ReconIdle.pc = "idle"
    BY IdleTypes DEF ReconIdle
  <2> QED
    BY <1>1, <2>1, <2>2
<1> QED
  BY <1>4, <1>6, <1>7, <1>8, <1>9, <1>10 DEF ReconStep

-----------------------------------------------------------------------------
(* The killswitch requests *)

LEMMA SafeKill ==
    ASSUME IInv, NEW k \in KillThreads, KillStep(k) \/ KillBusy(k)
    PROVE  Safe'
<1>0. /\ UNCHANGED <<worldVars, trackerVars, rc>> /\ UNCHANGED <<pos, age>>
      /\ TypeInv /\ BookOK /\ ks \in [KillThreads -> KillState] /\ ks[k] \in KillState
      /\ db \in [Trades -> Row]
  BY DEF IInv, TypeInv, TypeOK, BookOK, KillStep, KillBusy, KillList, KillLoad, KillCancel,
         KillSell, KillClose, KillEnd, Kill, worldVars
<1>1. /\ \A t \in ks[k].todo : db[t].status # "none"
      /\ ks[k].pc \in {"cancel", "sell", "close"} =>
            /\ ks[k].cur \in Trades
            /\ db[ks[k].cur].status # "none"
            /\ ks[k].base.status # "none"
            /\ ks[k].base.status = "closed" <=> ks[k].base.cause # "none"
            /\ ks[k].base.status = "closed" => db[ks[k].cur].status = "closed"
      /\ ks[k].todo \in SUBSET Trades /\ ks[k].base \in Row
  BY <1>0 DEF IInv, Safe, KillOK, TypeInv, Refs, KillState
\* A step that writes no row: the book may change, and this request's state.
<1>2. ASSUME BookStep, UNCHANGED db, NEW s \in KillState, ks' = [ks EXCEPT ![k] = s],
             \A t \in s.todo : db[t].status # "none",
             s.pc \in {"cancel", "sell", "close"} =>
                 /\ db[s.cur].status # "none" /\ s.base.status # "none"
                 /\ s.base.status = "closed" <=> s.base.cause # "none"
                 /\ s.base.status = "closed" => db[s.cur].status = "closed"
      PROVE  Safe'
  <2>1. RowsOK'
    BY <1>0, <1>2, RowStable DEF IInv, Safe, RowsOK, trackerVars
  <2>2. TrackerOK'
    <3>1. IsStop(book, tk.cur, tk.ord) => IsStop(book', tk.cur, tk.ord)
      BY <1>0, <1>2, StopStable
    <3> QED
      BY <1>0, <1>2, <3>1 DEF IInv, Safe, TrackerOK, trackerVars
  <2>3. ReconOK'
    BY <1>0, <1>2 DEF IInv, Safe, ReconOK
  <2>4. \A q \in KillThreads : ks'[q] = IF q = k THEN s ELSE ks[q]
    BY <1>0, <1>2
  <2>5. KillOK'
    BY <1>0, <1>2, <2>4 DEF IInv, Safe, KillOK
  <2> QED
    BY <2>1, <2>2, <2>3, <2>5 DEF Safe
<1>3. ASSUME BookStep, UNCHANGED db, NEW todo \in SUBSET Trades,
             \A t \in todo : db[t].status # "none",
             ks' = [ks EXCEPT ![k] = [KillReady EXCEPT !.pc = "next", !.todo = todo]]
      PROVE  Safe'
  <2> DEFINE s == [KillReady EXCEPT !.pc = "next", !.todo = todo]
  <2>1. s \in KillState /\ s.pc = "next" /\ s.todo = todo
    BY KillNextState
  <2>2. ks' = [ks EXCEPT ![k] = s]
    BY <1>3
  <2> HIDE DEF s
  <2> QED
    BY <1>2, <1>3, <2>1, <2>2
<1>4. ASSUME BookStep, UNCHANGED db, KillNext(k) PROVE Safe'
  BY <1>1, <1>3, <1>4 DEF KillNext
<1>5. CASE KillList(k)
  <2>1. BookStep /\ UNCHANGED db
    BY <1>0, <1>5, BookSame DEF KillList
  <2>2. OpenTrades \in SUBSET Trades /\ \A t \in OpenTrades : db[t].status # "none"
    BY DEF OpenTrades
  <2> QED
    BY <1>3, <1>5, <2>1, <2>2 DEF KillList
<1>6. ASSUME NEW t \in Trades, KillLoad(k, t) PROVE Safe'
  <2> DEFINE s == [pc |-> IF db[t].sl # 0 THEN "cancel" ELSE "sell",
                   todo |-> ks[k].todo \ {t}, cur |-> t, base |-> db[t]]
  <2>1. BookStep /\ UNCHANGED db /\ t \in ks[k].todo /\ ks' = [ks EXCEPT ![k] = s]
    BY <1>0, <1>6, BookSame DEF KillLoad
  <2>2. s \in KillState /\ s.todo = ks[k].todo \ {t} /\ s.cur = t /\ s.base = db[t]
    BY <1>0, <1>1 DEF KillState
  <2>3. db[t].status = "closed" <=> db[t].cause # "none"
    BY DEF IInv, Safe, RowsOK, RowGood
  <2> HIDE DEF s
  <2> QED
    BY <1>1, <1>2, <2>1, <2>2, <2>3
<1>7. ASSUME BookStep, UNCHANGED db, ks[k].pc \in {"cancel", "sell"},
             NEW pc \in {"sell", "close"}, ks' = [ks EXCEPT ![k].pc = pc]
      PROVE  Safe'
  <2> DEFINE s == [ks[k] EXCEPT !.pc = pc]
  <2>1. s \in KillState /\ s.todo = ks[k].todo /\ s.cur = ks[k].cur /\ s.base = ks[k].base
    BY <1>0 DEF KillState
  <2>2. ks' = [ks EXCEPT ![k] = s]
    BY <1>7
  <2> HIDE DEF s
  <2> QED
    BY <1>1, <1>2, <1>7, <2>1, <2>2
<1>8. CASE KillCancel(k)
  <2>1. ks[k].pc = "cancel" /\ UNCHANGED db /\ ks' = [ks EXCEPT ![k].pc = "sell"]
    BY <1>8 DEF KillCancel, Kill
  <2>2. BookStep
    <3>1. ks[k].base.sl \in 0..Len(book)
      BY <1>0, <1>1, LenBookNat DEF TypeInv, Refs, Row, OrderIds
    <3> QED
      BY <1>0, <1>8, <3>1, CancelSellBook DEF KillCancel
  <2> QED
    BY <1>7, <2>1, <2>2
<1>9. CASE KillSell(k)
  <2>1. ks[k].pc = "sell" /\ UNCHANGED db /\ ks[k].cur \in Trades
    BY <1>1, <1>9 DEF KillSell, Kill
  <2>2. BookStep
    BY <1>0, <1>9, <2>1, PlaceSellBook, BookSame DEF KillSell
  <2> QED
    BY <1>4, <1>7, <1>9, <2>1, <2>2 DEF KillSell
<1>10. CASE KillClose(k) /\ UNCHANGED db
  <2>1. BookStep
    BY <1>0, <1>10, BookSame DEF KillClose
  <2> QED
    BY <1>4, <1>10, <2>1 DEF KillClose
<1>11. CASE KillClose(k) /\ db' # db
  <2> DEFINE t == ks[k].cur
             old == ks[k].base
             new == CloseTrade([old EXCEPT !.sl = 0], "sqoff_session")
             row == Merge(db[t], old, new)
  <2>1. /\ ks[k].pc = "close" /\ KillNext(k) /\ db' = [db EXCEPT ![t] = row] /\ UNCHANGED book
        /\ t \in Trades /\ old \in Row /\ db[t] \in Row
        /\ old.status # "none" /\ (old.status = "closed" <=> old.cause # "none")
        /\ old.status = "closed" => db[t].status = "closed"
        /\ db[t].status # "none"
    BY <1>0, <1>1, <1>11 DEF KillClose, Kill
  <2>2. new.status = "closed" /\ new.cause = "sqoff_session" /\ new.sl = 0
    <3>1. 0 \in OrderIds
      BY BoundsAssumption DEF OrderIds
    <3>2. [old EXCEPT !.sl = 0] \in Row /\ [old EXCEPT !.sl = 0].sl = 0
      BY <2>1, <3>1, RowFields
    <3>3. "sqoff_session" \in Causes
      BY DEF Causes
    <3> QED
      BY <3>2, <3>3, CloseTradeType
  <2> HIDE DEF t, old, new
  <2>3. RowGood(book, pos[t], t, db[t])
    BY <2>1 DEF IInv, Safe, RowsOK
  <2>4. row.status = "closed" /\ row.sl \in {0, db[t].sl}
    BY <2>1, <2>2 DEF Merge
  <2>5. \/ row.cause = "sqoff_session"
        \/ row.cause = db[t].cause /\ db[t].status = "closed"
    <3>1. row.cause = IF new.cause # old.cause THEN new.cause ELSE db[t].cause
      BY DEF Merge
    <3> QED
      BY <2>1, <2>2, <3>1
  <2> HIDE DEF row
  <2>6. RowGood(book, pos[t], t, row)
    <3>1. row.cause # "none" /\ (row.cause \in ReconCauses => pos[t] <= 0)
          /\ (row.cause \in StopCauses => StopFilled(book, t))
      BY <2>3, <2>5 DEF RowGood, ReconCauses, StopCauses
    <3>2. row.sl # 0 => IsStop(book, t, row.sl)
      BY <2>3, <2>4 DEF RowGood
    <3> QED
      BY <2>4, <3>1, <3>2 DEF RowGood
  <2>7. RowsOK' /\ TrackerOK' /\ \A u \in Trades : db'[u].status \in {db[u].status, "closed"}
    BY <1>0, <2>1, <2>4, <2>6, WriteSafe
  <2>8. ReconOK'
    BY <1>0, <2>7, WriteKeepsRecon DEF ReconOK
  <2>9. KillOK'
    <3> DEFINE next == [KillReady EXCEPT !.pc = "next", !.todo = ks[k].todo]
    <3>1. \A q \in KillThreads : ks'[q] = IF q = k THEN next ELSE ks[q]
      BY <1>0, <2>1 DEF KillNext
    <3>2. next.pc = "next" /\ next.todo = ks[k].todo
      BY <1>1, KillNextState
    <3> HIDE DEF next
    <3>3. \A q \in KillThreads : /\ ks[q].todo \subseteq Trades
                                 /\ ks[q].pc \notin {"ready", "next", "done"} => ks[q].cur \in Trades
      BY <1>0 DEF TypeInv, TypeOK, Refs, KillState
    <3>4. \A u \in Trades : /\ db[u].status # "none" => db'[u].status # "none"
                            /\ db[u].status = "closed" => db'[u].status = "closed"
      BY <2>7
    <3>5. ASSUME NEW q \in KillThreads
          PROVE  /\ \A u \in ks'[q].todo : db'[u].status # "none"
                 /\ ks'[q].pc \in {"cancel", "sell", "close"} =>
                       /\ db'[ks'[q].cur].status # "none"
                       /\ ks'[q].base.status # "none"
                       /\ ks'[q].base.status = "closed" <=> ks'[q].base.cause # "none"
                       /\ ks'[q].base.status = "closed" => db'[ks'[q].cur].status = "closed"
      <4>1. CASE q = k
        BY <1>1, <3>1, <3>2, <3>4, <4>1
      <4>2. CASE q # k
        <5>1. ks'[q] = ks[q]
          BY <3>1, <4>2
        <5> QED
          BY <3>3, <3>4, <5>1 DEF IInv, Safe, KillOK
      <4> QED
        BY <4>1, <4>2
    <3> QED
      BY <3>5 DEF KillOK
  <2> QED
    BY <2>7, <2>8, <2>9 DEF Safe
<1>12. CASE KillBusy(k)
  <2>1. BookStep /\ UNCHANGED db /\ KillNext(k)
    BY <1>0, <1>12, BookSame DEF KillBusy
  <2> QED
    BY <1>4, <2>1
<1>13. CASE KillEnd(k)
  <2>1. BookStep /\ UNCHANGED db /\ ks' = [ks EXCEPT ![k] = KillDone]
    BY <1>0, <1>13, BookSame DEF KillEnd
  <2>2. KillDone \in KillState /\ KillDone.todo = {} /\ KillDone.pc = "done"
    BY IdleTypes DEF KillDone, KillReady
  <2> QED
    BY <1>2, <2>1, <2>2
<1> QED
  BY <1>5, <1>6, <1>8, <1>9, <1>10, <1>11, <1>12, <1>13 DEF KillStep

-----------------------------------------------------------------------------
LEMMA SafeStep == IInv /\ [Next]_vars => IInv'
<1> SUFFICES ASSUME IInv, [Next]_vars PROVE Safe'
  BY TypeStep DEF IInv
<1>1. CASE UNCHANGED vars
  <2>1. BookStep
    BY <1>1, BookSame DEF vars, IInv, TypeInv, TypeOK, BookOK
  <2> QED
    BY <1>1, <2>1, QuietSafe DEF vars, trackerVars
<1>2. CASE Next
  BY <1>2, SafeWorld, SafeTracker, SafeRecon, SafeKill DEF Next
<1> QED
  BY <1>1, <1>2

LEMMA Safety == Spec => []IInv
<1>1. Init => IInv
  BY TypeInit, SafeInit DEF IInv
<1> QED
  BY <1>1, SafeStep, PTL DEF Spec

\* The closed flag and closure_cause reach the trades table together, for every
\* number of trackers' trades, reconcilers and killswitch requests.
THEOREM CauseCorrect == Spec => []CauseIffClosed
<1>1. IInv => CauseIffClosed
  BY DEF IInv, Safe, RowsOK, RowGood, CauseIffClosed
<1> QED
  BY <1>1, Safety, PTL

\* The tracker's own reconciliation, the reconciler job and its API twin close a
\* trade only when the position is gone.
THEOREM ReconCorrect == Spec => []ReconClosesOnlyGone
<1>1. IInv => ReconClosesOnlyGone
  BY DEF IInv, Safe, RowsOK, RowGood, ReconCauses, ReconClosesOnlyGone
<1> QED
  BY <1>1, Safety, PTL

\* Every trade recorded as stopped out had a stop-loss of the bot's that filled.
THEOREM StopsCorrect == Spec => []StoppedOutMeansFilled
<1>1. ASSUME IInv PROVE StoppedOutMeansFilled
  <2>1. \A t \in Trades : db[t].cause \in StopCauses => StopFilled(book, t)
    BY <1>1 DEF IInv, Safe, RowsOK, RowGood
  <2> QED
    BY <2>1 DEF StoppedOutMeansFilled, StopCauses, StopFilled, IsStop
<1> QED
  BY <1>1, Safety, PTL

-----------------------------------------------------------------------------
(* No writer reopens a trade *)

\* A merge of what an actor made of an open row, or of a row that had been
\* closed already, leaves a closed row closed.
LEMMA MergeKeepsClosed ==
    ASSUME NEW row \in Row, NEW old \in Row, NEW new \in Row,
           row.status = "closed", new.status \in {old.status, "closed"}
    PROVE  Merge(row, old, new).status = "closed"
BY DEF Merge

LEMMA StaysClosed ==
    ASSUME IInv, Next, NEW t \in Trades, db[t].status = "closed"
    PROVE  db'[t].status = "closed"
<1>0. db \in [Trades -> Row] /\ db[t] \in Row /\ base[t] \in Row /\ work[t] \in Row
  BY DEF IInv, TypeInv, TypeOK
<1>1. CASE World
  BY <1>0, <1>1 DEF World, OpenTrade, Fill, Reject, UserExit, GrowOlder, EndSession, Crash
<1>2. CASE TrackerStep \/ TickBusy
  <2>1. UNCHANGED db \/ db'[t] = Merge(db[t], base[t], work[t])
    BY <1>0, <1>2 DEF TrackerStep, TickBusy, TickBegin, TickPick, TickSync, TickEnsure, TickVerify,
         TickScrap, TickDefend, TickSettle, TickTrail, TickReread, TickPosition, TickCandidate,
         TickSqCancel, TickSqSell, TickSqClose, TickCommit, TickEnd, Tracker
  <2>2. work[t].status \in {base[t].status, "closed"}
    BY DEF IInv, Safe, TrackerOK
  <2> QED
    BY <1>0, <2>1, <2>2, MergeKeepsClosed
<1>3. ASSUME NEW r \in Reconcilers, ReconStep(r) \/ ReconBusy(r) PROVE db'[t].status = "closed"
  <2>1. CASE ReconCommit(r)
    <3> DEFINE old == rc[r].base
               new == CloseTrade(old, rc[r].cause)
    <3>1. db'[t] \in {db[t], Merge(db[t], old, new)}
      BY <1>0, <2>1 DEF ReconCommit
    <3>2. new.status = "closed" /\ old \in Row /\ new \in Row
      BY CloseTradeType DEF IInv, TypeInv, TypeOK, ReconState
    <3> HIDE DEF old, new
    <3> QED
      BY <1>0, <3>1, <3>2, MergeKeepsClosed
  <2>2. CASE UNCHANGED db
    BY <2>2
  <2> QED
    BY <1>3, <2>1, <2>2 DEF ReconStep, ReconBusy, ReconList, ReconLoad, ReconHeld,
         ReconCandidate, ReconEnd
<1>4. ASSUME NEW k \in KillThreads, KillStep(k) \/ KillBusy(k) PROVE db'[t].status = "closed"
  <2>1. CASE KillClose(k)
    <3> DEFINE old == ks[k].base
               new == CloseTrade([old EXCEPT !.sl = 0], "sqoff_session")
    <3>1. db'[t] \in {db[t], Merge(db[t], old, new)}
      BY <1>0, <2>1 DEF KillClose
    <3>2. old \in Row
      BY DEF IInv, TypeInv, TypeOK, KillState
    <3>3. new.status = "closed" /\ new \in Row
      <4>1. 0 \in OrderIds /\ "sqoff_session" \in Causes
        BY BoundsAssumption DEF OrderIds, Causes
      <4>2. [old EXCEPT !.sl = 0] \in Row
        BY <3>2, <4>1, RowFields
      <4> QED
        BY <4>1, <4>2, CloseTradeType
    <3> HIDE DEF old, new
    <3> QED
      BY <1>0, <3>1, <3>2, <3>3, MergeKeepsClosed
  <2>2. CASE UNCHANGED db
    BY <2>2
  <2> QED
    BY <1>4, <2>1, <2>2 DEF KillStep, KillBusy, KillList, KillLoad, KillCancel, KillSell, KillEnd
<1> QED
  BY <1>1, <1>2, <1>3, <1>4 DEF Next

\* A trade that some actor closed is never reopened by another that loaded it
\* while it was open: the column-wise UPDATEs never write a status back.
THEOREM ClosedCorrect == Spec => ClosedStaysClosed
<1>1. IInv /\ [Next]_vars => [\A t \in Trades : db[t].status = "closed" => db'[t].status = "closed"]_db
  BY StaysClosed DEF vars
<1> QED
  BY <1>1, Safety, PTL DEF Spec, ClosedStaysClosed

-----------------------------------------------------------------------------
(* Never more SELL orders live than units held.  The code keeps this only on a *)
(* quiet day: no request activates the killswitch, the session does not end,   *)
(* the user leaves the position alone, reads and cancels answer, and the only  *)
(* trouble is that the broker refuses or drops stop-losses.  (Run exit_double  *)
(* shows what the session end does to it; a failed read, a lost answer, a busy *)
(* timeout or a crash makes the tracker place a second stop-loss.)             *)
QuietDay == KillThreads = {} /\ Disturbances \subseteq {"place", "reject"}

LiveFor(bk, t) == {o \in 1..Len(bk) : bk[o].trade = t /\ bk[o].status = "live"}
\* at most one live order, and only while the unit is held
Settled(bk, p, t) == p \in {0, 1} /\ \A o, q \in LiveFor(bk, t) : o = q /\ p = 1
\* the order s answers for the unit: no other is live, and a unit that is gone
\* was sold by s
Owns(bk, p, t, s) ==
    /\ LiveFor(bk, t) \subseteq {s}
    /\ p = 1 \/ (s \in 1..Len(bk) /\ bk[s].status = "complete")

\* Which order answers for a trade depends on who has it: the row in the table,
\* the tracker's copy while a tick holds the trade, the order just placed until
\* it is verified, and none once the tracker has placed an exit.
InHand(t) == base[t].status = "open"
Verifying(t) == tk.cur = t /\ tk.pc = "verify"
Exiting(t) == tk.cur = t /\ tk.pc = "settle"
Guarded(t) == IF InHand(t) THEN work[t].status = "open" /\ ~Exiting(t)
                           ELSE db[t].status = "open"
Guard(t) == IF Verifying(t) THEN tk.ord
            ELSE IF InHand(t) THEN work[t].sl ELSE db[t].sl

TradeCovered(t) ==
    /\ Settled(book, pos[t], t)
    /\ db[t].status = "none" => pos[t] = 0 /\ LiveFor(book, t) = {}
    /\ ~InHand(t) => work[t] = base[t]
    /\ InHand(t) => db[t].sl = base[t].sl
    /\ Guarded(t) => Owns(book, pos[t], t, Guard(t))

QuietPc == {"idle", "pick", "sync", "ensure", "verify", "defend", "settle",
            "trail", "reread", "position", "candidate"}
QuietTick ==
    /\ clock = "trading" /\ ~tk.late
    /\ tk.pc \in QuietPc
    /\ tk.pc \in {"ensure", "defend"} => work[tk.cur].sl = 0
    /\ tk.pc = "idle" => \A t \in Trades : ~InHand(t)

CInv == QuietTick /\ \A t \in Trades : TradeCovered(t)

LEMMA QuietOnly ==
    ASSUME QuietDay, NEW d, Disturb(d) PROVE d \in {"place", "reject"}
BY DEF QuietDay, Disturb

LEMMA LivePlaced ==
    ASSUME BookOK, NEW t \in Trades, NEW kind \in {"sl", "exit"}, PlaceSell(t, kind)
    PROVE  /\ LiveFor(book', t) = LiveFor(book, t) \cup {Len(book) + 1}
           /\ Len(book) + 1 \in 1..Len(book') /\ BookStep
           /\ \A u \in Trades : u # t => LiveFor(book', u) = LiveFor(book, u)
<1> DEFINE e == [trade |-> t, kind |-> kind, status |-> "live"]
<1>1. /\ Len(book) \in Nat /\ Len(book') = Len(book) + 1 /\ BookStep
      /\ book'[Len(book) + 1] = e
  BY PlaceSellBook, LenBookNat
<1>2. \A i \in 1..Len(book) : book'[i] = book[i]
  <2>1. e \in SellOrder /\ book' = Append(book, e)
    BY DEF SellOrder, PlaceSell
  <2> QED
    BY <2>1, AppendProperties DEF BookOK
<1>3. \A o : o \in 1..Len(book') <=> (o \in 1..Len(book) \/ o = Len(book) + 1)
  BY <1>1
<1>4. \A u \in Trades : \A o :
        o \in LiveFor(book', u) <=> (o \in LiveFor(book, u) \/ (o = Len(book) + 1 /\ u = t))
  BY <1>1, <1>2, <1>3 DEF LiveFor
<1> QED
  BY <1>1, <1>3, <1>4

LEMMA LiveEnded ==
    ASSUME BookOK, NEW o \in 1..Len(book), NEW s \in {"complete", "dead"},
           book[o].status = "live",
           book' = [book EXCEPT ![o].status = s]
    PROVE  /\ BookStep /\ book'[o].status = s /\ o \in 1..Len(book')
           /\ o \in LiveFor(book, book[o].trade)
           /\ \A u \in Trades : LiveFor(book', u) = LiveFor(book, u) \ {o}
<1>1. /\ BookStep /\ Len(book') = Len(book) /\ book'[o].status = s
      /\ Len(book) \in Nat
  BY SetStatusBook, LenBookNat
<1>2. \A j \in 1..Len(book) : j # o => book'[j] = book[j]
  <2>1. book \in [1..Len(book) -> SellOrder]
    BY LenProperties DEF BookOK
  <2> QED
    BY <2>1
<1>3. \A u \in Trades : \A j : j \in LiveFor(book', u) <=> (j \in LiveFor(book, u) /\ j # o)
  BY <1>1, <1>2 DEF LiveFor, BookStep
<1> QED
  BY <1>1, <1>3 DEF LiveFor

\* An order that answers for a unit goes on doing so while no order is added.
LEMMA OwnsStays ==
    ASSUME BookOK, BookStep, NEW t \in Trades, NEW p, NEW s,
           LiveFor(book', t) \subseteq LiveFor(book, t), Owns(book, p, t, s)
    PROVE  Owns(book', p, t, s)
<1>1. Len(book) \in Nat /\ Len(book') \in Nat /\ Len(book) <= Len(book')
  BY LenProperties DEF BookOK, BookStep
<1> QED
  BY <1>1 DEF Owns, BookStep

LEMMA SettledStays ==
    ASSUME NEW t \in Trades, NEW p,
           LiveFor(book', t) \subseteq LiveFor(book, t), Settled(book, p, t)
    PROVE  Settled(book', p, t)
BY DEF Settled

\* A trade nobody touches.
LEMMA CoveredStays ==
    ASSUME BookOK, BookStep, NEW t \in Trades, TradeCovered(t),
           LiveFor(book', t) \subseteq LiveFor(book, t),
           pos'[t] = pos[t], db'[t] = db[t], base'[t] = base[t], work'[t] = work[t],
           ~Exiting(t) => ~Exiting(t)',
           Exiting(t) => Exiting(t)',
           \/ ~Verifying(t) /\ ~Verifying(t)'
           \/ Verifying(t) /\ Verifying(t)' /\ tk'.ord = tk.ord
    PROVE  TradeCovered(t)'
<1>1. Guarded(t)' = Guarded(t) /\ Guard(t)' = Guard(t) /\ InHand(t)' = InHand(t)
  BY DEF Guarded, Guard, InHand
<1>2. Guarded(t)' => Owns(book', pos'[t], t, Guard(t)')
  BY <1>1, OwnsStays DEF TradeCovered
<1>3. Settled(book', pos'[t], t)
  BY SettledStays DEF TradeCovered
<1> QED
  BY <1>1, <1>2, <1>3 DEF TradeCovered

LEMMA CoverInit == Init => CInv
<1> SUFFICES ASSUME Init PROVE CInv
  OBVIOUS
<1>1. \A t \in Trades : LiveFor(book, t) = {}
  BY EmptySeq DEF Init, LiveFor
<1>2. \A t \in Trades : TradeCovered(t)
  BY <1>1 DEF Init, TradeCovered, Settled, InHand, Guarded, NoRow
<1>3. QuietTick
  BY DEF Init, QuietTick, QuietPc, TrackerIdle, InHand, NoRow
<1> QED
  BY <1>2, <1>3 DEF CInv

\* The tracker stands still.
LEMMA TickStays ==
    ASSUME QuietTick, UNCHANGED <<clock, trackerVars>> PROVE QuietTick'
BY DEF QuietTick, trackerVars, InHand

LEMMA CoverWorld == ASSUME QuietDay, IInv, CInv, World PROVE CInv'
<1>0. BookOK /\ pos \in [Trades -> Int] /\ db \in [Trades -> Row]
  BY DEF IInv, TypeInv, TypeOK, BookOK
<1>1. ASSUME NEW t \in Trades, OpenTrade(t) PROVE CInv'
  <2>1. /\ LiveFor(book', t) = LiveFor(book, t) \cup {Len(book) + 1}
        /\ Len(book) + 1 \in 1..Len(book') /\ BookStep
        /\ \A u \in Trades : u # t => LiveFor(book', u) = LiveFor(book, u)
    BY <1>0, <1>1, LivePlaced DEF OpenTrade
  <2>2. /\ db' = [db EXCEPT ![t] = NewRow(Len(book) + 1)]
        /\ pos' = [pos EXCEPT ![t] = 1] /\ UNCHANGED <<clock, trackerVars>>
        /\ db[t].status = "none"
    BY <1>1 DEF OpenTrade
  <2>3. base[t].status = "none"
    BY <2>2 DEF IInv, Safe, TrackerOK
  <2>4. tk.pc \notin {"idle", "pick"} => tk.cur # t
    BY <2>3 DEF IInv, Safe, TrackerOK
  <2>5. TradeCovered(t)'
    <3>1. LiveFor(book', t) = {Len(book) + 1}
      BY <2>1, <2>2 DEF CInv, TradeCovered
    <3>2. db'[t] = NewRow(Len(book) + 1) /\ pos'[t] = 1
      BY <1>0, <2>2
    <3>3. ~InHand(t)' /\ (work[t] = base[t])' /\ ~Verifying(t)'
      BY <2>2, <2>3, <2>4 DEF InHand, Verifying, CInv, TradeCovered, trackerVars
    <3>4. Settled(book', 1, t) /\ Owns(book', 1, t, Len(book) + 1)
      BY <3>1 DEF Settled, Owns
    <3>5. Guard(t)' = Len(book) + 1 /\ db'[t].status = "open"
      BY <3>2, <3>3 DEF Guard, NewRow
    <3> QED
      BY <3>2, <3>3, <3>4, <3>5 DEF TradeCovered
  <2>6. ASSUME NEW u \in Trades, u # t PROVE TradeCovered(u)'
    <3>1. db'[u] = db[u] /\ pos'[u] = pos[u]
      BY <1>0, <2>2, <2>6
    <3> QED
      BY <1>0, <2>1, <2>2, <2>6, <3>1, CoveredStays DEF CInv, trackerVars, Exiting, Verifying
  <2> QED
    BY <2>2, <2>5, <2>6, TickStays DEF CInv
<1>2. ASSUME NEW o \in 1..Len(book), Fill(o) PROVE CInv'
  <2> PICK t \in Trades : t = book[o].trade
    BY <1>0, LenBookNat DEF SellOrder
  <2>1. /\ BookStep /\ book'[o].status = "complete" /\ o \in 1..Len(book')
        /\ o \in LiveFor(book, t)
        /\ \A u \in Trades : LiveFor(book', u) = LiveFor(book, u) \ {o}
    BY <1>0, <1>2, LiveEnded DEF Fill
  <2>2. /\ pos' = [pos EXCEPT ![t] = @ - 1] /\ t \in Trades
        /\ UNCHANGED <<db, clock, trackerVars>>
    BY <1>0, <1>2, LenBookNat DEF Fill, SellOrder
  <2>3. TradeCovered(t)'
    <3>1. pos[t] = 1 /\ LiveFor(book', t) = {}
      <4>1. Settled(book, pos[t], t)
        BY <2>2 DEF CInv, TradeCovered
      <4>2. pos[t] = 1 /\ \A q \in LiveFor(book, t) : q = o
        BY <2>1, <4>1 DEF Settled
      <4> QED
        BY <2>1, <4>2
    <3>2. pos'[t] = 0
      BY <1>0, <2>2, <3>1
    <3>3. Guarded(t)' => Owns(book', 0, t, Guard(t)')
      <4>1. SUFFICES ASSUME Guarded(t)' PROVE Owns(book', 0, t, Guard(t)')
        OBVIOUS
      <4>2. Guarded(t) /\ Guard(t)' = Guard(t)
        BY <2>2, <4>1 DEF Guarded, Guard, InHand, Exiting, Verifying, trackerVars
      <4>3. Guard(t) = o
        BY <2>1, <2>2, <4>2 DEF CInv, TradeCovered, Owns
      <4> QED
        BY <2>1, <3>1, <4>2, <4>3 DEF Owns
    <3>4. Settled(book', 0, t)
      BY <3>1 DEF Settled
    <3>5. db[t].status # "none"
      BY <2>1, <2>2 DEF CInv, TradeCovered
    <3> QED
      BY <2>2, <3>2, <3>3, <3>4, <3>5 DEF CInv, TradeCovered, InHand, trackerVars
  <2>4. ASSUME NEW u \in Trades, u # t PROVE TradeCovered(u)'
    <3>1. pos'[u] = pos[u]
      BY <1>0, <2>2, <2>4
    <3> QED
      BY <1>0, <2>1, <2>2, <3>1, CoveredStays DEF CInv, trackerVars, Exiting, Verifying
  <2> QED
    BY <2>2, <2>3, <2>4, TickStays DEF CInv
<1>3. ASSUME NEW o \in 1..Len(book), Reject(o) PROVE CInv'
  <2>1. BookStep /\ \A u \in Trades : LiveFor(book', u) = LiveFor(book, u) \ {o}
    BY <1>0, <1>3, LiveEnded DEF Reject
  <2>2. UNCHANGED <<pos, db, clock, trackerVars>>
    BY <1>3 DEF Reject, worldVars
  <2>3. ASSUME NEW u \in Trades PROVE TradeCovered(u)'
    BY <1>0, <2>1, <2>2, CoveredStays DEF CInv, trackerVars, Exiting, Verifying
  <2> QED
    BY <2>2, <2>3, TickStays DEF CInv
<1>4. ASSUME NEW t \in Trades, GrowOlder(t) PROVE CInv'
  <2>1. UNCHANGED <<pos, db, book, clock, trackerVars>>
    BY <1>4 DEF GrowOlder
  <2>2. ASSUME NEW u \in Trades PROVE TradeCovered(u)'
    BY <1>0, <2>1, BookSame, CoveredStays DEF CInv, trackerVars, Exiting, Verifying
  <2> QED
    BY <2>1, <2>2, TickStays DEF CInv
<1>5. ~EndSession /\ ~Crash /\ \A t \in Trades : ~UserExit(t)
  BY QuietOnly DEF EndSession, Crash, UserExit
<1> QED
  BY <1>1, <1>2, <1>3, <1>4, <1>5 DEF World

-----------------------------------------------------------------------------
\* What a step in the middle of a trade may rely on.
LEMMA CurCovered ==
    ASSUME IInv, CInv, tk.pc \notin {"idle", "pick"}
    PROVE  /\ tk.cur \in Trades /\ tk.cur # NoTrade /\ BookOK /\ work \in [Trades -> Row]
           /\ InHand(tk.cur) /\ Cur.status = "open" /\ Cur \in Row
           /\ Settled(book, pos[tk.cur], tk.cur)
           /\ db[tk.cur].status # "none" /\ db[tk.cur].sl = base[tk.cur].sl
           /\ tk.pc # "settle" =>
                 Owns(book, pos[tk.cur], tk.cur, IF tk.pc = "verify" THEN tk.ord ELSE Cur.sl)
<1>1. tk.cur \in Trades /\ Cur \in Row /\ BookOK /\ work \in [Trades -> Row] /\ tk.cur # NoTrade
  BY CurType, TradesAssumption DEF IInv, TypeInv, TypeOK
<1>2. InHand(tk.cur) /\ Cur.status = "open" /\ db[tk.cur].status # "none"
  BY <1>1 DEF IInv, Safe, TrackerOK, InHand, Cur
<1>3. TradeCovered(tk.cur)
  BY <1>1 DEF CInv
<1> QED
  BY <1>1, <1>2, <1>3 DEF TradeCovered, Guarded, Guard, Exiting, Verifying, Cur

\* Such a step touches no other trade; what it makes of its own must be covered.
LEMMA TrackerCovers ==
    ASSUME IInv, CInv, BookStep, UNCHANGED <<db, worldVars, rc, ks, base>>,
           tk.pc \notin {"idle", "pick"},
           NEW row, work' = [work EXCEPT ![tk.cur] = row],
           \A t \in Trades : t # tk.cur => LiveFor(book', t) = LiveFor(book, t),
           Settled(book', pos[tk.cur], tk.cur),
           tk'.late = tk.late,
           \/ /\ tk'.pc = "pick" /\ tk'.cur = NoTrade
              /\ row.status = "open" => Owns(book', pos[tk.cur], tk.cur, row.sl)
           \/ /\ tk'.pc \in QuietPc \ {"idle", "pick"} /\ tk'.cur = tk.cur
              /\ tk'.pc \in {"ensure", "defend"} => row.sl = 0
              /\ tk'.pc # "settle" =>
                    Owns(book', pos[tk.cur], tk.cur, IF tk'.pc = "verify" THEN tk'.ord ELSE row.sl)
    PROVE  CInv'
<1> PICK c \in Trades : c = tk.cur
  BY CurCovered
<1>1. /\ c \in Trades /\ c # NoTrade /\ BookOK /\ work \in [Trades -> Row]
      /\ InHand(c) /\ db[c].status # "none" /\ db[c].sl = base[c].sl
  BY CurCovered
<1>2. UNCHANGED <<db, pos, clock, base>>
  BY DEF worldVars
<1>3. TradeCovered(c)'
  <2>1. work'[c] = row /\ InHand(c)'
    BY <1>1, <1>2 DEF InHand
  <2>2. Guarded(c)' => Owns(book', pos[c], c, Guard(c)')
    BY <1>1, <2>1 DEF Guarded, Guard, Exiting, Verifying
  <2> QED
    BY <1>1, <1>2, <2>1, <2>2 DEF TradeCovered
<1>4. ASSUME NEW t \in Trades, t # c PROVE TradeCovered(t)'
  <2>1. work'[t] = work[t] /\ (tk'.cur # t \/ tk'.cur = NoTrade)
    BY <1>1, <1>4
  <2>2. ~Exiting(t) /\ ~Exiting(t)' /\ ~Verifying(t) /\ ~Verifying(t)' /\ work'[t] = work[t]
    BY <1>1, <1>4, <2>1, TradesAssumption DEF Exiting, Verifying
  <2> QED
    BY <1>1, <1>2, <1>4, <2>2, CoveredStays DEF CInv
<1>5. QuietTick'
  <2>1. tk'.pc \in {"ensure", "defend"} => work'[tk'.cur].sl = 0
    BY <1>1
  <2> QED
    BY <1>2, <2>1 DEF CInv, QuietTick, QuietPc
<1> QED
  BY <1>3, <1>4, <1>5 DEF CInv

\* The row is left as it is, or closed, or keeps its stop-loss; no order is placed.
LEMMA KeepCovers ==
    ASSUME IInv, CInv, UNCHANGED <<db, book, worldVars, rc, ks, base>>,
           tk.pc \notin {"idle", "pick", "settle", "verify"},
           NEW row, work' = [work EXCEPT ![tk.cur] = row],
           row.status = "closed" \/ row.sl = Cur.sl,
           \/ NextTrade
           \/ row.sl = Cur.sl /\ Goto("defend") /\ tk.pc = "ensure"
           \/ row.sl = Cur.sl /\ \E m : tk' = [tk EXCEPT !.pc = "reread", !.moved = m]
           \/ row.sl = Cur.sl /\ \E pc \in {"trail", "position", "candidate"} : Goto(pc)
    PROVE  CInv'
<1>1. /\ BookOK /\ Settled(book, pos[tk.cur], tk.cur)
      /\ Owns(book, pos[tk.cur], tk.cur, Cur.sl)
      /\ tk \in TrackerState
  BY CurCovered DEF IInv, TypeInv, TypeOK
<1>2. BookStep /\ Settled(book', pos[tk.cur], tk.cur) /\ Owns(book', pos[tk.cur], tk.cur, Cur.sl)
  BY <1>1, BookSame
<1>3. tk'.late = tk.late
  BY <1>1 DEF NextTrade, Goto, TrackerState
<1>4. \A t \in Trades : LiveFor(book', t) = LiveFor(book, t)
  OBVIOUS
<1>5. CASE NextTrade
  <2>1. tk'.pc = "pick" /\ tk'.cur = NoTrade
    BY <1>1, <1>5, TkFields
  <2>2. row.status = "open" => row.sl = Cur.sl
    OBVIOUS
  <2> QED
    BY <1>2, <1>3, <1>4, <2>1, <2>2, TrackerCovers
<1>6. CASE ~NextTrade
  <2>1. row.sl = Cur.sl /\ tk'.cur = tk.cur
        /\ \/ tk'.pc = "defend" /\ tk.pc = "ensure"
           \/ tk'.pc \in {"reread", "trail", "position", "candidate"}
    BY <1>1, <1>6 DEF Goto, TrackerState
  <2>2. tk'.pc = "defend" => row.sl = 0
    BY <2>1 DEF CInv, QuietTick, Cur
  <2>3. tk'.pc \in QuietPc \ {"idle", "pick"}
    BY <2>1 DEF QuietPc
  <2> QED
    BY <1>2, <1>3, <1>4, <2>1, <2>2, <2>3, TrackerCovers
<1> QED
  BY <1>5, <1>6

\* Every stop-loss an actor relies on is an order of the trade's own.
LEMMA CurStop ==
    ASSUME IInv, CInv, tk.pc \notin {"idle", "pick"}, Cur.sl # 0
    PROVE  Cur.sl \in 1..Len(book) /\ book[Cur.sl].trade = tk.cur
BY CurCovered DEF IInv, Safe, RowsOK, RowGood, IsStop, Cur

LEMMA CloseKeeps ==
    ASSUME NEW row \in Row, NEW why
    PROVE  CloseTrade(row, why).status = "closed" /\ CloseTrade(row, why).sl = row.sl
BY DEF CloseTrade, Row

LEMMA CoverTracker == ASSUME QuietDay, IInv, CInv, TrackerStep PROVE CInv'
<1>0. /\ BookOK /\ pos \in [Trades -> Int] /\ db \in [Trades -> Row]
      /\ base \in [Trades -> Row] /\ work \in [Trades -> Row] /\ tk \in TrackerState
      /\ Len(book) \in Nat
  BY LenBookNat DEF IInv, TypeInv, TypeOK, BookOK
<1>1. \A d \in {"read", "lost", "cancel"} : ~Disturb(d)
  BY QuietOnly
<1>2. CASE TickBegin
  <2>1. /\ tk.pc = "idle" /\ UNCHANGED <<db, book, pos, clock>>
        /\ base' = [t \in Trades |-> IF t \in OpenTrades THEN db[t] ELSE NoRow]
        /\ work' = base'
        /\ tk' = [TrackerIdle EXCEPT !.pc = "pick", !.todo = OpenTrades, !.late = (clock = "ended")]
    BY <1>2 DEF TickBegin, worldVars
  <2>2. tk'.pc = "pick" /\ ~tk'.late
    BY <2>1 DEF CInv, QuietTick, TrackerIdle
  <2>3. ASSUME NEW t \in Trades PROVE TradeCovered(t)'
    <3>1. base'[t] = (IF db[t].status = "open" THEN db[t] ELSE NoRow) /\ work'[t] = base'[t]
      BY <2>1 DEF OpenTrades
    <3>2. ~InHand(t) /\ TradeCovered(t)
      BY <2>1 DEF CInv, QuietTick
    <3>3. ~Verifying(t) /\ ~Verifying(t)' /\ ~Exiting(t)'
      BY <2>1, <2>2 DEF Verifying, Exiting
    <3>4. CASE db[t].status = "open"
      <4>1. Guarded(t) /\ Guard(t) = db[t].sl /\ Guard(t)' = db[t].sl /\ InHand(t)'
        BY <3>1, <3>2, <3>3, <3>4 DEF Guarded, Guard, InHand
      <4> QED
        BY <2>1, <3>1, <3>2, <3>4, <4>1 DEF TradeCovered
    <3>5. CASE db[t].status # "open"
      <4>1. ~InHand(t)' /\ ~Guarded(t)'
        BY <2>1, <3>1, <3>5 DEF Guarded, InHand, NoRow
      <4> QED
        BY <2>1, <3>1, <3>2, <4>1 DEF TradeCovered
    <3> QED
      BY <3>4, <3>5
  <2> QED
    BY <2>1, <2>2, <2>3 DEF CInv, QuietTick, QuietPc
<1>3. ASSUME NEW t \in Trades, TickPick(t) PROVE CInv'
  <2>1. ~tk.late /\ tk.pc = "pick" /\ t \in tk.todo /\ UNCHANGED <<db, pos, clock, base, book>>
    BY <1>3 DEF CInv, QuietTick, TickPick, Tracker, worldVars
  <2>2. /\ work' = [work EXCEPT ![t].stage = IF @ = "sl_pending" THEN "sl_active" ELSE @]
        /\ tk' = [tk EXCEPT !.todo = @ \ {t}, !.cur = t,
                            !.pc = IF work[t].sl # 0 THEN "sync" ELSE "ensure"]
    BY <1>1, <1>3, <2>1 DEF TickPick
  <2>3. /\ tk'.cur = t /\ tk'.late = tk.late
        /\ tk'.pc \in {"sync", "ensure"} /\ (tk'.pc = "ensure" => work[t].sl = 0)
    BY <1>0, <2>2 DEF TrackerState
  <2>4. work'[t].sl = work[t].sl /\ work'[t].status = work[t].status /\ InHand(t)
    <3>1. work[t].status = "open"
      BY <2>1 DEF IInv, Safe, TrackerOK
    <3>2. work[t] \in Row
      BY <1>0
    <3> QED
      BY <1>0, <2>2, <3>1, <3>2 DEF IInv, Safe, TrackerOK, Row, InHand
  <2>5. ASSUME NEW u \in Trades PROVE TradeCovered(u)'
    <3>1. CASE u = t
      <4>1. /\ Guarded(t)' = Guarded(t) /\ Guard(t)' = Guard(t) /\ InHand(t)' = InHand(t)
        BY <2>1, <2>3, <2>4 DEF Guarded, Guard, InHand, Exiting, Verifying
      <4> QED
        BY <2>1, <2>4, <3>1, <4>1 DEF CInv, TradeCovered
    <3>2. CASE u # t
      <4>1. work'[u] = work[u]
        BY <1>0, <2>2, <3>2
      <4> QED
        BY <1>0, <2>1, <2>3, <4>1, BookSame, CoveredStays DEF CInv, Exiting, Verifying
    <3> QED
      BY <3>1, <3>2
  <2> QED
    BY <2>1, <2>3, <2>4, <2>5 DEF CInv, QuietTick, QuietPc
<1>4. CASE TickCommit
  <2>1. /\ tk.pc = "pick" /\ UNCHANGED <<book, pos, clock>>
        /\ db' = [t \in Trades |-> Merge(db[t], base[t], work[t])]
        /\ tk' = TrackerIdle
        /\ base' = [t \in Trades |-> NoRow]
        /\ work' = [t \in Trades |-> NoRow]
    BY <1>4 DEF TickCommit, TickEnd, worldVars
  <2>2. ASSUME NEW t \in Trades PROVE TradeCovered(t)'
    <3>1. ~InHand(t)' /\ work'[t] = base'[t] /\ ~Verifying(t) /\ ~Exiting(t) /\ ~Verifying(t)'
      BY <2>1 DEF InHand, Verifying, Exiting, NoRow, TrackerIdle
    <3>2. db'[t] = Merge(db[t], base[t], work[t]) /\ TradeCovered(t)
          /\ db[t] \in Row /\ base[t] \in Row /\ work[t] \in Row
      BY <1>0, <2>1 DEF CInv
    <3>3. CASE InHand(t)
      <4>1. /\ db'[t].sl = work[t].sl
            /\ db'[t].status = "open" => work[t].status = "open"
            /\ db[t].status # "none" /\ db'[t].status # "none"
        <5>1. work[t].status \in {"open", "closed"} /\ db[t].status # "none" /\ base[t].status = "open"
          BY <3>3 DEF IInv, Safe, TrackerOK, InHand
        <5> QED
          BY <3>2, <3>3, <5>1 DEF Merge, TradeCovered
      <4>2. Guarded(t)' => Owns(book, pos[t], t, Guard(t)')
        BY <3>1, <3>2, <3>3, <4>1 DEF TradeCovered, Guarded, Guard
      <4> QED
        BY <2>1, <3>1, <3>2, <4>1, <4>2 DEF TradeCovered
    <3>4. CASE ~InHand(t)
      <4>1. db'[t] = db[t]
        BY <3>2, <3>4 DEF TradeCovered, Merge, Row
      <4>2. Guarded(t)' = Guarded(t) /\ Guard(t)' = Guard(t)
        BY <3>1, <3>4, <4>1 DEF Guarded, Guard
      <4> QED
        BY <2>1, <3>1, <3>2, <4>1, <4>2 DEF TradeCovered
    <3> QED
      BY <3>3, <3>4
  <2>3. QuietTick'
    BY <2>1 DEF CInv, QuietTick, QuietPc, TrackerIdle, InHand, NoRow
  <2> QED
    BY <2>2, <2>3 DEF CInv
<1>5. tk.pc \notin {"idle", "pick"} =>
         /\ tk.cur \in Trades /\ Cur \in Row /\ work = [work EXCEPT ![tk.cur] = Cur]
  <2>1. tk.pc \notin {"idle", "pick"} => tk.cur \in Trades /\ Cur \in Row
    BY CurCovered
  <2> QED
    BY <1>0, <2>1 DEF Cur
\* a stop-loss the broker dropped has left the unit held and nothing live
<1>6. ASSUME tk.pc \in {"sync", "reread"}, Dead(Cur.sl)
      PROVE  LiveFor(book, tk.cur) = {} /\ pos[tk.cur] = 1 /\ \A s : Owns(book, pos[tk.cur], tk.cur, s)
  <2>1. Cur.sl # 0
    BY <1>6 DEF IInv, Safe, TrackerOK, Cur
  <2>2. book[Cur.sl].status = "dead"
    BY <1>6 DEF Dead
  <2>3. Owns(book, pos[tk.cur], tk.cur, Cur.sl)
    BY <1>6, CurCovered
  <2> QED
    BY <2>2, <2>3 DEF Owns, LiveFor
<1>7. CASE TickSync
  <2>1. tk.pc = "sync" /\ UNCHANGED <<db, book, worldVars, rc, ks, base>>
    BY <1>7 DEF TickSync, Tracker
  <2>2. CASE Set(CloseTrade(Cur, SlCause(Cur))) /\ NextTrade
    <3>1. CloseTrade(Cur, SlCause(Cur)).status = "closed"
      BY DEF CloseTrade, Cur
    <3> QED
      BY <2>1, <2>2, <3>1, KeepCovers DEF Set
  <2>3. CASE Dead(Cur.sl) /\ Set([Cur EXCEPT !.sl = 0]) /\ Goto("ensure")
    <3>1. tk'.pc = "ensure" /\ tk'.cur = tk.cur /\ tk'.late = tk.late
      BY <1>0, <2>3 DEF Goto, TrackerState
    <3>2. [Cur EXCEPT !.sl = 0].sl = 0
      BY <1>5, <2>1 DEF Row
    <3>3. Settled(book, pos[tk.cur], tk.cur) /\ Owns(book, pos[tk.cur], tk.cur, 0)
      BY <1>6, <2>1, <2>3, CurCovered
    <3> QED
      BY <1>0, <2>1, <2>3, <3>1, <3>2, <3>3, BookSame, TrackerCovers DEF Set, QuietPc
  <2>4. CASE UNCHANGED work /\ Goto("trail")
    BY <1>5, <2>1, <2>4, KeepCovers
  <2> QED
    BY <1>1, <1>7, <2>2, <2>3, <2>4 DEF TickSync
<1>8. CASE TickEnsure
  <2>1. tk.pc = "ensure" /\ UNCHANGED <<db, worldVars, rc, ks, base, work>> /\ Cur.sl = 0
    BY <1>8 DEF TickEnsure, Tracker, CInv, QuietTick, Cur
  <2>2. CASE PlaceSell(tk.cur, "sl") /\ tk' = [tk EXCEPT !.pc = "verify", !.ord = Len(book) + 1]
    <3>1. tk'.pc = "verify" /\ tk'.cur = tk.cur /\ tk'.late = tk.late /\ tk'.ord = Len(book) + 1
      BY <1>0, <2>2 DEF TrackerState
    <3>2. /\ LiveFor(book', tk.cur) = LiveFor(book, tk.cur) \cup {Len(book) + 1}
          /\ Len(book) + 1 \in 1..Len(book') /\ BookStep
          /\ \A u \in Trades : u # tk.cur => LiveFor(book', u) = LiveFor(book, u)
      BY <1>0, <1>5, <2>1, <2>2, LivePlaced
    <3>3. Owns(book, pos[tk.cur], tk.cur, 0)
      BY <2>1, CurCovered
    <3>4. LiveFor(book, tk.cur) = {} /\ pos[tk.cur] = 1
      BY <1>0, <3>3 DEF Owns, LiveFor
    <3>5. Settled(book', pos[tk.cur], tk.cur) /\ Owns(book', pos[tk.cur], tk.cur, Len(book) + 1)
      BY <3>2, <3>4 DEF Settled, Owns
    <3> QED
      BY <1>5, <2>1, <3>1, <3>2, <3>5, TrackerCovers DEF QuietPc
  <2>3. CASE UNCHANGED book /\ Goto("defend")
    BY <1>5, <2>1, <2>3, KeepCovers
  <2> QED
    BY <1>1, <1>8, <2>2, <2>3 DEF TickEnsure
<1>9. CASE TickVerify
  <2>1. /\ tk.pc = "verify" /\ UNCHANGED <<db, book, worldVars, rc, ks, base>>
        /\ Set([Cur EXCEPT !.sl = tk.ord, !.stage = "sl_active"]) /\ Goto("trail")
    BY <1>1, <1>9 DEF TickVerify, Tracker
  <2>2. tk'.pc = "trail" /\ tk'.cur = tk.cur /\ tk'.late = tk.late
    BY <1>0, <2>1 DEF Goto, TrackerState
  <2>3. [Cur EXCEPT !.sl = tk.ord, !.stage = "sl_active"].sl = tk.ord
    BY <1>5, <2>1 DEF Row
  <2>4. Settled(book, pos[tk.cur], tk.cur) /\ Owns(book, pos[tk.cur], tk.cur, tk.ord)
    BY <2>1, CurCovered
  <2> QED
    BY <1>0, <2>1, <2>2, <2>3, <2>4, BookSame, TrackerCovers DEF Set, QuietPc
<1>10. CASE TickDefend
  <2>1. tk.pc = "defend" /\ UNCHANGED <<db, worldVars, rc, ks, base, work>> /\ Cur.sl = 0
    BY <1>10 DEF TickDefend, Tracker, CInv, QuietTick, Cur
  <2>2. CASE PlaceSell(tk.cur, "exit") /\ Goto("settle")
    <3>1. tk'.pc = "settle" /\ tk'.cur = tk.cur /\ tk'.late = tk.late
      BY <1>0, <2>2 DEF TrackerState, Goto
    <3>2. /\ LiveFor(book', tk.cur) = LiveFor(book, tk.cur) \cup {Len(book) + 1}
          /\ Len(book) + 1 \in 1..Len(book') /\ BookStep
          /\ \A u \in Trades : u # tk.cur => LiveFor(book', u) = LiveFor(book, u)
      BY <1>0, <1>5, <2>1, <2>2, LivePlaced
    <3>3. Owns(book, pos[tk.cur], tk.cur, 0)
      BY <2>1, CurCovered
    <3>4. LiveFor(book, tk.cur) = {} /\ pos[tk.cur] = 1
      BY <1>0, <3>3 DEF Owns, LiveFor
    <3>5. Settled(book', pos[tk.cur], tk.cur)
      BY <3>2, <3>4 DEF Settled
    <3> QED
      BY <1>5, <2>1, <3>1, <3>2, <3>5, TrackerCovers DEF QuietPc
  <2>3. CASE UNCHANGED book /\ Goto("position")
    BY <1>5, <2>1, <2>3, KeepCovers
  <2> QED
    BY <1>1, <1>10, <2>2, <2>3 DEF TickDefend
<1>11. CASE TickSettle
  <2>1. /\ tk.pc = "settle" /\ UNCHANGED <<db, book, worldVars, rc, ks, base>>
        /\ Set(CloseTrade(Cur, "no_sl_sqoff")) /\ NextTrade
    BY <1>1, <1>11 DEF TickSettle, Tracker
  <2>2. tk'.pc = "pick" /\ tk'.cur = NoTrade /\ tk'.late = tk.late
    BY <1>0, <2>1 DEF NextTrade, TrackerState
  <2>3. CloseTrade(Cur, "no_sl_sqoff").status = "closed"
    BY <1>5, <2>1 DEF CloseTrade, Row
  <2>4. Settled(book, pos[tk.cur], tk.cur)
    BY <2>1, CurCovered
  <2> QED
    BY <1>0, <2>1, <2>2, <2>3, <2>4, BookSame, TrackerCovers DEF Set
<1>12. CASE TickTrail
  <2>1. tk.pc = "trail" /\ UNCHANGED <<db, book, worldVars, rc, ks, base, work>>
    BY <1>12 DEF TickTrail, Tracker
  <2>2. \/ Goto("position")
        \/ \E m : tk' = [tk EXCEPT !.pc = "reread", !.moved = m]
    <3>1. ASSUME Goto("reread") PROVE tk' = [tk EXCEPT !.pc = "reread", !.moved = tk.moved]
      BY <1>0, <3>1 DEF Goto, TrackerState
    <3> QED
      BY <1>12, <3>1 DEF TickTrail
  <2> QED
    BY <1>5, <2>1, <2>2, KeepCovers
<1>13. CASE TickReread
  <2>1. tk.pc = "reread" /\ UNCHANGED <<db, book, worldVars, rc, ks, base>>
    BY <1>13 DEF TickReread, Tracker
  <2>2. CASE Set(CloseTrade(Cur, SlCause(Cur))) /\ NextTrade
    <3>1. CloseTrade(Cur, SlCause(Cur)).status = "closed"
      BY <1>5, <2>1 DEF CloseTrade, Row
    <3> QED
      BY <2>1, <2>2, <3>1, KeepCovers DEF Set
  <2>3. CASE Dead(Cur.sl) /\ Set(IF tk.moved THEN [Cur EXCEPT !.sl = 0] ELSE Cur) /\ Goto("position")
    <3>1. tk'.pc = "position" /\ tk'.cur = tk.cur /\ tk'.late = tk.late
      BY <1>0, <2>3 DEF Goto, TrackerState
    <3>2. Settled(book, pos[tk.cur], tk.cur) /\ \A s : Owns(book, pos[tk.cur], tk.cur, s)
      BY <1>6, <2>1, <2>3, CurCovered
    <3> QED
      BY <1>0, <2>1, <2>3, <3>1, <3>2, BookSame, TrackerCovers DEF Set, QuietPc
  <2>4. CASE Set(IF tk.moved THEN [Cur EXCEPT !.trail = TRUE] ELSE Cur) /\ Goto("position")
    <3>1. (IF tk.moved THEN [Cur EXCEPT !.trail = TRUE] ELSE Cur).sl = Cur.sl
      BY <1>5, <2>1 DEF Row
    <3> QED
      BY <2>1, <2>4, <3>1, KeepCovers DEF Set
  <2> QED
    BY <1>1, <1>13, <2>2, <2>3, <2>4 DEF TickReread
<1>14. CASE TickPosition
  <2>1. tk.pc = "position" /\ UNCHANGED <<db, book, worldVars, rc, ks, base>>
    BY <1>14 DEF TickPosition, Tracker
  <2>2. CASE Finish(Cur)
    <3>1. Promote(Cur).sl = Cur.sl
      BY <1>5, <2>1 DEF Promote, Row
    <3> QED
      BY <2>1, <2>2, <3>1, KeepCovers DEF Finish, Set
  <2>3. CASE Goto("candidate") /\ UNCHANGED work
    BY <1>5, <2>1, <2>3, KeepCovers
  <2> QED
    BY <1>14, <2>2, <2>3 DEF TickPosition
<1>15. CASE TickCandidate
  <2>1. tk.pc = "candidate" /\ UNCHANGED <<db, book, worldVars, rc, ks, base>>
    BY <1>15 DEF TickCandidate, Tracker
  <2>2. CASE Finish(Cur)
    <3>1. Promote(Cur).sl = Cur.sl
      BY <1>5, <2>1 DEF Promote, Row
    <3> QED
      BY <2>1, <2>2, <3>1, KeepCovers DEF Finish, Set
  <2>3. ASSUME NEW why \in Causes, Finish(CloseTrade(Cur, why)) PROVE CInv'
    <3>1. CloseTrade(Cur, why) \in Row /\ CloseTrade(Cur, why).status = "closed"
      BY <1>5, <2>1, CloseTradeType
    <3>2. Promote(CloseTrade(Cur, why)).status = "closed"
      BY <3>1, PromoteType
    <3> QED
      BY <2>1, <2>3, <3>2, KeepCovers DEF Finish, Set
  <2> QED
    BY <1>1, <1>15, <2>2, <2>3 DEF TickCandidate
<1>16. ~TickScrap /\ ~TickSqCancel /\ ~TickSqSell /\ ~TickSqClose
  BY DEF CInv, QuietTick, QuietPc, TickScrap, TickSqCancel, TickSqSell, TickSqClose, Tracker
<1> QED
  BY <1>2, <1>3, <1>4, <1>7, <1>8, <1>9, <1>10, <1>11, <1>12, <1>13, <1>14, <1>15, <1>16 DEF TrackerStep

\* A reconciler closes rows; whose order answers for the unit it leaves alone.
LEMMA CoverRecon ==
    ASSUME QuietDay, IInv, CInv, NEW r \in Reconcilers, ReconStep(r) \/ ReconBusy(r) PROVE CInv'
<1>0. BookOK /\ db \in [Trades -> Row] /\ \A q \in Reconcilers : rc[q].base \in Row
  BY DEF IInv, TypeInv, TypeOK, BookOK, ReconState
<1>1. UNCHANGED <<book, pos, clock, trackerVars>>
  BY DEF ReconStep, ReconBusy, ReconList, ReconLoad, ReconHeld, ReconCandidate, ReconCommit,
         ReconEnd, Recon, worldVars
<1>2. ASSUME NEW t \in Trades
      PROVE  \/ db'[t] = db[t]
             \/ db'[t].status = "closed" /\ db'[t].sl = db[t].sl
  <2>1. CASE ReconCommit(r)
    <3> DEFINE old == rc[r].base
               new == CloseTrade(old, rc[r].cause)
    <3>1. db' = [db EXCEPT ![rc[r].cur] = Merge(@, old, new)] /\ rc[r].pc = "commit"
      BY <2>1 DEF ReconCommit, Recon
    <3>2. rc[r].cur \in Trades /\ old.status = "open"
      BY <3>1 DEF IInv, Safe, ReconOK, TypeInv, Refs
    <3>3. new.status = "closed" /\ new.sl = old.sl
      BY <1>0 DEF CloseTrade, Row
    <3> HIDE DEF old, new
    <3>4. \A row : Merge(row, old, new).status = "closed" /\ Merge(row, old, new).sl = row.sl
      BY <3>2, <3>3 DEF Merge
    <3> QED
      BY <1>0, <3>1, <3>4
  <2>2. CASE UNCHANGED db
    BY <2>2
  <2> QED
    BY <2>1, <2>2 DEF ReconStep, ReconBusy, ReconList, ReconLoad, ReconHeld, ReconCandidate, ReconEnd
<1>3. ASSUME NEW t \in Trades PROVE TradeCovered(t)'
  <2>1. CASE db'[t] = db[t]
    BY <1>0, <1>1, <2>1, BookSame, CoveredStays DEF CInv, trackerVars, Exiting, Verifying
  <2>2. CASE db'[t].status = "closed" /\ db'[t].sl = db[t].sl
    <3>1. /\ InHand(t)' = InHand(t) /\ (InHand(t) => Guarded(t)' = Guarded(t))
          /\ ~InHand(t) => ~Guarded(t)'
          /\ Guard(t)' = Guard(t)
      BY <1>1, <2>2 DEF Guarded, Guard, InHand, Exiting, Verifying, trackerVars
    <3> QED
      BY <1>1, <2>2, <3>1 DEF CInv, TradeCovered, trackerVars
  <2> QED
    BY <1>2, <2>1, <2>2
<1> QED
  BY <1>1, <1>3, TickStays DEF CInv

LEMMA CoverStep == ASSUME QuietDay PROVE IInv /\ CInv /\ [Next]_vars => CInv'
<1> SUFFICES ASSUME IInv, CInv, [Next]_vars PROVE CInv'
  OBVIOUS
<1>1. CASE UNCHANGED vars
  <2>1. BookOK /\ UNCHANGED <<book, pos, db, clock, trackerVars>>
    BY <1>1 DEF vars, trackerVars, IInv, TypeInv, TypeOK, BookOK
  <2>2. \A t \in Trades : TradeCovered(t)'
    BY <2>1, BookSame, CoveredStays DEF CInv, trackerVars, Exiting, Verifying
  <2> QED
    BY <2>1, <2>2, TickStays DEF CInv
<1>2. ~TickBusy
  <2>1. ~Disturb("lock")
    BY QuietOnly
  <2> QED
    BY <2>1 DEF TickBusy
<1>3. CASE Next
  <2>1. KillThreads = {}
    BY DEF QuietDay
  <2> QED
    BY <1>2, <1>3, <2>1, CoverWorld, CoverTracker, CoverRecon DEF Next
<1> QED
  BY <1>1, <1>3

\* On a day on which the killswitch stays off, the session does not end, the
\* user keeps out and reads and cancels answer, the broker never holds more live
\* SELL orders for a trade than the account holds units, whatever stop-losses it
\* refuses or drops and however the reconcilers interleave with the tracker's tick.
THEOREM SellsAreCovered == ASSUME QuietDay PROVE Spec => []SellsCovered
<1>1. Init => IInv /\ CInv
  BY TypeInit, SafeInit, CoverInit DEF IInv
<1>2. (IInv /\ CInv) /\ [Next]_vars => (IInv /\ CInv)'
  BY SafeStep, CoverStep
<1>3. ASSUME CInv PROVE SellsCovered
  <2>1. ASSUME NEW t \in Trades PROVE Cardinality(LiveSells(t)) <= pos[t]
    <3>1. Settled(book, pos[t], t) /\ LiveSells(t) = LiveFor(book, t)
      BY <1>3 DEF CInv, TradeCovered, LiveSells, LiveFor
    <3>2. CASE LiveFor(book, t) = {}
      BY <3>1, <3>2, FS_EmptySet DEF Settled
    <3>3. ASSUME NEW o \in LiveFor(book, t) PROVE Cardinality(LiveSells(t)) <= pos[t]
      <4>1. pos[t] = 1 /\ \A q \in LiveFor(book, t) : q = o
        BY <3>1, <3>3 DEF Settled
      <4>2. LiveSells(t) = {o}
        BY <3>1, <3>3, <4>1
      <4>3. Cardinality({o}) = 1
        BY FS_Singleton
      <4> QED
        BY <4>1, <4>2, <4>3
    <3> QED
      BY <3>2, <3>3
  <2> QED
    BY <2>1 DEF SellsCovered
<1> QED
  BY <1>1, <1>2, <1>3, PTL DEF Spec
=============================================================================
