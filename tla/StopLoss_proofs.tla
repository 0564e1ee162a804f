-------------------------- MODULE StopLoss_proofs --------------------------
(***************************************************************************)
(* Proofs about StopLoss for every price, percentage, bound and set of     *)
(* disturbances.                                                           *)
(***************************************************************************)
EXTENDS StopLoss, SequenceTheorems, TLAPS

(* The tracker's rows point into the book, and every pc that touches the   *)
(* bot's order has one.                                                    *)
Refs ==
    /\ row.sl <= Len(book)
    /\ db.sl <= Len(book)
    /\ tk.pc \in {"sync", "drift", "adopt", "trail", "reread"} => row.sl # 0

(* What makes FloorNeverFalls inductive: while the session's row is about  *)
(* the committed order, its floor is at least the committed one.           *)
FloorKept == db.sl # 0 /\ row.sl = db.sl => row.cur >= db.cur

IInv == TypeOK /\ Refs /\ FloorKept

BookStep == book' \in Seq(Stop) /\ Len(book') <= MaxOrders /\ Len(book') >= Len(book)

-----------------------------------------------------------------------------
(* Prices *)

LEMMA NearestBounds ==
    ASSUME NEW n \in Nat
    PROVE  Nearest(n, 100) \in Nat
<1>1. n \div 100 \in Nat /\ n % 100 \in 0..99
  OBVIOUS
<1>2. (n \div 100) % 2 \in Nat
  BY <1>1
<1> QED
  BY <1>1, <1>2 DEF Nearest

LEMMA ProductNat == ASSUME NEW a \in Nat, NEW b \in Nat PROVE a * b \in Nat
OBVIOUS

LEMMA TrailSlBounds ==
    ASSUME NEW p \in Prices
    PROVE  TrailSl(p) \in Nat /\ TrailSl(p) < MaxPrice
<1>1. p \in Nat /\ p <= MaxPrice /\ 100 - GapPct \in Nat /\ MaxPrice \in Nat /\ MaxPrice >= 2
  BY PricesAssumption DEF Prices
<1>2. p * (100 - GapPct) \in Nat
  BY <1>1, ProductNat
<1>3. Nearest(p * (100 - GapPct), 100) \in Nat
  BY <1>2, NearestBounds
<1> QED
  BY <1>1, <1>3 DEF TrailSl, Larger

LEMMA InitialSlBounds == InitialSl(Entry) \in Prices
<1>1. Entry \in Nat /\ Entry >= 2 /\ Entry <= MaxPrice /\ 100 - SlPct \in Nat /\ MaxPrice \in Nat
  BY PricesAssumption
<1>2. Entry * (100 - SlPct) \in Nat
  BY <1>1, ProductNat
<1>3. Nearest(Entry * (100 - SlPct), 100) \in Nat
  BY <1>2, NearestBounds
<1> QED
  BY <1>1, <1>3 DEF InitialSl, Prices

\* what the rule asks for, when it is not the floor, leaves a tick free above
LEMMA NewSlBounds ==
    ASSUME NEW r \in Row, NEW p \in Prices
    PROVE  /\ NewSl(r, p) \in Prices
           /\ NewSl(r, p) # r.cur => NewSl(r, p) + 1 \in Prices
<1>1. r.cur \in Prices /\ r.trail \in BOOLEAN
  BY DEF Row
<1>2. TrailSl(p) \in Nat /\ TrailSl(p) < MaxPrice /\ MaxPrice \in Nat
  BY TrailSlBounds, PricesAssumption
<1>3. NewSl(r, p) \in {TrailSl(p), r.cur}
  BY <1>1, <1>2 DEF NewSl, Larger
<1> QED
  BY <1>1, <1>2, <1>3 DEF Prices

LEMMA RaiseToType ==
    ASSUME NEW r \in Row, NEW p \in Prices
    PROVE  /\ RaiseTo(r, p) \in Row
           /\ RaiseTo(r, p).sl = r.sl
           /\ RaiseTo(r, p).cur >= r.cur
<1>1. r.cur \in Prices /\ Larger(p, r.cur) \in Prices /\ Larger(r.cur, p) \in Prices
  BY DEF Row, Larger
<1>2. RaiseTo(r, p) = [r EXCEPT !.cur = Larger(r.cur, p)]
  BY DEF RaiseTo
<1>3. Larger(r.cur, p) >= r.cur
  BY <1>1, PricesAssumption DEF Larger, Prices
<1> QED
  BY <1>1, <1>2, <1>3 DEF Row

-----------------------------------------------------------------------------
(* The order book *)

LEMMA BookTypes ==
    ASSUME TypeOK
    PROVE  /\ Len(book) \in Nat
           /\ \A o \in 1..Len(book) : book[o] \in Stop /\ book[o].trigger \in Prices
<1>1. book \in Seq(Stop)
  BY DEF TypeOK
<1>2. Len(book) \in Nat /\ \A o \in 1..Len(book) : book[o] \in Stop
  BY <1>1, LenProperties, ElementOfSeq
<1> QED
  BY <1>2 DEF Stop

LEMMA BookSame == ASSUME TypeOK, UNCHANGED book PROVE BookStep
BY BookTypes DEF TypeOK, BookStep

LEMMA PlaceStopBook ==
    ASSUME TypeOK, NEW by \in {"bot", "user"}, NEW p \in Prices, PlaceStop(by, p)
    PROVE  BookStep /\ Len(book') = Len(book) + 1
<1> DEFINE e == [by |-> by, trigger |-> p, status |-> "live"]
<1>1. e \in Stop
  BY DEF Stop
<1>2. book' = Append(book, e) /\ Len(book) < MaxOrders
  BY DEF PlaceStop
<1>3. book' \in Seq(Stop) /\ Len(book') = Len(book) + 1
  BY <1>1, <1>2, AppendProperties DEF TypeOK
<1> QED
  BY <1>2, <1>3, BookTypes, BoundsAssumption DEF BookStep

LEMMA SetTriggerBook ==
    ASSUME TypeOK, NEW o \in 1..Len(book), NEW p \in Prices, SetTrigger(o, p)
    PROVE  BookStep
<1> DEFINE e == [book[o] EXCEPT !.trigger = p]
<1>1. e \in Stop
  BY BookTypes DEF Stop
<1>2. book' = [book EXCEPT ![o] = e]
  BY DEF SetTrigger
<1>3. book' \in Seq(Stop) /\ Len(book') = Len(book)
  BY <1>1, <1>2, ExceptSeq DEF TypeOK
<1> QED
  BY <1>3, BookTypes DEF BookStep, TypeOK

LEMMA SetStatusBook ==
    ASSUME TypeOK, NEW o \in 1..Len(book), NEW s \in {"complete", "dead"}, SetStatus(o, s)
    PROVE  BookStep
<1> DEFINE e == [book[o] EXCEPT !.status = s]
<1>1. e \in Stop
  BY BookTypes DEF Stop
<1>2. book' = [book EXCEPT ![o] = e]
  BY DEF SetStatus
<1>3. book' \in Seq(Stop) /\ Len(book') = Len(book)
  BY <1>1, <1>2, ExceptSeq DEF TypeOK
<1> QED
  BY <1>3, BookTypes DEF BookStep, TypeOK

-----------------------------------------------------------------------------
(* Steps *)

LEMMA DisturbType == ASSUME TypeOK, NEW d, Disturb(d) \/ Calm PROVE disturbed' \in 0..MaxDisturbances
BY BoundsAssumption DEF TypeOK, Disturb, Calm

LEMMA IdleType == Idle \in TrackerState /\ Idle.pc = "idle"
BY PricesAssumption DEF Idle, TrackerState, TrackerPc, Prices

LEMMA GotoType ==
    ASSUME NEW s \in TrackerState, NEW pc \in TrackerPc, NEW p \in Prices
    PROVE  /\ [s EXCEPT !.pc = pc, !.ltp = p] \in TrackerState
           /\ [s EXCEPT !.pc = pc, !.ltp = p].pc = pc
BY DEF TrackerState

LEMMA RereadType ==
    ASSUME NEW s \in TrackerState, NEW p \in Prices, NEW moved \in BOOLEAN
    PROVE  /\ [s EXCEPT !.pc = "reread", !.asked = p, !.moved = moved] \in TrackerState
           /\ [s EXCEPT !.pc = "reread", !.asked = p, !.moved = moved].pc = "reread"
BY DEF TrackerState, TrackerPc

LEMMA InvInit == Init => IInv
<1> SUFFICES ASSUME Init PROVE IInv
  OBVIOUS
<1> DEFINE s == [by |-> "bot", trigger |-> InitialSl(Entry), status |-> "live"]
           r == [open |-> TRUE, sl |-> 1, cur |-> InitialSl(Entry), trail |-> FALSE, source |-> "bot"]
<1>1. InitialSl(Entry) \in Prices
  BY InitialSlBounds
<1>2. s \in Stop
  BY <1>1 DEF Stop
<1>3. r \in Row
  BY <1>1, BoundsAssumption DEF Row, OrderIds
<1>4. book = <<s>> /\ row = r /\ db = r /\ tk = Idle /\ ltp = Entry /\ held = TRUE /\ disturbed = 0
  BY DEF Init
<1>5. book \in Seq(Stop) /\ Len(book) = 1
  BY <1>2, <1>4
<1>6. Idle \in TrackerState
  BY PricesAssumption DEF Idle, TrackerState, TrackerPc, Prices
<1>7. held \in BOOLEAN
  BY <1>4
<1>8. TypeOK
  BY <1>3, <1>4, <1>5, <1>6, <1>7, PricesAssumption, BoundsAssumption DEF TypeOK
<1>9. Refs
  BY <1>4, <1>5 DEF Refs, Idle
<1>10. FloorKept
  BY <1>1, <1>4, PricesAssumption DEF FloorKept, Prices
<1> QED
  BY <1>8, <1>9, <1>10 DEF IInv

\* The market, the broker and the user leave the rows alone.
LEMMA InvWorldBook ==
    ASSUME IInv, BookStep, UNCHANGED <<row, db, tk>>, ltp' \in 1..MaxPrice, held' \in BOOLEAN,
           disturbed' \in 0..MaxDisturbances
    PROVE  IInv'
<1>1. TypeOK'
  BY DEF IInv, TypeOK, BookStep
<1>2. Refs'
  <2>1. row.sl \in Nat /\ db.sl \in Nat
    BY BoundsAssumption DEF IInv, TypeOK, Row, OrderIds
  <2>2. Len(book) \in Nat /\ Len(book') \in Nat
    BY BookTypes, LenProperties DEF IInv, BookStep
  <2> QED
    BY <2>1, <2>2 DEF IInv, Refs, BookStep
<1>3. FloorKept'
  BY DEF IInv, FloorKept
<1> QED
  BY <1>1, <1>2, <1>3 DEF IInv

LEMMA InvWorld == ASSUME IInv, World PROVE IInv'
<1> USE DEF IInv
<1>0. /\ ltp \in 1..MaxPrice /\ held \in BOOLEAN
      /\ Quotes \subseteq Prices /\ Quotes \subseteq 1..MaxPrice
  BY PricesAssumption DEF TypeOK, Prices
<1>1. ASSUME NEW p \in Quotes, MarketMoves(p) PROVE IInv'
  BY <1>0, <1>1, BookSame, DisturbType, InvWorldBook DEF MarketMoves
<1>2. ASSUME NEW p \in Quotes, UserPlaces(p) PROVE IInv'
  BY <1>0, <1>2, PlaceStopBook, DisturbType, InvWorldBook DEF UserPlaces
<1>3. ASSUME NEW o \in 1..Len(book), Fill(o) PROVE IInv'
  <2>1. held' \in BOOLEAN
    BY <1>3 DEF Fill
  <2>2. BookStep
    BY <1>3, SetStatusBook DEF Fill
  <2> QED
    BY <1>0, <1>3, <2>1, <2>2, DisturbType, InvWorldBook DEF Fill
<1>4. ASSUME NEW o \in 1..Len(book), Drop(o) PROVE IInv'
  BY <1>0, <1>4, SetStatusBook, DisturbType, InvWorldBook DEF Drop
<1>5. ASSUME NEW o \in 1..Len(book), UserCancels(o) PROVE IInv'
  BY <1>0, <1>5, SetStatusBook, DisturbType, InvWorldBook DEF UserCancels
<1>6. ASSUME NEW o \in 1..Len(book), NEW p \in Quotes, UserEdits(o, p) PROVE IInv'
  BY <1>0, <1>6, SetTriggerBook, DisturbType, InvWorldBook DEF UserEdits
<1>7. CASE Crash
  <2>1. Idle \in TrackerState
    BY PricesAssumption DEF Idle, TrackerState, TrackerPc, Prices
  <2>2. disturbed' \in 0..MaxDisturbances
    BY <1>7, DisturbType DEF Crash
  <2>3. TypeOK'
    BY <1>7, <2>1, <2>2 DEF Crash, TypeOK
  <2>4. Refs'
    BY <1>7 DEF Crash, Refs, Idle
  <2>5. FloorKept'
    BY <1>7, PricesAssumption DEF Crash, FloorKept, TypeOK, Row, Prices
  <2> QED
    BY <2>3, <2>4, <2>5
<1> QED
  BY <1>1, <1>2, <1>3, <1>4, <1>5, <1>6, <1>7 DEF World

\* A step of the tracker that goes on with the tick, or ends it.
LEMMA InvGoto ==
    ASSUME IInv, NEW pc \in TrackerPc, Tracker(tk.pc), Goto(pc), BookStep,
           row' \in Row, row'.sl <= Len(book'), disturbed' \in 0..MaxDisturbances,
           pc \in {"sync", "drift", "adopt", "trail", "reread"} => row'.sl # 0,
           db.sl # 0 /\ row'.sl = db.sl => row'.cur >= db.cur
    PROVE  IInv'
<1>1. /\ tk' = [Idle EXCEPT !.pc = pc, !.ltp = tk.ltp]
      /\ db' = db /\ ltp' = ltp /\ held' = held
  BY DEF Tracker, Goto
<1>2. tk' \in TrackerState /\ tk'.pc = pc
  <2>1. tk.ltp \in Prices
    BY DEF IInv, TypeOK, TrackerState
  <2> QED
    BY <1>1, <2>1, IdleType, GotoType
<1>3. held' \in BOOLEAN
  BY <1>1 DEF IInv, TypeOK
<1>4. TypeOK'
  BY <1>1, <1>2, <1>3 DEF IInv, TypeOK, BookStep
<1>5. db.sl <= Len(book')
  <2>1. db.sl \in Nat
    BY BoundsAssumption DEF IInv, TypeOK, Row, OrderIds
  <2>2. Len(book) \in Nat /\ Len(book') \in Nat
    BY BookTypes, LenProperties DEF IInv, BookStep
  <2> QED
    BY <2>1, <2>2 DEF IInv, Refs, BookStep
<1>6. Refs'
  BY <1>1, <1>2, <1>5 DEF Refs
<1>7. FloorKept'
  BY <1>1 DEF FloorKept
<1> QED
  BY <1>4, <1>6, <1>7 DEF IInv

LEMMA InvCommit ==
    ASSUME IInv, Tracker(tk.pc), NEW r \in Row, Commit(r), BookStep, r.sl <= Len(book'),
           disturbed' \in 0..MaxDisturbances
    PROVE  IInv'
<1>1. row' = r /\ db' = r /\ tk' = Idle /\ ltp' = ltp /\ held' = held
  BY DEF Tracker, Commit
<1>2. held' \in BOOLEAN
  BY <1>1 DEF IInv, TypeOK
<1>3. TypeOK'
  BY <1>1, <1>2, IdleType DEF IInv, TypeOK, BookStep
<1>4. Refs'
  BY <1>1, IdleType DEF Refs
<1>5. FloorKept'
  BY <1>1, PricesAssumption DEF FloorKept, Row, Prices
<1> QED
  BY <1>3, <1>4, <1>5 DEF IInv

LEMMA InvClose ==
    ASSUME IInv, Tracker(tk.pc), NEW r \in Row, Close(r), BookStep, r.sl <= Len(book'),
           disturbed' \in 0..MaxDisturbances
    PROVE  IInv'
<1> DEFINE c == [r EXCEPT !.open = FALSE]
<1>1. c \in Row /\ c.sl = r.sl
  BY DEF Row
<1>2. Commit(c)
  BY DEF Close
<1> HIDE DEF c
<1>3. c.sl <= Len(book')
  BY <1>1
<1> QED
  BY <1>1, <1>2, <1>3, InvCommit

\* What every step of the tick starts from.
LEMMA Facts ==
    ASSUME IInv
    PROVE  /\ TypeOK
           /\ row \in Row /\ db \in Row /\ tk \in TrackerState
           /\ row.sl \in 0..Len(book) /\ row.cur \in Prices /\ row.cur \in Int
           /\ db.sl \in 0..Len(book) /\ db.cur \in Prices /\ db.cur \in Int
           /\ Len(book) \in Nat
           /\ tk.pc \in {"sync", "drift", "adopt", "trail", "reread"} => row.sl \in 1..Len(book)
           /\ db.sl # 0 /\ row.sl = db.sl => row.cur >= db.cur
<1>1. /\ TypeOK /\ row \in Row /\ db \in Row /\ tk \in TrackerState
  BY DEF IInv, TypeOK
<1>2. Len(book) \in Nat
  BY <1>1, BookTypes
<1>3. /\ row.sl \in Nat /\ row.cur \in Prices /\ row.cur \in Int
      /\ db.sl \in Nat /\ db.cur \in Prices /\ db.cur \in Int
  BY <1>1, BoundsAssumption, PricesAssumption DEF Row, OrderIds, Prices
<1> QED
  BY <1>1, <1>2, <1>3 DEF IInv, Refs, FloorKept

LEMMA InvTickBegin == ASSUME IInv, TickBegin PROVE IInv'
<1>1. /\ row' = db /\ db' = db /\ book' = book /\ ltp' = ltp /\ held' = held
      /\ disturbed' = disturbed
  BY DEF TickBegin, Tracker, Calm
<1>2. ltp \in Prices
  BY PricesAssumption DEF IInv, TypeOK, Prices
<1>3. /\ tk' \in TrackerState
      /\ (tk'.pc = "sync" /\ db.sl # 0) \/ tk'.pc = "ensure"
  <2>1. CASE db.sl # 0
    <3>1. tk' = [Idle EXCEPT !.pc = "sync", !.ltp = ltp]
      BY <2>1 DEF TickBegin
    <3> QED
      BY <1>2, <2>1, <3>1, IdleType, GotoType DEF TrackerPc
  <2>2. CASE db.sl = 0
    <3>1. tk' = [Idle EXCEPT !.pc = "ensure", !.ltp = ltp]
      BY <2>2 DEF TickBegin
    <3> QED
      BY <1>2, <3>1, IdleType, GotoType DEF TrackerPc
  <2> QED
    BY <2>1, <2>2
<1>4. held' \in BOOLEAN
  BY <1>1 DEF IInv, TypeOK
<1>5. TypeOK'
  BY <1>1, <1>3, <1>4 DEF IInv, TypeOK
<1>6. Refs'
  BY <1>1, <1>3 DEF IInv, Refs
<1>7. FloorKept'
  BY <1>1, Facts DEF FloorKept
<1> QED
  BY <1>5, <1>6, <1>7 DEF IInv

LEMMA InvTickSync == ASSUME IInv, TickSync PROVE IInv'
<1>0. tk.pc = "sync" /\ Tracker(tk.pc) /\ UNCHANGED book /\ BookStep
  BY Facts, BookSame DEF TickSync, Tracker
<1> DEFINE none == [row EXCEPT !.sl = 0]
<1>1. none \in Row /\ none.sl = 0
  BY Facts, BoundsAssumption DEF Row, OrderIds
<1>2. disturbed' \in 0..MaxDisturbances
  BY Facts, DisturbType DEF TickSync
<1>3. CASE row' = none /\ Goto("ensure")
  BY <1>0, <1>1, <1>2, <1>3, Facts, InvGoto DEF TrackerPc
<1>4. CASE Close(row)
  BY <1>0, <1>2, <1>4, Facts, InvClose
<1>5. CASE Goto("drift") /\ UNCHANGED row
  BY <1>0, <1>2, <1>5, Facts, InvGoto DEF TrackerPc
<1> QED
  BY <1>3, <1>4, <1>5 DEF TickSync

LEMMA InvTickEnsure == ASSUME IInv, TickEnsure PROVE IInv'
<1>0. Tracker(tk.pc)
  BY DEF TickEnsure, Tracker
<1>2. disturbed' \in 0..MaxDisturbances
  BY Facts, DisturbType DEF TickEnsure
<1>3. CASE /\ PlaceStop("bot", InitialSl(Entry))
           /\ row' = [row EXCEPT !.sl = Len(book) + 1, !.cur = InitialSl(Entry)]
           /\ Goto("drift")
  <2>1. BookStep /\ Len(book') = Len(book) + 1 /\ Len(book) < MaxOrders
    BY <1>3, Facts, InitialSlBounds, PlaceStopBook DEF PlaceStop
  <2>2. Len(book) + 1 \in OrderIds /\ Len(book) + 1 # 0
    BY <2>1, Facts, BoundsAssumption DEF OrderIds
  <2>3. row' \in Row /\ row'.sl = Len(book) + 1
    BY <1>3, <2>2, Facts, InitialSlBounds DEF Row
  <2>4. row'.sl <= Len(book') /\ row'.sl # db.sl /\ row'.sl # 0
    BY <2>1, <2>3, Facts
  <2> QED
    BY <1>0, <1>2, <1>3, <2>1, <2>3, <2>4, InvGoto DEF TrackerPc
<1>4. CASE Close(row) /\ UNCHANGED book
  BY <1>0, <1>2, <1>4, Facts, InvClose, BookSame
<1> QED
  BY <1>3, <1>4 DEF TickEnsure

LEMMA InvTickDrift == ASSUME IInv, TickDrift PROVE IInv'
<1>0. tk.pc = "drift" /\ Tracker(tk.pc) /\ UNCHANGED book /\ BookStep
  BY Facts, BookSame DEF TickDrift, Tracker
<1>1. book[row.sl].trigger \in Prices /\ row.sl \in 1..Len(book)
  BY <1>0, Facts, BookTypes
<1>2. disturbed' \in 0..MaxDisturbances
  BY Facts, DisturbType DEF TickDrift
<1>3. CASE row' = RaiseTo(row, book[row.sl].trigger) /\ Goto("adopt")
  <2>1. row' \in Row /\ row'.sl = row.sl /\ row'.cur >= row.cur
    BY <1>1, <1>3, Facts, RaiseToType
  <2>2. row'.cur \in Int
    BY <2>1, PricesAssumption DEF Row, Prices
  <2> QED
    BY <1>0, <1>1, <1>2, <1>3, <2>1, <2>2, Facts, InvGoto DEF TrackerPc
<1>4. CASE UNCHANGED row /\ Goto("trail")
  BY <1>0, <1>1, <1>2, <1>4, Facts, InvGoto DEF TrackerPc
<1> QED
  BY <1>3, <1>4 DEF TickDrift

LEMMA InvTickAdopt == ASSUME IInv, TickAdopt PROVE IInv'
<1>0. tk.pc = "adopt" /\ Tracker(tk.pc) /\ UNCHANGED book /\ BookStep /\ Goto("trail")
  BY Facts, BookSame DEF TickAdopt, Tracker
<1>1. row.sl \in 1..Len(book)
  BY <1>0, Facts
<1>2. disturbed' \in 0..MaxDisturbances
  BY Facts, DisturbType DEF TickAdopt
<1>3. ASSUME NEW o \in Tighter, row' = [row EXCEPT !.cur = book[o].trigger, !.source = "user"]
      PROVE  IInv'
  <2>1. o \in 1..Len(book) /\ book[o].trigger > row.cur /\ book[o].trigger \in Prices
    BY Facts, BookTypes DEF Tighter
  <2>2. row' \in Row /\ row'.sl = row.sl /\ row'.cur = book[o].trigger
    BY <1>3, <2>1, Facts DEF Row
  <2>3. row'.cur \in Int /\ row'.cur >= row.cur
    BY <2>1, <2>2, Facts, PricesAssumption DEF Prices
  <2> QED
    BY <1>0, <1>1, <1>2, <2>2, <2>3, Facts, InvGoto DEF TrackerPc
<1>4. CASE UNCHANGED row
  BY <1>0, <1>1, <1>2, <1>4, Facts, InvGoto DEF TrackerPc
<1> QED
  BY <1>3, <1>4 DEF TickAdopt

LEMMA InvTickTrail == ASSUME IInv, TickTrail PROVE IInv'
<1> DEFINE asked == NewSl(row, tk.ltp)
<1>0. tk.pc = "trail" /\ Tracker(tk.pc) /\ UNCHANGED row
  BY DEF TickTrail, Tracker
<1>1. row.sl \in 1..Len(book)
  BY <1>0, Facts
<1>2. disturbed' \in 0..MaxDisturbances
  BY Facts, DisturbType DEF TickTrail
<1>3. tk.ltp \in Prices
  BY Facts DEF TrackerState
<1>4. asked \in Prices /\ (asked # row.cur => asked + 1 \in Prices)
  BY <1>3, Facts, NewSlBounds
<1>5. CASE UNCHANGED book /\ Goto("position")
  BY <1>0, <1>1, <1>2, <1>5, Facts, BookSame, InvGoto DEF TrackerPc
<1>6. ASSUME NEW moved \in BOOLEAN, BookStep, UNCHANGED db,
             tk' = [tk EXCEPT !.pc = "reread", !.asked = asked, !.moved = moved]
      PROVE  IInv'
  <2> HIDE DEF asked
  <2>1. tk' \in TrackerState /\ tk'.pc = "reread"
    BY <1>4, <1>6, Facts, RereadType
  <2>2. held' \in BOOLEAN /\ ltp' = ltp /\ row' = row /\ db' = db
    BY <1>0, <1>6, Facts DEF Tracker, TypeOK
  <2>3. TypeOK'
    BY <1>2, <1>6, <2>1, <2>2, Facts DEF TypeOK, BookStep
  <2>4. Len(book') \in Nat /\ Len(book') >= Len(book)
    BY <1>6, LenProperties DEF BookStep
  <2>5. Refs'
    BY <1>1, <2>2, <2>4, Facts DEF Refs
  <2>6. FloorKept'
    BY <2>2, Facts DEF FloorKept
  <2> QED
    BY <2>3, <2>5, <2>6 DEF IInv
<1>7. CASE UNCHANGED db /\ UNCHANGED book
           /\ tk' = [tk EXCEPT !.pc = "reread", !.asked = asked, !.moved = FALSE]
  BY <1>6, <1>7, Facts, BookSame
<1>8. CASE UNCHANGED db /\ SetTrigger(row.sl, asked)
           /\ \/ tk' = [tk EXCEPT !.pc = "reread", !.asked = asked, !.moved = TRUE]
              \/ tk' = [tk EXCEPT !.pc = "reread", !.asked = asked, !.moved = FALSE]
  <2>1. BookStep
    BY <1>1, <1>4, <1>8, Facts, SetTriggerBook
  <2> QED
    BY <1>6, <1>8, <2>1
<1>9. CASE UNCHANGED db /\ asked # row.cur /\ SetTrigger(row.sl, asked + 1)
           /\ tk' = [tk EXCEPT !.pc = "reread", !.asked = asked, !.moved = TRUE]
  <2>1. BookStep
    BY <1>1, <1>4, <1>9, Facts, SetTriggerBook
  <2> QED
    BY <1>6, <1>9, <2>1
<1> QED
  BY <1>5, <1>7, <1>8, <1>9 DEF TickTrail

LEMMA InvTickReread == ASSUME IInv, TickReread PROVE IInv'
<1> DEFINE seen == RaiseTo(row, book[row.sl].trigger)
<1>0. tk.pc = "reread" /\ Tracker(tk.pc) /\ UNCHANGED book /\ BookStep
  BY Facts, BookSame DEF TickReread, Tracker
<1>1. row.sl \in 1..Len(book) /\ book[row.sl].trigger \in Prices
  BY <1>0, Facts, BookTypes
<1>2. disturbed' \in 0..MaxDisturbances
  BY Facts, DisturbType DEF TickReread
<1>3. seen \in Row /\ seen.sl = row.sl /\ seen.cur >= row.cur /\ seen.cur \in Int
  <2>1. seen \in Row /\ seen.sl = row.sl /\ seen.cur >= row.cur
    BY <1>1, Facts, RaiseToType
  <2> QED
    BY <2>1, PricesAssumption DEF Row, Prices
<1> HIDE DEF seen
<1>4. ASSUME NEW r \in Row, r.sl \in {0, row.sl}, r.cur >= row.cur, row' = r, Goto("position")
      PROVE  IInv'
  <2>1. r.cur \in Int
    BY PricesAssumption DEF Row, Prices
  <2> QED
    BY <1>0, <1>1, <1>2, <1>4, <2>1, Facts, InvGoto DEF TrackerPc
<1>5. ASSUME NEW r \in Row, r.sl = row.sl, r.cur >= row.cur, Goto("position"),
             row' = IF tk.moved THEN [RaiseTo(r, tk.asked) EXCEPT !.trail = TRUE] ELSE r
      PROVE  IInv'
  <2>1. CASE ~tk.moved
    BY <1>4, <1>5, <2>1
  <2>2. CASE tk.moved
    <3> DEFINE a == RaiseTo(r, tk.asked)
               b == [a EXCEPT !.trail = TRUE]
    <3>1. tk.asked \in Prices
      BY Facts DEF TrackerState
    <3>2. a \in Row /\ a.sl = r.sl /\ a.cur >= r.cur
      BY <3>1, RaiseToType
    <3>3. row' = b
      BY <1>5, <2>2
    <3> HIDE DEF a
    <3>4. b \in Row /\ b.sl = a.sl /\ b.cur = a.cur
      BY <3>2 DEF Row
    <3> HIDE DEF b
    <3>5. b.cur \in Int /\ r.cur \in Int /\ a.cur \in Int
      BY <3>2, <3>4, PricesAssumption DEF Row, Prices
    <3>6. b.cur >= row.cur /\ b.sl = row.sl
      BY <1>5, <3>2, <3>4, <3>5, Facts
    <3> QED
      BY <1>4, <1>5, <3>3, <3>4, <3>6
  <2> QED
    BY <2>1, <2>2
<1>6. CASE Close(seen)
  BY <1>0, <1>1, <1>2, <1>3, <1>6, Facts, InvClose
<1>7. CASE row' = (IF tk.moved THEN [seen EXCEPT !.sl = 0] ELSE seen) /\ Goto("position")
  <2>1. CASE ~tk.moved
    BY <1>3, <1>4, <1>7, <2>1
  <2>2. CASE tk.moved
    <3> DEFINE b == [seen EXCEPT !.sl = 0]
    <3>1. b \in Row /\ b.sl = 0 /\ b.cur = seen.cur
      BY <1>3, BoundsAssumption DEF Row, OrderIds
    <3>2. row' = b
      BY <1>7, <2>2
    <3> HIDE DEF b
    <3> QED
      BY <1>3, <1>4, <1>7, <3>1, <3>2
  <2> QED
    BY <2>1, <2>2
<1>8. CASE row' = (IF tk.moved THEN [RaiseTo(seen, tk.asked) EXCEPT !.trail = TRUE] ELSE seen)
           /\ Goto("position")
  BY <1>3, <1>5, <1>8
<1>9. CASE row' = (IF tk.moved THEN [RaiseTo(row, tk.asked) EXCEPT !.trail = TRUE] ELSE row)
           /\ Goto("position")
  BY <1>5, <1>9, Facts
<1> QED
  BY <1>6, <1>7, <1>8, <1>9 DEF TickReread, seen

LEMMA InvTickPosition == ASSUME IInv, TickPosition PROVE IInv'
<1>0. Tracker(tk.pc) /\ UNCHANGED book /\ BookStep
  BY Facts, BookSame DEF TickPosition, Tracker
<1>1. disturbed' \in 0..MaxDisturbances
  BY Facts, DisturbType DEF TickPosition
<1>2. CASE Close(row)
  BY <1>0, <1>1, <1>2, Facts, InvClose
<1>3. CASE Commit(row)
  BY <1>0, <1>1, <1>3, Facts, InvCommit
<1> QED
  BY <1>2, <1>3 DEF TickPosition

LEMMA InvNext == IInv /\ [Next]_vars => IInv'
<1> SUFFICES ASSUME IInv, [Next]_vars PROVE IInv'
  OBVIOUS
<1>1. CASE UNCHANGED vars
  <2>1. TypeOK'
    BY <1>1 DEF vars, IInv, TypeOK
  <2>2. Refs' /\ FloorKept'
    BY <1>1 DEF vars, IInv, Refs, FloorKept
  <2> QED
    BY <2>1, <2>2 DEF IInv
<1>2. CASE TrackerStep
  BY <1>2, InvTickBegin, InvTickSync, InvTickEnsure, InvTickDrift, InvTickAdopt, InvTickTrail,
     InvTickReread, InvTickPosition DEF TrackerStep
<1> QED
  BY <1>1, <1>2, InvWorld DEF Next

-----------------------------------------------------------------------------
(* Every variable has its type in every reachable state. *)
THEOREM StopTypeCorrect == Spec => []TypeOK
<1>1. IInv => TypeOK
  BY DEF IInv
<1> QED
  BY <1>1, InvInit, InvNext, PTL DEF Spec

\* Every commit keeps the order and the floor of the session's row, or raises it.
FloorStep == db.sl # 0 /\ db'.sl = db.sl => db'.cur >= db.cur

LEMMA CommitFloor ==
    ASSUME IInv, NEW r \in Row, r.sl = row.sl, r.cur >= row.cur, Commit(r) \/ Close(r)
    PROVE  FloorStep
<1> DEFINE c == [r EXCEPT !.open = FALSE]
<1>1. r.cur \in Int
  BY PricesAssumption DEF Row, Prices
<1>2. c.sl = r.sl /\ c.cur = r.cur
  BY DEF Row
<1>3. db' = r \/ db' = c
  BY DEF Commit, Close
<1> HIDE DEF c
<1>4. db'.sl = row.sl /\ db'.cur = r.cur
  BY <1>2, <1>3
<1> QED
  BY <1>1, <1>4, Facts DEF FloorStep

LEMMA FloorNext == ASSUME IInv, Next PROVE FloorStep
<1>1. CASE UNCHANGED db
  BY <1>1, Facts DEF FloorStep
<1>2. CASE Close(row) \/ Commit(row)
  BY <1>2, Facts, CommitFloor
<1>3. CASE TickReread /\ Close(RaiseTo(row, book[row.sl].trigger))
  <2>1. book[row.sl].trigger \in Prices
    BY <1>3, Facts, BookTypes DEF TickReread, Tracker
  <2> QED
    BY <1>3, <2>1, Facts, RaiseToType, CommitFloor
<1>4. World => UNCHANGED db
  BY DEF World, MarketMoves, UserPlaces, Fill, Drop, UserCancels, UserEdits, Crash
<1>5. TrackerStep => UNCHANGED db \/ Close(row) \/ Commit(row)
                     \/ (TickReread /\ Close(RaiseTo(row, book[row.sl].trigger)))
  <2>1. TickBegin \/ TickDrift \/ TickAdopt \/ TickTrail => UNCHANGED db
    BY DEF TickBegin, TickDrift, TickAdopt, TickTrail, Goto
  <2>2. TickSync \/ TickEnsure \/ TickPosition => UNCHANGED db \/ Close(row) \/ Commit(row)
    BY DEF TickSync, TickEnsure, TickPosition, Goto
  <2>3. TickReread => UNCHANGED db \/ (TickReread /\ Close(RaiseTo(row, book[row.sl].trigger)))
    BY DEF TickReread, Goto
  <2> QED
    BY <2>1, <2>2, <2>3 DEF TrackerStep
<1> QED
  BY <1>1, <1>2, <1>3, <1>4, <1>5 DEF Next

(* The committed floor of a standing order never falls: only the tracker   *)
(* commits, and it only ever raises the floor of the order it started from. *)
THEOREM FloorCorrect == Spec => FloorNeverFalls
<1>1. IInv /\ [Next]_vars => [FloorStep]_db
  BY FloorNext DEF vars
<1>2. Spec => [][FloorStep]_db
  BY <1>1, InvInit, InvNext, PTL DEF Spec
<1> QED
  BY <1>2 DEF FloorNeverFalls, FloorStep

-----------------------------------------------------------------------------
(* The room of a trailing trigger *)

(* The price at which the trailing rule wakes up is above two ticks.  For  *)
(* an option worth less the rule may ask for a trigger at one tick, which  *)
(* is not two below the market.                                            *)
Worth == InitialSl(Entry) * (100 + ActivatePct) > 200

(* The floor never falls below the stop-loss the trade began with, though  *)
(* a lost order makes the tracker start over.                              *)
InitialKept == row.cur >= InitialSl(Entry) /\ db.cur >= InitialSl(Entry)

\* Every step takes the floor over from the row, raises it or starts over.
FloorSource ==
    /\ row'.cur = db.cur \/ row'.cur >= row.cur \/ row'.cur = InitialSl(Entry)
    /\ db'.cur = db.cur \/ db'.cur = row'.cur

LEMMA SourceCommit ==
    ASSUME IInv, NEW r \in Row, r.cur >= row.cur, Commit(r) \/ Close(r)
    PROVE  FloorSource
<1> DEFINE c == [r EXCEPT !.open = FALSE]
<1>1. c.cur = r.cur
  BY DEF Row
<1>2. row' = db' /\ (row' = r \/ row' = c)
  BY DEF Commit, Close
<1> HIDE DEF c
<1> QED
  BY <1>1, <1>2 DEF FloorSource

LEMMA SourceReread == ASSUME IInv, TickReread PROVE FloorSource
<1> DEFINE seen == RaiseTo(row, book[row.sl].trigger)
           Done(r) == IF tk.moved THEN [RaiseTo(r, tk.asked) EXCEPT !.trail = TRUE] ELSE r
<1>0. tk.pc = "reread" /\ book[row.sl].trigger \in Prices /\ tk.asked \in Prices
  BY Facts, BookTypes DEF TickReread, Tracker, TrackerState
<1>1. seen \in Row /\ seen.cur >= row.cur /\ seen.cur \in Int
  <2>1. seen \in Row /\ seen.cur >= row.cur
    BY <1>0, Facts, RaiseToType
  <2> QED
    BY <2>1, PricesAssumption DEF Row, Prices
<1>2. ASSUME NEW r \in Row PROVE Done(r).cur >= r.cur /\ Done(r).cur \in Int
  <2> DEFINE a == RaiseTo(r, tk.asked)
  <2>1. a \in Row /\ a.cur >= r.cur
    BY <1>0, RaiseToType
  <2>2. a.cur \in Int /\ r.cur \in Int
    BY <2>1, PricesAssumption DEF Row, Prices
  <2>3. [a EXCEPT !.trail = TRUE].cur = a.cur
    <3> HIDE DEF a
    <3> QED
      BY <2>1 DEF Row
  <2>4. Done(r).cur = a.cur \/ Done(r).cur = r.cur
    <3>1. CASE tk.moved
      BY <2>3, <3>1
    <3>2. CASE ~tk.moved
      BY <3>2
    <3> QED
      BY <3>1, <3>2
  <2> DEFINE done == Done(r).cur
  <2>5. done = a.cur \/ done = r.cur
    BY <2>4
  <2> HIDE DEF a, done
  <2>6. done >= r.cur /\ done \in Int
    BY <2>1, <2>2, <2>5
  <2> QED
    BY <2>6 DEF done
<1> HIDE DEF seen
<1>3. CASE Close(seen)
  BY <1>1, <1>3, SourceCommit
<1>4. CASE UNCHANGED db /\ row' = (IF tk.moved THEN [seen EXCEPT !.sl = 0] ELSE seen)
  <2>1. [seen EXCEPT !.sl = 0].cur = seen.cur
    BY <1>1 DEF Row
  <2> QED
    BY <1>1, <1>4, <2>1 DEF FloorSource
<1>5. CASE UNCHANGED db /\ row' = Done(seen)
  <2>1. Done(seen).cur >= seen.cur /\ Done(seen).cur \in Int
    BY <1>1, <1>2
  <2> HIDE DEF Done
  <2> QED
    BY <1>1, <1>5, <2>1, Facts DEF FloorSource
<1>6. CASE UNCHANGED db /\ row' = Done(row)
  <2>1. Done(row).cur >= row.cur
    BY <1>2, Facts
  <2> HIDE DEF Done
  <2> QED
    BY <1>6, <2>1 DEF FloorSource
<1> QED
  BY <1>3, <1>4, <1>5, <1>6 DEF TickReread, Goto, seen

LEMMA SourceNext == ASSUME IInv, Next PROVE FloorSource
<1>1. ASSUME World PROVE FloorSource
  <2>1. UNCHANGED db /\ (UNCHANGED row \/ row' = db)
    BY <1>1 DEF World, MarketMoves, UserPlaces, Fill, Drop, UserCancels, UserEdits, Crash
  <2> QED
    BY <2>1, Facts DEF FloorSource
<1>2. CASE TickBegin
  BY <1>2 DEF TickBegin, FloorSource
<1>3. CASE TickSync
  <2>1. [row EXCEPT !.sl = 0].cur = row.cur
    BY Facts DEF Row
  <2>2. CASE Close(row)
    BY <2>2, Facts, SourceCommit
  <2>3. CASE UNCHANGED db /\ row'.cur = row.cur
    BY <2>3, Facts DEF FloorSource
  <2> QED
    BY <1>3, <2>1, <2>2, <2>3 DEF TickSync, Goto
<1>4. CASE TickEnsure
  <2>1. [row EXCEPT !.sl = Len(book) + 1, !.cur = InitialSl(Entry)].cur = InitialSl(Entry)
    BY Facts DEF Row
  <2>2. CASE Close(row)
    BY <2>2, Facts, SourceCommit
  <2>3. CASE UNCHANGED db /\ row'.cur = InitialSl(Entry)
    BY <2>3 DEF FloorSource
  <2> QED
    BY <1>4, <2>1, <2>2, <2>3 DEF TickEnsure, Goto
<1>5. CASE TickDrift
  <2>1. book[row.sl].trigger \in Prices /\ UNCHANGED db
    BY <1>5, Facts, BookTypes DEF TickDrift, Tracker, Goto
  <2>2. RaiseTo(row, book[row.sl].trigger).cur >= row.cur
    BY <2>1, Facts, RaiseToType
  <2> QED
    BY <1>5, <2>1, <2>2, Facts DEF TickDrift, FloorSource
<1>6. CASE TickAdopt
  <2>1. UNCHANGED db
    BY <1>6 DEF TickAdopt, Goto
  <2>2. ASSUME NEW o \in Tighter, row' = [row EXCEPT !.cur = book[o].trigger, !.source = "user"]
        PROVE  FloorSource
    <3>1. book[o].trigger > row.cur /\ book[o].trigger \in Int
      BY Facts, BookTypes, PricesAssumption DEF Tighter, Prices
    <3>2. row'.cur = book[o].trigger
      BY <2>2, Facts DEF Row
    <3> QED
      BY <2>1, <3>1, <3>2, Facts DEF FloorSource
  <2>3. CASE UNCHANGED row
    BY <2>1, <2>3, Facts DEF FloorSource
  <2> QED
    BY <1>6, <2>2, <2>3 DEF TickAdopt
<1>7. CASE TickTrail
  BY <1>7, Facts DEF TickTrail, Goto, FloorSource
<1>8. CASE TickPosition
  BY <1>8, Facts, SourceCommit DEF TickPosition
<1> QED
  BY <1>1, <1>2, <1>3, <1>4, <1>5, <1>6, <1>7, <1>8, SourceReread DEF Next, TrackerStep

LEMMA KeptNext == ASSUME IInv, InitialKept, [Next]_vars PROVE InitialKept'
<1>1. row.cur \in Int /\ db.cur \in Int /\ InitialSl(Entry) \in Int
  BY Facts, InitialSlBounds, PricesAssumption DEF Prices
<1>2. row'.cur \in Int /\ db'.cur \in Int
  <2>1. row' \in Row /\ db' \in Row
    BY InvNext DEF IInv, TypeOK
  <2> QED
    BY <2>1, PricesAssumption DEF Row, Prices
<1> HIDE DEF InitialSl
<1>3. CASE UNCHANGED vars
  BY <1>3 DEF vars, InitialKept
<1>4. CASE Next
  BY <1>1, <1>2, <1>4, SourceNext DEF FloorSource, InitialKept
<1> QED
  BY <1>3, <1>4

\* Above two ticks the rule's price is two ticks below the market; below, it is
\* not more than one.
LEMMA TrailSlRoom ==
    ASSUME NEW p \in Prices
    PROVE  /\ p >= 3 => TrailSl(p) <= p - 2
           /\ 1 <= p /\ p <= 2 => TrailSl(p) <= 1
<1>1. p \in Nat /\ 100 - GapPct \in Nat
  BY PricesAssumption DEF Prices
<1>2. p * (100 - GapPct) \in Nat
  BY <1>1, ProductNat
<1>3. Nearest(p * (100 - GapPct), 100) \in Nat
  BY <1>2, NearestBounds
<1> QED
  BY <1>1, <1>3 DEF TrailSl, Larger

LEMMA WorthInitial == ASSUME Worth PROVE InitialSl(Entry) >= 1
<1>1. InitialSl(Entry) \in Nat /\ 100 + ActivatePct \in Nat
  BY InitialSlBounds, PricesAssumption DEF Prices
<1> DEFINE initial == InitialSl(Entry)
           share == 100 + ActivatePct
<1>2. initial \in Nat /\ share \in Nat /\ initial * share > 200
  BY <1>1 DEF Worth
<1> HIDE DEF initial, share
<1>3. initial # 0
  BY <1>2
<1> QED
  BY <1>2, <1>3 DEF initial

LEMMA AskLeavesRoom ==
    ASSUME Worth, NEW r \in Row, r.cur >= InitialSl(Entry), NEW p \in Prices, p >= 1,
           NewSl(r, p) # r.cur
    PROVE  NewSl(r, p) <= p - 2
<1>1. p \in Int /\ r.cur \in Int /\ TrailSl(p) \in Int /\ InitialSl(Entry) \in Int
  BY TrailSlBounds, InitialSlBounds, PricesAssumption DEF Prices, Row
<1>2. CASE ~r.trail
  <2>1. NewSl(r, p) = TrailSl(p) /\ p * 100 >= InitialSl(Entry) * (100 + ActivatePct)
    BY <1>2 DEF NewSl, Activated
  <2>2. InitialSl(Entry) * (100 + ActivatePct) \in Int
    BY <1>1, PricesAssumption
  <2>3. p >= 3
    <3> DEFINE price == InitialSl(Entry) * (100 + ActivatePct)
    <3>1. price \in Int /\ price > 200 /\ p * 100 >= price
      BY <2>1, <2>2 DEF Worth
    <3> HIDE DEF price
    <3> QED
      BY <1>1, <3>1
  <2> QED
    BY <2>1, <2>3, TrailSlRoom
<1>3. CASE r.trail
  <2>1. NewSl(r, p) = TrailSl(p) /\ TrailSl(p) > r.cur
    BY <1>1, <1>3 DEF NewSl, Larger
  <2>2. p >= 3
    BY <1>1, <2>1, TrailSlRoom, WorthInitial
  <2> QED
    BY <2>1, <2>2, TrailSlRoom
<1> QED
  BY <1>2, <1>3

\* A step leaves the tick alone, ends it, begins it, goes on with it, or asks.
Asks ==
    /\ tk.pc = "trail" /\ UNCHANGED row
    /\ NewSl(row, tk.ltp) # row.cur
    /\ tk'.ltp = tk.ltp /\ tk'.asked = NewSl(row, tk.ltp)
TickMoves ==
    \/ UNCHANGED tk
    \/ tk'.pc = "idle"
    \/ tk'.pc # "reread" /\ tk'.ltp = ltp
    \/ tk'.pc # "reread" /\ tk'.ltp = tk.ltp /\ tk.pc # "idle"
    \/ Asks

LEMMA MoveOn ==
    ASSUME IInv, tk.pc # "idle", NEW pc \in TrackerPc \ {"reread"},
           Goto(pc) \/ (\E r \in Row : Commit(r) \/ Close(r))
    PROVE  TickMoves
<1>1. CASE Goto(pc)
  <2>1. tk' = [Idle EXCEPT !.pc = pc, !.ltp = tk.ltp]
    BY <1>1 DEF Goto
  <2>2. tk'.pc = pc /\ tk'.ltp = tk.ltp
    BY <2>1 DEF Idle
  <2> QED
    BY <2>2 DEF TickMoves
<1>2. CASE \E r \in Row : Commit(r) \/ Close(r)
  BY <1>2, IdleType DEF Commit, Close, TickMoves
<1> QED
  BY <1>1, <1>2

LEMMA MovesNext == ASSUME IInv, Next PROVE TickMoves
<1>1. CASE World
  BY <1>1, IdleType DEF World, MarketMoves, UserPlaces, Fill, Drop, UserCancels, UserEdits,
     Crash, TickMoves
<1>2. CASE TickBegin
  <2>1. ltp \in Prices
    BY PricesAssumption, Facts DEF TypeOK, Prices
  <2>2. PICK pc \in {"sync", "ensure"} : tk' = [Idle EXCEPT !.pc = pc, !.ltp = ltp]
    BY <1>2 DEF TickBegin
  <2>3. tk'.pc = pc /\ tk'.ltp = ltp
    BY <2>2 DEF Idle
  <2> QED
    BY <2>3 DEF TickMoves
<1>3. CASE TickSync
  <2>1. tk.pc = "sync" /\ (Goto("ensure") \/ Goto("drift") \/ Close(row))
    BY <1>3 DEF TickSync, Tracker
  <2> QED
    BY <2>1, Facts, MoveOn DEF TrackerPc
<1>4. CASE TickEnsure
  <2>1. tk.pc = "ensure" /\ (Goto("drift") \/ Close(row))
    BY <1>4 DEF TickEnsure, Tracker
  <2> QED
    BY <2>1, Facts, MoveOn DEF TrackerPc
<1>5. CASE TickDrift
  <2>1. tk.pc = "drift" /\ (Goto("adopt") \/ Goto("trail"))
    BY <1>5 DEF TickDrift, Tracker
  <2> QED
    BY <2>1, MoveOn DEF TrackerPc
<1>6. CASE TickAdopt
  <2>1. tk.pc = "adopt" /\ Goto("trail")
    BY <1>6 DEF TickAdopt, Tracker
  <2> QED
    BY <2>1, MoveOn DEF TrackerPc
<1>7. CASE TickTrail
  <2> DEFINE asked == NewSl(row, tk.ltp)
  <2>1. tk.pc = "trail" /\ UNCHANGED row
    BY <1>7 DEF TickTrail, Tracker
  <2>2. CASE Goto("position")
    BY <2>1, <2>2, MoveOn DEF TrackerPc
  <2>3. ASSUME NEW moved \in BOOLEAN, asked # row.cur,
               tk' = [tk EXCEPT !.pc = "reread", !.asked = asked, !.moved = moved]
        PROVE  TickMoves
    <3> HIDE DEF asked
    <3>1. tk'.ltp = tk.ltp /\ tk'.asked = asked
      BY <2>3, Facts DEF TrackerState
    <3> QED
      BY <2>1, <2>3, <3>1 DEF asked, Asks, TickMoves
  <2> QED
    BY <1>7, <2>2, <2>3 DEF TickTrail
<1>8. CASE TickReread
  <2> DEFINE seen == RaiseTo(row, book[row.sl].trigger)
  <2>1. tk.pc = "reread" /\ (Goto("position") \/ Close(seen))
    BY <1>8 DEF TickReread, Tracker
  <2>2. seen \in Row
    BY <2>1, Facts, BookTypes, RaiseToType
  <2> HIDE DEF seen
  <2> QED
    BY <2>1, <2>2, MoveOn DEF TrackerPc
<1>9. CASE TickPosition
  <2>1. tk.pc = "position" /\ (Commit(row) \/ Close(row))
    BY <1>9 DEF TickPosition, Tracker
  <2> QED
    BY <2>1, Facts, MoveOn DEF TrackerPc
<1> QED
  BY <1>1, <1>2, <1>3, <1>4, <1>5, <1>6, <1>7, <1>8, <1>9 DEF Next, TrackerStep

\* A price the tracker goes by is one the market has had.
Quoted == tk.pc # "idle" => tk.ltp >= 1

RoomInv == IInv /\ InitialKept /\ Quoted /\ TrailLeavesRoom

LEMMA RoomNext == ASSUME Worth, RoomInv, [Next]_vars PROVE RoomInv'
<1> USE DEF RoomInv
<1>1. IInv' /\ InitialKept'
  BY InvNext, KeptNext
<1>2. ltp \in Nat /\ ltp >= 1 /\ tk.ltp \in Prices
  BY PricesAssumption, Facts DEF TypeOK, TrackerState
<1>3. CASE UNCHANGED tk
  BY <1>1, <1>3 DEF Quoted, TrailLeavesRoom
<1>4. CASE Asks
  <2>1. tk.ltp >= 1 /\ row.cur >= InitialSl(Entry) /\ NewSl(row, tk.ltp) # row.cur
    BY <1>4 DEF Asks, Quoted, InitialKept
  <2>2. NewSl(row, tk.ltp) <= tk.ltp - 2
    BY <1>2, <2>1, Facts, AskLeavesRoom
  <2> HIDE DEF RoomInv
  <2>3. Quoted' /\ TrailLeavesRoom'
    BY <1>4, <2>1, <2>2 DEF Asks, Quoted, TrailLeavesRoom
  <2> QED
    BY <1>1, <2>3 DEF RoomInv
<1>5. CASE tk'.pc = "idle" \/ (tk'.pc # "reread" /\ tk'.ltp = ltp)
           \/ (tk'.pc # "reread" /\ tk'.ltp = tk.ltp /\ tk.pc # "idle")
  BY <1>1, <1>2, <1>5 DEF Quoted, TrailLeavesRoom
<1>6. [Next]_vars => UNCHANGED tk \/ TickMoves
  BY MovesNext DEF vars
<1> QED
  BY <1>1, <1>3, <1>4, <1>5, <1>6 DEF TickMoves

(* A trigger the trailing rule asks for leaves two ticks below the market, *)
(* for every entry price and percentages under which the rule wakes up     *)
(* above two ticks, however the floor, the order and the market moved.     *)
THEOREM RoomCorrect == ASSUME Worth PROVE Spec => []TrailLeavesRoom
<1>1. Init => RoomInv
  <2>1. InitialSl(Entry) \in Int
    BY InitialSlBounds, PricesAssumption DEF Prices
  <2>2. ASSUME Init PROVE InitialKept
    <3>1. row.cur = InitialSl(Entry) /\ db.cur = InitialSl(Entry)
      BY <2>2 DEF Init
    <3> QED
      BY <2>1, <3>1 DEF InitialKept
  <2>3. ASSUME Init PROVE Quoted /\ TrailLeavesRoom
    BY <2>3, IdleType DEF Init, Quoted, TrailLeavesRoom
  <2> QED
    BY <2>2, <2>3, InvInit DEF RoomInv
<1>2. RoomInv /\ [Next]_vars => RoomInv'
  BY RoomNext
<1>3. RoomInv => TrailLeavesRoom
  BY DEF RoomInv
<1> QED
  BY <1>1, <1>2, <1>3, PTL DEF Spec
============================================================================
