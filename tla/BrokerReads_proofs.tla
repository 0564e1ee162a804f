------------------------- MODULE BrokerReads_proofs -------------------------
(***************************************************************************)
(* Proofs about BrokerReads, for every set of threads, caches and TTLs,    *)
(* every latency and every bound.  Timed says when the answers in slots    *)
(* and in threads were given; the refinement and the rest follow from it   *)
(* and from Gated (one thread in the gate) and Reflected (what a slot or   *)
(* an answer under way may miss of the bot's own orders).                  *)
(***************************************************************************)
EXTENDS BrokerReads, TLAPS

USE CachesAssumption, TimesAssumption, BoundsAssumption
USE DEF InCall

TypeInv ==
    /\ now \in Nat
    /\ slot \in [Caches -> Entry]
    /\ orders \in 0..MaxOrders /\ seen \in [Caches -> 0..MaxOrders]
    /\ th \in [Threads -> Call]
    /\ nextAt \in Nat
    /\ served \in [kind: Caches \cup {"nothing"}, at: Nat]

LoginInv ==
    /\ logins \in Logins /\ row \in Logins \cup {Absent}
    /\ token \in Logins \cup {Absent} /\ client \in Logins \cup {Absent}
    /\ swap \in {"done", "saved", "token", "client"} /\ purge \subseteq Clears(6)
    /\ row <= logins /\ token <= logins /\ client <= logins
    /\ swap \in {"saved", "token"} => row = logins
    /\ RestartKeepsLogin

Timed ==
    /\ \A c \in Caches : slot[c].full =>
          slot[c].at <= slot[c].time /\ slot[c].time <= slot[c].at + Latency /\ slot[c].time <= now
    /\ \A t \in Threads : At(t, "answered") =>
          th[t].op \in Caches /\ th[t].at <= now /\ now <= th[t].at + Latency
    /\ \A t \in Threads : At(t, "drop") =>
          th[t].op \in Writes /\ th[t].left \subseteq Dropped(th[t].op)
    /\ \A t \in Threads : ~At(t, "idle") => th[t].op # "none"

Gated ==
    /\ gate \in BOOLEAN
    /\ \A t \in Threads : At(t, "sleep") => gate /\ th[t].at >= nextAt
    /\ \A t, u \in Threads : At(t, "sleep") /\ At(u, "sleep") => t = u

\* A write has cleared c, or has nothing to clear there, and not yet returned.
Cleared(t, c) == At(t, "drop") /\ c \in Changed(th[t].op) /\ \A k \in th[t].left : ClearOrder[k] # c

\* What a cache may miss is an order whose call has not come to its clear, also
\* when the call returns (OwnOrdersSeen) only after further clears.
Reflected ==
    /\ \A c \in Caches : seen[c] <= orders
    /\ OwnOrdersSeen
    /\ \A t \in Threads : At(t, "answered") /\ th[t].order < seen[th[t].op] => th[t].late
    /\ \A t \in Threads : At(t, "drop") => th[t].order \in 0..orders
    /\ \A t \in Threads, c \in Caches : Cleared(t, c) =>
          /\ slot[c].full /\ slot[c].order < th[t].order => slot[c].late
          /\ \A u \in Threads : At(u, "answered") /\ th[u].op = c /\ th[u].order < th[t].order
                                 => th[u].late

IInv == TypeInv /\ LoginInv /\ Timed /\ Gated /\ Reflected

\* What an order changes is among what its call clears.
LEMMA ChangedDropped ==
    \A w \in Writes : \A c \in Changed(w) : c \in Caches /\ \E k \in Dropped(w) : ClearOrder[k] = c
<1>1. ClearOrder[1] = "order_book" /\ ClearOrder[2] = "positions"
  BY DEF ClearOrder
<1>2. 1 \in 1..1 /\ 1 \in 1..3 /\ 2 \in 1..3
  OBVIOUS
<1> QED
  BY <1>1, <1>2 DEF Changed, Dropped, Clears, Writes

LEMMA ClearsOf == \A w : Dropped(w) \subseteq 1..6 /\ \A k \in Dropped(w) : ClearOrder[k] \in Caches
BY DEF Dropped, Clears

LEMMA PurgeOf == Clears(6) \subseteq 1..6 /\ \A k \in Clears(6) : ClearOrder[k] \in Caches
BY DEF Clears

LEMMA FirstIn == ASSUME NEW left \in SUBSET (1..6), left # {} PROVE First(left) \in left
<1>1. \E k \in left : \A j \in left : k <= j
  <2>1. left \subseteq {1, 2, 3, 4, 5, 6}
    OBVIOUS
  <2>2. CASE 1 \in left
    BY <2>1, <2>2
  <2>3. CASE 1 \notin left /\ 2 \in left
    BY <2>1, <2>3
  <2>4. CASE {1, 2} \cap left = {} /\ 3 \in left
    BY <2>1, <2>4
  <2>5. CASE {1, 2, 3} \cap left = {} /\ 4 \in left
    BY <2>1, <2>5
  <2>6. CASE {1, 2, 3, 4} \cap left = {} /\ 5 \in left
    BY <2>1, <2>6
  <2>7. CASE {1, 2, 3, 4, 5} \cap left = {}
    <3>1. left = {6}
      BY <2>1, <2>7
    <3> QED
      BY <3>1
  <2> QED
    BY <2>2, <2>3, <2>4, <2>5, <2>6, <2>7
<1> QED
  BY <1>1 DEF First

LEMMA WritesDistinct == Caches \cap Writes = {} /\ "none" \notin Caches /\ "nothing" \notin Caches
BY DEF CacheNames, Writes

LEMMA InitInv == Init => IInv
<1> SUFFICES ASSUME Init PROVE IInv
  OBVIOUS
<1>1. TypeInv
  <2>1. Empty \in Entry /\ NoCall \in Call
    BY DEF Entry, Empty, Call, NoCall, Doing
  <2>2. Nothing \in [kind: Caches \cup {"nothing"}, at: Nat]
    BY DEF Nothing
  <2> QED
    BY <2>1, <2>2 DEF Init, TypeInv
<1>2. LoginInv
  BY DEF Init, LoginInv, Logins, Absent, RestartKeepsLogin
<1>3. Timed /\ Gated
  BY DEF Init, Timed, Gated, Empty, NoCall, Doing, At
<1>4. Reflected
  BY DEF Init, Reflected, OwnOrdersSeen, Empty, NoCall, Doing, At
<1> QED
  BY <1>1, <1>2, <1>3, <1>4 DEF IInv

LEMMA TypeStep == TypeInv /\ Timed /\ Reflected /\ [Next]_vars => TypeInv'
<1> SUFFICES ASSUME TypeInv, Timed, Reflected, [Next]_vars PROVE TypeInv'
  OBVIOUS
<1> USE DEF TypeInv
<1>1. CASE Tick
  BY <1>1 DEF Tick, brokerVars, gateVars
<1>2. ASSUME NEW t \in Threads, NEW c \in Caches, ReadHit(t, c) PROVE TypeInv'
  BY <1>2 DEF ReadHit, brokerVars, gateVars, Entry
<1>3. ASSUME NEW t \in Threads, NEW c \in Caches, ReadMiss(t, c) PROVE TypeInv'
  BY <1>3 DEF ReadMiss, brokerVars, gateVars, Call, NoCall, Doing
<1>4. ASSUME NEW t \in Threads, GateEnter(t) PROVE TypeInv'
  <2>1. th' \in [Threads -> Call]
    BY <1>4 DEF GateEnter, Sleeping, Call
  <2>2. nextAt' \in Nat
    BY <1>4 DEF GateEnter
  <2> QED
    BY <2>1, <2>2, <1>4 DEF GateEnter, brokerVars
<1>5. ASSUME NEW t \in Threads, GatePass(t) PROVE TypeInv'
  <2>1. th' \in [Threads -> Call]
    BY <1>5 DEF GatePass, NextRelease, Doing, Call
  <2>2. nextAt' \in Nat
    BY <1>5 DEF GatePass, NextRelease
  <2>3. UNCHANGED <<now, slot, orders, seen, served>>
    BY <1>5 DEF GatePass, NextRelease, brokerVars
  <2> QED
    BY <2>1, <2>2, <2>3
<1>6. ASSUME NEW t \in Threads, Answer(t) PROVE TypeInv'
  <2>1. Answered(th[t].op) \in Call
    BY <1>6 DEF Answer, Reading, Answered, Call
  <2>2. th' \in [Threads -> Call]
    BY <2>1, <1>6 DEF Answer
  <2> QED
    BY <2>2, <1>6 DEF Answer, brokerVars, gateVars
<1>7. ASSUME NEW t \in Threads, Raise(t) PROVE TypeInv'
  BY <1>7 DEF Raise, brokerVars, gateVars, Call, NoCall, Doing
<1>8. ASSUME NEW t \in Threads, Store(t) PROVE TypeInv'
  BY <1>8 DEF Store, brokerVars, gateVars, Call, NoCall, Doing, Entry, Timed
<1>9. ASSUME NEW t \in Threads, OrderTaken(t) PROVE TypeInv'
  <2>1. orders' \in 0..MaxOrders
    BY <1>9 DEF OrderTaken
  <2>3. Dropping(th[t].op) \in Call /\ NoCall \in Call
    BY ClearsOf DEF Call, NoCall, Dropping, Doing
  <2>2. th' \in [Threads -> Call]
    BY <2>3, <1>9 DEF OrderTaken
  <2> QED
    BY <2>1, <2>2, <1>9 DEF OrderTaken, gateVars
<1>10. ASSUME NEW t \in Threads, DropCache(t) PROVE TypeInv'
  <2> DEFINE k == First(th[t].left)
             c == ClearOrder[k]
  <2>1. slot' \in [Caches -> Entry]
    BY <1>10 DEF DropCache, Emptied, Entry, Empty
  <2>2. Overtaken(c) \in [Threads -> Call]
    <3>1. \A u \in Threads : [th[u] EXCEPT !.late = TRUE] \in Call
      BY DEF Call
    <3> QED
      BY <3>1 DEF Overtaken
  <2>3. th' \in [Threads -> Call]
    BY <2>2, <1>10 DEF DropCache, Call
  <2> QED
    BY <2>1, <2>3, <1>10 DEF DropCache, brokerVars, gateVars
<1>16. ASSUME NEW t \in Threads, WriteEnd(t) PROVE TypeInv'
  <2>1. NoCall \in Call
    BY DEF Call, NoCall, Doing
  <2>2. th' \in [Threads -> Call]
    BY <2>1, <1>16 DEF WriteEnd
  <2>3. seen' \in [Caches -> 0..MaxOrders]
    <3>1. th[t].order \in 0..MaxOrders
      BY <1>16 DEF WriteEnd, Reflected, At
    <3> QED
      BY <3>1, <1>16 DEF WriteEnd
  <2> QED
    BY <2>2, <2>3, <1>16 DEF WriteEnd, gateVars
<1>11. ASSUME NEW t \in Threads, NEW w \in Writes, WriteBegin(t, w) PROVE TypeInv'
  BY <1>11 DEF WriteBegin, brokerVars, gateVars, Call, NoCall, Doing
<1>12. CASE LoginSave \/ LoginToken \/ LoginClient \/ LoginEnd \/ Logout
  BY <1>12 DEF LoginSave, LoginToken, LoginClient, LoginEnd, Logout, brokerVars, gateVars
<1>13. CASE LoginDrop
  BY <1>13 DEF LoginDrop, Emptied, brokerVars, gateVars, Entry, Empty
<1>14. CASE Restart
  BY <1>14 DEF Restart, brokerVars, Call, NoCall, Doing, Entry, Empty
<1>15. CASE UNCHANGED vars
  BY <1>15 DEF vars
<1> QED
  BY <1>1, <1>2, <1>3, <1>4, <1>5, <1>6, <1>7, <1>8, <1>9, <1>10, <1>11, <1>12, <1>13, <1>14, <1>15, <1>16
     DEF Next, CallStep, Read

LEMMA LoginStep == TypeInv /\ LoginInv /\ [Next]_vars => LoginInv'
<1> SUFFICES ASSUME TypeInv, LoginInv, [Next]_vars PROVE LoginInv'
  OBVIOUS
<1> USE DEF LoginInv, RestartKeepsLogin, Logins, Absent
<1>1. CASE LoginSave
  BY <1>1 DEF LoginSave, Saved
<1>2. CASE LoginToken \/ LoginClient
  BY <1>2 DEF LoginToken, LoginClient
<1>3. CASE LoginDrop \/ LoginEnd
  BY <1>3 DEF LoginDrop, LoginEnd
<1>4. CASE Logout
  BY <1>4 DEF Logout
<1>5. CASE Restart
  BY <1>5 DEF Restart
<1>6. CASE UNCHANGED loginVars
  BY <1>6 DEF loginVars
<1> QED
  BY <1>1, <1>2, <1>3, <1>4, <1>5, <1>6
     DEF Next, CallStep, Read, Tick, ReadHit, ReadMiss, GateEnter, GatePass, NextRelease, Answer, Raise, Store,
         OrderTaken, DropCache, WriteEnd, WriteBegin, vars, loginVars

LEMMA TimedStep == TypeInv /\ Timed /\ [Next]_vars => Timed'
<1> SUFFICES ASSUME TypeInv, Timed, [Next]_vars PROVE Timed'
  OBVIOUS
<1> USE DEF TypeInv, Timed, At
<1>1. CASE Tick
  BY <1>1 DEF Tick, Entry, Call
<1>2. ASSUME NEW t \in Threads, NEW c \in Caches, ReadHit(t, c) PROVE Timed'
  BY <1>2 DEF ReadHit
<1>3. ASSUME NEW t \in Threads, NEW c \in Caches, ReadMiss(t, c) PROVE Timed'
  BY <1>3, WritesDistinct DEF ReadMiss, Doing
<1>4. ASSUME NEW t \in Threads, GateEnter(t) PROVE Timed'
  BY <1>4 DEF GateEnter, Sleeping
<1>5. ASSUME NEW t \in Threads, GatePass(t) PROVE Timed'
  BY <1>5 DEF GatePass, NextRelease, Doing
<1>6. ASSUME NEW t \in Threads, Answer(t) PROVE Timed'
  BY <1>6 DEF Answer, Reading, Answered
<1>7. ASSUME NEW t \in Threads, Raise(t) PROVE Timed'
  BY <1>7 DEF Raise, NoCall, Doing
<1>8. ASSUME NEW t \in Threads, Store(t) PROVE Timed'
  <2>1. \A c \in Caches : slot'[c].full =>
          slot'[c].at <= slot'[c].time /\ slot'[c].time <= slot'[c].at + Latency /\ slot'[c].time <= now'
    BY <1>8 DEF Store, Entry
  <2>2. \A u \in Threads : u # t => th'[u] = th[u]
    BY <1>8 DEF Store
  <2>3. th'[t].pc = "idle"
    BY <1>8 DEF Store, NoCall, Doing
  <2> QED
    BY <2>1, <2>2, <2>3, <1>8 DEF Store
<1>9. ASSUME NEW t \in Threads, OrderTaken(t) PROVE Timed'
  <2>1. th[t].op \in Writes
    BY <1>9 DEF OrderTaken, Reading, Call
  <2>2. CASE th' = [th EXCEPT ![t] = NoCall]
    BY <2>2, <1>9 DEF OrderTaken, NoCall, Doing
  <2>3. CASE th' = [th EXCEPT ![t] = Dropping(@.op)]
    <3>1. /\ th'[t].pc = "drop" /\ th'[t].op = th[t].op /\ th'[t].left = Dropped(th[t].op)
          /\ \A u \in Threads : u # t => th'[u] = th[u]
      BY <2>3 DEF Dropping, Doing
    <3> QED
      BY <2>1, <3>1, <1>9 DEF OrderTaken, Writes
  <2> QED
    BY <2>2, <2>3, <1>9 DEF OrderTaken
<1>10. ASSUME NEW t \in Threads, DropCache(t) PROVE Timed'
  <2>1. \A c \in Caches : slot'[c].full => slot'[c] = slot[c]
    BY <1>10 DEF DropCache, Emptied, Empty
  <2>2. \A u \in Threads : /\ th'[u].pc = th[u].pc /\ th'[u].op = th[u].op /\ th'[u].at = th[u].at
                           /\ th'[u].left \subseteq th[u].left
    BY <1>10 DEF DropCache, Overtaken, Call
  <2> QED
    BY <2>1, <2>2, <1>10 DEF DropCache
<1>16. ASSUME NEW t \in Threads, WriteEnd(t) PROVE Timed'
  BY <1>16 DEF WriteEnd, NoCall, Doing
<1>11. ASSUME NEW t \in Threads, NEW w \in Writes, WriteBegin(t, w) PROVE Timed'
  BY <1>11 DEF Writes, WriteBegin, Doing
<1>12. CASE LoginSave \/ LoginToken \/ LoginClient \/ LoginEnd \/ Logout
  BY <1>12 DEF LoginSave, LoginToken, LoginClient, LoginEnd, Logout
<1>13. CASE LoginDrop
  BY <1>13 DEF LoginDrop, Emptied, Empty
<1>14. CASE Restart
  BY <1>14 DEF Restart, Empty, NoCall, Doing
<1>15. CASE UNCHANGED vars
  BY <1>15 DEF vars
<1> QED
  BY <1>1, <1>2, <1>3, <1>4, <1>5, <1>6, <1>7, <1>8, <1>9, <1>10, <1>11, <1>12, <1>13, <1>14, <1>15, <1>16
     DEF Next, CallStep, Read

LEMMA GatedStep == TypeInv /\ Gated /\ [Next]_vars => Gated'
<1> SUFFICES ASSUME TypeInv, Gated, [Next]_vars PROVE Gated'
  OBVIOUS
<1> USE DEF Gated, At
<1>1. CASE \/ Tick \/ LoginSave \/ LoginToken \/ LoginClient \/ LoginDrop \/ LoginEnd
          \/ Logout \/ UNCHANGED vars
  BY <1>1 DEF Tick, LoginSave, LoginToken, LoginClient, LoginDrop, LoginEnd, Logout, gateVars, vars
<1>2. ASSUME NEW t \in Threads, NEW c \in Caches, ReadHit(t, c) \/ ReadMiss(t, c) PROVE Gated'
  BY <1>2 DEF ReadHit, ReadMiss, gateVars, Doing, TypeInv
<1>3. ASSUME NEW t \in Threads, GateEnter(t) PROVE Gated'
  <2>1. gate' = TRUE /\ nextAt' = nextAt /\ \A u \in Threads : ~At(u, "sleep")
    BY <1>3 DEF GateEnter, GateFree
  <2>2. th'[t].at >= nextAt /\ \A u \in Threads : u # t => th'[u] = th[u]
    BY <1>3 DEF GateEnter, Sleeping, TypeInv
  <2>3. \A u \in Threads : th'[u].pc = "sleep" => u = t
    BY <2>1, <2>2
  <2> QED
    BY <2>1, <2>2, <2>3
<1>4. ASSUME NEW t \in Threads, GatePass(t) PROVE Gated'
  <2>1. gate' = FALSE /\ \A u \in Threads : u # t => ~At(u, "sleep")
    BY <1>4 DEF GatePass
  <2>2. \A u \in Threads : th'[u].pc # "sleep"
    BY <2>1, <1>4 DEF GatePass, NextRelease, Doing, TypeInv
  <2> QED
    BY <2>1, <2>2
<1>5. ASSUME NEW t \in Threads, Answer(t) \/ Raise(t) PROVE Gated'
  BY <1>5 DEF Answer, Raise, gateVars, Answered, NoCall, Doing, TypeInv
<1>6. ASSUME NEW t \in Threads, Store(t) \/ OrderTaken(t) PROVE Gated'
  <2>1. \A u \in Threads : th'[u] = th[u] \/ th'[u].pc # "sleep"
    BY <1>6 DEF Store, OrderTaken, NoCall, Dropping, Doing, TypeInv
  <2>2. gate' = gate /\ nextAt' = nextAt
    BY <1>6 DEF Store, OrderTaken, gateVars
  <2> QED
    BY <2>1, <2>2
<1>7. ASSUME NEW t \in Threads, DropCache(t) \/ WriteEnd(t) PROVE Gated'
  <2>1. \A u \in Threads : th'[u].pc = "sleep" => th[u].pc = "sleep" /\ th'[u].at = th[u].at
    <3>1. CASE DropCache(t)
      BY <3>1 DEF DropCache, Overtaken, TypeInv, Call
    <3>2. CASE WriteEnd(t)
      BY <3>2 DEF WriteEnd, NoCall, Doing, TypeInv
    <3> QED
      BY <1>7, <3>1, <3>2
  <2>2. gate' = gate /\ nextAt' = nextAt
    BY <1>7 DEF DropCache, WriteEnd, gateVars
  <2> QED
    BY <2>1, <2>2
<1>8. ASSUME NEW t \in Threads, NEW w \in Writes, WriteBegin(t, w) PROVE Gated'
  BY <1>8 DEF WriteBegin, gateVars, Doing, TypeInv
<1>9. CASE Restart
  BY <1>9 DEF Restart, NoCall, Doing
<1> QED
  BY <1>1, <1>2, <1>3, <1>4, <1>5, <1>6, <1>7, <1>8, <1>9 DEF Next, CallStep, Read

LEMMA ReflectedStep == TypeInv /\ Timed /\ Reflected /\ [Next]_vars => Reflected'
<1> SUFFICES ASSUME TypeInv, Timed, Reflected, [Next]_vars PROVE Reflected'
  OBVIOUS
<1> USE DEF Reflected, OwnOrdersSeen, At, TypeInv, Cleared
<1>1. CASE \/ Tick \/ LoginSave \/ LoginToken \/ LoginClient \/ LoginEnd \/ Logout
          \/ UNCHANGED vars
  BY <1>1 DEF Tick, LoginSave, LoginToken, LoginClient, LoginEnd, Logout, brokerVars, vars
<1>2. ASSUME NEW t \in Threads, NEW c \in Caches, ReadHit(t, c) \/ ReadMiss(t, c) PROVE Reflected'
  BY <1>2 DEF ReadHit, ReadMiss, brokerVars, Doing
<1>3. ASSUME NEW t \in Threads, GateEnter(t) \/ GatePass(t) \/ Raise(t) PROVE Reflected'
  BY <1>3 DEF GateEnter, GatePass, NextRelease, Raise, brokerVars, Sleeping, NoCall, Doing
<1>4. ASSUME NEW t \in Threads, Answer(t) PROVE Reflected'
  <2>1. /\ th[t].op \in Caches /\ th'[t].op = th[t].op /\ th'[t].order = orders
        /\ th'[t].pc = "answered" /\ \A u \in Threads : u # t => th'[u] = th[u]
    BY <1>4 DEF Answer, Reading, Answered, Doing
  <2>2. ~(th'[t].order < seen[th'[t].op])
    BY <2>1
  <2>3. \A u \in Threads : th'[u].pc = "drop" => u # t /\ ~(orders < th[u].order)
    BY <2>1
  <2> QED
    BY <2>1, <2>2, <2>3, <1>4 DEF Answer, brokerVars
<1>5. ASSUME NEW t \in Threads, Store(t) PROVE Reflected'
  <2>1. th[t].op \in Caches
    BY <1>5 DEF Store, Timed
  <2>2. th'[t].pc = "idle" /\ \A u \in Threads : u # t => th'[u] = th[u]
    BY <1>5 DEF Store, NoCall, Doing
  <2>3. \A c \in Caches : slot'[c].full =>
          \/ slot'[c] = slot[c]
          \/ c = th[t].op /\ slot'[c].order = th[t].order /\ slot'[c].late = th[t].late
    BY <2>1, <1>5 DEF Store
  <2>4. \A c \in Caches : slot'[c].full /\ slot'[c].order < seen[c] => slot'[c].late
    BY <2>3, <1>5 DEF Store
  <2>5. \A u \in Threads, c \in Caches :
          Cleared(u, c) /\ slot'[c].full /\ slot'[c].order < th[u].order => slot'[c].late
    BY <2>3, <1>5 DEF Store
  <2> QED
    BY <2>2, <2>4, <2>5, <1>5 DEF Store, brokerVars
<1>6. ASSUME NEW t \in Threads, OrderTaken(t) PROVE Reflected'
  <2>1. orders' = orders + 1 /\ th[t].op \in Writes
    BY <1>6 DEF OrderTaken, Reading, Call, Timed
  <2>2. \A u \in Threads : th'[u] = th[u] \/ (u = t /\ th'[u].pc \in {"idle", "drop"})
    BY <1>6 DEF OrderTaken, NoCall, Dropping, Doing
  <2>3. th'[t].pc = "drop" =>
          th'[t].order = orders + 1 /\ th'[t].op = th[t].op /\ th'[t].left = Dropped(th[t].op)
    BY <1>6 DEF OrderTaken, NoCall, Dropping, Doing
  <2>4. \A c \in Caches : ~Cleared(t, c)'
    BY <2>1, <2>3, ChangedDropped
  <2>5. \A u \in Threads : th'[u].pc = "drop" => th'[u].order \in 0..orders'
    BY <2>1, <2>2, <2>3
  <2> QED
    BY <2>1, <2>2, <2>4, <2>5, <1>6 DEF OrderTaken
<1>7. ASSUME NEW t \in Threads, DropCache(t) PROVE Reflected'
  <2> DEFINE k == First(th[t].left)
             cleared == ClearOrder[k]
  <2>1. k \in th[t].left /\ cleared \in Caches
    <3>1. th[t].left \in SUBSET (1..6) /\ th[t].left # {} /\ th[t].left \subseteq Dropped(th[t].op)
      BY <1>7, ClearsOf DEF DropCache, Timed, Call
    <3> QED
      BY <3>1, FirstIn, ClearsOf
  <2> HIDE DEF k
  <2>2. /\ ~slot'[cleared].full
        /\ \A c \in Caches : c # cleared => slot'[c] = slot[c]
    BY <2>1, <1>7 DEF DropCache, Emptied, Empty, k
  <2>3. \A u \in Threads :
          /\ th'[u].pc = th[u].pc /\ th'[u].op = th[u].op /\ th'[u].order = th[u].order
          /\ th[u].late => th'[u].late
          /\ th[u].pc = "answered" /\ th[u].op = cleared => th'[u].late
          /\ u # t => th'[u].left = th[u].left
    BY <1>7 DEF DropCache, Overtaken, Call, k
  <2>4. th'[t].left = th[t].left \ {k}
    BY <1>7 DEF DropCache, Overtaken, Call, k
  <2>5. \A u \in Threads, c \in Caches : Cleared(u, c)' => Cleared(u, c) \/ c = cleared
    BY <2>3, <2>4
  <2>6. orders' = orders /\ seen' = seen
    BY <1>7 DEF DropCache, brokerVars
  <2>7. OwnOrdersSeen'
    BY <2>2, <2>6
  <2>8. \A u \in Threads : At(u, "answered")' /\ th'[u].order < seen'[th'[u].op] => th'[u].late
    BY <2>3, <2>6
  <2>9. \A u \in Threads, c \in Caches : Cleared(u, c)' =>
          (slot'[c].full /\ slot'[c].order < th'[u].order => slot'[c].late)
    BY <2>2, <2>3, <2>5
  <2>10. \A u \in Threads, c \in Caches : Cleared(u, c)' =>
           \A v \in Threads : At(v, "answered")' /\ th'[v].op = c /\ th'[v].order < th'[u].order
                             => th'[v].late
    BY <2>3, <2>5
  <2>11. \A u \in Threads : At(u, "drop")' => th'[u].order \in 0..orders'
    BY <2>3, <2>6
  <2> QED
    BY <2>6, <2>7, <2>8, <2>9, <2>10, <2>11
<1>11. ASSUME NEW t \in Threads, WriteEnd(t) PROVE Reflected'
  <2>1. th'[t].pc = "idle" /\ \A u \in Threads : u # t => th'[u] = th[u]
    BY <1>11 DEF WriteEnd, NoCall, Doing
  <2>2. \A c \in Caches : seen'[c] = seen[c] \/ (seen'[c] = th[t].order /\ Cleared(t, c))
    BY <1>11 DEF WriteEnd
  <2>3. \A c \in Caches : seen'[c] <= orders
    BY <2>2, <1>11 DEF WriteEnd
  <2>4. \A c \in Caches : slot[c].full /\ slot[c].order < seen'[c] => slot[c].late
    BY <2>2
  <2>5. \A u \in Threads : th[u].pc = "answered" => th[u].op \in Caches
    BY DEF Timed
  <2>6. \A u \in Threads : th[u].pc = "answered" /\ th[u].order < seen'[th[u].op] => th[u].late
    BY <2>2, <2>5
  <2> QED
    BY <2>1, <2>3, <2>4, <2>6, <1>11 DEF WriteEnd
<1>8. ASSUME NEW t \in Threads, NEW w \in Writes, WriteBegin(t, w) PROVE Reflected'
  BY <1>8 DEF WriteBegin, brokerVars, Doing
<1>9. CASE LoginDrop
  BY <1>9 DEF LoginDrop, Emptied, Empty, brokerVars
<1>10. CASE Restart
  BY <1>10 DEF Restart, Empty, NoCall, Doing, brokerVars
<1> QED
  BY <1>1, <1>2, <1>3, <1>4, <1>5, <1>6, <1>7, <1>8, <1>9, <1>10, <1>11 DEF Next, CallStep, Read

LEMMA Inductive == Spec => []IInv
<1>1. IInv /\ [Next]_vars => IInv'
  BY TypeStep, LoginStep, TimedStep, GatedStep, ReflectedStep DEF IInv
<1> QED
  BY InitInv, <1>1, PTL DEF Spec

-----------------------------------------------------------------------------

\* Clock and orders stay within their bounds, everything else within its type.
LEMMA ClockBounded == Spec => [](now <= MaxNow)
<1>1. Init => now <= MaxNow
  BY DEF Init
<1>2. now <= MaxNow /\ TypeInv /\ [Next]_vars => (now <= MaxNow)'
  <2> SUFFICES ASSUME now <= MaxNow, TypeInv, [Next]_vars PROVE now' <= MaxNow
    OBVIOUS
  <2>1. CASE Tick
    BY <2>1 DEF Tick, TypeInv
  <2>2. CASE now' = now
    BY <2>2
  <2> QED
    BY <2>1, <2>2
       DEF Next, CallStep, Read, ReadHit, ReadMiss, GateEnter, GatePass, NextRelease, Answer, Raise, Store,
           OrderTaken, DropCache, WriteEnd, WriteBegin, LoginSave, LoginToken, LoginClient, LoginDrop,
           LoginEnd, Logout, Restart, vars
<1> QED
  BY <1>1, <1>2, Inductive, PTL DEF Spec, IInv

\* Every variable has its type.
THEOREM ReadsTypeCorrect == Spec => []TypeOK
<1>1. IInv /\ now <= MaxNow => TypeOK
  BY DEF IInv, TypeInv, LoginInv, Gated, TypeOK
<1> QED
  BY <1>1, Inductive, ClockBounded, PTL

\* A step that serves an answer serves one of the register; the others do not
\* concern it.
LEMMA HitIsServe ==
    ASSUME IInv, NEW t \in Threads, NEW c \in Caches, ReadHit(t, c)
    PROVE  Register!Serve(c)
<1>1. slot[c].at \in (now - MaxAge[c])..now
  BY DEF IInv, TypeInv, Timed, ReadHit, Fresh, MaxAge, Entry
<1>2. served' = [kind |-> c, at |-> slot[c].at] /\ UNCHANGED now
  BY DEF ReadHit
<1> QED
  BY <1>1, <1>2 DEF Register!Serve

LEMMA StoreIsServe ==
    ASSUME IInv, NEW t \in Threads, Store(t)
    PROVE  \E c \in Caches : Register!Serve(c)
<1>1. th[t].op \in Caches
  BY DEF IInv, Timed, Store
<1>2. th[t].at \in (now - MaxAge[th[t].op])..now
  <2>1. /\ th[t].at \in Nat
        /\ th[t].at <= now /\ now <= th[t].at + Latency
    BY DEF IInv, TypeInv, Timed, Store, Call
  <2>2. Ttl[th[t].op] \in Nat /\ now \in Nat /\ Latency \in Nat
    BY <1>1, CachesAssumption, TimesAssumption DEF IInv, TypeInv
  <2>3. MaxAge[th[t].op] = Latency + (IF Ttl[th[t].op] = 0 THEN 0 ELSE Ttl[th[t].op] - 1)
    BY <1>1 DEF MaxAge
  <2>4. MaxAge[th[t].op] \in Nat /\ MaxAge[th[t].op] >= Latency
    BY <2>2, <2>3
  <2> QED
    BY <2>1, <2>2, <2>4
<1>3. served' = [kind |-> th[t].op, at |-> th[t].at] /\ UNCHANGED now
  BY DEF Store
<1>4. Register!Serve(th[t].op)
  BY <1>2, <1>3 DEF Register!Serve
<1> QED
  BY <1>1, <1>4

\* The caches implement the register: no read returns an answer older than the
\* TTL and the time to store it, whatever threads, orders, logins and restarts do.
THEOREM ReadsRefine == Spec => ServesBounded
<1>1. Init => Register!Init
  BY DEF Init, Register!Init, Nothing, Register!Nothing
<1>2. IInv /\ [Next]_vars => [Register!Next]_(Register!vars)
  <2> SUFFICES ASSUME IInv, [Next]_vars PROVE [Register!Next]_(Register!vars)
    OBVIOUS
  <2>1. CASE Tick
    BY <2>1 DEF Tick, Register!Next, Register!Advance
  <2>2. ASSUME NEW t \in Threads, NEW c \in Caches, ReadHit(t, c)
        PROVE  [Register!Next]_(Register!vars)
    BY <2>2, HitIsServe DEF Register!Next
  <2>3. ASSUME NEW t \in Threads, Store(t) PROVE [Register!Next]_(Register!vars)
    BY <2>3, StoreIsServe DEF Register!Next
  <2>4. CASE UNCHANGED <<now, served>>
    BY <2>4 DEF Register!vars
  <2> QED
    BY <2>1, <2>2, <2>3, <2>4
       DEF Next, CallStep, Read, ReadMiss, GateEnter, GatePass, NextRelease, Answer, Raise, OrderTaken,
           DropCache, WriteEnd, WriteBegin, LoginSave, LoginToken, LoginClient, LoginDrop, LoginEnd,
           Logout, Restart, vars
<1> QED
  BY <1>1, <1>2, Inductive, PTL DEF Spec, ServesBounded, Register!Spec

\* A cache that hides one of the bot's own returned orders was filled by a thread
\* whose answer the order overtook.
THEOREM OwnOrdersCorrect == Spec => []OwnOrdersSeen
BY Inductive, PTL DEF IInv, Reflected

\* The stored login never lags behind the one the bot trades with, at whichever
\* of login's three steps the process is stopped.
THEOREM LoginKept == Spec => []RestartKeepsLogin
BY Inductive, PTL DEF IInv, LoginInv

\* The gate's calls are Interval apart for any number of threads: whoever asks for
\* a quote slept until the release before allowed it, and sets the next.
THEOREM GateCorrect == Spec => GateSpaced
<1> DEFINE Spaced == /\ \A t \in Threads : Released(t) => now >= nextAt /\ nextAt' >= now + Interval
                     /\ nextAt' < nextAt => th' = [t \in Threads |-> NoCall]
<1>1. IInv /\ [Next]_vars => [Spaced]_vars
  <2> SUFFICES ASSUME IInv, Next PROVE Spaced
    OBVIOUS
  <2> USE DEF IInv, TypeInv, At, Released
  <2>1. ASSUME NEW t \in Threads, GatePass(t) PROVE Spaced
    <3>1. now >= nextAt /\ nextAt' = now + Interval
      BY <2>1 DEF GatePass, NextRelease, Gated, Call
    <3> QED
      BY <3>1
  <2>2. ASSUME NEW t \in Threads, DropCache(t) PROVE Spaced
    <3>1. nextAt' = nextAt /\ \A u \in Threads : th'[u].pc = th[u].pc
      BY <2>2 DEF DropCache, Overtaken, gateVars, Call
    <3> QED
      BY <3>1
  <2>3. ASSUME NEW t \in Threads,
               \/ GateEnter(t) \/ Answer(t) \/ Raise(t) \/ Store(t) \/ OrderTaken(t) \/ WriteEnd(t)
               \/ (\E c \in Caches : Read(t, c)) \/ (\E w \in Writes : WriteBegin(t, w))
        PROVE  Spaced
    <3>1. nextAt' = nextAt
      BY <2>3 DEF GateEnter, Answer, Raise, Store, OrderTaken, WriteEnd, Read, ReadHit, ReadMiss,
                  WriteBegin, gateVars
    <3>2. \A u \in Threads : u # t => th'[u] = th[u]
      BY <2>3 DEF GateEnter, Answer, Raise, Store, OrderTaken, WriteEnd, Read, ReadHit, ReadMiss,
                  WriteBegin
    <3>3. ~Released(t)
      BY <2>3 DEF GateEnter, Sleeping, Answer, Answered, Raise, Store, OrderTaken, Dropping, WriteEnd,
                  NoCall, Read, ReadHit, ReadMiss, WriteBegin, Doing
    <3> QED
      BY <3>1, <3>2, <3>3
  <2>4. CASE Tick \/ LoginSave \/ LoginToken \/ LoginClient \/ LoginDrop \/ LoginEnd \/ Logout
    BY <2>4 DEF Tick, LoginSave, LoginToken, LoginClient, LoginDrop, LoginEnd, Logout, gateVars
  <2>5. CASE Restart
    BY <2>5 DEF Restart, NoCall, Doing
  <2> QED
    BY <2>1, <2>2, <2>3, <2>4, <2>5 DEF Next, CallStep
<1> QED
  BY <1>1, Inductive, PTL DEF Spec, GateSpaced
=============================================================================
