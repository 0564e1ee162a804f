---------------------------- MODULE BrokerReads -----------------------------
(***************************************************************************)
(* The process-wide UpstoxBroker (app/broker/upstox_broker.py) as its many *)
(* threads use it: the read caches (app/util/ttl_cache.py), the rate gate  *)
(* of the quotes, the orders that invalidate caches, and the login that    *)
(* gives it another access token (app/auth.py, app/api/auth_api.py,        *)
(* app/broker/__init__.py).                                                *)
(*                                                                         *)
(* A cache locks its slot, never the refresh; set_access_token takes no    *)
(* lock at all.  So a fetch may be under way while an order or a login     *)
(* drops the caches, and stores its answer afterwards.                     *)
(*                                                                         *)
(* An answer is abstracted to when the broker gave it and after how many   *)
(* of the bot's own orders.  A cache is one slot: quotes of different      *)
(* instrument sets have slots of their own, which only adds misses.  The   *)
(* table of SDK clients is left out: a call whose client is of an earlier  *)
(* login, or gone from the table, is answered or raises, as any call may.  *)
(***************************************************************************)
EXTENDS Integers

CONSTANTS Threads,      \* request, scheduler and job threads
          Caches,       \* the caches, among CacheNames
          Ttl,          \* Ttl[c]: CACHE_TTL_*_S, 0: cache disabled
          Latency,      \* longest time from an answer to its being stored
          Interval,     \* the gate's 1 / UPSTOX_LTP_PER_SECOND
          MaxNow,       \* bound on the clock
          MaxOrders,    \* bound on the bot's orders
          MaxLogins     \* bound on logins after the first

CacheNames == {"order_book", "positions", "ltp", "funds", "profile"}

ASSUME CachesAssumption == Caches \subseteq CacheNames /\ Ttl \in [Caches -> Nat]
ASSUME TimesAssumption == Latency \in Nat /\ Interval \in Nat
ASSUME BoundsAssumption == MaxNow \in Nat /\ MaxOrders \in Nat /\ MaxLogins \in Nat

VARIABLES now,       \* time.monotonic()
          slot,      \* slot[c]: the cache's entry
          orders,    \* the bot's orders, numbered as the broker took them
          seen,      \* seen[c]: the last of them that changed what c caches and whose
                     \* call has returned, 0: none
          logins,    \* logins after the first
          row,       \* the login in UpstoxTokenStore's row, -1: none
          token,     \* the login _token is of, -1: none
          client,    \* the login _api_client is of, -1: none
          swap,      \* how far upstox_callback and set_access_token have come
          purge,     \* the clears set_access_token has left
          nextAt,    \* the gate's _next_at
          gate,      \* a thread is in the gate, asleep or not
          th,        \* th[t]: the broker call t is in
          served     \* the last answer a read returned, and of which cache

vars == <<now, slot, orders, seen, logins, row, token, client, swap, purge, nextAt, gate, th, served>>

Absent == -1
Logins == 0..MaxLogins

\* set_access_token clears these caches one after the other, a write the first
\* ones.  A clear is known by its place; those of caches not in Caches are left out.
ClearOrder == <<"order_book", "positions", "ltp", "profile", "ltp", "funds">>
Clears(n) == {k \in 1..n : ClearOrder[k] \in Caches}
First(left) == CHOOSE k \in left : \A j \in left : k <= j

\* The write operations and the clears of each once it has succeeded.
Writes == {"place", "modify"}    \* exit_all is as "place", cancel_order as "modify"
DroppedByPlace(w) == Clears(IF w = "modify" THEN 0 ELSE 3)
Dropped(w) == Clears(IF w = "modify" THEN 1 ELSE 3)

\* What an order changes at the broker; quotes change of themselves.
Changed(w) ==
    (IF w = "modify" THEN {"order_book"} ELSE {"order_book", "positions"}) \cap Caches

Entry == [full: BOOLEAN, time: Nat, at: Nat, order: Nat, late: BOOLEAN]
Empty == [full |-> FALSE, time |-> 0, at |-> 0, order |-> 0, late |-> FALSE]
Nothing == [kind |-> "nothing", at |-> 0]

Call == [pc: {"idle", "gate", "sleep", "http", "answered", "drop"},
         op: Caches \cup Writes \cup {"none"},
         at: Nat,                  \* when its answer was given ("sleep": when to wake up)
         order: Nat,               \* the orders its answer has seen ("drop": its own)
         late: BOOLEAN,            \* an order dropped the cache since the answer was given
         left: SUBSET (1..6)]      \* "drop": the clears it has left
InCall(pc, op, at, order, left) ==
    [pc |-> pc, op |-> op, at |-> at, order |-> order, late |-> FALSE, left |-> left]
Doing(pc, op) == InCall(pc, op, 0, 0, {})
NoCall == Doing("idle", "none")
Sleeping(op, until) == InCall("sleep", op, until, 0, {})
Answered(op) == InCall("answered", op, now, orders, {})
Dropping(op) == InCall("drop", op, 0, orders + 1, Dropped(op))

\* A process that has started with a stored token (UpstoxTokenStore._ensure_loaded)
\* and built its broker (get_broker).
Init ==
    /\ now = 0
    /\ slot = [c \in Caches |-> Empty]
    /\ orders = 0
    /\ seen = [c \in Caches |-> 0]
    /\ logins = 0
    /\ row = 0
    /\ token = 0 /\ client = 0
    /\ swap = "done" /\ purge = {}
    /\ nextAt = 0
    /\ gate = FALSE
    /\ th = [t \in Threads |-> NoCall]
    /\ served = Nothing

brokerVars == <<orders, seen>>
loginVars == <<logins, row, token, client, swap, purge>>
gateVars == <<nextAt, gate>>

At(t, pc) == th[t].pc = pc
Reading(t) == th[t].op \in Caches
\* _require_token, without which every call raises at once.
HasToken == token # Absent

\* TTLCache.clear: the cache is emptied; answers already given and not yet stored
\* are late.
Emptied(c) == [slot EXCEPT ![c] = Empty]
Overtaken(c) ==
    [u \in Threads |-> IF At(u, "answered") /\ th[u].op = c
                         THEN [th[u] EXCEPT !.late = TRUE] ELSE th[u]]

-----------------------------------------------------------------------------
(* Time *)

\* Storing an answer takes no longer than Latency.
Tick ==
    /\ now < MaxNow
    /\ \A t \in Threads : At(t, "answered") => now - th[t].at < Latency
    /\ now' = now + 1
    /\ UNCHANGED <<slot, brokerVars, loginVars, gateVars, th, served>>

-----------------------------------------------------------------------------
(* TTLCache.get and the fetch it makes on a miss *)

AnySlot(c) == slot[c].full
Fresh(c) == slot[c].full /\ now - slot[c].time < Ttl[c]

ReadHit(t, c) ==
    /\ At(t, "idle") /\ HasToken
    /\ Fresh(c)
    /\ served' = [kind |-> c, at |-> slot[c].at]
    /\ UNCHANGED <<now, slot, brokerVars, loginVars, gateVars, th>>

\* _throttle: of the caches' fetches only the quotes have a gate.
Throttled(c) == c = "ltp"
ReadMiss(t, c) ==
    /\ At(t, "idle") /\ HasToken
    /\ ~Fresh(c)
    /\ th' = [th EXCEPT ![t] = Doing(IF Throttled(c) THEN "gate" ELSE "http", c)]
    /\ UNCHANGED <<now, slot, brokerVars, loginVars, gateVars, served>>

\* _RateGate.wait: the lock is held while the caller sleeps.
NoLock == TRUE
GateFree == ~gate
GateEnter(t) ==
    /\ At(t, "gate")
    /\ GateFree
    /\ gate' = TRUE
    /\ th' = [th EXCEPT ![t] = Sleeping(@.op, IF nextAt > now THEN nextAt ELSE now)]
    /\ UNCHANGED <<now, slot, brokerVars, loginVars, nextAt, served>>

ReleaseBefore == now - Interval
NextRelease == now + Interval
GatePass(t) ==
    /\ At(t, "sleep")
    /\ now >= th[t].at
    /\ gate' = FALSE
    /\ nextAt' = NextRelease
    /\ th' = [th EXCEPT ![t] = Doing("http", @.op)]
    /\ UNCHANGED <<now, slot, brokerVars, loginVars, served>>

-----------------------------------------------------------------------------
(* The broker answers, or the call raises *)

Answer(t) ==
    /\ At(t, "http") /\ Reading(t)
    /\ th' = [th EXCEPT ![t] = Answered(@.op)]
    /\ UNCHANGED <<now, slot, brokerVars, loginVars, gateVars, served>>

Raise(t) ==
    /\ At(t, "http")
    /\ th' = [th EXCEPT ![t] = NoCall]
    /\ UNCHANGED <<now, slot, brokerVars, loginVars, gateVars, served>>

Store(t) ==
    LET c == th[t].op
    IN  /\ At(t, "answered")
        /\ slot' = IF Ttl[c] = 0 THEN slot
                   ELSE [slot EXCEPT ![c] = [full |-> TRUE, time |-> now, at |-> th[t].at,
                                             order |-> th[t].order, late |-> th[t].late]]
        /\ served' = [kind |-> c, at |-> th[t].at]
        /\ th' = [th EXCEPT ![t] = NoCall]
        /\ UNCHANGED <<now, brokerVars, loginVars, gateVars>>

-----------------------------------------------------------------------------
(* place_order, modify_order, cancel_order, exit_all *)

WriteBegin(t, w) ==
    /\ At(t, "idle") /\ HasToken
    /\ th' = [th EXCEPT ![t] = Doing("http", w)]
    /\ UNCHANGED <<now, slot, brokerVars, loginVars, gateVars, served>>

\* The broker takes the order; its answer may get lost, and the call raises.
OrderTaken(t) ==
    /\ At(t, "http") /\ ~Reading(t)
    /\ orders < MaxOrders
    /\ orders' = orders + 1
    /\ \/ th' = [th EXCEPT ![t] = Dropping(@.op)]
       \/ th' = [th EXCEPT ![t] = NoCall]
    /\ UNCHANGED <<now, slot, seen, loginVars, gateVars, served>>

\* _invalidate_after_write, or the order book alone: one cache at a time.
DropCache(t) ==
    LET k == First(th[t].left)
    IN  /\ At(t, "drop")
        /\ th[t].left # {}
        /\ slot' = Emptied(ClearOrder[k])
        /\ th' = [Overtaken(ClearOrder[k]) EXCEPT ![t].left = @ \ {k}]
        /\ UNCHANGED <<now, brokerVars, loginVars, gateVars, served>>

\* The call returns; from now on the bot counts on its order being seen.
WriteEnd(t) ==
    /\ At(t, "drop")
    /\ th[t].left = {}
    /\ seen' = [c \in Caches |-> IF c \in Changed(th[t].op) /\ seen[c] < th[t].order
                                  THEN th[t].order ELSE seen[c]]
    /\ th' = [th EXCEPT ![t] = NoCall]
    /\ UNCHANGED <<now, slot, orders, loginVars, gateVars, served>>

-----------------------------------------------------------------------------
(* Login, logout, restart *)

\* upstox_callback: the store's row is committed first, and if that fails the
\* broker is left alone; then set_access_token replaces the token and its
\* client, then drops the caches.  One login at a time: there is one user.
SavedNothing == row
Saved == logins + 1
LoginSave ==
    /\ swap = "done"
    /\ logins < MaxLogins
    /\ logins' = logins + 1
    /\ row' = Saved
    /\ swap' = "saved"
    /\ UNCHANGED <<now, slot, brokerVars, token, client, purge, gateVars, th, served>>

LoginToken ==
    /\ swap = "saved"
    /\ token' = logins
    /\ swap' = "token"
    /\ UNCHANGED <<now, slot, brokerVars, logins, row, client, purge, gateVars, th, served>>

\* _rebuild_client
LoginClient ==
    /\ swap = "token"
    /\ client' = token
    /\ swap' = "client"
    /\ purge' = Clears(6)
    /\ UNCHANGED <<now, slot, brokerVars, logins, row, token, gateVars, th, served>>

LoginDrop ==
    /\ swap = "client"
    /\ purge # {}
    /\ slot' = Emptied(ClearOrder[First(purge)])
    /\ purge' = purge \ {First(purge)}
    /\ UNCHANGED <<now, brokerVars, logins, row, token, client, swap, gateVars, th, served>>

LoginEnd ==
    /\ swap = "client"
    /\ purge = {}
    /\ swap' = "done"
    /\ UNCHANGED <<now, slot, brokerVars, logins, row, token, client, purge, gateVars, th, served>>

\* logout deletes the row and leaves the broker its token.
Logout ==
    /\ swap = "done"
    /\ row' = Absent
    /\ UNCHANGED <<now, slot, brokerVars, logins, token, client, swap, purge, gateVars, th, served>>

\* The process dies; create_app and the first get_broker take the row's token.
Restart ==
    /\ token' = row /\ client' = row
    /\ slot' = [c \in Caches |-> Empty]
    /\ swap' = "done" /\ purge' = {}
    /\ nextAt' = 0
    /\ gate' = FALSE
    /\ th' = [t \in Threads |-> NoCall]
    /\ UNCHANGED <<now, brokerVars, logins, row, served>>

-----------------------------------------------------------------------------
Read(t, c) == ReadHit(t, c) \/ ReadMiss(t, c)
CallStep(t) ==
    \/ GateEnter(t) \/ GatePass(t)
    \/ Answer(t) \/ Raise(t) \/ Store(t)
    \/ OrderTaken(t) \/ DropCache(t) \/ WriteEnd(t)

Next ==
    \/ Tick
    \/ \E t \in Threads :
          \/ CallStep(t)
          \/ \E c \in Caches : Read(t, c)
          \/ \E w \in Writes : WriteBegin(t, w)
    \/ LoginSave \/ LoginToken \/ LoginClient \/ LoginDrop \/ LoginEnd
    \/ Logout \/ Restart

Spec == Init /\ [][Next]_vars

-----------------------------------------------------------------------------
(* Properties *)

\* Every variable has its type.
TypeOK ==
    /\ now \in 0..MaxNow
    /\ slot \in [Caches -> Entry]
    /\ orders \in 0..MaxOrders /\ seen \in [Caches -> 0..MaxOrders]
    /\ logins \in Logins /\ {row, token, client} \subseteq Logins \cup {Absent}
    /\ swap \in {"done", "saved", "token", "client"} /\ purge \subseteq Clears(6)
    /\ nextAt \in Nat /\ gate \in BOOLEAN
    /\ th \in [Threads -> Call]
    /\ served \in [kind: Caches \cup {"nothing"}, at: Nat]

\* Whatever threads, orders and logins do, a read returns an answer no older
\* than the cache's TTL and the time it takes to store an answer: the caches
\* implement the register of BoundedReads.  (The TTL starts when the answer is
\* stored, not when it was given; hence the Latency.)
MaxAge == [c \in Caches |-> Latency + (IF Ttl[c] = 0 THEN 0 ELSE Ttl[c] - 1)]
Register == INSTANCE BoundedReads WITH MaxAge <- MaxAge, now <- now, served <- served
ServesBounded == Register!Spec

\* Once a call that changed the account has returned, a cache holds an older
\* answer only if the broker gave it before the caches were dropped and its
\* thread stored it after: no other order of steps hides the bot's own order.
OwnOrdersSeen == \A c \in Caches : slot[c].full /\ slot[c].order < seen[c] => slot[c].late

\* Quotes are asked for at least Interval apart, however many threads queue: the
\* gate lets nobody go before the time the release before has set, each release
\* sets one at least Interval ahead, and only a restart of the process forgets it.
Released(t) == At(t, "sleep") /\ At(t, "http")'
GateSpaced ==
    [][/\ \A t \in Threads : Released(t) => now >= nextAt /\ nextAt' >= now + Interval
       /\ nextAt' < nextAt => th' = [t \in Threads |-> NoCall]]_vars

\* The row never lags behind the broker: a restart does not bring back a login
\* older than the one the bot was trading with.
RestartKeepsLogin == row # Absent => row >= token /\ row >= client

=============================================================================
