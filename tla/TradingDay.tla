----------------------------- MODULE TradingDay -----------------------------
(***************************************************************************)
(* One weekday of the lead desk: the trading hours and who edits them      *)
(* (app/services/market_calendar.py, app/settings.py,                      *)
(* app/api/config_api.py), lead generation up to the stored lead with its  *)
(* plan (app/scheduler/lead_generator.py, app/services/lead_service.py),   *)
(* the placer's choice of the next lead (app/scheduler/order_placer.py),   *)
(* the record of a pattern that closing trades keep                        *)
(* (app/services/calibration.py) and the deletion of leads                 *)
(* (app/services/lead_cleanup_service.py, app/api/trade_api.py).           *)
(*                                                                         *)
(* Placing a lead and closing a trade are single steps here, EntryPlacement*)
(* and TradeExit take them apart; the scan of an instrument is AgentLoop's.*)
(* All leads show one pattern.  A writer holds SQLite's write lock from    *)
(* its first flush to its commit.                                          *)
(***************************************************************************)
EXTENDS LeadScore, ContractChoice, Sequences

CONSTANTS Underlyings,
          Leads,         \* lead ids, a set of numbers
          Und,           \* Und[l]: the underlying of lead l
          Direction,     \* Direction[u]: what the strategy signals on u
          Candidates,    \* Candidates[u]: what it may hand over for u:
                         \* [evidence: <<>> or the components, confidence]
          Costs,         \* costs a quoted contract may have
          Strikes,       \* number of strikes in a chain
          Margins,       \* margins get_funds may answer
          MarginCheck,   \* margin_check_enabled
          Times,         \* the minutes of the day at which things happen
          HoursChoices,  \* hours an operator may set
          Sessions,      \* rows special_sessions may have for today, None for no row
          Pasts,         \* values past may start with
          Closers,       \* sessions that close trades
          MaxRuns,       \* bound on generator runs
          MaxUpkeep,     \* bound on edits of the hours, manual runs and deletions
          Seeded,        \* the hours the database is seeded with
          Placer,        \* the placer's session, as the holder of the lock
          Unset, None

ASSUME DayAssumption ==
    /\ Leads \subseteq Nat \ {0} /\ IsFiniteSet(Leads)
    /\ Und \in [Leads -> Underlyings]
    /\ Direction \in [Underlyings -> {"CALL", "PUT"}]
    /\ Times \subseteq 0..1439 /\ Times # {}
    /\ MarginCheck \in BOOLEAN
    /\ MaxRuns \in Nat /\ MaxUpkeep \in Nat
    /\ Placer # None /\ {Placer, None} \cap Closers = {}

\* NoQuote and Unknown stand for None.  A chain has a strike.
ASSUME MarketAssumption ==
    /\ Strikes \in Nat \ {0}
    /\ Costs \subseteq Nat /\ NoQuote \notin Costs
    /\ Margins \subseteq Nat /\ Unknown \notin Margins

\* A strategy that hands components over has blended them into its confidence.
Evidence == [DOMAIN BaseWeight -> 0..100]
ASSUME CandidatesAssumption ==
    /\ Candidates \in [Underlyings -> SUBSET [evidence: Evidence \cup {<<>>}, confidence: 0..10000]]
    /\ \A u \in Underlyings : \A c \in Candidates[u] :
          c.evidence # <<>> => c.confidence = Composite(c.evidence, WeightMap({}))

Hours == [start: Nat, cutoff: Nat \cup {Unset}, sqoff: Nat]
ASSUME SettingsAssumption ==
    /\ Unset \notin Nat /\ Seeded \in Hours /\ HoursChoices \subseteq Hours
    /\ Sessions \subseteq {None} \cup [start: Nat, end: Nat]
    /\ Pasts \subseteq [Underlyings -> {"none", "won", "lost"}]

VARIABLES clock,    \* minutes since midnight, IST
          hours,    \* trading_start, trade_end_time, sqoff_time
          edit,     \* the PUT of hours under way: keys left, and the new hours
          day,      \* today's rows of the calendar
          lead,     \* lead[l]: its row
          trade,    \* trade[l]: the trade of lead l
          past,     \* past[u]: how a trade of an earlier day went, if its lead is there
          stat,     \* stat[u]: the row of pattern_stats
          run,      \* the lead generator: off, or the margin it goes by
          tick,     \* the order placer: its now until it ranks; then the leads still
                    \* to be processed, best first, and those skipped since its last
                    \* commit
          closer,   \* closer[c]: a session about to close a trade
          lock,     \* the session holding the write lock, None if nobody
          runs, upkeep

vars == <<clock, hours, edit, day, lead, trade, past, stat, run, tick, closer, lock, runs, upkeep>>

NoLead == [status |-> "none", made |-> 0, evidence |-> <<>>, confidence |-> 0]
Gone == [NoLead EXCEPT !.status = "gone"]
Off == [on |-> FALSE, margin |-> Unknown]
NoTick == [pc |-> "off", now |-> 0, order |-> <<>>, answered |-> {}, skipped |-> {}]
NoClose == [pc |-> "idle", of |-> 0, result |-> "open", stat |-> NoStat]
NoEdit == [left |-> {}, new |-> None]

Closed == {"won", "lost"}
Queued == {l \in Leads : lead[l].status = "queued"}
HasOpenTrade(u) == \E l \in Leads : Und[l] = u /\ trade[l] = "open"
One(b) == IF b THEN 1 ELSE 0

\* pattern_stats as recomputed from the closed trades whose lead still exists.
StatOf(book, u) ==
    LET counted(results) ==
            Cardinality({l \in Leads : Und[l] = u /\ lead[l].status = "placed"
                                                  /\ book[l] \in results})
                + One(past[u] \in results)
    IN  [trades |-> counted(Closed), wins |-> counted({"won"})]

Init ==
    /\ clock = Min(Times)
    /\ hours = Seeded
    /\ edit = NoEdit
    /\ day \in [special: Sessions, holiday: BOOLEAN, synced: {FALSE}]
    /\ lead = [l \in Leads |-> NoLead]
    /\ trade = [l \in Leads |-> "none"]
    /\ past \in Pasts
    /\ stat = [u \in Underlyings |-> [trades |-> One(past[u] # "none"),
                                      wins |-> One(past[u] = "won")]]
    /\ run = Off
    /\ tick = NoTick
    /\ closer = [c \in Closers |-> NoClose]
    /\ lock = None
    /\ runs = 0
    /\ upkeep = 0

-----------------------------------------------------------------------------
(* The calendar.  A special session has a start and an end. *)

\* trade_end_time, unless it is missing or outside the hours; hours that end
\* before they start are not checked.
UncheckedTradeEnd == IF hours.cutoff = Unset THEN hours.sqoff ELSE hours.cutoff
DefaultTradeEnd ==
    IF hours.cutoff # Unset
       /\ (hours.start <= hours.sqoff => hours.cutoff \in hours.start..hours.sqoff)
    THEN hours.cutoff
    ELSE hours.sqoff

SessionStart == IF day.special # None THEN day.special.start ELSE hours.start
SessionEnd == IF day.special # None THEN day.special.end ELSE hours.sqoff
IsMarketOpen(today) == ~today.holiday /\ SessionStart <= clock /\ clock < SessionEnd
IsTradePlacingWindow == ~day.holiday /\ SessionStart <= clock /\ clock < DefaultTradeEnd

\* A sync replaces the year's holidays by the broker's; once a day, if the broker
\* answers.
MaybeSynced ==
    {day} \cup IF day.synced THEN {}
               ELSE {[day EXCEPT !.holiday = published, !.synced = TRUE] : published \in BOOLEAN}

Advance ==
    /\ \E t \in Times : t > clock
    /\ clock' = Min({t \in Times : t > clock})
    /\ UNCHANGED <<hours, edit, day, lead, trade, past, stat, run, tick, closer, lock, runs, upkeep>>

\* PUT /api/config writes its keys one by one, each in a transaction of its own;
\* a failure leaves the rest unwritten.
EditBegin ==
    /\ upkeep < MaxUpkeep
    /\ \E new \in HoursChoices \ {hours} :
         edit' = [left |-> {"start", "cutoff", "sqoff"}, new |-> new]
    /\ upkeep' = upkeep + 1
    /\ UNCHANGED <<clock, hours, day, lead, trade, past, stat, run, tick, closer, lock, runs>>

EditKey ==
    /\ lock = None
    /\ \E k \in edit.left :
         /\ hours' = [hours EXCEPT ![k] = edit.new[k]]
         /\ edit' = IF edit.left = {k} THEN NoEdit ELSE [edit EXCEPT !.left = @ \ {k}]
    /\ UNCHANGED <<clock, day, lead, trade, past, stat, run, tick, closer, lock, runs, upkeep>>

EditFails ==
    /\ edit # NoEdit
    /\ edit' = NoEdit
    /\ UNCHANGED <<clock, hours, day, lead, trade, past, stat, run, tick, closer, lock, runs, upkeep>>

-----------------------------------------------------------------------------
(* The lead generator *)

\* _clear_session_data of a manual run: best effort.
Cleared ==
    IF lock # None THEN lead
    ELSE [l \in Leads |-> IF l \in Queued THEN Gone ELSE lead[l]]

\* A run syncs the calendar before it looks at the clock; a manual one runs at any
\* hour.  It reads the margin once, if it is to be checked and the broker answers.
RunBegin(manual) ==
    /\ ~run.on
    /\ runs < MaxRuns
    /\ day' \in MaybeSynced
    /\ IF manual \/ IsMarketOpen(day')
       THEN /\ lead' = IF manual THEN Cleared ELSE lead
            /\ \E margin \in (IF MarginCheck THEN Margins ELSE {}) \cup {Unknown} :
                 run' = [on |-> TRUE, margin |-> margin]
       ELSE UNCHANGED <<lead, run>>
    /\ runs' = runs + 1
    /\ upkeep' = upkeep + One(manual)
    /\ upkeep' <= MaxUpkeep
    /\ UNCHANGED <<clock, hours, edit, trade, past, stat, tick, closer, lock>>

\* What attach_lead_plans comes to: None if the expiries or the chain cannot be
\* read, else the contract chosen, or Skip.  The spot gives the strike at the
\* money; every quote may be missing; a margin the run does not have is asked
\* for again.
Quotes == [1..Strikes -> Costs \cup {NoQuote}]
Contract(u, atm, cost, margin) ==
    SelectAffordable(WalkCandidates(Strikes, atm, Direction[u]), cost, margin)
MarginsSeen == IF run.margin = Unknown THEN Margins \cup {Unknown} ELSE {run.margin}
Plans(u) ==
    {None} \cup {Contract(u, atm, cost, margin) :
                    atm \in 1..Strikes, cost \in Quotes, margin \in MarginsSeen}

\* _reblend_lead_with_tier3: only a lead with components is scored anew.
Reblended(row) ==
    [row EXCEPT !.confidence = IF row.evidence = <<>> THEN @ ELSE Reblend(row.evidence)]

\* create_leads_from_candidates and attach_lead_plans, committed together: queued
\* as the strategy made it, skipped, or planned and its score blended anew.
NewLead(c, plan) ==
    LET row == [status |-> "queued", made |-> clock, evidence |-> c.evidence,
                confidence |-> c.confidence]
    IN  CASE plan = None -> row
          [] plan = Skip -> [NoLead EXCEPT !.status = "skipped"]
          [] plan \notin {None, Skip} -> Reblended(row)

Fresh(u) == {l \in Leads : Und[l] = u /\ lead[l].status = "none"}
RunPersist(u) ==
    /\ run.on
    /\ lock = None
    /\ Fresh(u) # {}
    /\ \E candidate \in Candidates[u], plan \in Plans(u) :
         lead' = [lead EXCEPT ![Min(Fresh(u))] = NewLead(candidate, plan)]
    /\ UNCHANGED <<clock, hours, edit, day, trade, past, stat, run, tick, closer, lock, runs, upkeep>>

\* All scanned, the cap reached, stopped, or failed: a database error ends a run.
RunEnd ==
    /\ run.on
    /\ run' = Off
    /\ UNCHANGED <<clock, hours, edit, day, lead, trade, past, stat, tick, closer, lock, runs, upkeep>>

-----------------------------------------------------------------------------
(* The order placer *)

\* The best rank first, the oldest first among equals.
Before(a, b, answered) ==
    LET key(l) == RankKey(lead[l], Und[l] \in answered, stat[Und[l]], tick.now)
    IN  \/ key(a) > key(b)
        \/ key(a) = key(b) /\ lead[a].made < lead[b].made
        \/ key(a) = key(b) /\ lead[a].made = lead[b].made /\ a < b

\* The queued leads in this order.
Ranked(answered) ==
    {order \in [1..Cardinality(Queued) -> Queued] :
        \A i, j \in DOMAIN order : i < j => Before(order[i], order[j], answered)}

\* _warm_option_chain_cache: the underlyings whose expiry and chain can be read.
Answers == SUBSET {Und[l] : l \in Queued}

Begun(now) == [pc |-> "begun", now |-> now, order |-> <<>>, answered |-> {}, skipped |-> {}]
Placing(order, answered, skipped) ==
    [pc |-> "placing", now |-> 0, order |-> order, answered |-> answered, skipped |-> skipped]

\* The tick takes its time once: it is what the window is checked with and, after
\* the settings, the margin and the chains are fetched, what the leads are ranked
\* with.
TickBegin ==
    /\ tick.pc = "off"
    /\ IsTradePlacingWindow
    /\ tick' = Begun(clock)
    /\ UNCHANGED <<clock, hours, edit, day, lead, trade, past, stat, run, closer, lock, runs, upkeep>>

TickRank ==
    /\ tick.pc = "begun"
    /\ IF Queued = {} THEN tick' = NoTick
       ELSE \E answered \in Answers : \E order \in Ranked(answered) :
                tick' = Placing(order, answered, {})
    /\ UNCHANGED <<clock, hours, edit, day, lead, trade, past, stat, run, closer, lock, runs, upkeep>>

\* process_lead: an open trade on the underlying skips a lead, and so do the
\* price, the margin and a BUY that is not filled.  The session commits at a
\* placed lead and at the end; before, a skipped lead keeps the lock.
Decide(skipped, placed) ==
    lead' = [l \in Leads |-> CASE l \in skipped -> [NoLead EXCEPT !.status = "skipped"]
                               [] l \in placed -> [NoLead EXCEPT !.status = "placed"]
                               [] OTHER -> lead[l]]
Rest(skipped) ==
    tick' = IF Len(tick.order) = 1 THEN NoTick ELSE Placing(Tail(tick.order), {}, skipped)
GiveUp ==
    /\ tick' = NoTick
    /\ lock' = IF lock = Placer THEN None ELSE lock
    /\ UNCHANGED <<lead, trade>>

TickSkip(l) ==
    /\ l \in Queued
    /\ Rest(tick.skipped \cup {l})
    /\ IF Len(tick.order) = 1 THEN lock' = None /\ Decide(tick.skipped \cup {l}, {})
                              ELSE lock' = Placer /\ UNCHANGED lead
    /\ UNCHANGED trade
TickPlace(l) ==
    /\ l \in Queued
    /\ ~HasOpenTrade(Und[l])
    /\ Decide(tick.skipped, {l})
    /\ Rest({})
    /\ trade' = [trade EXCEPT ![l] = "open"]
    /\ lock' = None
\* A lead deleted meanwhile fails the flush, and with it the tick.
TickStale(l) == l \notin Queued /\ GiveUp
TickNext ==
    /\ tick.order # <<>>
    /\ lock \in {None, Placer}
    /\ \E l \in {Head(tick.order)} : TickSkip(l) \/ TickPlace(l) \/ TickStale(l)
    /\ UNCHANGED <<clock, hours, edit, day, past, stat, run, closer, runs, upkeep>>

\* The rollback of a busy database, an unexpected error or a crash: leads skipped
\* since the last commit stay queued.
TickFails ==
    /\ tick.pc # "off"
    /\ GiveUp
    /\ UNCHANGED <<clock, hours, edit, day, past, stat, run, closer, runs, upkeep>>

-----------------------------------------------------------------------------
(* Closing trades: the tracker, the reconciler, a killswitch request *)

\* The killswitch lists the open trades in one session and loads each in another,
\* without a look at its status: it may close one that is closed by then.
CloseLoad(c, l) ==
    /\ closer[c].pc = "idle"
    /\ trade[l] # "none"
    /\ closer' = [closer EXCEPT ![c] = [NoClose EXCEPT !.pc = "loaded", !.of = l]]
    /\ UNCHANGED <<clock, hours, edit, day, lead, trade, past, stat, run, tick, lock, runs, upkeep>>

\* close_trade changes the row, and the query of upsert_pattern_stat flushes the
\* change before it reads: from there the session has the lock, and it counts
\* its own trade as closed.
RecountOthers(l, result) == StatOf(trade, Und[l])    \* a count before the flush
Recount(l, result) ==
    IF lead[l].status = "placed" THEN StatOf([trade EXCEPT ![l] = result], Und[l])
    ELSE stat[Und[l]]
CloseFlush(c) ==
    /\ closer[c].pc = "loaded"
    /\ lock = None
    /\ lock' = c
    /\ \E result \in Closed :
         closer' = [closer EXCEPT ![c].pc = "flushed", ![c].result = result,
                                  ![c].stat = Recount(closer[c].of, result)]
    /\ UNCHANGED <<clock, hours, edit, day, lead, trade, past, stat, run, tick, runs, upkeep>>

CloseCommit(c) ==
    /\ closer[c].pc = "flushed"
    /\ trade' = [trade EXCEPT ![closer[c].of] = closer[c].result]
    /\ stat' = [stat EXCEPT ![Und[closer[c].of]] = closer[c].stat]
    /\ closer' = [closer EXCEPT ![c] = NoClose]
    /\ lock' = None
    /\ UNCHANGED <<clock, hours, edit, day, lead, past, run, tick, runs, upkeep>>

\* A busy database, a failed exit order or a crash: the session's work is lost.
CloseFails(c) ==
    /\ closer[c].pc # "idle"
    /\ closer' = [closer EXCEPT ![c] = NoClose]
    /\ lock' = IF lock = c THEN None ELSE lock
    /\ UNCHANGED <<clock, hours, edit, day, lead, trade, past, stat, run, tick, runs, upkeep>>

-----------------------------------------------------------------------------
(* Deleting leads: their trades stay, without the link *)

\* The retention of processed leads reaches those of earlier days.
Cleanup(u) ==
    /\ lock = None
    /\ past[u] # "none"
    /\ upkeep < MaxUpkeep
    /\ past' = [past EXCEPT ![u] = "none"]
    /\ upkeep' = upkeep + 1
    /\ UNCHANGED <<clock, hours, edit, day, lead, trade, stat, run, tick, closer, lock, runs>>

\* DELETE /api/trades/leads: every lead whatever its status.
DeleteAllLeads ==
    /\ lock = None
    /\ upkeep < MaxUpkeep
    /\ \E l \in Leads : lead[l].status \notin {"none", "gone"}
    /\ lead' = [l \in Leads |-> IF lead[l].status = "none" THEN NoLead ELSE Gone]
    /\ past' = [u \in Underlyings |-> "none"]
    /\ upkeep' = upkeep + 1
    /\ UNCHANGED <<clock, hours, edit, day, trade, stat, run, tick, closer, lock, runs>>

-----------------------------------------------------------------------------
Next ==
    \/ Advance \/ EditBegin \/ EditKey \/ EditFails
    \/ \E manual \in BOOLEAN : RunBegin(manual)
    \/ \E u \in Underlyings : RunPersist(u) \/ Cleanup(u)
    \/ RunEnd
    \/ TickBegin \/ TickRank \/ TickNext \/ TickFails
    \/ \E c \in Closers : CloseFlush(c) \/ CloseCommit(c) \/ CloseFails(c)
                            \/ \E l \in Leads : CloseLoad(c, l)
    \/ DeleteAllLeads

Spec == Init /\ [][Next]_vars

-----------------------------------------------------------------------------
(* Properties *)

Row == [status: {"none", "queued", "skipped", "placed", "gone"}, made: Times \cup {0},
        evidence: Evidence \cup {<<>>}, confidence: 0..10000]
DayTypeOK ==
    /\ clock \in Times
    /\ hours.start \in Nat /\ hours.sqoff \in Nat /\ hours.cutoff \in Nat \cup {Unset}
    /\ edit.left \subseteq {"start", "cutoff", "sqoff"}
    /\ day.holiday \in BOOLEAN /\ day.synced \in BOOLEAN
    /\ lead \in [Leads -> Row]
    /\ trade \in [Leads -> {"none", "open"} \cup Closed]
    /\ past \in [Underlyings -> {"none"} \cup Closed]
    /\ stat \in [Underlyings -> [trades: Nat, wins: Nat]]
    /\ run.on \in BOOLEAN /\ run.margin \in Margins \cup {Unknown}
    /\ tick.order \in Seq(Leads) /\ tick.answered \subseteq Underlyings
    /\ tick.now \in Times \cup {0} /\ tick.skipped \subseteq Queued
    /\ lock = Placer <=> tick.skipped # {}
    /\ \A c \in Closers : closer[c].pc \in {"idle", "loaded", "flushed"}
    /\ lock \in Closers \cup {None, Placer}
    /\ runs \in 0..MaxRuns /\ upkeep \in 0..MaxUpkeep

\* The placer never starts a tick at a minute at which the tracker would square
\* its trade off, however the hours are edited, key by key: as long as they do
\* not end before they start, and no special session ends before the cutoff.
\* (Without either condition the code breaks it.)
Begins == tick.pc = "off" /\ tick'.pc # "off"
EntriesInSession ==
    [][Begins /\ hours.start <= hours.sqoff
             /\ (day.special # None => DefaultTradeEnd <= day.special.end)
       => IsMarketOpen(day)]_tick

\* What makes a lead b at least as good as a lead a for the placer, told without
\* the score: the same kind of evidence and no less of any, a chain that was
\* read, no greater age, and a pattern that has done no worse.  Some evidence
\* must be greater.
Shown(l) == IF lead[l].evidence = <<>> THEN [score |-> lead[l].confidence] ELSE lead[l].evidence
Better(b, a) ==
    /\ DOMAIN Shown(a) = DOMAIN Shown(b)
    /\ \A k \in DOMAIN Shown(a) : Shown(b)[k] >= Shown(a)[k]
    /\ Shown(a) # Shown(b)
    /\ lead[b].made >= lead[a].made
    /\ WinRate(stat[Und[b]]) >= WinRate(stat[Und[a]])

\* The best first: no lead is ranked behind one it is better than, whatever the
\* plan, the generation run and the chain's evidence left in the stored scores.
Ranks == tick.order = <<>> /\ tick'.order # <<>>
BestFirst ==
    [][Ranks => \A i, j \in DOMAIN tick'.order :
           i < j => LET a == tick'.order[i]
                        b == tick'.order[j]
                    IN  ~(/\ Better(b, a)
                          /\ {Und[a], Und[b]} \subseteq tick'.answered)]_tick

\* The contract of a plan, told without the walk: one in reach, which is as far
\* from the money as MaxDepth and only towards cheaper strikes, with none nearer
\* that the margin pays for; the contract at the money if there is no margin or no
\* price to go by; none only if the margin pays for nothing priced in reach.
Reach(u, atm) ==
    {c \in 1..Strikes : IF Direction[u] = "PUT" THEN c \in atm - MaxDepth..atm
                                                ELSE c \in atm..atm + MaxDepth}
Fits ==
    [margin \in Margins \cup {Unknown} |->
        \A u \in Underlyings, atm \in 1..Strikes, cost \in Quotes :
            LET chosen == Contract(u, atm, cost, margin)
                priced == {c \in Reach(u, atm) : cost[c] # NoQuote}
                paid == {c \in priced : margin # Unknown /\ cost[c] <= margin}
                far(c) == Max({c - atm, atm - c})
            IN  IF margin = Unknown \/ priced = {} THEN chosen = atm
                ELSE IF paid = {} THEN chosen = Skip
                ELSE chosen \in paid /\ \A c \in paid : far(chosen) <= far(c)]
PlansFit == run.on => \A margin \in MarginsSeen : Fits[margin]

\* Whenever a close is committed, and whenever the record of a pattern changes,
\* the record is the count of the closed trades whose lead exists, however the
\* sessions that close trades and those that delete leads interleave.
CloseSeen(u) ==
    \E l \in Leads : Und[l] = u /\ trade'[l] # trade[l] /\ trade'[l] \in Closed
                                /\ lead'[l].status = "placed"
TallyTrue ==
    [][\A u \in Underlyings :
           stat'[u] # stat[u] \/ CloseSeen(u) => stat'[u] = StatOf(trade, u)']_<<trade, stat>>

=============================================================================
