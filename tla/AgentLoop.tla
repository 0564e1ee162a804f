----------------------------- MODULE AgentLoop -----------------------------
(***************************************************************************)
(* One detection per instrument, run on the lead generator's thread pool:  *)
(* candles, the tool-calling conversation with the language model          *)
(* (llm_breakout/agent.py) over a retrying client (client.py), the filter  *)
(* on its signals (validator.py), the call statistics (health.py) and what *)
(* the worker hands back (llm_breakout/__init__.py, detector.py,           *)
(* lead_generator._process_one).                                           *)
(*                                                                         *)
(* Every worker builds its own strategy and its own client, so detections  *)
(* share only the statistics, a row read in one session and written in     *)
(* another.  max_calls_per_run counts calls of a strategy that makes one,  *)
(* and is left out; so is the path for clients without tools, which only   *)
(* tests have.                                                             *)
(*                                                                         *)
(* A tool call is its key (_tool_call_key: name and arguments), a tool's   *)
(* result is not looked at, and the clock is abstracted to a wall budget   *)
(* that may be found spent at any check.                                   *)
(***************************************************************************)
EXTENDS Integers, Sequences, FiniteSets

CONSTANTS Instruments,    \* those of the run
          Calls,          \* tool calls the model may ask for
          Batches,        \* the sequences of calls it may ask for in one message
          Finals,         \* the sets of signals its final answers may hold
          Close,          \* the last close
          Divergence,     \* max_lead_price_divergence_pct, in thousandths of Close
          MinConfidence,  \* llm.min_confidence, in percent
          MaxWorkers,     \* lead_generator.max_workers
          MaxIters,       \* LLM_AGENT_MAX_ITERATIONS
          MaxDuplicates,  \* LLM_AGENT_MAX_DUPLICATE_TOOLS, negative: no duplicate guard
          MaxRetries      \* LLM_MAX_RETRIES

\* A signal as the model offers it; a number it left out or misspelt is -1.
Patterns == {"horizontal_range", "trendline", "triangle", "flag_pennant", "head_shoulders"}
Signal == [direction: {"CALL", "PUT", "other"},
           pattern: Patterns \cup {"volume_breakout", "custom"},
           price: Int, confidence: Int]

ASSUME PoolAssumption == MaxWorkers \in Nat \ {0} /\ IsFiniteSet(Instruments)
ASSUME LimitsAssumption ==
    MaxIters \in Nat /\ MaxRetries \in Nat /\ MaxDuplicates \in Int
ASSUME MessagesAssumption ==
    /\ Batches \subseteq Seq(Calls) \ {<<>>}
    /\ Finals \subseteq SUBSET Signal
ASSUME PricesAssumption ==
    Close \in Nat /\ Divergence \in Nat /\ MinConfidence \in Nat

VARIABLES pc,        \* pc[i]: where the detection of i is
          turns,     \* turns[i]: its tool-calling turns (messages)
          tries,     \* tries[i]: posts of the request under way that failed
          posts,     \* posts[i]: posts of the whole detection
          error,     \* error[i]: AgentResult.error
          leads,     \* leads[i]: AgentResult.signals
          outcome,   \* outcome[i]: the decision reported for i
          copy,      \* copy[i]: the statistics i read and is about to write
          stats,     \* the llm.health row
          ended      \* detections that reached the statistics

vars == <<pc, turns, tries, posts, error, leads, outcome, copy, stats, ended>>

None == "none"
Pcs == {"queued", "check", "post", "wait", "tools", "record", "write", "report", "done"}
Turn == [calls: Batches, answers: Seq({"result", "warning"})]
Stats == [calls: Nat, errors: Nat]
NoStats == [calls |-> 0, errors |-> 0]

Init ==
    /\ pc = [i \in Instruments |-> "queued"]
    /\ turns = [i \in Instruments |-> <<>>]
    /\ tries = [i \in Instruments |-> 0]
    /\ posts = [i \in Instruments |-> 0]
    /\ error = [i \in Instruments |-> None]
    /\ leads = [i \in Instruments |-> {}]
    /\ outcome = [i \in Instruments |-> None]
    /\ copy = [i \in Instruments |-> NoStats]
    /\ stats = NoStats
    /\ ended = {}

At(i, where) == pc[i] = where
Goto(i, where) == pc' = [pc EXCEPT ![i] = where]
Running == {i \in Instruments : ~At(i, "queued") /\ ~At(i, "done")}
statVars == <<copy, stats, ended>>
chatVars == <<turns, tries, posts>>
resultVars == <<error, leads>>

-----------------------------------------------------------------------------
(* The worker takes an instrument *)

\* _process_one: the candles cannot be read or there are none; the strategy is
\* switched off or has no client (and reports nothing).  detect_one: the slice is
\* too short or has no close, or a prompt cannot be built.  None of these reaches
\* the model.
NotAsked == {"error", "no_signal", None}
Leave(i, decision) ==
    /\ Goto(i, "done")
    /\ outcome' = [outcome EXCEPT ![i] = decision]

Take(i) ==
    /\ At(i, "queued")
    /\ Cardinality(Running) < MaxWorkers
    /\ \/ Goto(i, "check") /\ UNCHANGED outcome
       \/ \E decision \in NotAsked : Leave(i, decision)
    /\ UNCHANGED <<chatVars, resultVars, statVars>>

-----------------------------------------------------------------------------
(* run_agent_loop *)

Bail(i, why) ==
    /\ Goto(i, "record")
    /\ error' = [error EXCEPT ![i] = why]
    /\ UNCHANGED leads

\* The head of the loop: one iteration per turn, and time left.
Exhausted(i) == Len(turns[i]) >= MaxIters

Check(i) ==
    /\ At(i, "check")
    /\ IF Exhausted(i) THEN Bail(i, "iterations")
       ELSE \/ Goto(i, "post") /\ UNCHANGED resultVars
            \/ Bail(i, "budget")
    /\ tries' = [tries EXCEPT ![i] = 0]
    /\ UNCHANGED <<turns, posts, outcome, statVars>>

-----------------------------------------------------------------------------
(* OpenAICompatClient._post_with_retry and what comes back *)

Posted(i) == posts' = [posts EXCEPT ![i] = @ + 1]

\* 429, 5xx and transport errors: wait and try again while attempts are left.
RetryForever(i) == TRUE
MayRetry(i) == tries[i] < MaxRetries
PostFails(i) ==
    /\ At(i, "post")
    /\ Posted(i)
    /\ IF MayRetry(i) THEN Goto(i, "wait") /\ UNCHANGED resultVars
       ELSE Bail(i, "transport")
    /\ UNCHANGED <<turns, tries, outcome, statVars>>

Retry(i) ==
    /\ At(i, "wait")
    /\ tries' = [tries EXCEPT ![i] = @ + 1]
    /\ Goto(i, "post")
    /\ UNCHANGED <<turns, posts, resultVars, outcome, statVars>>

\* Another 4xx, a body that is no JSON, one without a message, or one whose
\* parts have the wrong types (detect_one catches what that raises).
Refusals == {"transport", "raised"}
PostRefused(i) ==
    /\ At(i, "post")
    /\ Posted(i)
    /\ \E why \in Refusals : Bail(i, why)
    /\ UNCHANGED <<turns, tries, outcome, statVars>>

ToolTurn(i) ==
    /\ At(i, "post")
    /\ Posted(i)
    /\ \E batch \in Batches :
          turns' = [turns EXCEPT ![i] = Append(@, [calls |-> batch, answers |-> <<>>])]
    /\ Goto(i, "tools")
    /\ UNCHANGED <<tries, resultVars, outcome, statVars>>

-----------------------------------------------------------------------------
(* The tools *)

Last(i) == turns[i][Len(turns[i])]
Before(i) == turns[i][Len(turns[i]) - 1]
KeysOf(turn) == {turn.calls[n] : n \in DOMAIN turn.calls}
NextCall(i) == Last(i).calls[Len(Last(i).answers) + 1]

\* The same single call as in the iteration before, whose keys were one.
NoGuard(i) == FALSE
Repeated(i) ==
    /\ MaxDuplicates >= 0
    /\ Len(turns[i]) > 1
    /\ Len(Last(i).calls) = 1
    /\ KeysOf(Before(i)) = {NextCall(i)}

Answered(turn, a) == [calls |-> turn.calls, answers |-> Append(turn.answers, a)]
WithLast(chat, turn) == [chat EXCEPT ![Len(chat)] = turn]
SetLast(i, turn) == turns' = [turns EXCEPT ![i] = WithLast(@, turn)]

\* The calls are run in order.  A tool that raises or does not exist, or arguments
\* that are no JSON, have an error for a result.
ToolResult == "result"
AfterFirst(i) == TRUE
AllAnswered(i) == Len(Last(i).answers) + 1 = Len(Last(i).calls)
RunTool(i) ==
    /\ At(i, "tools")
    /\ IF Repeated(i)
         THEN SetLast(i, Answered(Last(i), "warning")) /\ Bail(i, "repeated")
         ELSE /\ SetLast(i, Answered(Last(i), ToolResult))
              /\ Goto(i, IF AllAnswered(i) THEN "check" ELSE "tools")
              /\ UNCHANGED resultVars
    /\ UNCHANGED <<tries, posts, outcome, statVars>>

-----------------------------------------------------------------------------
(* The final answer *)

\* A text by its form: what it holds (prose with braces of its own counts as text),
\* whether a comma trails in it, and what it begins with besides.
Answer == [holds: {"object", "list", "text"}, comma: BOOLEAN,
           around: {"nothing", "fence", "prose"}]
Unfenced(a) == IF a.around = "fence" THEN [a EXCEPT !.around = "nothing"] ELSE a
\* The first balanced braces; a list that comes first is passed over, from any
\* other its first signal is taken for the answer.
OuterBlock(a) ==
    [holds |-> IF a.holds = "list" /\ a.around # "nothing" THEN "signal" ELSE a.holds,
     comma |-> a.comma, around |-> "nothing"]
NoCommas(a) == [a EXCEPT !.comma = FALSE]

\* _try_loads, and what _parse_final finds in one of its attempts.
Loads(a) == a.holds \in {"object", "signal"} /\ ~a.comma /\ a.around = "nothing"
ParseFinal(answer) ==
    {a.holds : a \in {b \in {answer, Unfenced(answer), OuterBlock(answer), NoCommas(answer),
                            OuterBlock(NoCommas(answer))} : Loads(b)}}

\* Nothing is found, or the signals of the object are no list.
BadFinal(i) ==
    /\ At(i, "post")
    /\ Posted(i)
    /\ \E answer \in Answer :
          \/ ParseFinal(answer) = {} /\ Bail(i, "unparseable")
          \/ "object" \in ParseFinal(answer) /\ Bail(i, "malformed")
    /\ UNCHANGED <<turns, tries, outcome, statVars>>

\* validate_signals, on what an object offers: direction and pattern are known, the trigger lies in the
\* band around the close, and the model is confident enough.
InBand(price) ==
    /\ price > 0
    /\ price * 1000 >= Close * (1000 - Divergence)
    /\ price * 1000 <= Close * (1000 + Divergence)
Valid(s) ==
    /\ s.direction \in {"CALL", "PUT"}
    /\ s.pattern \in Patterns
    /\ InBand(s.price)
    /\ s.confidence >= MinConfidence

Final(i) ==
    /\ At(i, "post")
    /\ Posted(i)
    /\ \E answer \in Answer, offered \in Finals :
          /\ ParseFinal(answer) # {}
          /\ leads' = [leads EXCEPT ![i] = {s \in offered : Valid(s) /\ "object" \in ParseFinal(answer)}]
    /\ Goto(i, "record")
    /\ UNCHANGED <<turns, tries, error, outcome, statVars>>

-----------------------------------------------------------------------------
(* health.record_success and record_error, then on_scan_result *)

\* get_stats; a read that fails gives the zero state.
ReadStats(i) ==
    /\ At(i, "record")
    /\ \/ copy' = [copy EXCEPT ![i] = stats]
       \/ copy' = [copy EXCEPT ![i] = NoStats]
    /\ ended' = ended \cup {i}
    /\ Goto(i, "write")
    /\ UNCHANGED <<chatVars, resultVars, outcome, stats>>

\* _write_stats; a write that fails is swallowed.
CountedTwice(i) ==
    [calls |-> copy[i].calls + 1,
     errors |-> IF error[i] = None THEN copy[i].errors ELSE copy[i].errors + 1]
Counted(i) ==
    [calls |-> IF error[i] = None THEN copy[i].calls + 1 ELSE copy[i].calls,
     errors |-> IF error[i] = None THEN copy[i].errors ELSE copy[i].errors + 1]
WriteStats(i) ==
    /\ At(i, "write")
    /\ stats' \in {stats, Counted(i)}
    /\ Goto(i, "report")
    /\ UNCHANGED <<chatVars, resultVars, outcome, copy, ended>>

IfGenerated(i) == IF leads[i] # {} THEN "generated" ELSE None
Decision(i) ==
    IF leads[i] # {} THEN "generated" ELSE IF error[i] # None THEN "error" ELSE "no_signal"

\* The decision is handed over, unless making the candidates of its signals raises
\* (_process_one makes an error of that); what the worker knew goes with its frame.
Report(i) ==
    /\ At(i, "report")
    /\ \/ Leave(i, Decision(i))
       \/ leads[i] # {} /\ Leave(i, "error")
    /\ turns' = [turns EXCEPT ![i] = <<>>]
    /\ tries' = [tries EXCEPT ![i] = 0]
    /\ posts' = [posts EXCEPT ![i] = 0]
    /\ error' = [error EXCEPT ![i] = None]
    /\ leads' = [leads EXCEPT ![i] = {}]
    /\ copy' = [copy EXCEPT ![i] = NoStats]
    /\ UNCHANGED <<stats, ended>>

-----------------------------------------------------------------------------
Detect(i) ==
    \/ Check(i) \/ PostFails(i) \/ Retry(i) \/ PostRefused(i) \/ ToolTurn(i)
    \/ RunTool(i) \/ BadFinal(i) \/ Final(i)
    \/ ReadStats(i) \/ WriteStats(i) \/ Report(i)

Next == \E i \in Instruments : Take(i) \/ Detect(i)

Spec == Init /\ [][Next]_vars

\* Requests, waits and tools have timeouts, and the pool takes up what waits.
Fairness == \A i \in Instruments : WF_vars(Take(i)) /\ WF_vars(Detect(i))
FairSpec == Spec /\ Fairness

-----------------------------------------------------------------------------
(* Properties *)

\* Every variable has its type.
TypeOK ==
    /\ pc \in [Instruments -> Pcs]
    /\ turns \in [Instruments -> Seq(Turn)]
    /\ tries \in [Instruments -> 0..MaxRetries]
    /\ posts \in [Instruments -> Nat]
    /\ error \in [Instruments -> {None, "iterations", "budget", "transport", "raised",
                                  "repeated", "unparseable", "malformed"}]
    /\ leads \in [Instruments -> SUBSET Signal]
    /\ outcome \in [Instruments -> {None, "error", "no_signal", "generated"}]
    /\ copy \in [Instruments -> Stats] /\ stats \in Stats
    /\ ended \subseteq Instruments

\* The provider refuses a conversation in which a tool call has no answer:
\* whenever a request is sent every call of every earlier turn has exactly one.
TurnsAnswered ==
    \A i \in Instruments : At(i, "post") =>
        \A n \in DOMAIN turns[i] : Len(turns[i][n].answers) = Len(turns[i][n].calls)

\* The model does not drift: with the guard on no single call is run in two turns
\* in a row.
NoDrift ==
    MaxDuplicates >= 0 =>
    \A i \in Instruments : \A n \in 1..(Len(turns[i]) - 1) :
        LET a == turns[i][n]
            b == turns[i][n + 1]
        IN  a.calls = b.calls /\ Len(a.calls) = 1 => b.answers # <<"result">>

\* However the provider fails, a detection costs no more posts than the two
\* limits together allow.
PostsBounded == \A i \in Instruments : posts[i] <= MaxIters * (MaxRetries + 1)

\* The statistics, read in one session and written in another by detections
\* that overlap, may lose events but never invent one.
StatsCredible == stats.calls + stats.errors <= Cardinality(ended)

\* Every detection ends, whatever provider and tools do, and one that spoke
\* with the model leaves a decision behind.
AllEnd ==
    <>(\A i \in Instruments : At(i, "done") /\ (i \in ended => outcome[i] # None))

=============================================================================
