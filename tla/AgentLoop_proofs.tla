-------------------------- MODULE AgentLoop_proofs --------------------------
(***************************************************************************)
(* What holds of AgentLoop for every set of instruments, batch of calls    *)
(* and limit.  The invariant says where in the conversation a detection    *)
(* is: how many turns are complete, how many posts they cost, and what the *)
(* copy of the statistics it is about to write was read from.              *)
(***************************************************************************)
EXTENDS AgentLoop, FiniteSetTheorems, SequenceTheorems, TLAPS

\* Posts a turn may cost.
Per == MaxRetries + 1

Full(turn) == Len(turn.answers) = Len(turn.calls)

\* The turns before the last are answered, and the last one too unless its
\* tools are being run.
ShapeOf(where, chat) ==
    /\ Len(chat) <= MaxIters
    /\ where \in {"post", "wait"} => Len(chat) < MaxIters
    /\ where = "queued" => chat = <<>>
    /\ \A n \in 1..(Len(chat) - 1) : Full(chat[n])
    /\ where \in {"check", "post", "wait"} => \A n \in 1..Len(chat) : Full(chat[n])
    /\ where = "tools" =>
          /\ Len(chat) >= 1
          /\ Len(chat[Len(chat)].answers) < Len(chat[Len(chat)].calls)
Shape == \A i \in Instruments : ShapeOf(pc[i], turns[i])

\* What the posts so far may be.
CostOf(where, length, failed, n) ==
    /\ where = "queued" => n = 0
    /\ where \in {"check", "tools"} => n <= Per * length
    /\ where = "post" => n <= Per * length + failed
    /\ where = "wait" => n <= Per * length + failed + 1 /\ failed < MaxRetries
    /\ n <= Per * MaxIters
Cost == \A i \in Instruments : CostOf(pc[i], Len(turns[i]), tries[i], posts[i])

Sum(s) == s.calls + s.errors

\* What is about to be written counts no event but its writer's that is not
\* in the set of the ended.
Credit ==
    /\ \A i \in Instruments : pc[i] = "write" => Sum(copy[i]) + 1 <= Cardinality(ended)
    /\ \A i \in Instruments :
          pc[i] \in {"queued", "check", "post", "wait", "tools", "record"} => i \notin ended
    /\ StatsCredible

IInv == TypeOK /\ Shape /\ Cost /\ Credit /\ NoDrift

-----------------------------------------------------------------------------
LEMMA LessTimes ==
    ASSUME NEW a \in Nat, NEW b \in Nat, NEW k \in Nat, a <= b
    PROVE  k * a <= k * b /\ k * (a + 1) = k * a + k
<1>1. k * (b - a) >= 0
  OBVIOUS
<1>2. k * b = k * a + k * (b - a)
  OBVIOUS
<1> QED
  BY <1>1, <1>2

\* Replacing the last turn of a conversation leaves the others.
LEMMA WithLastIs ==
    ASSUME NEW T, NEW chat \in Seq(T), Len(chat) >= 1, NEW turn \in T
    PROVE  /\ WithLast(chat, turn) \in Seq(T)
           /\ Len(WithLast(chat, turn)) = Len(chat)
           /\ \A n \in 1..(Len(chat) - 1) : WithLast(chat, turn)[n] = chat[n]
           /\ WithLast(chat, turn)[Len(chat)] = turn
BY DEF WithLast

LEMMA BatchIs == \A b \in Batches : b \in Seq(Calls) /\ Len(b) \in Nat /\ Len(b) >= 1
<1> SUFFICES ASSUME NEW b \in Batches PROVE b \in Seq(Calls) /\ Len(b) \in Nat /\ Len(b) >= 1
  OBVIOUS
<1>1. b \in Seq(Calls) /\ b # <<>>
  BY MessagesAssumption
<1> QED
  BY <1>1

LEMMA InitInv == Init => IInv
<1> SUFFICES ASSUME Init PROVE IInv
  OBVIOUS
<1>1. TypeOK
  BY LimitsAssumption DEF Init, TypeOK, Pcs, Stats, NoStats, None
<1>2. Shape
  BY LimitsAssumption DEF Init, Shape, ShapeOf
<1>3. Cost
  <2>1. Per * MaxIters \in Nat
    BY LimitsAssumption DEF Per
  <2> QED
    BY <2>1 DEF Init, Cost, CostOf
<1>4. Credit
  BY FS_EmptySet DEF Init, Credit, StatsCredible, NoStats
<1>5. NoDrift
  BY DEF Init, NoDrift
<1> QED
  BY <1>1, <1>2, <1>3, <1>4, <1>5 DEF IInv

-----------------------------------------------------------------------------
LEMMA TypeStep == IInv /\ [Next]_vars => TypeOK'
<1> SUFFICES ASSUME IInv, [Next]_vars PROVE TypeOK'
  OBVIOUS
<1> USE DEF IInv, At, Goto, Pcs, None
<1>1. ASSUME NEW i \in Instruments, Take(i) PROVE TypeOK'
  BY <1>1 DEF Take, NotAsked, Leave, TypeOK, chatVars, resultVars, statVars
<1>2. ASSUME NEW i \in Instruments, Check(i) PROVE TypeOK'
  <2>1. CASE \E why \in {"iterations", "budget"} : Bail(i, why)
    BY <1>2, <2>1, LimitsAssumption DEF Check, Bail, TypeOK, statVars
  <2>2. CASE Goto(i, "post") /\ UNCHANGED resultVars
    BY <1>2, <2>2, LimitsAssumption DEF Check, TypeOK, resultVars, statVars
  <2> QED
    BY <1>2, <2>1, <2>2 DEF Check
<1>3. ASSUME NEW i \in Instruments, PostFails(i) PROVE TypeOK'
  <2>1. posts' \in [Instruments -> Nat] /\ UNCHANGED <<turns, tries, outcome, statVars>>
    BY <1>3 DEF PostFails, Posted, TypeOK
  <2>2. CASE Bail(i, "transport")
    BY <2>1, <2>2 DEF Bail, TypeOK, statVars
  <2>3. CASE Goto(i, "wait") /\ UNCHANGED resultVars
    BY <2>1, <2>3 DEF TypeOK, resultVars, statVars
  <2> QED
    BY <1>3, <2>2, <2>3 DEF PostFails
<1>4. ASSUME NEW i \in Instruments, Retry(i) PROVE TypeOK'
  <2>1. tries' \in [Instruments -> 0..MaxRetries]
    BY <1>4, LimitsAssumption DEF Retry, TypeOK, Cost, CostOf
  <2> QED
    BY <1>4, <2>1 DEF Retry, TypeOK, resultVars, statVars
<1>5. ASSUME NEW i \in Instruments, PostRefused(i) PROVE TypeOK'
  BY <1>5 DEF PostRefused, Refusals, Posted, Bail, TypeOK, resultVars, statVars
<1>6. ASSUME NEW i \in Instruments, ToolTurn(i) PROVE TypeOK'
  <2>1. PICK batch \in Batches :
          turns' = [turns EXCEPT ![i] = Append(@, [calls |-> batch, answers |-> <<>>])]
    BY <1>6 DEF ToolTurn
  <2>2. [calls |-> batch, answers |-> <<>>] \in Turn
    BY DEF Turn
  <2>3. Append(turns[i], [calls |-> batch, answers |-> <<>>]) \in Seq(Turn)
    <3>1. turns[i] \in Seq(Turn)
      BY DEF TypeOK
    <3> DEFINE turn == [calls |-> batch, answers |-> <<>>]
    <3>2. turn \in Turn
      BY <2>2
    <3> HIDE DEF turn
    <3>3. Append(turns[i], turn) \in Seq(Turn)
      BY <3>1, <3>2
    <3> QED
      BY <3>3 DEF turn
  <2>4. turns' \in [Instruments -> Seq(Turn)]
    BY <2>1, <2>3 DEF TypeOK
  <2>5. posts' \in [Instruments -> Nat] /\ pc' \in [Instruments -> Pcs]
    BY <1>6 DEF ToolTurn, Posted, TypeOK
  <2> QED
    BY <1>6, <2>4, <2>5 DEF ToolTurn, TypeOK, resultVars, statVars
<1>7. ASSUME NEW i \in Instruments, RunTool(i) PROVE TypeOK'
  <2>1. Last(i) \in Turn /\ turns[i] \in Seq(Turn) /\ Len(turns[i]) >= 1
    BY <1>7 DEF RunTool, Last, Shape, ShapeOf, TypeOK
  <2>2. \A a \in {"result", "warning"} : Answered(Last(i), a) \in Turn
    BY <2>1 DEF Answered, Turn
  <2>3. \A a \in {"result", "warning"} : WithLast(turns[i], Answered(Last(i), a)) \in Seq(Turn)
    BY <2>1, <2>2, WithLastIs
  <2>4. turns' \in [Instruments -> Seq(Turn)]
    BY <1>7, <2>3 DEF RunTool, ToolResult, SetLast, TypeOK
  <2>5. error' \in [Instruments -> {None, "iterations", "budget", "transport", "raised",
                                    "repeated", "unparseable", "malformed"}]
        /\ leads' = leads /\ pc' \in [Instruments -> Pcs]
    BY <1>7 DEF RunTool, Bail, TypeOK, resultVars
  <2> QED
    BY <1>7, <2>4, <2>5 DEF RunTool, TypeOK, statVars
<1>8. ASSUME NEW i \in Instruments, BadFinal(i) PROVE TypeOK'
  <2>1. /\ \E why \in {"unparseable", "malformed"} : Bail(i, why)
        /\ Posted(i) /\ UNCHANGED <<turns, tries, outcome, statVars>>
    BY <1>8 DEF BadFinal
  <2> QED
    BY <2>1 DEF Posted, Bail, TypeOK, resultVars, statVars
<1>9. ASSUME NEW i \in Instruments, Final(i) PROVE TypeOK'
  <2>1. leads' \in [Instruments -> SUBSET Signal]
    BY <1>9, MessagesAssumption DEF Final, TypeOK
  <2> QED
    BY <1>9, <2>1 DEF Final, Posted, TypeOK, statVars
<1>10. ASSUME NEW i \in Instruments, ReadStats(i) PROVE TypeOK'
  <2>1. stats \in Stats /\ NoStats \in Stats
    BY DEF TypeOK, Stats, NoStats
  <2>2. copy' \in [Instruments -> Stats]
    BY <1>10, <2>1 DEF ReadStats, TypeOK
  <2> QED
    BY <1>10, <2>2 DEF ReadStats, TypeOK, chatVars, resultVars
<1>11. ASSUME NEW i \in Instruments, WriteStats(i) PROVE TypeOK'
  <2> DEFINE calls == IF error[i] = None THEN copy[i].calls + 1 ELSE copy[i].calls
             errors == IF error[i] = None THEN copy[i].errors ELSE copy[i].errors + 1
  <2>2. copy[i].calls \in Nat /\ copy[i].errors \in Nat
    BY DEF TypeOK, Stats
  <2>3. calls \in Nat /\ errors \in Nat
    BY <2>2
  <2>1. Counted(i) \in Stats
    BY <2>3 DEF Counted, Stats
  <2> QED
    BY <1>11, <2>1 DEF WriteStats, TypeOK, chatVars, resultVars
<1>12. ASSUME NEW i \in Instruments, Report(i) PROVE TypeOK'
  <2>1. turns' \in [Instruments -> Seq(Turn)]
    BY <1>12 DEF Report, TypeOK
  <2>2. Decision(i) \in {None, "error", "no_signal", "generated"}
    BY DEF Decision
  <2>3. pc' \in [Instruments -> Pcs] /\ outcome' \in [Instruments -> {None, "error", "no_signal", "generated"}]
    BY <1>12, <2>2 DEF Report, Leave, TypeOK
  <2>4. /\ tries' \in [Instruments -> 0..MaxRetries] /\ posts' \in [Instruments -> Nat]
        /\ leads' \in [Instruments -> SUBSET Signal]
        /\ copy' \in [Instruments -> Stats]
    BY <1>12, LimitsAssumption DEF Report, TypeOK, Stats, NoStats
  <2>5. error' \in [Instruments -> {None, "iterations", "budget", "transport", "raised",
                                    "repeated", "unparseable", "malformed"}]
    BY <1>12 DEF Report, TypeOK
  <2>6. stats' \in Stats /\ ended' \subseteq Instruments
    BY <1>12 DEF Report, TypeOK
  <2> QED
    BY <2>1, <2>3, <2>4, <2>5, <2>6 DEF TypeOK
<1>13. CASE UNCHANGED vars
  BY <1>13 DEF vars, TypeOK
<1> QED
  BY <1>1, <1>2, <1>3, <1>4, <1>5, <1>6, <1>7, <1>8, <1>9, <1>10, <1>11, <1>12, <1>13
     DEF Next, Detect

\* What a tool call does to its conversation.
LEMMA ToolIs ==
    ASSUME IInv, NEW i \in Instruments, RunTool(i)
    PROVE  \E a \in {"result", "warning"} :
              /\ a = "result" => ~Repeated(i)
              /\ a = "warning" => pc'[i] = "record"
              /\ a = "result" => pc'[i] = IF AllAnswered(i) THEN "check" ELSE "tools"
              /\ turns'[i] \in Seq(Turn) /\ Len(turns'[i]) = Len(turns[i])
              /\ Len(turns[i]) >= 1
              /\ \A n \in 1..(Len(turns[i]) - 1) : turns'[i][n] = turns[i][n]
              /\ turns'[i][Len(turns[i])] = Answered(Last(i), a)
              /\ \A j \in Instruments \ {i} : turns'[j] = turns[j] /\ pc'[j] = pc[j]
<1>1. Last(i) \in Turn /\ turns[i] \in Seq(Turn) /\ Len(turns[i]) >= 1
  BY DEF RunTool, At, Last, IInv, Shape, ShapeOf, TypeOK
<1>2. ASSUME NEW a \in {"result", "warning"}, SetLast(i, Answered(Last(i), a))
      PROVE  /\ turns'[i] \in Seq(Turn) /\ Len(turns'[i]) = Len(turns[i])
             /\ \A n \in 1..(Len(turns[i]) - 1) : turns'[i][n] = turns[i][n]
             /\ turns'[i][Len(turns[i])] = Answered(Last(i), a)
             /\ \A j \in Instruments \ {i} : turns'[j] = turns[j]
  <2>1. Answered(Last(i), a) \in Turn
    BY <1>1 DEF Answered, Turn
  <2>2. turns'[i] = WithLast(turns[i], Answered(Last(i), a))
        /\ \A j \in Instruments \ {i} : turns'[j] = turns[j]
    <3>1. turns \in [Instruments -> Seq(Turn)]
      BY DEF IInv, TypeOK
    <3> DEFINE new == WithLast(turns[i], Answered(Last(i), a))
    <3>2. turns' = [turns EXCEPT ![i] = new]
      BY <1>2 DEF SetLast
    <3> HIDE DEF new
    <3>3. turns'[i] = new /\ \A j \in Instruments \ {i} : turns'[j] = turns[j]
      BY <3>1, <3>2
    <3> QED
      BY <3>3 DEF new
  <2>3. /\ WithLast(turns[i], Answered(Last(i), a)) \in Seq(Turn)
        /\ Len(WithLast(turns[i], Answered(Last(i), a))) = Len(turns[i])
        /\ \A n \in 1..(Len(turns[i]) - 1) :
              WithLast(turns[i], Answered(Last(i), a))[n] = turns[i][n]
        /\ WithLast(turns[i], Answered(Last(i), a))[Len(turns[i])] = Answered(Last(i), a)
    BY <2>1, <1>1, WithLastIs, Zenon
  <2> QED
    BY <2>2, <2>3
<1>3. CASE Repeated(i)
  <2>1. SetLast(i, Answered(Last(i), "warning")) /\ Goto(i, "record")
    BY <1>3 DEF RunTool, Bail
  <2>2. pc'[i] = "record" /\ \A j \in Instruments \ {i} : pc'[j] = pc[j]
    BY <2>1 DEF Goto, IInv, TypeOK
  <2> WITNESS "warning" \in {"result", "warning"}
  <2> QED
    BY <1>1, <1>2, <2>1, <2>2
<1>4. CASE ~Repeated(i)
  <2>1. SetLast(i, Answered(Last(i), "result")) /\ Goto(i, IF AllAnswered(i) THEN "check" ELSE "tools")
    BY <1>4 DEF RunTool, ToolResult
  <2>2. /\ pc'[i] = IF AllAnswered(i) THEN "check" ELSE "tools"
        /\ \A j \in Instruments \ {i} : pc'[j] = pc[j]
    BY <2>1 DEF Goto, IInv, TypeOK
  <2> WITNESS "result" \in {"result", "warning"}
  <2> QED
    BY <1>1, <1>2, <1>4, <2>1, <2>2
<1> QED
  BY <1>3, <1>4

\* What a tool-calling message does to its conversation.
LEMMA TurnIs ==
    ASSUME IInv, NEW i \in Instruments, ToolTurn(i)
    PROVE  /\ Len(turns'[i]) = Len(turns[i]) + 1
           /\ \A n \in 1..Len(turns[i]) : turns'[i][n] = turns[i][n]
           /\ turns'[i][Len(turns[i]) + 1].answers = <<>>
           /\ Len(turns'[i][Len(turns[i]) + 1].calls) >= 1
           /\ pc'[i] = "tools"
           /\ \A j \in Instruments \ {i} : turns'[j] = turns[j] /\ pc'[j] = pc[j]
<1>1. PICK batch \in Batches :
        turns' = [turns EXCEPT ![i] = Append(@, [calls |-> batch, answers |-> <<>>])]
  BY DEF ToolTurn
<1> DEFINE turn == [calls |-> batch, answers |-> <<>>]
<1>2. turns[i] \in Seq(Turn) /\ turns'[i] = Append(turns[i], turn)
      /\ \A j \in Instruments \ {i} : turns'[j] = turns[j]
  BY <1>1 DEF IInv, TypeOK
<1>3. turn \in Turn
  BY DEF Turn
<1>4. turn.answers = <<>> /\ Len(turn.calls) >= 1
  BY BatchIs
<1>5. pc'[i] = "tools" /\ \A j \in Instruments \ {i} : pc'[j] = pc[j]
  BY DEF ToolTurn, Goto, IInv, TypeOK
<1> HIDE DEF turn
<1>6. Len(turns'[i]) = Len(turns[i]) + 1 /\ turns'[i][Len(turns[i]) + 1] = turn
      /\ \A n \in 1..Len(turns[i]) : turns'[i][n] = turns[i][n]
  BY <1>2, <1>3
<1> QED
  BY <1>2, <1>4, <1>5, <1>6

\* Steps that leave the conversations alone, or end one, and where they lead.
LEMMA OtherIs ==
    ASSUME IInv, NEW i \in Instruments,
           Take(i) \/ Check(i) \/ PostFails(i) \/ Retry(i) \/ PostRefused(i)
           \/ BadFinal(i) \/ Final(i) \/ ReadStats(i) \/ WriteStats(i) \/ Report(i)
    PROVE  /\ \/ turns' = turns
              \/ turns'[i] = <<>> /\ \A j \in Instruments \ {i} : turns'[j] = turns[j]
           /\ \A j \in Instruments \ {i} : pc'[j] = pc[j]
           /\ \/ pc'[i] \in {"record", "write", "report", "done"}
              \/ turns' = turns /\ pc[i] = "queued" /\ pc'[i] = "check"
              \/ turns' = turns /\ pc[i] = "check" /\ pc'[i] = "post" /\ Len(turns[i]) < MaxIters
              \/ turns' = turns /\ pc[i] = "post" /\ pc'[i] = "wait"
              \/ turns' = turns /\ pc[i] = "wait" /\ pc'[i] = "post"
<1>1. CASE Take(i)
  BY <1>1 DEF Take, Leave, Goto, At, IInv, TypeOK, chatVars
<1>2. CASE Check(i)
  <2>1. turns[i] \in Seq(Turn)
    BY DEF IInv, TypeOK
  <2>2. CASE Goto(i, "record")
    BY <1>2, <2>2 DEF Check, Goto, At, IInv, TypeOK
  <2>3. CASE Goto(i, "post") /\ Len(turns[i]) < MaxIters
    BY <1>2, <2>3 DEF Check, Goto, At, IInv, TypeOK
  <2> QED
    BY <1>2, <2>1, <2>2, <2>3, LimitsAssumption DEF Check, Exhausted, Bail
<1>3. CASE PostFails(i)
  <2>1. CASE Goto(i, "record")
    BY <1>3, <2>1 DEF PostFails, Goto, At, IInv, TypeOK
  <2>2. CASE Goto(i, "wait")
    BY <1>3, <2>2 DEF PostFails, Goto, At, IInv, TypeOK
  <2> QED
    BY <1>3, <2>1, <2>2 DEF PostFails, Bail
<1>4. CASE Retry(i)
  BY <1>4 DEF Retry, Goto, At, IInv, TypeOK
<1>5. CASE PostRefused(i) \/ BadFinal(i) \/ Final(i)
  BY <1>5 DEF PostRefused, BadFinal, Final, Bail, Goto, At, IInv, TypeOK
<1>6. CASE ReadStats(i) \/ WriteStats(i)
  BY <1>6 DEF ReadStats, WriteStats, Goto, At, IInv, TypeOK, chatVars
<1>7. CASE Report(i)
  BY <1>7 DEF Report, Leave, Goto, At, IInv, TypeOK
<1> QED
  BY <1>1, <1>2, <1>3, <1>4, <1>5, <1>6, <1>7

\* The steps of a detection by what they do to its conversation.
Other(i) ==
    \/ Take(i) \/ Check(i) \/ PostFails(i) \/ Retry(i) \/ PostRefused(i)
    \/ BadFinal(i) \/ Final(i) \/ ReadStats(i) \/ WriteStats(i) \/ Report(i)

LEMMA NextIs == [Next]_vars =>
    (\E i \in Instruments : Other(i) \/ ToolTurn(i) \/ RunTool(i)) \/ UNCHANGED vars
BY DEF Next, Detect, Other

LEMMA ShapeStep == IInv /\ [Next]_vars => Shape'
<1> SUFFICES ASSUME IInv, [Next]_vars, NEW j \in Instruments
             PROVE  ShapeOf(pc'[j], turns'[j])
  BY DEF Shape
<1>1. /\ turns[j] \in Seq(Turn) /\ Len(turns[j]) \in Nat /\ pc[j] \in Pcs
      /\ ShapeOf(pc[j], turns[j])
  BY DEF IInv, TypeOK, Shape
<1>2. ASSUME Other(j) PROVE ShapeOf(pc'[j], turns'[j])
  <2>1. CASE turns'[j] = <<>> /\ pc'[j] \in {"record", "write", "report", "done"}
    BY <2>1, LimitsAssumption DEF ShapeOf
  <2>2. CASE turns' = turns /\ pc'[j] \in {"record", "write", "report", "done"}
    BY <2>2, <1>1 DEF ShapeOf
  <2>3. CASE turns' = turns /\ pc[j] = "queued" /\ pc'[j] = "check"
    BY <2>3, <1>1 DEF ShapeOf
  <2>4. CASE turns' = turns /\ pc[j] = "check" /\ pc'[j] = "post" /\ Len(turns[j]) < MaxIters
    BY <2>4, <1>1 DEF ShapeOf
  <2>5. CASE turns' = turns /\ pc[j] = "post" /\ pc'[j] = "wait"
    BY <2>5, <1>1 DEF ShapeOf
  <2>6. CASE turns' = turns /\ pc[j] = "wait" /\ pc'[j] = "post"
    BY <2>6, <1>1 DEF ShapeOf
  <2> QED
    BY <1>2, OtherIs, <2>1, <2>2, <2>3, <2>4, <2>5, <2>6 DEF Other
<1>3. ASSUME ToolTurn(j) PROVE ShapeOf(pc'[j], turns'[j])
  <2>1. pc[j] = "post"
    BY <1>3 DEF ToolTurn, At
  <2>2. Len(turns'[j]) = Len(turns[j]) + 1 /\ Len(turns[j]) < MaxIters
    BY <1>1, <1>3, <2>1, TurnIs DEF ShapeOf
  <2>3. \A n \in 1..Len(turns[j]) : Full(turns'[j][n])
    BY <1>1, <1>3, <2>1, TurnIs DEF ShapeOf
  <2>4. Len(turns'[j][Len(turns'[j])].answers) < Len(turns'[j][Len(turns'[j])].calls)
    <3>1. turns'[j][Len(turns[j]) + 1].answers = <<>> /\ Len(turns'[j][Len(turns[j]) + 1].calls) >= 1
      BY <1>3, TurnIs
    <3> QED
      BY <3>1, <2>2
  <2>5. pc'[j] = "tools"
    BY <1>3, TurnIs
  <2> QED
    BY <1>1, <2>2, <2>3, <2>4, <2>5, LimitsAssumption DEF ShapeOf
<1>4. ASSUME RunTool(j) PROVE ShapeOf(pc'[j], turns'[j])
  <2>1. PICK a \in {"result", "warning"} :
              /\ a = "warning" => pc'[j] = "record"
              /\ a = "result" => pc'[j] = IF AllAnswered(j) THEN "check" ELSE "tools"
              /\ turns'[j] \in Seq(Turn) /\ Len(turns'[j]) = Len(turns[j])
              /\ Len(turns[j]) >= 1
              /\ \A n \in 1..(Len(turns[j]) - 1) : turns'[j][n] = turns[j][n]
              /\ turns'[j][Len(turns[j])] = Answered(Last(j), a)
    BY <1>4, ToolIs
  <2>2. pc[j] = "tools" /\ Last(j) \in Turn /\ Last(j) = turns[j][Len(turns[j])]
    BY <1>1, <1>4, <2>1 DEF RunTool, At, Last
  <2>3. /\ Answered(Last(j), a).calls = Last(j).calls
        /\ Len(Answered(Last(j), a).answers) = Len(Last(j).answers) + 1
        /\ Len(Last(j).answers) \in Nat /\ Len(Last(j).answers) < Len(Last(j).calls)
        /\ Len(Last(j).calls) \in Nat
    BY <1>1, <2>2, BatchIs DEF Answered, Turn, ShapeOf
  <2>4. \A n \in 1..(Len(turns'[j]) - 1) : Full(turns'[j][n])
    BY <1>1, <2>1 DEF ShapeOf
  <2>5. CASE a = "warning"
    BY <1>1, <2>1, <2>4, <2>5 DEF ShapeOf
  <2>6. CASE a = "result" /\ AllAnswered(j)
    <3>1. Full(turns'[j][Len(turns[j])])
      BY <2>1, <2>3, <2>6 DEF Full, AllAnswered
    <3>2. \A n \in 1..Len(turns'[j]) : Full(turns'[j][n])
      BY <1>1, <2>1, <2>4, <3>1
    <3> QED
      BY <1>1, <2>1, <2>2, <2>6, <3>2 DEF ShapeOf
  <2>7. CASE a = "result" /\ ~AllAnswered(j)
    <3>1. Len(turns'[j][Len(turns'[j])].answers) < Len(turns'[j][Len(turns'[j])].calls)
      BY <2>1, <2>3, <2>7 DEF AllAnswered
    <3> QED
      BY <1>1, <2>1, <2>2, <2>4, <2>7, <3>1 DEF ShapeOf
  <2> QED
    BY <2>5, <2>6, <2>7
<1>5. ASSUME NEW i \in Instruments \ {j}, Other(i) \/ ToolTurn(i) \/ RunTool(i)
      PROVE  ShapeOf(pc'[j], turns'[j])
  <2>1. pc'[j] = pc[j] /\ turns'[j] = turns[j]
    BY <1>5, OtherIs, TurnIs, ToolIs DEF Other
  <2> QED
    BY <1>1, <2>1
<1>6. CASE UNCHANGED vars
  BY <1>1, <1>6 DEF vars
<1> QED
  BY <1>2, <1>3, <1>4, <1>5, <1>6, NextIs

\* Posts: a turn costs at most Per of them, and there are at most MaxIters turns.
LEMMA CostStep == IInv /\ [Next]_vars => Cost'
<1> SUFFICES ASSUME IInv, [Next]_vars, NEW j \in Instruments
             PROVE  CostOf(pc'[j], Len(turns'[j]), tries'[j], posts'[j])
  BY DEF Cost
<1> DEFINE n == Len(turns[j])
<1>1. /\ n \in Nat /\ pc[j] \in Pcs /\ tries[j] \in 0..MaxRetries /\ posts[j] \in Nat
      /\ ShapeOf(pc[j], turns[j]) /\ CostOf(pc[j], n, tries[j], posts[j])
  BY DEF IInv, TypeOK, Shape, Cost
<1>2. /\ Per \in Nat /\ MaxIters \in Nat /\ MaxRetries \in Nat /\ Per = MaxRetries + 1
  BY LimitsAssumption DEF Per
<1>3. n < MaxIters => Per * n + Per <= Per * MaxIters
  <2> SUFFICES ASSUME n < MaxIters PROVE Per * n + Per <= Per * MaxIters
    OBVIOUS
  <2> HIDE DEF n
  <2>1. n + 1 \in Nat /\ n + 1 <= MaxIters
    BY <1>1, <1>2
  <2>2. Per * (n + 1) <= Per * MaxIters
    BY <1>2, <2>1, LessTimes
  <2>3. Per * (n + 1) = Per * n + Per
    BY <1>1, <1>2, LessTimes
  <2> QED
    BY <2>2, <2>3
<1>4. n <= MaxIters /\ Per * n <= Per * MaxIters /\ Per * n \in Nat /\ Per * MaxIters \in Nat
  <2>1. n <= MaxIters
    BY <1>1 DEF ShapeOf
  <2> HIDE DEF n
  <2>2. Per * n <= Per * MaxIters
    BY <1>1, <1>2, <2>1, LessTimes
  <2> QED
    BY <1>1, <1>2, <2>1, <2>2
<1>5. Per * (n + 1) = Per * n + Per
  <2> HIDE DEF n
  <2> QED
    BY <1>1, <1>2, LessTimes
<1> HIDE DEF n
<1>6. CASE Take(j)
  <2>1. pc[j] = "queued" /\ pc'[j] \in {"check", "done"} /\ turns' = turns /\ posts' = posts /\ tries' = tries
    BY <1>6 DEF Take, Leave, At, Goto, chatVars, IInv, TypeOK
  <2>4. Len(turns'[j]) = n
    BY <2>1 DEF n
  <2> QED
    BY <1>1, <1>2, <1>4, <2>1, <2>4 DEF CostOf
<1>7. CASE Check(j)
  <2>1. /\ pc[j] = "check" /\ pc'[j] \in {"post", "record"} /\ turns' = turns
        /\ posts' = posts /\ tries'[j] = 0
    <3>1. pc' = [pc EXCEPT ![j] = "record"] \/ pc' = [pc EXCEPT ![j] = "post"]
      BY <1>7 DEF Check, Bail, Goto
    <3> QED
      BY <1>7, <3>1 DEF Check, At, IInv, TypeOK
  <2>4. Len(turns'[j]) = n
    BY <2>1 DEF n
  <2> QED
    BY <1>1, <1>2, <1>4, <2>1, <2>4 DEF CostOf
<1>8. CASE PostFails(j)
  <2>1. /\ pc[j] = "post" /\ turns' = turns /\ posts'[j] = posts[j] + 1 /\ tries' = tries
    BY <1>8 DEF PostFails, Posted, At, IInv, TypeOK
  <2>2. posts[j] + 1 <= Per * MaxIters
    <3>1. n < MaxIters
      BY <1>1, <2>1 DEF ShapeOf, n
    <3> QED
      BY <1>1, <1>2, <1>3, <1>4, <2>1, <3>1 DEF CostOf
  <2>3. \/ pc'[j] = "record"
        \/ pc'[j] = "wait" /\ tries[j] < MaxRetries
    <3>1. CASE MayRetry(j)
      BY <1>8, <3>1 DEF PostFails, Goto, MayRetry, IInv, TypeOK
    <3>2. CASE ~MayRetry(j)
      BY <1>8, <3>2 DEF PostFails, Bail, Goto, IInv, TypeOK
    <3> QED
      BY <3>1, <3>2
  <2>4. Len(turns'[j]) = n
    BY <2>1 DEF n
  <2> QED
    BY <1>1, <1>2, <1>4, <2>1, <2>2, <2>3, <2>4 DEF CostOf
<1>9. CASE Retry(j)
  <2>1. /\ pc[j] = "wait" /\ pc'[j] = "post" /\ turns' = turns /\ posts' = posts
        /\ tries'[j] = tries[j] + 1
    BY <1>9 DEF Retry, At, Goto, IInv, TypeOK
  <2>4. Len(turns'[j]) = n
    BY <2>1 DEF n
  <2> QED
    BY <1>1, <1>2, <1>4, <2>1, <2>4 DEF CostOf
<1>10. CASE PostRefused(j) \/ BadFinal(j) \/ Final(j)
  <2>1. /\ pc[j] = "post" /\ pc'[j] = "record" /\ turns' = turns /\ posts'[j] = posts[j] + 1
    BY <1>10 DEF PostRefused, BadFinal, Final, Bail, Posted, At, Goto, IInv, TypeOK
  <2>2. posts[j] + 1 <= Per * MaxIters
    <3>1. n < MaxIters
      BY <1>1, <2>1 DEF ShapeOf, n
    <3> QED
      BY <1>1, <1>2, <1>3, <1>4, <2>1, <3>1 DEF CostOf
  <2> QED
    BY <2>1, <2>2 DEF CostOf
<1>11. CASE ToolTurn(j)
  <2>1. /\ pc[j] = "post" /\ pc'[j] = "tools" /\ posts'[j] = posts[j] + 1
        /\ Len(turns'[j]) = n + 1
    BY <1>11, TurnIs DEF ToolTurn, Posted, At, IInv, TypeOK, n
  <2>2. posts[j] + 1 <= Per * MaxIters /\ posts[j] + 1 <= Per * n + Per
    <3>1. n < MaxIters
      BY <1>1, <2>1 DEF ShapeOf, n
    <3> QED
      BY <1>1, <1>2, <1>3, <1>4, <2>1, <3>1 DEF CostOf
  <2> QED
    BY <1>5, <2>1, <2>2 DEF CostOf
<1>12. CASE RunTool(j)
  <2>1. pc[j] = "tools" /\ pc'[j] \in {"record", "check", "tools"} /\ Len(turns'[j]) = n
    BY <1>12, ToolIs DEF RunTool, At, n
  <2>2. posts' = posts
    BY <1>12 DEF RunTool
  <2> QED
    BY <1>1, <1>2, <1>4, <2>1, <2>2 DEF CostOf
<1>13. CASE ReadStats(j) \/ WriteStats(j)
  <2>1. /\ pc[j] \in {"record", "write"} /\ pc'[j] \in {"write", "report"}
        /\ posts' = posts
    BY <1>13 DEF ReadStats, WriteStats, At, Goto, chatVars, IInv, TypeOK
  <2> QED
    BY <1>1, <2>1 DEF CostOf
<1>14. CASE Report(j)
  <2>1. pc'[j] = "done" /\ posts'[j] = 0
    BY <1>14 DEF Report, Leave, Goto, IInv, TypeOK
  <2> QED
    BY <1>4, <2>1 DEF CostOf
<1>15. ASSUME NEW i \in Instruments \ {j}, Other(i) \/ ToolTurn(i) \/ RunTool(i)
       PROVE  CostOf(pc'[j], Len(turns'[j]), tries'[j], posts'[j])
  <2>1. pc'[j] = pc[j] /\ turns'[j] = turns[j]
    BY <1>15, OtherIs, TurnIs, ToolIs DEF Other
  <2>2. tries'[j] = tries[j] /\ posts'[j] = posts[j]
    BY <1>15 DEF Other, Take, Check, PostFails, Retry, PostRefused, BadFinal, Final, ReadStats,
         WriteStats, Report, ToolTurn, RunTool, Posted, chatVars, IInv, TypeOK
  <2> QED
    BY <1>1, <2>1, <2>2 DEF n
<1>16. CASE UNCHANGED vars
  BY <1>1, <1>16 DEF vars, n
<1> QED
  BY <1>6, <1>7, <1>8, <1>9, <1>10, <1>11, <1>12, <1>13, <1>14, <1>15, <1>16, NextIs DEF Other

-----------------------------------------------------------------------------
LEMMA EndedFinite == IInv => IsFiniteSet(ended) /\ Cardinality(ended) \in Nat
<1> SUFFICES ASSUME IInv PROVE IsFiniteSet(ended) /\ Cardinality(ended) \in Nat
  OBVIOUS
<1>1. ended \subseteq Instruments /\ IsFiniteSet(Instruments)
  BY PoolAssumption DEF IInv, TypeOK
<1> QED
  BY <1>1, FS_Subset, FS_CardinalityType

\* A detection's event joins the ended before it can be counted.
LEMMA CreditStep == IInv /\ [Next]_vars => Credit'
<1> SUFFICES ASSUME IInv, [Next]_vars PROVE Credit'
  OBVIOUS
<1>0. /\ Cardinality(ended) \in Nat /\ stats.calls \in Nat /\ stats.errors \in Nat
      /\ stats.calls + stats.errors <= Cardinality(ended)
      /\ \A j \in Instruments : copy[j].calls \in Nat /\ copy[j].errors \in Nat
      /\ pc \in [Instruments -> Pcs] /\ copy \in [Instruments -> Stats]
  BY EndedFinite DEF IInv, TypeOK, Stats, Credit, StatsCredible
<1>1. ASSUME NEW i \in Instruments, ReadStats(i) PROVE Credit'
  <2>1. i \notin ended /\ ended' = ended \cup {i} /\ pc'[i] = "write" /\ stats' = stats
        /\ \A j \in Instruments \ {i} : pc'[j] = pc[j] /\ copy'[j] = copy[j]
    BY <1>0, <1>1 DEF ReadStats, Goto, At, IInv, Credit
  <2>2. Cardinality(ended') = Cardinality(ended) + 1
    BY <2>1, EndedFinite, FS_AddElement
  <2>3. Sum(copy'[i]) <= Cardinality(ended)
    BY <1>0, <1>1 DEF ReadStats, NoStats, Sum
  <2>5. Sum(copy'[i]) \in Nat
    BY <1>0, <1>1 DEF ReadStats, NoStats, Sum
  <2>4. ASSUME NEW j \in Instruments, pc'[j] = "write" PROVE Sum(copy'[j]) + 1 <= Cardinality(ended')
    <3>1. CASE j = i
      <4>1. Sum(copy'[i]) + 1 <= Cardinality(ended')
        BY <1>0, <2>2, <2>3, <2>5
      <4> QED
        BY <3>1, <4>1
    <3>2. CASE j # i
      BY <1>0, <2>1, <2>2, <2>4, <3>2 DEF Sum, IInv, Credit
    <3> QED
      BY <3>1, <3>2
  <2>6. StatsCredible'
    BY <1>0, <2>1, <2>2 DEF StatsCredible
  <2> QED
    BY <2>1, <2>4, <2>6 DEF IInv, Credit
<1>2. ASSUME NEW i \in Instruments, WriteStats(i) PROVE Credit'
  <2>1. /\ pc[i] = "write" /\ ended' = ended /\ copy' = copy
        /\ pc'[i] = "report" /\ \A j \in Instruments \ {i} : pc'[j] = pc[j]
    BY <1>0, <1>2 DEF WriteStats, Goto, At
  <2>2. Counted(i).calls + Counted(i).errors = Sum(copy[i]) + 1
    <3>1. CASE error[i] = None
      BY <1>0, <3>1 DEF Counted, Sum
    <3>2. CASE error[i] # None
      BY <1>0, <3>2 DEF Counted, Sum
    <3> QED
      BY <3>1, <3>2
  <2>3. StatsCredible'
    BY <1>0, <1>2, <2>1, <2>2 DEF WriteStats, StatsCredible, IInv, Credit
  <2> QED
    BY <2>1, <2>3 DEF IInv, Credit
<1>3. ASSUME NEW i \in Instruments, Report(i) PROVE Credit'
  <2>1. /\ ended' = ended /\ stats' = stats /\ pc'[i] = "done"
        /\ \A j \in Instruments \ {i} : pc'[j] = pc[j] /\ copy'[j] = copy[j]
    BY <1>0, <1>3 DEF Report, Leave, Goto
  <2> QED
    BY <2>1 DEF IInv, Credit, StatsCredible
<1>4. ASSUME NEW i \in Instruments,
             Take(i) \/ Check(i) \/ PostFails(i) \/ Retry(i) \/ PostRefused(i) \/ BadFinal(i)
             \/ Final(i) \/ ToolTurn(i) \/ RunTool(i)
      PROVE  Credit'
  <2>1. UNCHANGED <<copy, stats, ended>>
    BY <1>4 DEF Take, Check, PostFails, Retry, PostRefused, BadFinal, Final, ToolTurn, RunTool, statVars
  <2>2. /\ pc[i] \in {"queued", "check", "post", "wait", "tools"}
        /\ pc'[i] # "write"
        /\ \A j \in Instruments \ {i} : pc'[j] = pc[j]
    <3>1. CASE Take(i) \/ Retry(i) \/ PostRefused(i) \/ BadFinal(i) \/ Final(i) \/ ToolTurn(i)
      BY <1>0, <3>1 DEF Take, Leave, Retry, PostRefused, BadFinal, Final, ToolTurn, Bail, Goto, At
    <3>2. CASE Check(i) \/ PostFails(i)
      <4>1. pc' = [pc EXCEPT ![i] = "record"] \/ pc' = [pc EXCEPT ![i] = "post"]
            \/ pc' = [pc EXCEPT ![i] = "wait"]
        BY <3>2 DEF Check, PostFails, Bail, Goto
      <4> QED
        BY <1>0, <3>2, <4>1 DEF Check, PostFails, At
    <3>3. CASE RunTool(i)
      BY <3>3, ToolIs DEF RunTool, At
    <3> QED
      BY <1>4, <3>1, <3>2, <3>3
  <2> QED
    BY <2>1, <2>2 DEF IInv, Credit, StatsCredible
<1>5. CASE UNCHANGED vars
  BY <1>5 DEF vars, IInv, Credit, StatsCredible
<1> QED
  BY <1>1, <1>2, <1>3, <1>4, <1>5 DEF Next, Detect

\* A sequence of one was appended to the empty one.
LEMMA OneAppended ==
    ASSUME NEW S, NEW s \in Seq(S), NEW a \in S, NEW b \in S, Append(s, a) = <<b>>
    PROVE  s = <<>> /\ a = b
<1>1. Len(s) \in Nat /\ Len(Append(s, a)) = Len(s) + 1
  OBVIOUS
<1>2. Len(<<b>>) = 1 /\ <<b>>[1] = b
  OBVIOUS
<1>3. Len(s) = 0
  BY <1>1, <1>2
<1>4. Append(s, a)[Len(s) + 1] = a
  BY AppendProperties
<1>5. s = <<>>
  BY <1>3
<1>6. a = b
  BY <1>2, <1>3, <1>4
<1> QED
  BY <1>5, <1>6

\* A call that has just been run alone is not run alone again.
LEMMA DriftStep == IInv /\ [Next]_vars => NoDrift'
<1> SUFFICES ASSUME IInv, [Next]_vars, MaxDuplicates >= 0,
                    NEW j \in Instruments, NEW n \in 1..(Len(turns'[j]) - 1),
                    turns'[j][n].calls = turns'[j][n + 1].calls, Len(turns'[j][n].calls) = 1
             PROVE  turns'[j][n + 1].answers # <<"result">>
  BY DEF NoDrift
<1>0. turns[j] \in Seq(Turn) /\ Len(turns[j]) \in Nat /\ ShapeOf(pc[j], turns[j])
  BY DEF IInv, TypeOK, Shape
<1>1. CASE turns'[j] = turns[j]
  BY <1>1 DEF IInv, NoDrift
<1>2. CASE turns'[j] = <<>>
  BY <1>2
<1>3. CASE ToolTurn(j)
  <2>1. CASE n + 1 <= Len(turns[j])
    <3>1. n \in 1..(Len(turns[j]) - 1) /\ turns'[j][n] = turns[j][n] /\ turns'[j][n + 1] = turns[j][n + 1]
      BY <1>0, <1>3, <2>1, TurnIs
    <3> QED
      BY <3>1 DEF IInv, NoDrift
  <2>2. CASE n + 1 = Len(turns[j]) + 1
    <3>1. turns'[j][Len(turns[j]) + 1].answers = <<>>
      BY <1>3, TurnIs
    <3>2. turns'[j][n + 1].answers = <<>>
      BY <3>1, <2>2
    <3>3. <<>> # <<"result">>
      <4>1. Len(<<>>) = 0 /\ Len(<<"result">>) = 1
        OBVIOUS
      <4> QED
        BY <4>1
    <3> QED
      BY <3>2, <3>3
  <2> QED
    BY <1>0, <1>3, <2>1, <2>2, TurnIs
<1>4. CASE RunTool(j)
  <2>1. PICK a \in {"result", "warning"} :
              /\ a = "result" => ~Repeated(j)
              /\ turns'[j] \in Seq(Turn) /\ Len(turns'[j]) = Len(turns[j])
              /\ Len(turns[j]) >= 1
              /\ \A m \in 1..(Len(turns[j]) - 1) : turns'[j][m] = turns[j][m]
              /\ turns'[j][Len(turns[j])] = Answered(Last(j), a)
    BY <1>4, ToolIs
  <2>2. CASE n + 1 < Len(turns[j])
    <3>1. n \in 1..(Len(turns[j]) - 1) /\ turns'[j][n] = turns[j][n] /\ turns'[j][n + 1] = turns[j][n + 1]
      BY <1>0, <2>1, <2>2
    <3> QED
      BY <3>1 DEF IInv, NoDrift
  <2>3. CASE n + 1 = Len(turns[j])
    <3>1. /\ Before(j) = turns'[j][n] /\ turns'[j][n + 1] = Answered(Last(j), a)
          /\ Len(turns[j]) > 1
      BY <1>0, <2>1, <2>3 DEF Before
    <3>2. Last(j) \in Turn /\ Before(j) \in Turn
      BY <1>0, <2>1, <3>1 DEF Last, Before
    <3>3. /\ Answered(Last(j), a).calls = Last(j).calls
          /\ Answered(Last(j), a).answers = Append(Last(j).answers, a)
      BY DEF Answered
    <3>4. Last(j).calls = Before(j).calls /\ Len(Last(j).calls) = 1
      BY <3>1, <3>3
    <3>5. SUFFICES ASSUME Append(Last(j).answers, a) = <<"result">> PROVE FALSE
      BY <3>1, <3>3
    <3>6. Last(j).answers \in Seq({"result", "warning"})
      BY <3>2 DEF Turn
    <3>7. Last(j).answers = <<>> /\ a = "result"
      <4>1. "result" \in {"result", "warning"}
        OBVIOUS
      <4> QED
        BY <3>5, <3>6, <4>1, OneAppended
    <3>8. NextCall(j) = Last(j).calls[1]
      BY <3>7 DEF NextCall
    <3>9. KeysOf(Before(j)) = {NextCall(j)}
      <4>1. Before(j).calls \in Seq(Calls)
        BY <3>2, BatchIs DEF Turn
      <4> QED
        BY <3>4, <3>8, <4>1 DEF KeysOf
    <3> QED
      BY <2>1, <3>1, <3>4, <3>7, <3>9 DEF Repeated
  <2> QED
    BY <1>0, <2>1, <2>2, <2>3
<1>5. CASE UNCHANGED vars
  BY <1>1, <1>5 DEF vars
<1> QED
  <2>1. ASSUME NEW i \in Instruments \ {j}, Other(i) \/ ToolTurn(i) \/ RunTool(i)
        PROVE  turns'[j] = turns[j] \/ turns'[j] = <<>>
    BY <2>1, OtherIs, TurnIs, ToolIs DEF Other
  <2>2. ASSUME Other(j) PROVE turns'[j] = turns[j] \/ turns'[j] = <<>>
    BY <2>2, OtherIs DEF Other
  <2> QED
    BY <2>1, <2>2, <1>1, <1>2, <1>3, <1>4, <1>5, NextIs

-----------------------------------------------------------------------------
LEMMA Inductive == Spec => []IInv
<1>1. IInv /\ [Next]_vars => IInv'
  BY TypeStep, ShapeStep, CostStep, CreditStep, DriftStep DEF IInv
<1> QED
  BY InitInv, <1>1, PTL DEF Spec

\* Every variable has its type.
THEOREM AgentTypeCorrect == Spec => []TypeOK
<1>1. IInv => TypeOK
  BY DEF IInv
<1> QED
  BY Inductive, <1>1, PTL

\* Every request carries an answer to each tool call made before it.
THEOREM TurnsCorrect == Spec => []TurnsAnswered
<1>1. IInv => TurnsAnswered
  <2> SUFFICES ASSUME IInv, NEW i \in Instruments, At(i, "post"), NEW n \in DOMAIN turns[i]
               PROVE  Len(turns[i][n].answers) = Len(turns[i][n].calls)
    BY DEF TurnsAnswered
  <2>1. turns[i] \in Seq(Turn) /\ ShapeOf(pc[i], turns[i])
    BY DEF IInv, TypeOK, Shape
  <2> QED
    BY <2>1 DEF ShapeOf, Full, At
<1> QED
  BY Inductive, <1>1, PTL

\* No single call is run in two turns in a row.
THEOREM NoDriftCorrect == Spec => []NoDrift
<1>1. IInv => NoDrift
  BY DEF IInv
<1> QED
  BY Inductive, <1>1, PTL

\* A detection posts at most MaxIters times MaxRetries + 1 requests.
THEOREM PostsCorrect == Spec => []PostsBounded
<1>1. IInv => PostsBounded
  <2> SUFFICES ASSUME IInv, NEW i \in Instruments PROVE posts[i] <= MaxIters * (MaxRetries + 1)
    BY DEF PostsBounded
  <2>1. posts[i] <= Per * MaxIters /\ Per = MaxRetries + 1
    BY DEF IInv, Cost, CostOf, Per
  <2>2. Per * MaxIters = MaxIters * (MaxRetries + 1)
    BY LimitsAssumption, <2>1
  <2> QED
    BY <2>1, <2>2
<1> QED
  BY Inductive, <1>1, PTL

\* The statistics never count an event that did not happen.
THEOREM StatsCorrect == Spec => []StatsCredible
<1>1. IInv => StatsCredible
  BY DEF IInv, Credit
<1> QED
  BY Inductive, <1>1, PTL
=============================================================================
