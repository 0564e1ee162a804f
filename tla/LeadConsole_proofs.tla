------------------------ MODULE LeadConsole_proofs ------------------------
(***************************************************************************)
(* Proofs about LeadConsole for any sessions and any number of jobs,       *)
(* logins, losses, expiries, reloads and restarts.                         *)
(*                                                                         *)
(* A step changes at most one session and its call, except a restart, so   *)
(* the invariant is a predicate on one session and its call (Fine), and    *)
(* that no two sessions own a token in common (Apart).                     *)
(***************************************************************************)
EXTENDS LeadConsole, TLAPS

\* What holds of session state o and its call c, with tokens g good and n issued.
Typed(o, c) == o \in Session /\ c \in Call
Counted(o, c, n) == o.token <= n /\ c.new <= n
Follows(o, c) ==
    /\ c.what = "none" => c.at = "answered"
    /\ c.what \in {"render", "click", "generate"} => o.handle = 0
    /\ c.what = "status" => c.job \in {0, o.handle}
    /\ o.table \in {0, o.handle} \/ o.dropped
Usable(o, c, g) ==
    /\ o.token # 0 /\ c.at \notin {"save", "renewed"} => o.token \in g \/ o.torn
    /\ c.at = "renewed" => c.new \in g
Fine(o, c, g, n) == Typed(o, c) /\ Counted(o, c, n) /\ Follows(o, c) /\ Usable(o, c, g)

\* The tokens a session holds, or is about to be given.
Owned(o, c) == {o.token, c.new} \ {0}
Apart ==
    \A s, u \in Sessions : s # u =>
        Owned(session[s], call[s]) \cap Owned(session[u], call[u]) = {}

Shapes ==
    /\ DOMAIN session = Sessions /\ session = [s \in Sessions |-> session[s]]
    /\ DOMAIN call = Sessions /\ call = [s \in Sessions |-> call[s]]
Sessional == \A s \in Sessions : Fine(session[s], call[s], good, issued)
RegistryFits == submitted \in 0..MaxJobs /\ known \subseteq 1..submitted /\ working \subseteq known
Counters ==
    /\ issued \in Nat /\ good \subseteq 1..issued
    /\ logins \in 0..MaxLogins /\ trouble \in 0..MaxTrouble
IInv == Shapes /\ Sessional /\ Apart /\ RegistryFits /\ Counters

-----------------------------------------------------------------------------
(* The invariant says what it is for. *)

LEMMA InvTypes == IInv => ConsoleTypeOK
<1> SUFFICES ASSUME IInv PROVE ConsoleTypeOK
  OBVIOUS
<1>1. session \in [Sessions -> Session] /\ call \in [Sessions -> Call]
  BY DEF IInv, Shapes, Sessional, Fine, Typed
<1>2. \A s \in Sessions : session[s].token <= issued /\ call[s].new <= issued
  BY DEF IInv, Sessional, Fine, Counted
<1> QED
  BY <1>1, <1>2 DEF IInv, RegistryFits, Counters, ConsoleTypeOK

LEMMA InvKept == IInv => SessionKept
BY DEF IInv, Sessional, Fine, Usable, SessionKept

LEMMA InvCurrent == IInv => TableIsCurrent
BY DEF IInv, Sessional, Fine, Follows, TableIsCurrent

-----------------------------------------------------------------------------
(* Steps of one session. *)

\* A session that changes, with a call that is fine with the new tokens, and that
\* revokes no token but its own, leaves every session fine.
LEMMA OneSession ==
    ASSUME Shapes, Sessional, Apart, Counters, NEW s \in Sessions, NEW o, NEW c,
           session' = [session EXCEPT ![s] = o],
           call' = [call EXCEPT ![s] = c],
           issued' \in Nat, issued <= issued',
           good \ Owned(session[s], call[s]) \subseteq good',
           Fine(o, c, good', issued'),
           \A k \in Owned(o, c) : k \in Owned(session[s], call[s]) \/ k > issued
    PROVE  Shapes' /\ Sessional' /\ Apart'
<1>1. /\ session'[s] = o /\ call'[s] = c
      /\ \A u \in Sessions \ {s} : session'[u] = session[u] /\ call'[u] = call[u]
  BY DEF Shapes
<1>2. Shapes'
  BY DEF Shapes
<1>3. ASSUME NEW u \in Sessions, u # s PROVE Fine(session[u], call[u], good', issued')
  <2>1. Fine(session[u], call[u], good, issued)
    BY DEF Sessional
  <2>2. Owned(session[s], call[s]) \cap Owned(session[u], call[u]) = {}
    BY <1>3 DEF Apart
  <2>3. \A k \in Owned(session[u], call[u]) : k \in good => k \in good'
    BY <2>2
  <2>4. session[u].token \in Nat /\ call[u].new \in Nat /\ issued \in Nat
    BY <2>1 DEF Fine, Typed, Session, Call, Counters
  <2>5. Counted(session[u], call[u], issued')
    BY <2>1, <2>4 DEF Fine, Counted
  <2>6. 0 \notin good
    BY DEF Counters
  <2>7. Usable(session[u], call[u], good')
    BY <2>1, <2>3, <2>6 DEF Fine, Usable, Owned
  <2> QED
    BY <2>1, <2>5, <2>7 DEF Fine
<1>4. Sessional'
  <2> SUFFICES ASSUME NEW u \in Sessions PROVE Fine(session'[u], call'[u], good', issued')
    BY DEF Sessional
  <2> QED
    BY <1>1, <1>3
<1>5. ASSUME NEW u \in Sessions, u # s
      PROVE  Owned(o, c) \cap Owned(session[u], call[u]) = {}
  <2>1. Owned(session[s], call[s]) \cap Owned(session[u], call[u]) = {}
    BY <1>5 DEF Apart
  <2>2. Fine(session[u], call[u], good, issued)
    BY DEF Sessional
  <2>3. \A k \in Owned(session[u], call[u]) : k \in Nat /\ k <= issued
    BY <2>2 DEF Fine, Typed, Counted, Session, Call, Owned
  <2>4. \A k \in Owned(session[u], call[u]) : ~(k > issued)
    BY <2>3 DEF Counters
  <2> QED
    BY <2>1, <2>4
<1>6. Apart'
  <2> SUFFICES ASSUME NEW t \in Sessions, NEW u \in Sessions, t # u
               PROVE  Owned(session'[t], call'[t]) \cap Owned(session'[u], call'[u]) = {}
    BY DEF Apart
  <2>1. CASE t = s
    BY <1>1, <1>5, <2>1
  <2>2. CASE u = s
    BY <1>1, <1>5, <2>2
  <2>3. CASE t # s /\ u # s
    BY <1>1, <2>3 DEF Apart
  <2> QED
    BY <2>1, <2>2, <2>3
<1> QED
  BY <1>2, <1>4, <1>6

\* The endpoints answer a call with a job that fits the session that asked.
Fits(c, what, handle) ==
    /\ c \in Call /\ c.what = what /\ c.at = "answered" /\ c.new = 0
    /\ what = "status" => c.job \in {0, handle}

LEMMA ReplyFits ==
    ASSUME NEW s \in Sessions, NEW what \in {"render", "click", "generate", "status"},
           NEW answer \in {"ok", "running", "ended", "error"}, NEW job \in 0..MaxJobs,
           what = "status" => job \in {0, session[s].handle},
           Replies(s, what, answer, job)
    PROVE  \E c : Fits(c, what, session[s].handle) /\ call' = [call EXCEPT ![s] = c]
<1>1. Fits(Reply(what, answer, job), what, session[s].handle)
  BY DEF Reply, Fits, Call
<1> QED
  BY <1>1 DEF Replies

LEMMA ServeEffect ==
    ASSUME IInv, NEW s \in Sessions, NEW what, Serve(s, what)
    PROVE  /\ \E c : Fits(c, what, session[s].handle) /\ call' = [call EXCEPT ![s] = c]
           /\ what \in {"render", "click", "generate", "status"}
           /\ good' = good /\ RegistryFits'
<1> USE ConsoleAssumption
<1>0. good' = good /\ what \in {"render", "click", "generate", "status"}
  BY DEF Serve, ServeActive, ServeGenerate, ServeStatus
<1>1. session[s].handle \in 0..MaxJobs /\ RegistryFits
  BY DEF IInv, Sessional, Fine, Typed, Session
<1>2. 0 \in 0..MaxJobs /\ \A j \in working : j \in 0..MaxJobs
  <2>1. submitted \in 0..MaxJobs /\ \A j \in working : j \in 1..submitted
    BY <1>1 DEF RegistryFits
  <2> QED
    BY <2>1
<1>3. CASE ServeActive(s, what)
  <2>1. what \in {"render", "click"} /\ UNCHANGED registryVars
    BY <1>3 DEF ServeActive
  <2>2. \E j \in 0..MaxJobs : Replies(s, what, "ok", j)
    <3>1. CASE \E j \in working : Replies(s, what, "ok", j)
      BY <1>2, <3>1, Zenon
    <3>2. CASE Replies(s, what, "ok", 0)
      BY <1>2, <3>2, Zenon
    <3> QED
      BY <1>3, <3>1, <3>2, Zenon DEF ServeActive
  <2>3. PICK j \in 0..MaxJobs : Replies(s, what, "ok", j)
    BY <2>2
  <2>4. what # "status"
    BY <2>1
  <2>5. \E c : Fits(c, what, session[s].handle) /\ call' = [call EXCEPT ![s] = c]
    BY <1>0, <2>3, <2>4, ReplyFits
  <2> QED
    BY <1>0, <1>1, <2>1, <2>5 DEF RegistryFits, registryVars
<1>4. CASE ServeGenerate(s, what)
  <2>1. what = "generate"
    BY <1>4 DEF ServeGenerate
  <2>2. CASE Accept /\ Replies(s, what, "ok", submitted + 1)
    <3>1. submitted + 1 \in 0..MaxJobs /\ RegistryFits'
      BY <1>1, <2>2 DEF Accept, RegistryFits
    <3>2. \E c : Fits(c, what, session[s].handle) /\ call' = [call EXCEPT ![s] = c]
      BY <2>1, <2>2, <3>1, ReplyFits
    <3> QED
      BY <1>0, <3>1, <3>2
  <2>3. CASE Replies(s, what, "error", 0) /\ UNCHANGED registryVars
    <3>1. \E c : Fits(c, what, session[s].handle) /\ call' = [call EXCEPT ![s] = c]
      BY <1>2, <2>1, <2>3, ReplyFits
    <3> QED
      BY <1>0, <1>1, <2>3, <3>1 DEF RegistryFits, registryVars
  <2> QED
    BY <1>4, <2>2, <2>3 DEF ServeGenerate
<1>5. CASE ServeStatus(s, what)
  <2>1. what = "status" /\ UNCHANGED registryVars
    BY <1>5 DEF ServeStatus
  <2>2. \E answer \in {"running", "ended", "error"}, j \in {0, session[s].handle} :
           Replies(s, what, answer, j)
    <3> DEFINE h == session[s].handle
    <3>1. CASE \E outcomes \in {0, h} : Replies(s, what, "running", outcomes)
      BY <3>1
    <3>2. CASE Replies(s, what, "ended", h)
      BY <3>2
    <3>3. CASE Replies(s, what, "error", 0)
      BY <3>3
    <3> QED
      BY <1>5, <3>1, <3>2, <3>3, Zenon DEF ServeStatus, Outcomes
  <2>4. PICK answer \in {"running", "ended", "error"}, j \in {0, session[s].handle} :
           Replies(s, what, answer, j)
    BY <2>2
  <2>3. \E c : Fits(c, what, session[s].handle) /\ call' = [call EXCEPT ![s] = c]
    BY <1>1, <1>2, <2>1, <2>4, ReplyFits
  <2> QED
    BY <1>0, <1>1, <2>1, <2>3 DEF RegistryFits, registryVars
<1> QED
  BY <1>3, <1>4, <1>5 DEF Serve

\* Whoever is asked, the session stays fine with the answer it is given.
LEMMA AnswerFits ==
    ASSUME NEW o, NEW c, NEW d, NEW g, NEW n, Fine(o, c, g, n), n \in Nat,
           c.at \notin {"save", "renewed"},
           d \in Call, d.what # "none", d.at \in {"answered", "revoke"}, d.new = 0,
           d.what = "status" => d.job \in {0, o.handle},
           d.what \in {"render", "click", "generate"} => o.handle = 0
    PROVE  Fine(o, d, g, n) /\ Owned(o, d) \subseteq Owned(o, c)
<1>1. Typed(o, d) /\ Counted(o, d, n)
  BY DEF Fine, Typed, Counted
<1>2. Follows(o, d) /\ Usable(o, d, g)
  BY DEF Fine, Follows, Usable
<1>3. Owned(o, d) \subseteq Owned(o, c)
  BY DEF Owned
<1> QED
  BY <1>1, <1>2, <1>3 DEF Fine

\* A call that a session makes on its own: answered, or refused for a refresh.
LEMMA HandleEffect ==
    ASSUME IInv, NEW s \in Sessions,
           NEW what \in {"render", "click", "generate", "status"}, Handle(s, what)
    PROVE  /\ \E d : /\ d.at \in {"answered", "revoke"} /\ d.what = what
                     /\ d \in Call /\ d.new = 0
                     /\ what = "status" => d.job \in {0, session[s].handle}
                     /\ call' = [call EXCEPT ![s] = d]
           /\ good' = good /\ RegistryFits'
<1> USE ConsoleAssumption
<1>1. CASE Serve(s, what)
  <2>1. PICK d : Fits(d, what, session[s].handle) /\ call' = [call EXCEPT ![s] = d]
    BY <1>1, ServeEffect
  <2>2. good' = good /\ RegistryFits'
    BY <1>1, ServeEffect
  <2> QED
    BY <2>1, <2>2 DEF Fits
<1>2. CASE Refuse(s, what)
  <2>1. good' = good /\ RegistryFits'
    BY <1>2 DEF Refuse, IInv, RegistryFits, registryVars
  <2> DEFINE d == [what |-> what, at |-> "revoke", answer |-> "ok", job |-> 0, new |-> 0]
  <2>2. d = [Reply(what, "ok", 0) EXCEPT !.at = "revoke"]
    BY DEF Reply
  <2>3. d \in Call /\ d.at = "revoke" /\ d.what = what /\ d.new = 0 /\ d.job = 0
    BY DEF Call
  <2>4. CASE call' = [call EXCEPT ![s] = d]
    <3> HIDE DEF d
    <3> QED
      BY <2>1, <2>3, <2>4
  <2>5. CASE Replies(s, what, "error", 0)
    <3>1. PICK e : Fits(e, what, session[s].handle) /\ call' = [call EXCEPT ![s] = e]
      BY <2>5, ReplyFits
    <3> QED
      BY <2>1, <3>1 DEF Fits
  <2> QED
    BY <1>2, <2>2, <2>4, <2>5 DEF Refuse
<1> QED
  BY <1>1, <1>2 DEF Handle

-----------------------------------------------------------------------------
(* The steps of a session. *)

\* The part of the invariant about sessions, which every step below restores.
Consoles == Shapes /\ Sessional /\ Apart

\* Only the call changes, or only what no other session and no token depends on.
LEMMA CallChanges ==
    ASSUME IInv, NEW s \in Sessions, NEW d, call' = [call EXCEPT ![s] = d],
           UNCHANGED <<session, good, issued>>,
           Fine(session[s], d, good, issued),
           Owned(session[s], d) \subseteq Owned(session[s], call[s])
    PROVE  Consoles'
<1>1. session' = [session EXCEPT ![s] = session[s]]
  BY DEF IInv, Shapes
<1>2. issued' \in Nat /\ issued <= issued'
  BY DEF IInv, Counters
<1> QED
  BY <1>1, <1>2, OneSession DEF IInv, Consoles

LEMMA SessionChanges ==
    ASSUME IInv, NEW s \in Sessions, NEW o, session' = [session EXCEPT ![s] = o],
           NEW d, call' = [call EXCEPT ![s] = d],
           UNCHANGED <<good, issued>>,
           Fine(o, d, good, issued),
           Owned(o, d) \subseteq Owned(session[s], call[s])
    PROVE  Consoles'
<1>1. issued' \in Nat /\ issued <= issued'
  BY DEF IInv, Counters
<1> QED
  BY <1>1, OneSession DEF IInv, Consoles

LEMMA SameCall == ASSUME IInv, NEW s \in Sessions PROVE call = [call EXCEPT ![s] = call[s]]
BY DEF IInv, Shapes

LEMMA SessionIsFine ==
    ASSUME IInv, NEW s \in Sessions
    PROVE  /\ Fine(session[s], call[s], good, issued)
           /\ session[s] \in Session /\ call[s] \in Call
           /\ issued \in Nat
BY DEF IInv, Sessional, Fine, Typed, Counters

LEMMA LoginKeeps == ASSUME IInv, NEW s \in Sessions, Login(s) PROVE Consoles'
<1> DEFINE o == NewSession(TRUE, issued + 1)
<1>1. Fine(session[s], call[s], good, issued) /\ call[s] \in Call /\ issued \in Nat
  BY SessionIsFine
<1>3. /\ session' = [session EXCEPT ![s] = o] /\ call' = [call EXCEPT ![s] = call[s]]
      /\ issued' = issued + 1 /\ good' = good \cup {issued + 1}
  BY SameCall DEF Login
<1>4. o \in Session /\ o.token = issued + 1 /\ o.table = 0 /\ o.handle = 0
  BY <1>1, ConsoleAssumption DEF Session, NewSession, ConsoleAssumption
<1>5. call[s].what = "none" /\ call[s].new <= issued /\ call[s].new \in Nat
  BY <1>1 DEF Login, IsIdle, Fine, Counted, Call
<1> HIDE DEF o
<1>6. Fine(o, call[s], good', issued')
  BY <1>1, <1>3, <1>4, <1>5 DEF Fine, Typed, Counted, Follows, Usable
<1>7. \A k \in Owned(o, call[s]) : k \in Owned(session[s], call[s]) \/ k > issued
  BY <1>1, <1>4 DEF Owned
<1>8. issued' \in Nat /\ issued <= issued' /\ good \ Owned(session[s], call[s]) \subseteq good'
  BY <1>1, <1>3
<1> QED
  BY <1>3, <1>6, <1>7, <1>8, OneSession DEF IInv, Consoles

\* A call that starts when none is in flight.
LEMMA HandleKeeps ==
    ASSUME IInv, NEW s \in Sessions, NEW o,
           NEW what \in {"render", "click", "generate", "status"}, Handle(s, what),
           session' = [session EXCEPT ![s] = o], issued' = issued,
           Fine(o, call[s], good, issued), o.handle = session[s].handle,
           o.token = session[s].token,
           call[s].at = "answered",
           what # "status" => session[s].handle = 0
    PROVE  Consoles' /\ RegistryFits' /\ good' = good
<1>1. PICK d : /\ d.at \in {"answered", "revoke"} /\ d.what = what /\ d \in Call /\ d.new = 0
               /\ what = "status" => d.job \in {0, session[s].handle}
               /\ call' = [call EXCEPT ![s] = d]
  BY HandleEffect
<1>2. good' = good /\ RegistryFits'
  BY HandleEffect
<1>3. issued \in Nat
  BY SessionIsFine
<1>4. Fine(o, d, good, issued) /\ Owned(o, d) \subseteq Owned(o, call[s])
  BY <1>1, <1>3, AnswerFits
<1>5. Owned(o, call[s]) = Owned(session[s], call[s])
  BY DEF Owned
<1> QED
  BY <1>1, <1>2, <1>4, <1>5, SessionChanges

LEMMA ShownKeeps ==
    ASSUME IInv, NEW s \in Sessions, NEW b \in BOOLEAN
    PROVE  /\ Fine([session[s] EXCEPT !.shown = b], call[s], good, issued)
           /\ Owned([session[s] EXCEPT !.shown = b], call[s]) = Owned(session[s], call[s])
           /\ [session[s] EXCEPT !.shown = b].handle = session[s].handle
           /\ [session[s] EXCEPT !.shown = b].token = session[s].token
BY SessionIsFine DEF Fine, Typed, Counted, Follows, Usable, Owned, Session

LEMMA RenderKeeps == ASSUME IInv, NEW s \in Sessions, Render(s) PROVE Consoles' /\ RegistryFits'
<1> DEFINE o == [session[s] EXCEPT !.shown = TRUE]
<1>1. session' = [session EXCEPT ![s] = o] /\ issued' = issued
  BY DEF Render
<1>2. Fine(o, call[s], good, issued) /\ Owned(o, call[s]) = Owned(session[s], call[s])
      /\ o.handle = session[s].handle /\ o.token = session[s].token
  BY ShownKeeps
<1>3. call[s].at = "answered"
  BY SessionIsFine DEF Render, IsIdle, Fine, Follows
<1> HIDE DEF o
<1>4. CASE session[s].handle = 0
  <2>1. Handle(s, "render")
    BY <1>4 DEF Render
  <2> QED
    BY <1>1, <1>2, <1>3, <1>4, <2>1, HandleKeeps
<1>5. CASE session[s].handle # 0
  <2>1. call' = [call EXCEPT ![s] = call[s]] /\ good' = good /\ RegistryFits'
    BY <1>5, SameCall DEF Render, IInv, RegistryFits, registryVars
  <2> QED
    BY <1>1, <1>2, <2>1, SessionChanges
<1> QED
  BY <1>4, <1>5

LEMMA RenderLoginKeeps == ASSUME IInv, NEW s \in Sessions, RenderLogin(s) PROVE Consoles'
<1> DEFINE o == [session[s] EXCEPT !.shown = FALSE]
<1>1. session' = [session EXCEPT ![s] = o] /\ UNCHANGED <<good, issued>>
  BY DEF RenderLogin
<1>2. Fine(o, call[s], good, issued) /\ Owned(o, call[s]) = Owned(session[s], call[s])
  BY ShownKeeps
<1>3. call' = [call EXCEPT ![s] = call[s]]
  BY SameCall DEF RenderLogin
<1> HIDE DEF o
<1> QED
  BY <1>1, <1>2, <1>3, SessionChanges

LEMMA OnPageKeeps ==
    ASSUME IInv, NEW s \in Sessions, Click(s) \/ Poll(s) PROVE Consoles' /\ RegistryFits'
<1>1. session' = [session EXCEPT ![s] = session[s]] /\ issued' = issued
  BY DEF IInv, Shapes, Click, Poll, OnPage
<1>2. Fine(session[s], call[s], good, issued) /\ call[s].at = "answered"
  BY SessionIsFine DEF Click, Poll, OnPage, IsIdle, Fine, Follows
<1>3. CASE Click(s)
  <2>1. Handle(s, "click") /\ session[s].handle = 0
    BY <1>3 DEF Click
  <2> QED
    BY <1>1, <1>2, <2>1, HandleKeeps
<1>4. CASE Poll(s)
  <2>1. Handle(s, "status")
    BY <1>4 DEF Poll
  <2> QED
    BY <1>1, <1>2, <2>1, HandleKeeps
<1> QED
  BY <1>3, <1>4

LEMMA ReloadKeeps == ASSUME IInv, NEW s \in Sessions, Reload(s) PROVE Consoles'
<1>1. PICK cookie \in BOOLEAN : session' = [session EXCEPT ![s] = NewSession(cookie, 0)]
  BY DEF Reload
<1> DEFINE o == NewSession(cookie, 0)
<1>3. o \in Session /\ o.token = 0 /\ o.table = 0 /\ o.handle = 0
  BY ConsoleAssumption DEF Session, NewSession, ConsoleAssumption
<1>4. Idle \in Call /\ Idle.what = "none" /\ Idle.at = "answered" /\ Idle.new = 0
  BY ConsoleAssumption DEF Idle, Reply, Call, ConsoleAssumption
<1>5. call' = [call EXCEPT ![s] = Idle] /\ UNCHANGED <<good, issued>>
  BY DEF Reload
<1>6. issued \in Nat
  BY SessionIsFine
<1> HIDE DEF o
<1>7. Fine(o, Idle, good, issued) /\ Owned(o, Idle) = {}
  BY <1>3, <1>4, <1>6 DEF Fine, Typed, Counted, Follows, Usable, Owned
<1>8. session' = [session EXCEPT ![s] = o]
  BY <1>1 DEF o
<1> QED
  BY <1>5, <1>7, <1>8, SessionChanges

LEMMA MovesIs ==
    ASSUME IInv, NEW s \in Sessions, NEW at \in {"revoke", "save"}
    PROVE  /\ [call[s] EXCEPT !.at = at] \in Call
           /\ [call[s] EXCEPT !.at = at].at = at
           /\ [call[s] EXCEPT !.at = at].what = call[s].what
           /\ [call[s] EXCEPT !.at = at].job = call[s].job
           /\ [call[s] EXCEPT !.at = at].new = call[s].new
BY SessionIsFine DEF Call

LEMMA RevokeKeeps == ASSUME IInv, NEW s \in Sessions, Revoke(s) PROVE Consoles'
<1> DEFINE c == [call[s] EXCEPT !.at = "save"]
<1>1. /\ session' = [session EXCEPT ![s] = session[s]] /\ call' = [call EXCEPT ![s] = c]
      /\ good' = good \ {session[s].token} /\ issued' = issued
  BY DEF IInv, Shapes, Revoke, Revoked, Moves
<1>2. Fine(session[s], call[s], good, issued) /\ issued \in Nat /\ call[s].at = "revoke"
  BY SessionIsFine DEF Revoke
<1>3. /\ c \in Call /\ c.at = "save" /\ c.what = call[s].what
      /\ c.job = call[s].job /\ c.new = call[s].new
  BY MovesIs
<1> HIDE DEF c
<1>4. Fine(session[s], c, good', issued')
  <2>1. Typed(session[s], c) /\ Counted(session[s], c, issued')
    BY <1>1, <1>2, <1>3 DEF Fine, Typed, Counted
  <2>2. Follows(session[s], c) /\ Usable(session[s], c, good')
    BY <1>2, <1>3 DEF Fine, Follows, Usable
  <2> QED
    BY <2>1, <2>2 DEF Fine
<1>5. 0 \notin good
  BY DEF IInv, Counters
<1>6. good \ Owned(session[s], call[s]) \subseteq good'
  BY <1>1, <1>5 DEF Owned
<1>7. Owned(session[s], c) = Owned(session[s], call[s])
  BY <1>3 DEF Owned
<1>8. issued' \in Nat /\ issued <= issued'
  BY <1>1, <1>2
<1> QED
  BY <1>1, <1>4, <1>6, <1>7, <1>8, OneSession DEF IInv, Consoles

LEMMA SaveKeeps == ASSUME IInv, NEW s \in Sessions, Save(s) PROVE Consoles'
<1> DEFINE c == Granted(call[s].what, issued + 1)
<1>1. /\ session' = [session EXCEPT ![s] = session[s]] /\ call' = [call EXCEPT ![s] = c]
      /\ good' = good \cup {issued + 1} /\ issued' = issued + 1
  BY DEF IInv, Shapes, Save
<1>2. Fine(session[s], call[s], good, issued) /\ issued \in Nat /\ call[s] \in Call
      /\ session[s] \in Session /\ call[s].at = "save"
  BY SessionIsFine DEF Save
<1>3. /\ c \in Call /\ c.at = "renewed" /\ c.what = call[s].what
      /\ c.job = 0 /\ c.new = issued + 1
  BY <1>2, ConsoleAssumption DEF Call, Granted, ConsoleAssumption
<1> HIDE DEF c
<1>4. Fine(session[s], c, good', issued')
  <2>1. Typed(session[s], c)
    BY <1>2, <1>3 DEF Typed
  <2>2. session[s].token <= issued /\ session[s].token \in Nat
    BY <1>2 DEF Fine, Counted, Session
  <2>3. Counted(session[s], c, issued')
    BY <1>1, <1>2, <1>3, <2>2 DEF Counted
  <2>4. Follows(session[s], c) /\ Usable(session[s], c, good')
    BY <1>1, <1>2, <1>3 DEF Fine, Follows, Usable
  <2> QED
    BY <2>1, <2>3, <2>4 DEF Fine
<1>5. \A k \in Owned(session[s], c) : k \in Owned(session[s], call[s]) \/ k > issued
  BY <1>2, <1>3 DEF Owned
<1>6. issued' \in Nat /\ issued <= issued' /\ good \ Owned(session[s], call[s]) \subseteq good'
  BY <1>1, <1>2
<1> QED
  BY <1>1, <1>4, <1>5, <1>6, OneSession DEF IInv, Consoles

LEMMA RenewedKeeps ==
    ASSUME IInv, NEW s \in Sessions, Renewed(s) PROVE Consoles' /\ RegistryFits'
<1> DEFINE o == [session[s] EXCEPT !.access = TRUE, !.token = call[s].new]
           what == call[s].what
<1>1. session' = [session EXCEPT ![s] = o] /\ issued' = issued /\ Serve(s, what)
      /\ call[s].at = "renewed"
  BY DEF Renewed, NewToken
<1>2. PICK d : Fits(d, what, session[s].handle) /\ call' = [call EXCEPT ![s] = d]
  BY <1>1, ServeEffect
<1>3. good' = good /\ RegistryFits' /\ what \in {"render", "click", "generate", "status"}
  BY <1>1, ServeEffect
<1>4. Fine(session[s], call[s], good, issued) /\ issued \in Nat /\ call[s] \in Call
      /\ session[s] \in Session
  BY SessionIsFine
<1>5. /\ o \in Session /\ o.token = call[s].new /\ o.handle = session[s].handle
      /\ o.table = session[s].table /\ o.dropped = session[s].dropped
  BY <1>4 DEF Session, Call
<1> HIDE DEF o
<1>6. Typed(o, d) /\ Counted(o, d, issued)
  BY <1>2, <1>4, <1>5 DEF Fine, Typed, Counted, Fits
<1>7. Follows(o, d)
  BY <1>2, <1>3, <1>4, <1>5 DEF Fine, Follows, Fits
<1>8. Usable(o, d, good)
  BY <1>1, <1>2, <1>4, <1>5 DEF Fine, Usable, Fits
<1>9. Owned(o, d) \subseteq Owned(session[s], call[s])
  BY <1>2, <1>5 DEF Owned, Fits
<1> QED
  BY <1>1, <1>2, <1>3, <1>6, <1>7, <1>8, <1>9, SessionChanges DEF Fine

\* What an answer makes of a session that asked nothing else: it is idle again.
LEMMA IdleIs == Idle \in Call /\ Idle.what = "none" /\ Idle.at = "answered" /\ Idle.new = 0
BY ConsoleAssumption DEF Idle, Reply, Call, ConsoleAssumption

LEMMA GotKeeps ==
    ASSUME IInv, NEW s \in Sessions, NEW o, o \in Session,
           call[s].at = "answered",
           session' = [session EXCEPT ![s] = o], call' = [call EXCEPT ![s] = Idle],
           UNCHANGED <<good, issued>>,
           o.token = session[s].token, o.torn = session[s].torn,
           o.table \in {0, o.handle} \/ o.dropped
    PROVE  Consoles'
<1>1. Fine(session[s], call[s], good, issued) /\ issued \in Nat
  BY SessionIsFine
<1>2. Fine(o, Idle, good, issued)
  BY <1>1, IdleIs DEF Fine, Typed, Counted, Follows, Usable
<1>3. Owned(o, Idle) \subseteq Owned(session[s], call[s])
  BY IdleIs DEF Owned
<1> QED
  BY <1>2, <1>3, SessionChanges

LEMMA StatusKeeps ==
    ASSUME IInv, NEW s \in Sessions, call[s].at = "answered", GotStatus(s), issued' = issued
    PROVE  Consoles' /\ RegistryFits'
<1> DEFINE o == session[s]
<1>1. /\ call' = [call EXCEPT ![s] = Idle] /\ UNCHANGED <<good, issued>>
      /\ call[s].what = "status" /\ RegistryFits'
  BY DEF GotStatus, IInv, RegistryFits, registryVars
<1>2. /\ o \in Session /\ call[s].job \in {0, o.handle} /\ call[s].job \in 0..MaxJobs
      /\ o.table \in {0, o.handle} \/ o.dropped
  BY <1>1, SessionIsFine DEF Fine, Follows, Call
<1>3. 0 \in 0..MaxJobs
  BY ConsoleAssumption DEF ConsoleAssumption
<1> HIDE DEF o
<1>4. CASE session' = [session EXCEPT ![s] = Following(o, call[s].job)]
  <2> DEFINE p == Following(o, call[s].job)
  <2>1. /\ p \in Session /\ p.token = o.token /\ p.torn = o.torn
        /\ p.table \in {0, p.handle} \/ p.dropped
    BY <1>2, <1>3 DEF Following, Session
  <2> HIDE DEF p
  <2> QED
    BY <1>1, <1>4, <2>1, GotKeeps DEF o, p
<1>5. CASE session' = [session EXCEPT ![s] = Ended(o)]
  <2> DEFINE p == Ended(o)
  <2>1. /\ p \in Session /\ p.token = o.token /\ p.torn = o.torn
        /\ p.table \in {0, p.handle} \/ p.dropped
    BY <1>2, <1>3 DEF Ended, Session
  <2> HIDE DEF p
  <2> QED
    BY <1>1, <1>5, <2>1, GotKeeps DEF o, p
<1>6. CASE session' = [session EXCEPT ![s] = [o EXCEPT !.broken = TRUE]]
  <2> DEFINE p == [o EXCEPT !.broken = TRUE]
  <2>1. /\ p \in Session /\ p.token = o.token /\ p.torn = o.torn
        /\ p.table \in {0, p.handle} \/ p.dropped
    BY <1>2, <1>3 DEF Session
  <2> HIDE DEF p
  <2> QED
    BY <1>1, <1>6, <2>1, GotKeeps DEF o, p
<1>7. CASE session' = [session EXCEPT ![s] = Dropped(o)]
  <2> DEFINE p == Dropped(o)
  <2>1. /\ p \in Session /\ p.token = o.token /\ p.torn = o.torn
        /\ p.table \in {0, p.handle} \/ p.dropped
    BY <1>2, <1>3 DEF Dropped, Session
  <2> HIDE DEF p
  <2> QED
    BY <1>1, <1>7, <2>1, GotKeeps DEF o, p
<1> QED
  BY <1>1, <1>4, <1>5, <1>6, <1>7 DEF GotStatus, Becomes, o

LEMMA JobKeeps ==
    ASSUME IInv, NEW s \in Sessions, call[s].at = "answered", GotJob(s), issued' = issued
    PROVE  Consoles' /\ RegistryFits'
<1> DEFINE p == [session[s] EXCEPT !.handle = call[s].job]
<1>1. /\ call' = [call EXCEPT ![s] = Idle] /\ UNCHANGED <<good, issued>>
      /\ call[s].what \in {"render", "click", "generate"} /\ RegistryFits'
      /\ session' = [session EXCEPT ![s] = p]
  BY DEF GotJob, Becomes, IInv, RegistryFits, registryVars
<1>2. /\ session[s] \in Session /\ session[s].handle = 0 /\ call[s].job \in 0..MaxJobs
      /\ session[s].table = 0 \/ session[s].dropped
  BY <1>1, SessionIsFine DEF Fine, Follows, Call
<1>3. /\ p \in Session /\ p.token = session[s].token /\ p.torn = session[s].torn
      /\ p.table \in {0, p.handle} \/ p.dropped
  BY <1>2 DEF Session
<1> HIDE DEF p
<1> QED
  BY <1>1, <1>3, GotKeeps

LEMMA GenerateKeeps ==
    ASSUME IInv, NEW s \in Sessions, call[s].at = "answered", Generate(s), issued' = issued
    PROVE  Consoles' /\ RegistryFits'
<1>1. Handle(s, "generate") /\ call[s].what = "click" /\ session' = session
  BY DEF Generate, GotNoJob
<1>2. session' = [session EXCEPT ![s] = session[s]]
  BY <1>1 DEF IInv, Shapes
<1>3. Fine(session[s], call[s], good, issued) /\ session[s].handle = 0
  BY <1>1, SessionIsFine DEF Fine, Follows
<1> QED
  BY <1>1, <1>2, <1>3, HandleKeeps

-----------------------------------------------------------------------------
(* What goes wrong. *)

LEMMA BrokeIs ==
    ASSUME IInv, NEW s \in Sessions
    PROVE  /\ Broke(s) \in Call /\ Broke(s).at = "answered" /\ Broke(s).what = call[s].what
           /\ Broke(s).new = 0 /\ Broke(s).job = 0
BY SessionIsFine, ConsoleAssumption DEF Broke, Reply, Call, ConsoleAssumption

\* A call that is cut leaves its session fine: a refresh cut halfway marks it torn.
LEMMA CutFits ==
    ASSUME IInv, NEW s \in Sessions, NEW d, d \in {call[s], Broke(s)},
           call[s].at \notin {"save", "renewed"} \/ d = Broke(s)
    PROVE  LET o == [session[s] EXCEPT !.torn = Torn(s)]
           IN  Fine(o, d, good, issued) /\ Owned(o, d) \subseteq Owned(session[s], call[s])
<1> DEFINE o == [session[s] EXCEPT !.torn = Torn(s)]
<1>1. Fine(session[s], call[s], good, issued) /\ issued \in Nat
      /\ session[s] \in Session /\ call[s] \in Call
  BY SessionIsFine
<1>2. Torn(s) \in BOOLEAN
  BY <1>1 DEF Torn, Session
<1>3. /\ o \in Session /\ o.token = session[s].token /\ o.handle = session[s].handle
      /\ o.table = session[s].table /\ o.dropped = session[s].dropped /\ o.torn = Torn(s)
  BY <1>1, <1>2 DEF Session
<1> HIDE DEF o
<1>4. CASE d = Broke(s)
  <2>1. Typed(o, d) /\ Counted(o, d, issued) /\ Follows(o, d)
    BY <1>1, <1>3, <1>4, BrokeIs DEF Fine, Typed, Counted, Follows
  <2>2. Usable(o, d, good)
    BY <1>1, <1>3, <1>4, BrokeIs DEF Fine, Usable, Torn
  <2>3. Owned(o, d) \subseteq Owned(session[s], call[s])
    BY <1>3, <1>4, BrokeIs DEF Owned
  <2> QED
    BY <2>1, <2>2, <2>3 DEF Fine, o
<1>5. CASE d = call[s] /\ call[s].at \notin {"save", "renewed"}
  <2>1. Typed(o, d) /\ Counted(o, d, issued) /\ Follows(o, d)
    BY <1>1, <1>3, <1>5 DEF Fine, Typed, Counted, Follows
  <2>2. Usable(o, d, good)
    BY <1>1, <1>3, <1>5 DEF Fine, Usable, Torn
  <2>3. Owned(o, d) \subseteq Owned(session[s], call[s])
    BY <1>3, <1>5 DEF Owned
  <2> QED
    BY <2>1, <2>2, <2>3 DEF Fine, o
<1> QED
  BY <1>4, <1>5

LEMMA LoseKeeps == ASSUME IInv, NEW s \in Sessions, Lose(s) PROVE Consoles'
<1> DEFINE o == [session[s] EXCEPT !.torn = Torn(s)]
<1>1. /\ session' = [session EXCEPT ![s] = o] /\ call' = [call EXCEPT ![s] = Broke(s)]
      /\ UNCHANGED <<good, issued>>
  BY DEF Lose
<1>2. Fine(o, Broke(s), good, issued) /\ Owned(o, Broke(s)) \subseteq Owned(session[s], call[s])
  BY CutFits
<1> HIDE DEF o
<1> QED
  BY <1>1, <1>2, SessionChanges

LEMMA ExpireKeeps == ASSUME IInv, NEW s \in Sessions, Expire(s) PROVE Consoles'
<1> DEFINE o == [session[s] EXCEPT !.access = FALSE]
<1>1. /\ session' = [session EXCEPT ![s] = o] /\ call' = [call EXCEPT ![s] = call[s]]
      /\ UNCHANGED <<good, issued>>
  BY SameCall DEF Expire
<1>2. Fine(o, call[s], good, issued) /\ Owned(o, call[s]) = Owned(session[s], call[s])
  BY SessionIsFine DEF Fine, Typed, Counted, Follows, Usable, Owned, Session
<1> HIDE DEF o
<1> QED
  BY <1>1, <1>2, SessionChanges

LEMMA RestartKeeps == IInv /\ Restart => Consoles' /\ RegistryFits'
<1> SUFFICES ASSUME IInv, Restart PROVE Consoles' /\ RegistryFits'
  OBVIOUS
<1> DEFINE o(s) == [session[s] EXCEPT !.torn = Torn(s)]
           d(s) == IF IsIdle(s) THEN Idle ELSE Broke(s)
<1>1. /\ session' = [s \in Sessions |-> o(s)] /\ call' = [s \in Sessions |-> d(s)]
      /\ UNCHANGED <<good, issued>> /\ RegistryFits'
  BY DEF Restart, IInv, RegistryFits
<1>2. ASSUME NEW s \in Sessions
      PROVE  Fine(o(s), d(s), good, issued) /\ Owned(o(s), d(s)) \subseteq Owned(session[s], call[s])
  <2>1. CASE ~IsIdle(s)
    BY <2>1, CutFits
  <2>2. CASE IsIdle(s)
    <3>1. call[s].at = "answered"
      BY <2>2, SessionIsFine DEF IsIdle, Fine, Follows
    <3>2. Fine(o(s), call[s], good, issued) /\ Owned(o(s), call[s]) \subseteq Owned(session[s], call[s])
      BY <3>1, CutFits
    <3>3. issued \in Nat
      BY SessionIsFine
    <3> HIDE DEF o
    <3>4. Fine(o(s), Idle, good, issued) /\ Owned(o(s), Idle) \subseteq Owned(o(s), call[s])
      BY <3>1, <3>2, <3>3, IdleIs DEF Fine, Typed, Counted, Follows, Usable, Owned
    <3> QED
      BY <2>2, <3>2, <3>4
  <2> QED
    BY <2>1, <2>2
<1> HIDE DEF o, d
<1>3. Shapes'
  BY <1>1 DEF Shapes
<1>4. Sessional'
  BY <1>1, <1>2 DEF Sessional
<1>5. Apart'
  BY <1>1, <1>2 DEF Apart, IInv
<1> QED
  BY <1>1, <1>3, <1>4, <1>5 DEF Consoles

-----------------------------------------------------------------------------
(* The invariant. *)

LEMMA InitFine == ConsoleInit => IInv
<1> SUFFICES ASSUME ConsoleInit PROVE IInv
  OBVIOUS
<1> USE ConsoleAssumption DEF ConsoleAssumption
<1>1. Shapes
  BY DEF ConsoleInit, Shapes
<1> DEFINE o == NewSession(FALSE, 0)
<1>2. o \in Session /\ o.token = 0 /\ o.table = 0
  BY DEF NewSession, Session
<1>3. \A s \in Sessions : session[s] = o /\ call[s] = Idle
  BY DEF ConsoleInit
<1> HIDE DEF o
<1>4. issued = 0 /\ good = {} /\ logins = 0 /\ trouble = 0
  BY DEF ConsoleInit
<1>5. Sessional
  <2>1. Typed(o, Idle) /\ Counted(o, Idle, 0)
    BY <1>2, IdleIs, SMT DEF Typed, Counted
  <2>2. Follows(o, Idle) /\ Usable(o, Idle, {})
    BY <1>2, IdleIs DEF Follows, Usable
  <2> QED
    BY <1>3, <1>4, <2>1, <2>2, Zenon DEF Sessional, Fine
<1>6. Apart
  BY <1>2, <1>3, IdleIs DEF Apart, Owned
<1>7. RegistryFits
  BY DEF ConsoleInit, RegistryInit, RegistryFits
<1>8. Counters
  BY <1>4 DEF Counters
<1> QED
  BY <1>1, <1>5, <1>6, <1>7, <1>8 DEF IInv

\* The counters and the registry, for the steps that do not ask the registry.
LEMMA CountersKeep == IInv /\ [ConsoleNext]_vars => Counters'
<1> SUFFICES ASSUME IInv, [ConsoleNext]_vars PROVE Counters'
  OBVIOUS
<1> USE ConsoleAssumption DEF ConsoleAssumption
<1>1. Counters
  BY DEF IInv
<1>2. logins' \in 0..MaxLogins /\ trouble' \in 0..MaxTrouble
  <2>1. CASE UNCHANGED <<logins, trouble>>
    BY <1>1, <2>1 DEF Counters
  <2>2. CASE Trouble /\ logins' = logins
    BY <1>1, <2>2 DEF Counters, Trouble
  <2>3. ASSUME NEW s \in Sessions, Login(s) PROVE logins' \in 0..MaxLogins /\ trouble' = trouble
    BY <1>1, <2>3 DEF Counters, Login
  <2>4. ASSUME NEW s \in Sessions, Render(s) \/ RenderLogin(s) \/ Click(s) \/ Poll(s) \/ CallStep(s)
        PROVE  UNCHANGED <<logins, trouble>>
    <3>1. CASE Render(s) \/ RenderLogin(s)
      BY <3>1 DEF Render, RenderLogin
    <3>2. CASE Click(s) \/ Poll(s)
      BY <3>2 DEF Click, Poll, OnPage
    <3>3. CASE CallStep(s)
      BY <3>3 DEF CallStep, Revoke, Save, Renewed, Got
    <3> QED
      BY <2>4, <3>1, <3>2, <3>3
  <2>5. ASSUME NEW s \in Sessions, Reload(s) \/ Lose(s) \/ Expire(s) PROVE Trouble /\ logins' = logins
    BY <2>5 DEF Reload, Lose, Expire
  <2>6. CASE Restart
    BY <2>2, <2>6 DEF Restart
  <2>7. CASE JobEnds \/ UNCHANGED vars
    BY <2>1, <2>7 DEF JobEnds, consoleVars, vars
  <2> QED
    BY <1>1, <2>1, <2>2, <2>3, <2>4, <2>5, <2>6, <2>7 DEF ConsoleNext, Page, Counters
<1>3. issued' \in Nat /\ good' \subseteq 1..issued'
  <2>1. CASE UNCHANGED <<good, issued>>
    BY <1>1, <2>1 DEF Counters
  <2>2. CASE issued' = issued + 1 /\ good' = good \cup {issued + 1}
    BY <1>1, <2>2 DEF Counters
  <2>3. CASE issued' = issued /\ good' \subseteq good
    BY <1>1, <2>3 DEF Counters
  <2>4. ASSUME NEW s \in Sessions, NEW what, Handle(s, what) PROVE good' = good
    BY <2>4 DEF Handle, Serve, Refuse
  <2>5. ASSUME NEW s \in Sessions, Page(s)
        PROVE  UNCHANGED <<good, issued>> \/ (issued' = issued + 1 /\ good' = good \cup {issued + 1})
    <3>1. CASE Login(s)
      BY <3>1 DEF Login
    <3>2. CASE Render(s)
      BY <2>4, <3>2 DEF Render
    <3>3. CASE RenderLogin(s) \/ Reload(s)
      BY <3>3 DEF RenderLogin, Reload
    <3>4. CASE Click(s) \/ Poll(s)
      BY <2>4, <3>4 DEF Click, Poll, OnPage
    <3> QED
      BY <2>5, <3>1, <3>2, <3>3, <3>4 DEF Page
  <2>6. ASSUME NEW s \in Sessions, Revoke(s) PROVE issued' = issued /\ good' \subseteq good
    BY <2>6 DEF Revoke
  <2>7. ASSUME NEW s \in Sessions, Save(s)
        PROVE  issued' = issued + 1 /\ good' = good \cup {issued + 1}
    BY <2>7 DEF Save
  <2>8. ASSUME NEW s \in Sessions, Renewed(s) \/ Got(s) PROVE UNCHANGED <<good, issued>>
    BY <2>4, <2>8 DEF Renewed, Serve, Got, GotStatus, GotJob, Generate
  <2>9. ASSUME NEW s \in Sessions, Lose(s) \/ Expire(s) PROVE UNCHANGED <<good, issued>>
    BY <2>9 DEF Lose, Expire
  <2>10. CASE JobEnds \/ Restart \/ UNCHANGED vars
    BY <2>1, <2>10 DEF JobEnds, Restart, consoleVars, vars
  <2> QED
    BY <2>1, <2>2, <2>3, <2>5, <2>6, <2>7, <2>8, <2>9, <2>10 DEF ConsoleNext, CallStep
<1> QED
  BY <1>2, <1>3 DEF Counters

LEMMA SameRegistry == IInv /\ UNCHANGED registryVars => RegistryFits'
BY DEF IInv, RegistryFits, registryVars

LEMMA SameConsoles == IInv /\ UNCHANGED consoleVars => Consoles'
BY DEF IInv, Consoles, consoleVars, Shapes, Sessional, Apart

LEMMA Inductive == IInv /\ [ConsoleNext]_vars => IInv'
<1> SUFFICES ASSUME IInv, [ConsoleNext]_vars PROVE Consoles' /\ RegistryFits'
  BY CountersKeep DEF IInv, Consoles
<1>1. CASE JobEnds
  <2>1. RegistryFits'
    BY <1>1 DEF JobEnds, End, IInv, RegistryFits
  <2> QED
    BY <1>1, <2>1, SameConsoles DEF JobEnds
<1>2. CASE Restart
  BY <1>2, RestartKeeps
<1>3. ASSUME NEW s \in Sessions, Page(s) PROVE Consoles' /\ RegistryFits'
  <2>1. CASE Login(s)
    BY <2>1, LoginKeeps, SameRegistry DEF Login
  <2>2. CASE Render(s)
    BY <2>2, RenderKeeps
  <2>3. CASE RenderLogin(s)
    BY <2>3, RenderLoginKeeps, SameRegistry DEF RenderLogin
  <2>4. CASE Click(s) \/ Poll(s)
    BY <2>4, OnPageKeeps
  <2>5. CASE Reload(s)
    BY <2>5, ReloadKeeps, SameRegistry DEF Reload
  <2> QED
    BY <1>3, <2>1, <2>2, <2>3, <2>4, <2>5 DEF Page
<1>4. ASSUME NEW s \in Sessions, CallStep(s) PROVE Consoles' /\ RegistryFits'
  <2>1. CASE Revoke(s)
    BY <2>1, RevokeKeeps, SameRegistry DEF Revoke
  <2>2. CASE Save(s)
    BY <2>2, SaveKeeps, SameRegistry DEF Save
  <2>3. CASE Renewed(s)
    BY <2>3, RenewedKeeps
  <2>4. CASE Got(s)
    <3>1. call[s].at = "answered" /\ issued' = issued
      BY <2>4 DEF Got
    <3> QED
      BY <2>4, <3>1, StatusKeeps, JobKeeps, GenerateKeeps DEF Got
  <2> QED
    BY <1>4, <2>1, <2>2, <2>3, <2>4 DEF CallStep
<1>5. ASSUME NEW s \in Sessions, Lose(s) PROVE Consoles' /\ RegistryFits'
  BY <1>5, LoseKeeps, SameRegistry DEF Lose
<1>6. ASSUME NEW s \in Sessions, Expire(s) PROVE Consoles' /\ RegistryFits'
  BY <1>6, ExpireKeeps, SameRegistry DEF Expire
<1>7. CASE UNCHANGED vars
  <2>1. UNCHANGED consoleVars /\ UNCHANGED registryVars
    BY <1>7 DEF vars
  <2> QED
    BY <2>1, SameConsoles, SameRegistry
<1> QED
  BY <1>1, <1>2, <1>3, <1>4, <1>5, <1>6, <1>7 DEF ConsoleNext

LEMMA Invariant == ConsoleSpec => []IInv
<1> QED
  BY InitFine, Inductive, PTL DEF ConsoleSpec

\* Every variable of the console keeps its type, and no token is held that was not
\* handed out, for any sessions.
THEOREM ConsoleTypeCorrect == ConsoleSpec => []ConsoleTypeOK
<1> QED
  BY Invariant, InvTypes, PTL

\* Whatever other sessions refresh, log in, reload or lose, and whenever the server
\* restarts, a session whose own refresh was never cut holds a token that is valid.
THEOREM SessionsKept == ConsoleSpec => []SessionKept
<1> QED
  BY Invariant, InvKept, PTL

\* A page never shows the live outcomes of a job other than the one it follows, if
\* its user never dropped a handle by hand.
THEOREM TablesCurrent == ConsoleSpec => []TableIsCurrent
<1> QED
  BY Invariant, InvCurrent, PTL
=============================================================================
