---------------------------- MODULE LeadConsole ----------------------------
(***************************************************************************)
(* Browser sessions of the Streamlit console following the manual lead     *)
(* jobs: the Generate button and the status fragment (ui/app.py), the API  *)
(* client with its retry after a token refresh (ui/api_client.py), the     *)
(* endpoints they call (app/api/trade_api.py, app/api/auth_api.py) and the *)
(* refresh tokens (app/auth.py).  The jobs are those of JobRegistry, which *)
(* LeadJobs implements; the Stop button changes nothing a session keeps    *)
(* and is in LeadJobs.                                                     *)
(*                                                                         *)
(* A session runs one script at a time and waits for each request, so it   *)
(* has at most one call in flight.  While it waits it does nothing, so a   *)
(* call is sent in the step that handles it; its answer may come much      *)
(* later, or never.  The server handles a call in one step, except a token *)
(* refresh, which revokes and inserts in two transactions.  Jobs live in   *)
(* the server's memory, tokens in the database.  Job ids are never reused: *)
(* submitted goes on across restarts.                                      *)
(***************************************************************************)
EXTENDS JobRegistry

CONSTANTS Sessions,      \* browser sessions
          MaxTrouble,    \* bound on lost messages, expiries, reloads and restarts
          MaxLogins      \* bound on logins

ASSUME ConsoleAssumption == MaxJobs \in Nat /\ MaxTrouble \in Nat /\ MaxLogins \in Nat

VARIABLES session,   \* session[s]: st.session_state, and what its page shows
          call,      \* call[s]: the API call of session s in flight
          good,      \* the refresh tokens in the database that are not revoked
          issued,    \* refresh tokens handed out so far; tokens are numbered
          logins,    \* logins so far
          trouble    \* losses, expiries, reloads and restarts so far

consoleVars == <<session, call, good, issued, logins, trouble>>
vars == <<registryVars, consoleVars>>

Session == [handle: 0..MaxJobs,      \* "lead_job", 0 for no such key
            table: 0..MaxJobs,       \* job whose outcomes "_latest_outcomes_cache" holds
            broken: BOOLEAN,         \* the last poll failed: "Drop job handle" is offered
            shown: BOOLEAN,          \* the page, not the login form
            access: BOOLEAN,         \* its access JWT verifies
            token: Nat,                  \* its refresh token, 0 for none
            torn: BOOLEAN,           \* (ghost) a refresh of its token was cut halfway
            dropped: BOOLEAN]        \* (ghost) the user once dropped the handle
NewSession(access, token) ==
    [handle |-> 0, table |-> 0, broken |-> FALSE, shown |-> FALSE,
     access |-> access, token |-> token, torn |-> FALSE, dropped |-> FALSE]

\* What a call asks for, how far it is, and what came back.  "click" is the
\* render after a click on Generate, which looks for a running job first.
Call == [what: {"none", "render", "click", "generate", "status"},
         at: {"revoke", "save", "renewed", "answered"},
         answer: {"ok", "running", "ended", "error"},
         job: 0..MaxJobs,
         new: Nat]                   \* the token a refresh made for it, 0 before

Reply(what, answer, job) ==
    [what |-> what, at |-> "answered", answer |-> answer, job |-> job, new |-> 0]
Idle == Reply("none", "ok", 0)

ConsoleInit ==
    /\ RegistryInit
    /\ session = [s \in Sessions |-> NewSession(FALSE, 0)]
    /\ call = [s \in Sessions |-> Idle]
    /\ good = {}
    /\ issued = 0
    /\ logins = 0
    /\ trouble = 0

IsIdle(s) == call[s].what = "none"
Moves(s, at) == call' = [call EXCEPT ![s].at = at]
Trouble == trouble < MaxTrouble /\ trouble' = trouble + 1

-----------------------------------------------------------------------------
(* The server *)

Replies(s, what, answer, job) == call' = [call EXCEPT ![s] = Reply(what, answer, job)]

\* The endpoints, once jwt_required has let the call through.
ServeActive(s, what) ==
    /\ what \in {"render", "click"}
    /\ \/ \E j \in working : Replies(s, what, "ok", j)
       \/ working = {} /\ Replies(s, what, "ok", 0)
    /\ UNCHANGED registryVars
ServeGenerate(s, what) ==
    /\ what = "generate"
    /\ \/ Accept /\ Replies(s, what, "ok", submitted + 1)
       \/ working # {} /\ Replies(s, what, "error", 0) /\ UNCHANGED registryVars
       \/ submitted = MaxJobs /\ Replies(s, what, "error", 0) /\ UNCHANGED registryVars
\* _on_progress: a job starts with no outcomes and shows its own.
Outcomes(j) == {0, j}
ServeStatus(s, what) ==
    /\ what = "status"
    /\ LET j == session[s].handle
       IN  \/ j \in working /\ \E outcomes \in Outcomes(j) : Replies(s, what, "running", outcomes)
           \/ j \in known \ working /\ Replies(s, what, "ended", j)
           \/ j \notin known /\ Replies(s, what, "error", 0)
    /\ UNCHANGED registryVars
Serve(s, what) ==
    /\ ServeActive(s, what) \/ ServeGenerate(s, what) \/ ServeStatus(s, what)
    /\ UNCHANGED good

\* 401, and _raw asks for new tokens with its refresh token, if it has one.
FindValidRefresh(s) == session[s].token \in good
Refuse(s, what) ==
    /\ ~session[s].access
    /\ IF FindValidRefresh(s)
         THEN call' = [call EXCEPT ![s] = [Reply(what, "ok", 0) EXCEPT !.at = "revoke"]]
         ELSE Replies(s, what, "error", 0)
    /\ UNCHANGED <<good, registryVars>>
Handle(s, what) ==
    \/ session[s].access /\ Serve(s, what)
    \/ Refuse(s, what)

\* rotate_refresh: the old token is revoked, then the new one saved.
EveryToken(s) == good
Revoked(s) == {session[s].token}
Revoke(s) ==
    /\ call[s].at = "revoke"
    /\ good' = good \ Revoked(s)
    /\ Moves(s, "save")
    /\ UNCHANGED <<session, issued, logins, trouble, registryVars>>
Granted(what, token) ==
    [what |-> what, at |-> "renewed", answer |-> "ok", job |-> 0, new |-> token]
Save(s) ==
    /\ call[s].at = "save"
    /\ issued' = issued + 1
    /\ good' = good \cup {issued + 1}
    /\ call' = [call EXCEPT ![s] = Granted(call[s].what, issued + 1)]
    /\ UNCHANGED <<session, logins, trouble, registryVars>>

-----------------------------------------------------------------------------
(* The page *)

\* The SSO callback and the bootstrap exchange: a new session with its tokens.
Login(s) ==
    /\ IsIdle(s) /\ ~session[s].shown /\ ~session[s].access
    /\ logins < MaxLogins
    /\ logins' = logins + 1
    /\ issued' = issued + 1
    /\ good' = good \cup {issued + 1}
    /\ session' = [session EXCEPT ![s] = NewSession(TRUE, issued + 1)]
    /\ UNCHANGED <<call, trouble, registryVars>>

\* main: is_authenticated, then the Generate button, which asks for a running
\* job when the session has no handle.
Render(s) ==
    /\ IsIdle(s) /\ session[s].access
    /\ session' = [session EXCEPT ![s].shown = TRUE]
    /\ IF session[s].handle = 0 THEN Handle(s, "render") ELSE UNCHANGED <<call, good, registryVars>>
    /\ UNCHANGED <<issued, logins, trouble>>

\* main, when the access token has expired: is_authenticated asks /api/auth/status,
\* which answers without a 401, so no refresh is tried.
RenderLogin(s) ==
    /\ IsIdle(s) /\ session[s].shown /\ ~session[s].access
    /\ session' = [session EXCEPT ![s].shown = FALSE]
    /\ UNCHANGED <<call, good, issued, logins, trouble, registryVars>>

\* A click on Generate, and the fragment's poll.
OnPage(s) == IsIdle(s) /\ session[s].shown /\ UNCHANGED <<session, issued, logins, trouble>>
Click(s) == OnPage(s) /\ session[s].access /\ session[s].handle = 0 /\ Handle(s, "click")
Poll(s) == OnPage(s) /\ session[s].handle # 0 /\ Handle(s, "status")

\* A browser refresh: session_state is gone, only the access cookie may be left.
\* What was in flight is answered to nobody.
Reload(s) ==
    /\ Trouble
    /\ call[s].at = "answered"
    /\ \E cookie \in BOOLEAN : session' = [session EXCEPT ![s] = NewSession(cookie, 0)]
    /\ call' = [call EXCEPT ![s] = Idle]
    /\ UNCHANGED <<good, issued, logins, registryVars>>

-----------------------------------------------------------------------------
(* Answers *)

\* set_tokens, and the call is sent once more, now with a token that verifies.
NextToken(s) == issued + 1
NewToken(s) == call[s].new
Renewed(s) ==
    /\ call[s].at = "renewed"
    /\ session' = [session EXCEPT ![s] = [@ EXCEPT !.access = TRUE, !.token = NewToken(s)]]
    /\ Serve(s, call[s].what)
    /\ UNCHANGED <<issued, logins, trouble>>

\* What the fragment makes of a status, what _recover_in_flight_lead_job and the
\* Generate button make of their answers.  A poll that fails keeps the handle;
\* "Drop job handle", offered after one that failed, polls once more and drops it.
HandleKept(o) == [o EXCEPT !.table = 0, !.broken = FALSE]
TableKept(o) == [o EXCEPT !.handle = 0, !.broken = FALSE]
Following(o, job) == [o EXCEPT !.table = IF job = 0 THEN @ ELSE job, !.broken = FALSE]
Ended(o) == [o EXCEPT !.handle = 0, !.table = 0, !.broken = FALSE]
Dropped(o) == [o EXCEPT !.handle = 0, !.broken = FALSE, !.dropped = TRUE]
Becomes(s, o) == session' = [session EXCEPT ![s] = o]
GotStatus(s) ==
    /\ call[s].what = "status"
    /\ LET o == session[s]
           answer == call[s].answer
       IN  \/ answer = "running" /\ Becomes(s, Following(o, call[s].job))
           \/ answer = "ended" /\ Becomes(s, Ended(o))
           \/ answer = "error" /\ Becomes(s, [o EXCEPT !.broken = TRUE])
           \/ answer = "error" /\ o.broken /\ Becomes(s, Dropped(o))
    /\ call' = [call EXCEPT ![s] = Idle]
    /\ UNCHANGED <<good, registryVars>>
\* No running job was found, or none could be asked for.
GotNoJob(s) == call[s].what = "click" /\ call[s].job = 0
GotJob(s) ==
    /\ call[s].what \in {"render", "click", "generate"} /\ ~GotNoJob(s)
    /\ Becomes(s, [session[s] EXCEPT !.handle = call[s].job])
    /\ call' = [call EXCEPT ![s] = Idle]
    /\ UNCHANGED <<good, registryVars>>
Generate(s) ==
    /\ GotNoJob(s)
    /\ Handle(s, "generate")
    /\ UNCHANGED session
Got(s) ==
    /\ call[s].at = "answered"
    /\ GotStatus(s) \/ GotJob(s) \/ Generate(s)
    /\ UNCHANGED <<issued, logins, trouble>>

-----------------------------------------------------------------------------
(* What goes wrong *)

\* The session's token may no longer be the database's: the server has made
\* another, or was about to.
Torn(s) == session[s].torn \/ call[s].at \in {"save", "renewed"}
Broke(s) == Reply(call[s].what, "error", 0)

\* An answer is lost, or that of the refresh in the middle of a call.  (A request
\* that is lost is one the session never sent, or a poll whose answer is lost.)
Lose(s) ==
    /\ ~IsIdle(s) /\ call[s].at \in {"renewed", "answered"}
    /\ Trouble
    /\ session' = [session EXCEPT ![s].torn = Torn(s)]
    /\ call' = [call EXCEPT ![s] = Broke(s)]
    /\ UNCHANGED <<good, issued, logins, registryVars>>

\* The access token's time, or its day, is over.
Expire(s) ==
    /\ session[s].access
    /\ Trouble
    /\ session' = [session EXCEPT ![s].access = FALSE]
    /\ UNCHANGED <<call, good, issued, logins, registryVars>>

\* The server restarts: the registry is gone, the tokens are not.
Restart ==
    /\ Trouble
    /\ known' = {}
    /\ working' = {}
    /\ call' = [s \in Sessions |-> IF IsIdle(s) THEN Idle ELSE Broke(s)]
    /\ session' = [s \in Sessions |-> [session[s] EXCEPT !.torn = Torn(s)]]
    /\ UNCHANGED <<submitted, good, issued, logins>>

\* A job ends whatever the consoles do.
JobEnds == End /\ UNCHANGED consoleVars

Page(s) == Login(s) \/ Render(s) \/ RenderLogin(s) \/ Click(s) \/ Poll(s) \/ Reload(s)
CallStep(s) == Revoke(s) \/ Save(s) \/ Renewed(s) \/ Got(s)

ConsoleNext ==
    \/ JobEnds \/ Restart
    \/ \E s \in Sessions : Page(s) \/ CallStep(s) \/ Lose(s) \/ Expire(s)

\* The fragment polls every two seconds, the server answers or the client's timeout
\* does, and LeadJobs ends its jobs.
ConsoleSpec ==
    /\ ConsoleInit /\ [][ConsoleNext]_vars
    /\ \A s \in Sessions : WF_vars(Poll(s) \/ CallStep(s))
    /\ WF_vars(JobEnds)

-----------------------------------------------------------------------------
(* Properties *)

\* Every variable of the console has its type.
ConsoleTypeOK ==
    /\ session \in [Sessions -> Session]
    /\ call \in [Sessions -> Call]
    /\ issued \in Nat /\ good \subseteq 1..issued
    /\ \A s \in Sessions : session[s].token <= issued /\ call[s].new <= issued
    /\ known \subseteq 1..submitted /\ working \subseteq known /\ submitted \in 0..MaxJobs
    /\ logins \in 0..MaxLogins /\ trouble \in 0..MaxTrouble

\* A session that nobody cut in the middle of a refresh can always refresh again:
\* no refresh, login or reload of any session revokes the token another one holds.
SessionKept ==
    \A s \in Sessions : session[s].token # 0 /\ call[s].at \notin {"save", "renewed"} =>
        session[s].token \in good \/ session[s].torn

\* The outcomes a page shows live are those of the job it follows, never those of
\* a job before it, unless the user dropped the handle by hand.
TableIsCurrent ==
    \A s \in Sessions : session[s].table \in {0, session[s].handle} \/ session[s].dropped

\* Generate is not disabled for ever: a page that follows a job stops following it,
\* unless it shows the login form, its login is over, or the server has forgotten
\* the job, which a page never finds out by itself.
CannotAsk(s) == ~session[s].shown \/ (~session[s].access /\ session[s].token \notin good)
GenerateComesBack ==
    \A s \in Sessions :
        session[s].handle # 0 ~> session[s].handle \notin known \/ CannotAsk(s)
=============================================================================
