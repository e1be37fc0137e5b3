---------------------------- MODULE PanelSession ----------------------------
(***************************************************************************)
(* One browser and its session (App.tsx): the `me` query that decides      *)
(* between the sign-in screen and the dashboard, the sign-in and sign-out  *)
(* mutations, and the polls of the dashboard, a 401 of which signs it out  *)
(* (zomboid-auth-expired).  Every request carries the cookie of the moment *)
(* it was sent in, and its answer may come late.                           *)
(***************************************************************************)
EXTENDS LoginLimiter

CONSTANTS
  Page,                          \* the slot of the browser's login mutation
  MaxTime, MaxPasswords, MaxSessions, MaxFaults   \* bounds

ASSUME PageAssumption == Page \in Slots /\ {MaxTime, MaxPasswords, MaxSessions, MaxFaults} \subseteq Nat

VARIABLES
  cookie,     \* the session the browser's cookie is for, or 0
  view,       \* "closed", "checking", "sign in" or "dashboard"
  me,         \* the `me` query: its state and the cookie it was sent with
  poll,       \* a poll of the dashboard, likewise
  out,        \* the sign-out mutation, likewise
  faults      \* requests that failed, restarts of the API

pageVars == <<cookie, view, me, poll, out, faults>>
vars == <<limiterVars, pageVars>>

Quiet == [state |-> "no", cookie |-> 0]
Ask == [state |-> "asked", cookie |-> cookie]

\* The page is opened, with a session or without.
Init ==
  /\ LimiterInit
  /\ cookie \in {0, 1} /\ issued = cookie
  /\ sessions = IF cookie = 0 THEN {} ELSE {[no |-> 1, expires |-> TTL]}
  /\ \/ view = "checking" /\ me = Ask
     \/ view = "closed" /\ me = Quiet /\ cookie = 0
  /\ poll = Quiet /\ out = Quiet /\ faults = 0

TypeOK ==
  /\ LimiterTypeOK
  /\ cookie \in 0 .. issued
  /\ view \in {"closed", "checking", "sign in", "dashboard"}
  /\ \A request \in {me, poll, out} :
       request \in [state : {"no", "asked", "yes", "401", "error"}, cookie : Nat]
  /\ faults \in 0 .. MaxFaults

\* currentUser
Valid(n) == \E x \in sessions : x.no = n /\ x.expires > clock

Fault == faults < MaxFaults /\ faults' = faults + 1

-----------------------------------------------------------------------------
(* The API *)

\* What a GET is answered, after its session is looked up.
Serve(request, r) ==
  /\ request.state = "asked"
  /\ \/ r = (IF Valid(request.cookie) THEN "yes" ELSE "401") /\ UNCHANGED faults
     \/ r = "error" /\ Fault

MeServed ==
  \E r \in {"yes", "401", "error"} :
    /\ Serve(me, r)
    /\ me' = [me EXCEPT !.state = r]
    /\ UNCHANGED <<limiterVars, cookie, view, poll, out>>

PollServed ==
  \E r \in {"yes", "401", "error"} :
    /\ Serve(poll, r)
    /\ poll' = [poll EXCEPT !.state = r]
    /\ UNCHANGED <<limiterVars, cookie, view, me, out>>

OutServed ==
  /\ out.state = "asked"
  /\ \/ /\ sessions' = {x \in sessions : x.no # out.cookie}
        /\ \/ out' = [out EXCEPT !.state = "yes"] /\ UNCHANGED faults
           \/ out' = Quiet /\ Fault   \* the answer is lost
     \/ out' = Quiet /\ Fault /\ UNCHANGED sessions
  /\ UNCHANGED <<clock, password, clients, account, logins, issued, guesses, failed,
                 cookie, view, me, poll>>

\* Logins of others, from anywhere, while the browser is closed: the maps they
\* share with its own logins are followed in one case, its views in the other.
Others ==
  /\ view = "closed"
  /\ \E s \in Slots :
       \/ \E c \in Clients, typed \in {0, password} : Check(s, c, typed)
       \/ Select(s) \/ VerifyFails(s) \/ VerifyPasses(s) \/ Elsewhere(s)
  /\ UNCHANGED pageVars

OwnLogin ==
  /\ view # "closed"
  /\ Select(Page) \/ VerifyFails(Page) \/ VerifyPasses(Page) \/ (issued < MaxSessions /\ Insert(Page))
  /\ UNCHANGED pageVars

\* The API restarts: its maps are lost, and the logins under way.
Restart ==
  /\ Fault
  /\ clients' = [c \in Clients |-> Fresh] /\ account' = Fresh
  /\ logins' = [s \in Slots |-> [logins[s] EXCEPT !.at = Free]]
  /\ guesses' = {} /\ failed' = 0
  /\ UNCHANGED <<clock, password, sessions, issued, cookie, view, me, poll, out>>

Time ==
  \/ clock < MaxTime /\ Tick /\ UNCHANGED pageVars
  \/ view # "closed" /\ password < MaxPasswords /\ Rotate /\ UNCHANGED pageVars

-----------------------------------------------------------------------------
(* The browser *)

\* The window is focused again.
Focus ==
  /\ view # "closed"
  /\ me.state = "no"
  /\ me' = Ask
  /\ UNCHANGED <<limiterVars, cookie, view, poll, out, faults>>

\* An error keeps what was known: nobody, at first.
MeArrives ==
  /\ me.state \notin {"no", "asked"}
  /\ view' = CASE me.state = "yes" -> "dashboard"
               [] me.state = "401" -> "sign in"
               [] OTHER -> IF view = "checking" THEN "sign in" ELSE view
  /\ me' = Quiet
  /\ UNCHANGED <<limiterVars, cookie, poll, out, faults>>

SignIn ==
  /\ view = "sign in"
  /\ Check(Page, logins[Page].by, password)   \* always from the same address
  /\ UNCHANGED pageVars

\* The answer sets the cookie, and the mutation the user; or it is lost.
SignedIn ==
  /\ Answered(Page)
  /\ \/ cookie' = logins[Page].at.session /\ view' = "dashboard" /\ UNCHANGED faults
     \/ Fault /\ UNCHANGED <<cookie, view>>
  /\ UNCHANGED <<me, poll, out>>

\* Status, capabilities, operations and the audit trail are polled.
Poll ==
  /\ view = "dashboard"
  /\ poll.state = "no"
  /\ poll' = Ask
  /\ UNCHANGED <<limiterVars, cookie, view, me, out, faults>>

\* Mutant of PollArrives: the page shows an error, and no event is dispatched.
PollArrivesUnnoticed ==
  /\ poll.state \notin {"no", "asked"}
  /\ poll' = Quiet
  /\ UNCHANGED <<limiterVars, cookie, view, me, out, faults>>

\* throwApiError and the listener of the dashboard, which is gone with it.
PollArrives ==
  /\ poll.state \notin {"no", "asked"}
  /\ view' = IF poll.state = "401" /\ view = "dashboard" THEN "sign in" ELSE view
  /\ poll' = Quiet
  /\ UNCHANGED <<limiterVars, cookie, me, out, faults>>

SignOut ==
  /\ view = "dashboard"
  /\ out.state = "no"
  /\ out' = Ask
  /\ UNCHANGED <<limiterVars, cookie, view, me, poll, faults>>

\* Mutant of SignedOut: the `me` query is not cancelled.
SignedOutOnly ==
  /\ out.state = "yes"
  /\ cookie' = 0
  /\ view' = "sign in"
  /\ out' = Quiet
  /\ UNCHANGED <<limiterVars, me, poll, faults>>

\* The answer clears the cookie, and the page all its queries, which cancels `me`;
\* an answer to a poll still dispatches its event.
SignedOut ==
  /\ out.state = "yes"
  /\ cookie' = 0
  /\ view' = "sign in"
  /\ me' = Quiet
  /\ out' = Quiet
  /\ UNCHANGED <<limiterVars, poll, faults>>

-----------------------------------------------------------------------------

Server == MeServed \/ PollServed \/ OutServed \/ Others \/ OwnLogin \/ Restart \/ Time
Browser == Focus \/ MeArrives \/ SignIn \/ SignedIn \/ Poll \/ PollArrives \/ SignOut \/ SignedOut

Next == Server \/ Browser

Spec == Init /\ [][Next]_vars

\* The dashboard polls while its window is in the foreground, and is answered.
FairSpec ==
  /\ Spec
  /\ WF_vars(Poll) /\ WF_vars(PollServed) /\ WF_vars(PollArrives)

-----------------------------------------------------------------------------

\* A dashboard whose session has expired or was revoked, by time, rotation or a
\* sign-out in the same browser, does not stay: the sign-in screen comes back.
ExpiredIsNoticed == [](view = "dashboard" => <>(Valid(cookie) \/ view # "dashboard"))

\* A sign-out holds: once its answer is there, no late answer brings the dashboard
\* back before somebody has signed in again.
SignOutHolds == view = "dashboard" => cookie # 0
=============================================================================
