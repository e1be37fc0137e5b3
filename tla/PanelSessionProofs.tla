------------------------- MODULE PanelSessionProofs -------------------------
(***************************************************************************)
(* Theorems about LoginLimiter and PanelSession: for any number of         *)
(* clients, logins under way, limits and times, the wrong passwords of a   *)
(* client stay bounded and a sign-out holds.                               *)
(***************************************************************************)
EXTENDS PanelSession, FiniteSetTheorems, TLAPS

Numbered(n) == [no : 1 .. n, expires : Nat]

\* Sessions have numbers from 1 on; a login that is done has one of them.
SessionsInv ==
  /\ sessions \subseteq Numbered(issued)
  /\ \A s \in Slots : logins[s].at.stage = "done" => logins[s].at.session \in 1 .. issued

TypeInv == TypeOK /\ SessionsInv

Requests == [state : {"no", "asked", "yes", "401", "error"}, cookie : Nat]

\* TypeOK with its quantifier over the three requests written out.
LEMMA Types ==
  TypeOK <=> /\ LimiterTypeOK
             /\ cookie \in 0 .. issued
             /\ view \in {"closed", "checking", "sign in", "dashboard"}
             /\ me \in Requests /\ poll \in Requests /\ out \in Requests
             /\ faults \in 0 .. MaxFaults
BY DEF TypeOK, Requests

LEMMA LoginTypes == Free \in Login
BY DEF Free, Login

LEMMA InitTypes == Init => TypeInv
<1> SUFFICES ASSUME Init PROVE TypeInv
  OBVIOUS
<1> USE LimiterAssumption, PageAssumption DEF Init, LimiterInit
<1>1. (CHOOSE c \in Clients : TRUE) \in Clients
  OBVIOUS
<1>2. issued \in {0, 1} /\ issued = cookie
  OBVIOUS
<1>3. sessions \subseteq Numbered(issued) /\ sessions \subseteq [no : Nat, expires : Nat]
  BY <1>2 DEF Numbered
<1>4. logins \in [Slots -> [by : Clients, at : Login]]
  BY <1>1, LoginTypes
<1>5. LimiterTypeOK
  BY <1>2, <1>3, <1>4 DEF LimiterTypeOK, Fresh, Entry
<1>6. me \in Requests /\ poll \in Requests /\ out \in Requests
  BY <1>2 DEF Requests, Quiet, Ask
<1>7. SessionsInv
  BY <1>3 DEF SessionsInv, Free
<1>8. cookie \in 0 .. issued
  BY <1>2
<1>10. view \in {"closed", "checking", "sign in", "dashboard"}
  OBVIOUS
<1>9. faults \in 0 .. MaxFaults
  <2>1. MaxFaults \in Nat
    BY PageAssumption
  <2> QED
    BY <2>1
<1> QED
  BY <1>5, <1>6, <1>7, <1>8, <1>9, <1>10, Types DEF TypeInv

-----------------------------------------------------------------------------
(* The types of the limiter *)

LimiterOK == LimiterTypeOK /\ SessionsInv

LEMMA EntryTypes ==
  ASSUME LimiterTypeOK, NEW e \in Entry, NEW limit \in Nat
  PROVE  Pruned(e) \in Entry /\ Recorded(e, limit) \in Entry /\ Fresh \in Entry
BY LimiterAssumption DEF LimiterTypeOK, Entry, Pruned, Recorded, Fresh

\* A login that moves to another stage, or starts, keeps the types.
LEMMA Moves ==
  ASSUME LimiterTypeOK, NEW s \in Slots, NEW l \in Login, NEW c \in Clients
  PROVE  /\ [logins EXCEPT ![s].at = l] \in [Slots -> [by : Clients, at : Login]]
         /\ [logins EXCEPT ![s] = [by |-> c, at |-> l]] \in [Slots -> [by : Clients, at : Login]]
BY DEF LimiterTypeOK

LEMMA CheckTypes ==
  ASSUME LimiterOK, NEW s \in Slots, NEW c \in Clients, NEW typed \in Nat, Check(s, c, typed)
  PROVE  LimiterOK'
<1> DEFINE started == [Free EXCEPT !.stage = "select", !.typed = typed]
<1> USE DEF LimiterOK
<1>1. started \in Login
  BY DEF Free, Login
<1>2. clients' \in [Clients -> Entry] /\ account' \in Entry
  BY EntryTypes, LimiterAssumption DEF Check, LimiterTypeOK
<1>3. logins' \in [Slots -> [by : Clients, at : Login]]
  BY <1>1, Moves DEF Check, LimiterTypeOK
<1>4. \A t \in Slots : logins'[t].at.stage = "done" => logins'[t] = logins[t]
  BY DEF Check, LimiterTypeOK, Free
<1> QED
  BY <1>2, <1>3, <1>4 DEF Check, LimiterTypeOK, SessionsInv

LEMMA StageTypes ==
  ASSUME LimiterOK, NEW s \in Slots, Select(s) \/ VerifyPasses(s) \/ Answered(s) \/ Elsewhere(s)
  PROVE  LimiterOK'
<1> USE DEF LimiterOK
<1>1. logins' \in [Slots -> [by : Clients, at : Login]]
  BY LoginTypes DEF LimiterTypeOK, Login, Free, Select, VerifyPasses, Answered, Elsewhere
<1>2. \A t \in Slots : logins'[t].at.stage = "done" => logins'[t] = logins[t]
  BY DEF LimiterTypeOK, Login, Free, Select, VerifyPasses, Answered, Elsewhere
<1>3. sessions' \subseteq sessions
  BY DEF Select, VerifyPasses, Answered, Elsewhere
<1>4. account' \in Entry
  BY EntryTypes, LimiterAssumption DEF LimiterTypeOK, Select, VerifyPasses, Answered, Elsewhere
<1>5. UNCHANGED <<clock, password, clients, issued, guesses, failed>>
  BY DEF Select, VerifyPasses, Answered, Elsewhere
<1> QED
  BY <1>1, <1>2, <1>3, <1>4, <1>5 DEF LimiterTypeOK, SessionsInv

LEMMA FailTypes ==
  ASSUME LimiterOK, NEW s \in Slots, VerifyFails(s)
  PROVE  LimiterOK'
<1> USE DEF LimiterOK
<1>1. logins' \in [Slots -> [by : Clients, at : Login]]
  BY LoginTypes, Moves DEF LimiterTypeOK, VerifyFails
<1>2. \A t \in Slots : logins'[t].at.stage = "done" => logins'[t] = logins[t]
  BY DEF LimiterTypeOK, VerifyFails, Free
<1>3. logins[s].by \in Clients
  BY DEF LimiterTypeOK
<1>4. clients' \in [Clients -> Entry] /\ account' \in Entry
  BY <1>3, EntryTypes, LimiterAssumption DEF LimiterTypeOK, VerifyFails
<1>5. guesses' \subseteq Guess /\ failed' \in Nat
  BY <1>3 DEF LimiterTypeOK, VerifyFails, Guess
<1> QED
  BY <1>1, <1>2, <1>4, <1>5 DEF LimiterTypeOK, SessionsInv, VerifyFails

LEMMA InsertTypes ==
  ASSUME LimiterOK, NEW s \in Slots, Insert(s)
  PROVE  LimiterOK' /\ issued <= issued'
<1> USE DEF LimiterOK
<1>1. CASE UNCHANGED <<issued, sessions>> /\ logins' = [logins EXCEPT ![s].at = Free]
  <2>1. logins' \in [Slots -> [by : Clients, at : Login]]
    BY <1>1, LoginTypes, Moves DEF LimiterTypeOK
  <2>2. \A t \in Slots : logins'[t].at.stage = "done" => logins'[t] = logins[t]
    BY <1>1 DEF LimiterTypeOK, Free
  <2> QED
    <3>1. SessionsInv'
      BY <1>1, <2>2 DEF SessionsInv
    <3> QED
      BY <1>1, <2>1, <3>1 DEF LimiterTypeOK, Insert
<1>2. CASE /\ issued' = issued + 1
           /\ sessions' = sessions \cup {[no |-> issued', expires |-> clock + TTL]}
           /\ logins' = [logins EXCEPT ![s].at = [@ EXCEPT !.stage = "done", !.session = issued']]
  <2> DEFINE l == [logins[s].at EXCEPT !.stage = "done", !.session = issued']
  <2>1. logins' \in [Slots -> [by : Clients, at : Login]]
    <3>1. logins[s].at \in Login /\ issued' \in Nat
      BY <1>2 DEF LimiterTypeOK
    <3>2. l \in Login
      BY <3>1 DEF Login
    <3>3. logins' = [logins EXCEPT ![s].at = l]
      BY <1>2
    <3> HIDE DEF l
    <3> QED
      BY <3>2, <3>3 DEF LimiterTypeOK
  <2>2. \A t \in Slots : logins'[t].at.stage = "done" =>
           logins'[t] = logins[t] \/ logins'[t].at.session = issued'
    BY <1>2 DEF LimiterTypeOK, Login
  <2>3. sessions' \subseteq Numbered(issued') /\ sessions' \subseteq [no : Nat, expires : Nat]
    BY <1>2, LimiterAssumption DEF LimiterTypeOK, SessionsInv, Numbered
  <2>4. SessionsInv'
    <3>1. issued' \in 1 .. issued' /\ 1 .. issued \subseteq 1 .. issued'
      BY <1>2 DEF LimiterTypeOK
    <3> QED
      BY <2>2, <2>3, <3>1 DEF SessionsInv
  <2> QED
    BY <1>2, <2>1, <2>3, <2>4 DEF LimiterTypeOK, Insert
<1> QED
  BY <1>1, <1>2 DEF Insert

LEMMA TimeTypes ==
  ASSUME LimiterOK, Tick \/ Rotate
  PROVE  LimiterOK'
<1> USE DEF LimiterOK
<1>1. CASE Tick
  BY <1>1 DEF Tick, LimiterTypeOK, SessionsInv
<1>2. CASE Rotate
  BY <1>2 DEF Rotate, LimiterTypeOK, SessionsInv
<1> QED
  BY <1>1, <1>2

LEMMA RestartTypes ==
  ASSUME LimiterOK, Restart
  PROVE  LimiterOK'
<1> USE DEF LimiterOK
<1>1. logins' \in [Slots -> [by : Clients, at : Login]]
  BY LoginTypes DEF LimiterTypeOK, Restart
<1>2. \A t \in Slots : logins'[t].at.stage # "done"
  BY DEF LimiterTypeOK, Restart, Free
<1>3. clients' \in [Clients -> Entry] /\ account' \in Entry
  BY DEF Restart, Fresh, Entry
<1> QED
  BY <1>1, <1>2, <1>3 DEF LimiterTypeOK, SessionsInv, Restart

-----------------------------------------------------------------------------
(* The types of the page *)

PageOK ==
  /\ cookie \in 0 .. issued
  /\ view \in {"closed", "checking", "sign in", "dashboard"}
  /\ me \in Requests /\ poll \in Requests /\ out \in Requests
  /\ faults \in 0 .. MaxFaults

LEMMA Parts == TypeInv <=> LimiterOK /\ PageOK
BY Types DEF TypeInv, LimiterOK, PageOK

LEMMA PartsNext == TypeInv' <=> LimiterOK' /\ PageOK'
<1>1. TypeOK' <=> /\ LimiterTypeOK'
                  /\ cookie' \in 0 .. issued'
                  /\ view' \in {"closed", "checking", "sign in", "dashboard"}
                  /\ me' \in Requests /\ poll' \in Requests /\ out' \in Requests
                  /\ faults' \in 0 .. MaxFaults
  BY DEF TypeOK, Requests
<1> QED
  BY <1>1 DEF TypeInv, LimiterOK, PageOK

\* A step that leaves the limiter alone keeps its types.
LEMMA LimiterStays ==
  ASSUME LimiterOK, UNCHANGED limiterVars
  PROVE  LimiterOK'
BY DEF LimiterOK, LimiterTypeOK, SessionsInv, limiterVars

\* A step that leaves the page alone does so too, whatever is issued.
LEMMA PageStays ==
  ASSUME LimiterOK, LimiterOK', PageOK, UNCHANGED pageVars, issued <= issued'
  PROVE  PageOK'
<1>1. issued \in Nat /\ issued' \in Nat
  BY DEF LimiterOK, LimiterTypeOK
<1>2. cookie \in 0 .. issued /\ cookie' = cookie
  BY DEF PageOK, pageVars
<1>3. cookie' \in 0 .. issued'
  BY <1>1, <1>2
<1> QED
  BY <1>3 DEF PageOK, pageVars

LEMMA FaultTypes ==
  ASSUME PageOK, Fault \/ UNCHANGED faults
  PROVE  faults' \in 0 .. MaxFaults
<1>1. faults \in 0 .. MaxFaults /\ MaxFaults \in Nat
  BY PageAssumption DEF PageOK
<1> QED
  BY <1>1 DEF Fault

\* What a request becomes.
LEMMA RequestTypes ==
  ASSUME LimiterOK, PageOK
  PROVE  /\ Quiet \in Requests /\ Ask \in Requests
         /\ \A request \in Requests, r \in {"yes", "401", "error"} :
              [request EXCEPT !.state = r] \in Requests
<1>1. Quiet \in Requests
  BY DEF Quiet, Requests
<1>2. cookie \in Nat
  <2>1. cookie \in 0 .. issued /\ issued \in Nat
    BY DEF LimiterOK, LimiterTypeOK, PageOK
  <2> QED
    BY <2>1
<1>3. Ask \in Requests
  BY <1>2 DEF Ask, Requests
<1>4. ASSUME NEW request \in Requests, NEW r \in {"yes", "401", "error"}
      PROVE  [request EXCEPT !.state = r] \in Requests
  BY DEF Requests
<1> QED
  BY <1>1, <1>3, <1>4

\* One login of anybody that is checked, followed, answered or let go.
LoginStep(s) ==
  \/ \E c \in Clients, typed \in {0, password} : Check(s, c, typed)
  \/ Select(s) \/ VerifyFails(s) \/ VerifyPasses(s) \/ Insert(s) \/ Answered(s) \/ Elsewhere(s)

LEMMA LoginStepTypes ==
  ASSUME LimiterOK, NEW s \in Slots, LoginStep(s)
  PROVE  LimiterOK' /\ issued <= issued'
<1>1. issued \in Nat /\ {0, password} \subseteq Nat
  BY DEF LimiterOK, LimiterTypeOK
<1>2. ASSUME NEW c \in Clients, NEW typed \in {0, password}, Check(s, c, typed)
      PROVE  LimiterOK' /\ issued' = issued
  BY <1>1, <1>2, CheckTypes DEF Check
<1>3. CASE Select(s) \/ VerifyPasses(s) \/ Answered(s) \/ Elsewhere(s)
  <2>1. issued' = issued
    BY <1>3 DEF Select, VerifyPasses, Answered, Elsewhere
  <2> QED
    BY <1>1, <1>3, <2>1, StageTypes
<1>4. CASE VerifyFails(s)
  <2>1. issued' = issued
    BY <1>4 DEF VerifyFails
  <2> QED
    BY <1>1, <1>4, <2>1, FailTypes
<1>5. CASE Insert(s)
  BY <1>5, InsertTypes
<1> QED
  BY <1>1, <1>2, <1>3, <1>4, <1>5 DEF LoginStep

LEMMA LoginsAreSteps ==
  ASSUME LimiterOK, Others \/ OwnLogin \/ SignIn
  PROVE  (\E s \in Slots : LoginStep(s)) /\ UNCHANGED pageVars
<1>1. Page \in Slots
  BY PageAssumption
<1>2. logins[Page].by \in Clients
  BY <1>1 DEF LimiterOK, LimiterTypeOK
<1> QED
  BY <1>1, <1>2 DEF Others, OwnLogin, SignIn, LoginStep

LEMMA NextTypes ==
  ASSUME TypeInv, [Next]_vars
  PROVE  TypeInv'
<1> USE Parts, PartsNext
<1>0. LimiterOK /\ PageOK /\ issued \in Nat
  BY DEF LimiterOK, LimiterTypeOK
<1>1. CASE Others \/ OwnLogin \/ SignIn
  <2>1. PICK s \in Slots : LoginStep(s)
    BY <1>0, <1>1, LoginsAreSteps
  <2> QED
    BY <1>0, <1>1, <2>1, LoginsAreSteps, LoginStepTypes, PageStays
<1>2. CASE MeServed \/ PollServed \/ Focus \/ MeArrives \/ Poll \/ PollArrives \/ SignOut
  <2>1. LimiterOK' /\ UNCHANGED <<cookie, issued>>
    BY <1>0, <1>2, LimiterStays
    DEF MeServed, PollServed, Focus, MeArrives, Poll, PollArrives, SignOut, limiterVars
  <2>2. me' \in Requests /\ poll' \in Requests /\ out' \in Requests
    <3>1. CASE MeServed
      <4>1. PICK r \in {"yes", "401", "error"} : me' = [me EXCEPT !.state = r]
        BY <3>1 DEF MeServed
      <4>2. UNCHANGED <<poll, out>>
        BY <3>1 DEF MeServed
      <4> QED
        BY <1>0, <4>1, <4>2, RequestTypes DEF PageOK
    <3>2. CASE PollServed
      <4>1. PICK r \in {"yes", "401", "error"} : poll' = [poll EXCEPT !.state = r]
        BY <3>2 DEF PollServed
      <4>2. UNCHANGED <<me, out>>
        BY <3>2 DEF PollServed
      <4> QED
        BY <1>0, <4>1, <4>2, RequestTypes DEF PageOK
    <3>3. CASE Focus \/ MeArrives \/ Poll \/ PollArrives \/ SignOut
      <4>1. /\ me' \in {me, Quiet, Ask} /\ poll' \in {poll, Quiet, Ask}
            /\ out' \in {out, Quiet, Ask}
        BY <3>3 DEF Focus, MeArrives, Poll, PollArrives, SignOut
      <4> QED
        BY <1>0, <4>1, RequestTypes DEF PageOK
    <3> QED
      BY <1>2, <3>1, <3>2, <3>3
  <2>3. faults' \in 0 .. MaxFaults
    BY <1>0, <1>2, FaultTypes
    DEF MeServed, PollServed, Focus, MeArrives, Poll, PollArrives, SignOut, Serve
  <2>4. view' \in {"closed", "checking", "sign in", "dashboard"}
    BY <1>0, <1>2 DEF MeServed, PollServed, Focus, MeArrives, Poll, PollArrives, SignOut, PageOK
  <2> QED
    BY <1>0, <2>1, <2>2, <2>3, <2>4 DEF PageOK
<1>3. CASE OutServed
  <2>1. LimiterOK'
    BY <1>0, <1>3 DEF OutServed, LimiterOK, LimiterTypeOK, SessionsInv
  <2>2. out' \in Requests
    BY <1>0, <1>3, RequestTypes DEF OutServed, PageOK
  <2> QED
    BY <1>0, <1>3, <2>1, <2>2, FaultTypes DEF OutServed, PageOK
<1>4. CASE Restart
  BY <1>0, <1>4, RestartTypes, FaultTypes DEF Restart, PageOK
<1>5. CASE Time
  <2>1. LimiterOK' /\ issued' = issued /\ UNCHANGED pageVars
    BY <1>0, <1>5, TimeTypes DEF Time, Tick, Rotate
  <2> QED
    BY <1>0, <2>1, PageStays
<1>6. CASE SignedIn
  <2>1. Page \in Slots /\ Answered(Page)
    BY <1>6, PageAssumption DEF SignedIn
  <2>2. LimiterOK' /\ issued' = issued
    BY <1>0, <2>1, StageTypes DEF Answered
  <2>3. logins[Page].at.session \in 1 .. issued
    BY <1>0, <2>1 DEF Answered, LimiterOK, SessionsInv
  <2>4. cookie' \in 0 .. issued'
    <3>1. cookie' = logins[Page].at.session \/ cookie' = cookie
      BY <1>6 DEF SignedIn
    <3>2. cookie \in 0 .. issued
      BY <1>0 DEF PageOK
    <3> QED
      BY <1>0, <2>2, <2>3, <3>1, <3>2
  <2>5. faults' \in 0 .. MaxFaults
    <3>1. Fault \/ UNCHANGED faults
      BY <1>6 DEF SignedIn
    <3> QED
      BY <1>0, <3>1, FaultTypes
  <2> QED
    BY <1>0, <1>6, <2>2, <2>4, <2>5 DEF SignedIn, PageOK
<1>7. CASE SignedOut
  <2>1. LimiterOK' /\ issued' = issued
    BY <1>0, <1>7, LimiterStays DEF SignedOut, limiterVars
  <2>2. 0 \in 0 .. issued
    BY <1>0
  <2> QED
    BY <1>0, <1>7, <2>1, <2>2, RequestTypes DEF SignedOut, PageOK
<1>8. CASE UNCHANGED vars
  BY <1>0, <1>8, LimiterStays, PageStays DEF vars, limiterVars
<1> QED
  BY <1>1, <1>2, <1>3, <1>4, <1>5, <1>6, <1>7, <1>8 DEF Next, Server, Browser

\* Every state has the types the modules state, and the sessions it speaks of
\* were issued.
THEOREM TypeCorrect == Spec => []TypeOK
<1>1. Init => TypeInv
  BY InitTypes
<1>2. TypeInv /\ [Next]_vars => TypeInv'
  BY NextTypes
<1>3. TypeInv => TypeOK
  BY DEF TypeInv
<1> QED
  BY <1>1, <1>2, <1>3, PTL DEF Spec

-----------------------------------------------------------------------------
(* A sign-out holds *)

\* A `me` query that was answered with the session it asked for was sent with a
\* cookie; it is cancelled when the cookie goes.
CookieInv ==
  /\ me.state = "yes" => me.cookie # 0
  /\ me.state \in {"asked", "yes"} /\ me.cookie # 0 => cookie # 0
  /\ SignOutHolds

LEMMA CookieInit == Init => CookieInv
BY DEF Init, CookieInv, SignOutHolds, Ask, Quiet

LEMMA CookieNext ==
  ASSUME TypeInv, CookieInv, [Next]_vars
  PROVE  CookieInv'
<1> USE Parts DEF CookieInv, SignOutHolds
<1>0. LimiterOK /\ PageOK
  OBVIOUS
<1>1. CASE UNCHANGED <<me, cookie, view>>
  BY <1>1
<1>2. CASE MeServed
  <2>1. Valid(me.cookie) => me.cookie # 0
    BY <1>0 DEF Valid, LimiterOK, SessionsInv, Numbered
  <2> QED
    BY <1>0, <1>2, <2>1 DEF MeServed, Serve, PageOK, Requests
<1>3. CASE Focus
  BY <1>0, <1>3 DEF Focus, Ask, PageOK, Requests
<1>4. CASE MeArrives
  BY <1>0, <1>4 DEF MeArrives, Quiet, PageOK, Requests
<1>5. CASE SignedIn
  <2>1. Page \in Slots /\ logins[Page].at.session \in 1 .. issued
    BY <1>0, <1>5, PageAssumption DEF SignedIn, Answered, LimiterOK, SessionsInv
  <2>2. logins[Page].at.session # 0
    BY <2>1
  <2> QED
    BY <1>5, <2>2 DEF SignedIn
<1>6. CASE PollArrives
  BY <1>6 DEF PollArrives
<1>7. CASE SignedOut
  BY <1>7 DEF SignedOut, Quiet
<1>8. CASE Others \/ OwnLogin \/ SignIn \/ Time \/ PollServed \/ OutServed \/ Restart \/ Poll \/ SignOut
  <2>1. UNCHANGED <<me, cookie, view>>
    BY <1>8 DEF Others, OwnLogin, SignIn, Time, PollServed, OutServed, Restart, Poll, SignOut, pageVars
  <2> QED
    BY <1>1, <2>1
<1>9. CASE UNCHANGED vars
  BY <1>1, <1>9 DEF vars, pageVars
<1> QED
  BY <1>2, <1>3, <1>4, <1>5, <1>6, <1>7, <1>8, <1>9 DEF Next, Server, Browser

\* Whatever answers are late, the dashboard is only there with a session's cookie:
\* a sign-out is never undone by an answer to a request sent before it.
THEOREM SignOutIsFinal == Spec => []SignOutHolds
<1>1. Init => TypeInv /\ CookieInv
  BY InitTypes, CookieInit
<1>2. TypeInv /\ CookieInv /\ [Next]_vars => TypeInv' /\ CookieInv'
  BY NextTypes, CookieNext
<1>3. CookieInv => SignOutHolds
  BY DEF CookieInv
<1> QED
  BY <1>1, <1>2, <1>3, PTL DEF Spec

-----------------------------------------------------------------------------
(* Wrong passwords are bounded *)

Wrong(c) == {g \in guesses : g.by = c}

\* Recent: a guess that is remembered is no older than its client's last failure
\* and younger than the lockout.
Recent ==
  /\ IsFiniteSet(guesses)
  /\ \A g \in guesses : g.at <= clock /\ g.at > clock - Lockout /\ g.at <= clients[g.by].last

\* Counted: the entry of a client counts its recent guesses, and is locked for the
\* lockout from the last one on once it has counted enough.
Counted(c) ==
  /\ Cardinality(Wrong(c)) <= clients[c].failures
  /\ clients[c].failures >= ClientLimit => clients[c].lockedUntil = clients[c].last + Lockout

\* Room: a login under way has the place its failure would take.
Room(c) == Cardinality(Wrong(c)) + Cardinality(Underway(c)) <= ClientLimit - 1 + Cardinality(Slots)

BoundInv == Recent /\ \A c \in Clients : Counted(c) /\ Room(c)

LEMMA Limits == /\ ClientLimit \in Nat /\ ClientLimit >= 1 /\ Lockout \in Nat /\ Lockout >= 1
                /\ IsFiniteSet(Slots) /\ Cardinality(Slots) \in Nat
BY LimiterAssumption, FS_CardinalityType

LEMMA Finite ==
  ASSUME IsFiniteSet(guesses), NEW c \in Clients
  PROVE  /\ IsFiniteSet(Wrong(c)) /\ Cardinality(Wrong(c)) \in Nat
         /\ IsFiniteSet(Underway(c)) /\ Cardinality(Underway(c)) \in Nat
         /\ Cardinality(Underway(c)) <= Cardinality(Slots)
<1>1. Wrong(c) \subseteq guesses /\ Underway(c) \subseteq Slots
  BY DEF Wrong, Underway
<1>2. IsFiniteSet(Wrong(c)) /\ IsFiniteSet(Underway(c))
  BY <1>1, Limits, FS_Subset
<1>3. Cardinality(Underway(c)) <= Cardinality(Slots)
  BY <1>1, Limits, FS_Subset
<1> QED
  BY <1>2, <1>3, FS_CardinalityType

LEMMA NoneWrong ==
  ASSUME NEW c \in Clients, Wrong(c) = {}
  PROVE  Cardinality(Wrong(c)) = 0
BY FS_EmptySet

\* A client whose last failure is a lockout ago has no recent guess.
LEMMA Forgotten ==
  ASSUME LimiterTypeOK, Recent, NEW c \in Clients, clients[c].last + Lockout <= clock
  PROVE  Cardinality(Wrong(c)) = 0
<1>1. \A g \in Wrong(c) : FALSE
  BY Limits DEF LimiterTypeOK, Recent, Wrong, Guess, Entry
<1> QED
  BY <1>1, NoneWrong

LEMMA BoundInit == Init => BoundInv
<1> SUFFICES ASSUME Init PROVE BoundInv
  OBVIOUS
<1>1. guesses = {} /\ IsFiniteSet(guesses)
  BY FS_EmptySet DEF Init, LimiterInit
<1>2. Recent
  BY <1>1 DEF Recent
<1>3. ASSUME NEW c \in Clients PROVE Counted(c) /\ Room(c)
  <2>1. Cardinality(Wrong(c)) = 0
    BY <1>1, NoneWrong DEF Wrong
  <2>2. clients[c] = Fresh
    BY DEF Init, LimiterInit
  <2>3. Underway(c) = {} /\ Cardinality(Underway(c)) = 0
    BY FS_EmptySet DEF Underway, Init, LimiterInit, Free
  <2> QED
    BY <2>1, <2>2, <2>3, Limits DEF Counted, Room, Fresh
<1> QED
  BY <1>2, <1>3 DEF BoundInv

\* Logins that only leave, or stay where they are, and guesses that are only
\* forgotten keep the room.
LEMMA RoomKept ==
  ASSUME Recent, NEW c \in Clients, Room(c), guesses' \subseteq guesses,
         Underway(c)' \subseteq Underway(c)
  PROVE  Room(c)' /\ IsFiniteSet(guesses') /\ Cardinality(Wrong(c)') <= Cardinality(Wrong(c))
                  /\ Cardinality(Wrong(c)') \in Nat
<1>1. IsFiniteSet(guesses) /\ IsFiniteSet(guesses')
  BY FS_Subset DEF Recent
<1>2. Wrong(c)' \subseteq Wrong(c)
  BY DEF Wrong
<1>3. /\ Cardinality(Wrong(c)') <= Cardinality(Wrong(c)) /\ Cardinality(Wrong(c)') \in Nat
      /\ Cardinality(Wrong(c)) \in Nat
  BY <1>1, <1>2, Finite, FS_Subset, FS_CardinalityType
<1>4. /\ Cardinality(Underway(c)') <= Cardinality(Underway(c)) /\ Cardinality(Underway(c)') \in Nat
      /\ Cardinality(Underway(c)) \in Nat
  BY <1>1, Finite, FS_Subset, FS_CardinalityType
<1> QED
  BY <1>1, <1>3, <1>4, Limits DEF Room

LEMMA UnderwayStays ==
  ASSUME LimiterTypeOK, NEW s \in Slots, NEW d \in Clients,
         Select(s) \/ VerifyFails(s) \/ VerifyPasses(s) \/ Insert(s) \/ Answered(s) \/ Elsewhere(s)
  PROVE  Underway(d)' \subseteq Underway(d)
<1>1. logins' \in [Slots -> [by : Clients, at : Login]] \/ DOMAIN logins' = Slots
  BY DEF LimiterTypeOK, Select, VerifyFails, VerifyPasses, Insert, Answered, Elsewhere
<1>2. logins[s].at \in Login /\ logins[s] \in [by : Clients, at : Login]
  BY DEF LimiterTypeOK
<1>3. \A t \in Slots : t # s => logins'[t] = logins[t]
  BY DEF LimiterTypeOK, Select, VerifyFails, VerifyPasses, Insert, Answered, Elsewhere
<1>4. logins'[s].at.stage \in {"select", "verify"} =>
        logins'[s].by = logins[s].by /\ logins[s].at.stage \in {"select", "verify"}
  <2>1. CASE Select(s) \/ VerifyPasses(s) \/ Answered(s) \/ Elsewhere(s)
    BY <1>2, <2>1 DEF LimiterTypeOK, Login, Free, Select, VerifyPasses, Answered, Elsewhere
  <2>2. CASE VerifyFails(s)
    BY <1>2, <2>2 DEF LimiterTypeOK, Login, Free, VerifyFails
  <2>3. CASE Insert(s)
    <3> DEFINE l == [logins[s].at EXCEPT !.stage = "done", !.session = issued']
    <3>1. l.stage = "done"
      BY <1>2 DEF Login
    <3> HIDE DEF l
    <3>2. CASE logins' = [logins EXCEPT ![s].at = l]
      BY <3>1, <3>2 DEF LimiterTypeOK
    <3>3. CASE logins' = [logins EXCEPT ![s].at = Free]
      BY <3>3 DEF LimiterTypeOK, Free
    <3> QED
      BY <2>3, <3>2, <3>3 DEF Insert, l
  <2> QED
    BY <2>1, <2>2, <2>3
<1> QED
  BY <1>3, <1>4 DEF Underway

\* A check that is passed leaves the client fewer recent guesses than the limit.
LEMMA BoundCheck ==
  ASSUME LimiterTypeOK, LimiterTypeOK', BoundInv,
         NEW s \in Slots, NEW c \in Clients, NEW typed \in {0, password}, Check(s, c, typed)
  PROVE  BoundInv'
<1>1. guesses' = guesses /\ clock' = clock /\ \A d \in Clients : Wrong(d)' = Wrong(d)
  BY DEF Check, Wrong
<1>2. \A d \in Clients : clients'[d] = Pruned(clients[d])
  BY DEF Check
<1>3. \A d \in Clients : clients[d] \in Entry /\ clock \in Nat
  BY DEF LimiterTypeOK
<1>4. ASSUME NEW d \in Clients
      PROVE  Counted(d)' /\ (\A g \in Wrong(d) : g.at <= clients'[d].last)
  <2>1. CASE clock - clients[d].last > Lockout
    <3>1. Cardinality(Wrong(d)) = 0 /\ Wrong(d) = {}
      <4>1. clients[d].last + Lockout <= clock
        BY <1>3, <2>1, Limits DEF Entry
      <4> QED
        BY <4>1, Forgotten, Finite, FS_EmptySet DEF BoundInv, Recent
    <3>2. clients'[d] = Fresh
      BY <1>2, <2>1 DEF Pruned
    <3> QED
      BY <1>1, <3>1, <3>2, Limits DEF Counted, Fresh
  <2>2. CASE ~(clock - clients[d].last > Lockout)
    <3>1. clients'[d] = clients[d]
      BY <1>2, <2>2 DEF Pruned
    <3> QED
      BY <1>1, <3>1 DEF Counted, BoundInv, Recent, Wrong
  <2> QED
    BY <2>1, <2>2
<1>5. Recent'
  <2>1. \A g \in guesses : g.by \in Clients
    BY DEF LimiterTypeOK, Guess
  <2> QED
    BY <1>1, <1>4, <2>1 DEF Recent, BoundInv, Wrong
<1>6. ASSUME NEW d \in Clients PROVE Room(d)'
  <2>1. CASE Underway(d)' \subseteq Underway(d)
    BY <1>1, <2>1, RoomKept DEF BoundInv
  <2>2. CASE ~(Underway(d)' \subseteq Underway(d))
    <3>1. d = c /\ ~Locked(clients'[c])
      BY <2>2 DEF Check, Underway, LimiterTypeOK
    <3>2. Cardinality(Wrong(c)) <= ClientLimit - 1
      <4>1. clients'[c] \in Entry /\ clients'[c].lockedUntil <= clock
        BY <1>3, <3>1 DEF Locked, LimiterTypeOK, Entry
      <4>2. CASE clients'[c].failures >= ClientLimit
        <5>1. clients'[c].last + Lockout <= clock
          BY <1>4, <4>1, <4>2 DEF Counted
        <5>2. clients[c].last + Lockout <= clock
          BY <1>2, <1>3, <4>2, <5>1, Limits DEF Pruned, Fresh, Entry
        <5> QED
          BY <5>2, Forgotten, Limits DEF BoundInv
      <4>3. CASE clients'[c].failures <= ClientLimit - 1
        BY <1>1, <1>4, <4>1, <4>3, Finite, Limits DEF Counted, BoundInv, Recent, Entry
      <4> QED
        BY <4>1, <4>2, <4>3, Limits DEF Entry
    <3>3. /\ Cardinality(Underway(c)') <= Cardinality(Slots)
          /\ Cardinality(Underway(c)') \in Nat
      <4>1. Underway(c)' \subseteq Slots
        BY DEF Underway
      <4> QED
        BY <4>1, Limits, FS_Subset, FS_CardinalityType
    <3>4. Cardinality(Wrong(c)) \in Nat
      BY Finite DEF BoundInv, Recent
    <3> QED
      BY <1>1, <3>1, <3>2, <3>3, <3>4, Limits DEF Room
  <2> QED
    BY <2>1, <2>2
<1> QED
  BY <1>4, <1>5, <1>6 DEF BoundInv

\* A failure takes the place of the login it ends.
LEMMA BoundFails ==
  ASSUME LimiterTypeOK, LimiterTypeOK', BoundInv, NEW s \in Slots, VerifyFails(s),
         NEW c \in Clients, c = logins[s].by,
         NEW g, g = [by |-> c, at |-> clock, no |-> failed]
  PROVE  BoundInv'
<1>1. clock \in Nat /\ \A d \in Clients : clients[d] \in Entry
  BY DEF LimiterTypeOK
<1>2. guesses' = guesses \cup {g} /\ clock' = clock
  BY DEF VerifyFails
<1>3. /\ clients'[c] = Recorded(clients[c], ClientLimit)
      /\ \A d \in Clients : d # c => clients'[d] = clients[d]
  BY <1>1 DEF VerifyFails, LimiterTypeOK
<1>4. /\ clients'[c].last = clock /\ clients'[c].failures = clients[c].failures + 1
      /\ clients[c].failures + 1 >= ClientLimit => clients'[c].lockedUntil = clock + Lockout
  BY <1>3 DEF Recorded
<1>11. g.by = c /\ g.at = clock
  OBVIOUS
<1>5. Wrong(c)' = Wrong(c) \cup {g} /\ \A d \in Clients : d # c => Wrong(d)' = Wrong(d)
  BY <1>2, <1>11 DEF Wrong
<1>6. IsFiniteSet(guesses) /\ IsFiniteSet(guesses')
  BY <1>2, FS_AddElement DEF BoundInv, Recent
<1>7. /\ Cardinality(Wrong(c)') <= Cardinality(Wrong(c)) + 1
      /\ Cardinality(Wrong(c)') \in Nat /\ Cardinality(Wrong(c)) \in Nat
  <2>1. IsFiniteSet(Wrong(c)) /\ Cardinality(Wrong(c)) \in Nat
    BY <1>1, <1>6, Finite
  <2>2. Cardinality(Wrong(c) \cup {g}) \in {Cardinality(Wrong(c)), Cardinality(Wrong(c)) + 1}
    BY <2>1, FS_AddElement
  <2>3. Cardinality(Wrong(c)') = Cardinality(Wrong(c) \cup {g})
    BY <1>5
  <2> QED
    BY <2>1, <2>2, <2>3
<1>8. /\ Cardinality(Underway(c)') = Cardinality(Underway(c)) - 1
      /\ Cardinality(Underway(c)) \in Nat
  <2>1. Underway(c)' = Underway(c) \ {s} /\ s \in Underway(c)
    BY DEF VerifyFails, Underway, LimiterTypeOK, Free
  <2>2. IsFiniteSet(Underway(c)) /\ Cardinality(Underway(c)) \in Nat
    BY <1>1, <1>6, Finite
  <2>3. Cardinality(Underway(c) \ {s}) = Cardinality(Underway(c)) - 1
    BY <2>1, <2>2, FS_RemoveElement
  <2> QED
    BY <2>1, <2>2, <2>3
<1>9. ASSUME NEW d \in Clients PROVE Counted(d)' /\ Room(d)'
  <2>1. CASE d = c
    <3>1. Counted(c)'
      BY <1>1, <1>4, <1>7 DEF Counted, BoundInv, Entry
    <3>2. Room(c)'
      BY <1>1, <1>7, <1>8, Limits DEF Room, BoundInv
    <3> QED
      BY <2>1, <3>1, <3>2
  <2>2. CASE d # c
    <3>1. Counted(d)'
      BY <1>3, <1>5, <2>2 DEF Counted, BoundInv
    <3>2. Underway(d)' = Underway(d)
      BY <2>2 DEF VerifyFails, Underway, LimiterTypeOK, Free
    <3> QED
      BY <1>5, <2>2, <3>1, <3>2 DEF Room, BoundInv
  <2> QED
    BY <2>1, <2>2
<1>10. Recent'
  <2>2. \A h \in guesses : h.at \in Nat /\ h.by \in Clients
    BY DEF LimiterTypeOK, Guess
  <2>3. ASSUME NEW h \in guesses
        PROVE  h.at <= clock /\ h.at > clock - Lockout /\ h.at <= clients'[h.by].last
    BY <1>1, <1>3, <1>4, <2>2 DEF BoundInv, Recent, Entry
  <2>4. g.at <= clock /\ g.at > clock - Lockout /\ g.at <= clients'[g.by].last
    BY <1>1, <1>4, <1>11, Limits
  <2> QED
    BY <1>2, <1>6, <2>3, <2>4 DEF Recent
<1> QED
  BY <1>9, <1>10 DEF BoundInv

\* Every other step forgets guesses, or nothing, and lets logins go, or nothing.
LEMMA BoundRest ==
  ASSUME LimiterTypeOK, BoundInv, guesses' \subseteq guesses, clock' >= clock, clock' \in Nat,
         \A g \in guesses' : g.at > clock' - Lockout,
         UNCHANGED clients, \A d \in Clients : Underway(d)' \subseteq Underway(d)
  PROVE  BoundInv'
<1>1. ASSUME NEW d \in Clients PROVE Counted(d)' /\ Room(d)'
  <2>1. /\ Room(d)' /\ Cardinality(Wrong(d)') <= Cardinality(Wrong(d))
        /\ Cardinality(Wrong(d)') \in Nat
    BY RoomKept DEF BoundInv
  <2>2. Cardinality(Wrong(d)) \in Nat
    BY Finite DEF BoundInv, Recent
  <2>3. clients[d] \in Entry
    BY DEF LimiterTypeOK
  <2> QED
    BY <2>1, <2>2, <2>3 DEF Counted, BoundInv, Entry
<1>2. Recent'
  <2>1. IsFiniteSet(guesses')
    BY FS_Subset DEF BoundInv, Recent
  <2>2. \A g \in guesses : g.at \in Nat
    BY DEF LimiterTypeOK, Guess
  <2>3. clock \in Nat
    BY DEF LimiterTypeOK
  <2> QED
    BY <2>1, <2>2, <2>3 DEF BoundInv, Recent
<1> QED
  BY <1>1, <1>2 DEF BoundInv

LEMMA BoundRestart ==
  ASSUME Restart, LimiterTypeOK
  PROVE  BoundInv'
<1>1. guesses' = {} /\ clients' = [c \in Clients |-> Fresh]
  BY DEF Restart
<1>2. Recent'
  BY <1>1, FS_EmptySet DEF Recent
<1>3. ASSUME NEW d \in Clients PROVE Counted(d)' /\ Room(d)'
  <2>1. Wrong(d)' = {}
    BY <1>1 DEF Wrong
  <2>2. Underway(d)' = {}
    BY DEF Restart, Underway, Free, LimiterTypeOK
  <2>3. Cardinality(Wrong(d)') = 0 /\ Cardinality(Underway(d)') = 0
    BY <2>1, <2>2, FS_EmptySet
  <2> QED
    BY <1>1, <2>3, Limits DEF Counted, Room, Fresh
<1> QED
  BY <1>2, <1>3 DEF BoundInv

LEMMA BoundLogin ==
  ASSUME LimiterOK, LimiterOK', BoundInv, NEW s \in Slots, LoginStep(s)
  PROVE  BoundInv'
<1>0. LimiterTypeOK /\ LimiterTypeOK'
  BY DEF LimiterOK
<1>1. CASE \E c \in Clients, typed \in {0, password} : Check(s, c, typed)
  BY <1>0, <1>1, BoundCheck
<1>2. CASE VerifyFails(s)
  <2>1. logins[s].by \in Clients
    BY <1>0 DEF LimiterTypeOK
  <2> QED
    BY <1>0, <1>2, <2>1, BoundFails
<1>3. CASE Select(s) \/ VerifyPasses(s) \/ Insert(s) \/ Answered(s) \/ Elsewhere(s)
  <2>1. UNCHANGED <<clock, clients, guesses>>
    BY <1>3 DEF Select, VerifyPasses, Insert, Answered, Elsewhere
  <2>2. \A d \in Clients : Underway(d)' \subseteq Underway(d)
    BY <1>0, <1>3, UnderwayStays
  <2>3. \A g \in guesses : g.at > clock - Lockout
    BY DEF BoundInv, Recent
  <2>4. clock \in Nat /\ clock >= clock
    BY <1>0 DEF LimiterTypeOK
  <2> QED
    BY <1>0, <2>1, <2>2, <2>3, <2>4, BoundRest
<1> QED
  BY <1>1, <1>2, <1>3 DEF LoginStep

LEMMA BoundNext ==
  ASSUME TypeInv, TypeInv', BoundInv, [Next]_vars
  PROVE  BoundInv'
<1>0. LimiterOK /\ LimiterOK' /\ LimiterTypeOK
  BY Parts, PartsNext DEF LimiterOK
<1>5. clock \in Nat /\ clock' \in Nat /\ Lockout \in Nat
  BY <1>0, Limits DEF LimiterOK, LimiterTypeOK
<1>1. CASE Others \/ OwnLogin \/ SignIn \/ SignedIn
  <2>1. PICK s \in Slots : LoginStep(s)
    BY <1>0, <1>1, LoginsAreSteps, PageAssumption DEF SignedIn, LoginStep
  <2> QED
    BY <1>0, <2>1, BoundLogin
<1>2. CASE Restart
  BY <1>0, <1>2, BoundRestart
<1>3. CASE Tick
  <2>1. \A d \in Clients : Underway(d)' \subseteq Underway(d)
    BY <1>3 DEF Tick, Underway
  <2>2. clock' >= clock
    BY <1>3, <1>5 DEF Tick
  <2>3. guesses' \subseteq guesses /\ UNCHANGED clients /\ \A g \in guesses' : g.at > clock' - Lockout
    BY <1>3 DEF Tick
  <2> QED
    BY <1>0, <1>5, <2>1, <2>2, <2>3, BoundRest
<1>4. CASE UNCHANGED <<clock, clients, guesses, logins>>
  <2>1. \A d \in Clients : Underway(d)' \subseteq Underway(d)
    BY <1>4 DEF Underway
  <2>2. \A g \in guesses' : g.at > clock' - Lockout
    BY <1>4 DEF BoundInv, Recent
  <2> QED
    BY <1>0, <1>4, <1>5, <2>1, <2>2, BoundRest
<1>6. CASE MeServed \/ PollServed \/ Focus \/ MeArrives \/ Poll \/ PollArrives \/ SignOut
           \/ SignedOut \/ OutServed \/ Rotate \/ UNCHANGED vars
  <2>1. UNCHANGED <<clock, clients, guesses, logins>>
    BY <1>6 DEF MeServed, PollServed, Focus, MeArrives, Poll, PollArrives, SignOut, SignedOut,
                OutServed, Rotate, vars, limiterVars
  <2> QED
    BY <1>4, <2>1
<1> QED
  BY <1>1, <1>2, <1>3, <1>6 DEF Next, Server, Browser, Time

\* However many logins overlap, the wrong passwords of a client that are looked at
\* within a lockout exceed the limit by less than the logins under way at once.
THEOREM WrongPasswordsBounded == Spec => []GuessesBounded
<1>1. Init => TypeInv /\ BoundInv
  BY InitTypes, BoundInit
<1>2. TypeInv /\ BoundInv /\ [Next]_vars => TypeInv' /\ BoundInv'
  BY NextTypes, BoundNext
<1>3. BoundInv => GuessesBounded
  <2> SUFFICES ASSUME BoundInv, NEW c \in Clients
               PROVE  Cardinality(Wrong(c)) <= ClientLimit - 1 + Cardinality(Slots)
    BY DEF GuessesBounded, Wrong
  <2>1. /\ Cardinality(Wrong(c)) \in Nat /\ Cardinality(Underway(c)) \in Nat
    BY Finite DEF BoundInv, Recent
  <2> QED
    BY <2>1, Limits DEF BoundInv, Room
<1> QED
  BY <1>1, <1>2, <1>3, PTL DEF Spec
=============================================================================
