---------------------------- MODULE LoginLimiter ----------------------------
(***************************************************************************)
(* DatabaseAuthService.login: the two rate limits, which live in the       *)
(* memory of the API, and the awaits between the check of the limits and   *)
(* the record of a failure, in which other logins run.                     *)
(*                                                                         *)
(* One account is followed.  The limit on the entries of the two maps      *)
(* (LOGIN_ATTEMPT_MAX_ENTRIES) is taken to be larger than their number.    *)
(***************************************************************************)
EXTENDS Integers, FiniteSets

CONSTANTS
  Clients,        \* client addresses
  Slots,          \* logins under way at the same time
  ClientLimit,    \* LOGIN_IP_FAILURE_LIMIT
  AccountLimit,   \* LOGIN_ACCOUNT_FAILURE_LIMIT
  Lockout,        \* LOGIN_LOCKOUT_MS
  TTL             \* SESSION_TTL_SECONDS

ASSUME LimiterAssumption ==
  /\ Clients # {} /\ IsFiniteSet(Slots)
  /\ {ClientLimit, AccountLimit, Lockout, TTL} \subseteq Nat \ {0}

VARIABLES
  clock,
  password,   \* the password of the account: bootstrap-admin replaces it
  clients,    \* clientAttempts: Fresh where there is no entry
  account,    \* accountAttempts of the account
  logins,     \* the logins under way
  sessions,   \* rows: [no, expires]
  issued,     \* sessions ever inserted
  guesses,    \* history: failures recorded in the last LOGIN_LOCKOUT_MS, by client
  failed      \* history: numbers them

limiterVars == <<clock, password, clients, account, logins, sessions, issued, guesses, failed>>

Fresh == [failures |-> 0, lockedUntil |-> 0, last |-> 0]
Entry == [failures : Nat, lockedUntil : Nat, last : Nat]

\* What is typed and read is the number of a password; 0 is none that ever was.
Free == [stage |-> "free", typed |-> 0, read |-> 0, session |-> 0]
Login == [stage : {"free", "select", "verify", "insert", "done"}, typed : Nat, read : Nat, session : Nat]

LimiterInit ==
  /\ clock = 0 /\ password = 1
  /\ clients = [c \in Clients |-> Fresh] /\ account = Fresh
  /\ logins = [s \in Slots |-> [by |-> CHOOSE c \in Clients : TRUE, at |-> Free]]
  /\ guesses = {} /\ failed = 0

Guess == [by : Clients, at : Nat, no : Nat]

LimiterTypeOK ==
  /\ clock \in Nat /\ password \in Nat
  /\ clients \in [Clients -> Entry] /\ account \in Entry
  /\ logins \in [Slots -> [by : Clients, at : Login]]
  /\ sessions \subseteq [no : Nat, expires : Nat] /\ issued \in Nat
  /\ guesses \subseteq Guess /\ failed \in Nat

-----------------------------------------------------------------------------
(* pruneLoginAttempts, checkLoginRateLimit and recordLoginFailure *)

\* Mutant of Pruned: an entry goes before its failures are old enough.
PrunedEarly(e) == IF clock - e.last >= Lockout - 1 THEN Fresh ELSE e

Pruned(e) == IF clock - e.last > Lockout THEN Fresh ELSE e
Locked(e) == e.lockedUntil > clock

\* Mutant of Recorded: the entry is locked with the failure after the limit.
RecordedLate(e, limit) ==
  [failures |-> e.failures + 1, last |-> clock,
   lockedUntil |-> IF e.failures >= limit THEN clock + Lockout ELSE e.lockedUntil]

Recorded(e, limit) ==
  [failures |-> e.failures + 1, last |-> clock,
   lockedUntil |-> IF e.failures + 1 >= limit THEN clock + Lockout ELSE e.lockedUntil]

\* Everything before the first await: a login that is refused ends here.
Check(s, c, typed) ==
  /\ logins[s].at.stage = "free"
  /\ clients' = [d \in Clients |-> Pruned(clients[d])]
  /\ account' = Pruned(account)
  /\ logins' = IF Locked(clients'[c]) \/ Locked(account') THEN logins
               ELSE [logins EXCEPT ![s] = [by |-> c, at |-> [Free EXCEPT !.stage = "select", !.typed = typed]]]
  /\ UNCHANGED <<clock, password, sessions, issued, guesses, failed>>

\* Expired sessions are deleted, once a minute at most, and the hash is read.
Select(s) ==
  /\ logins[s].at.stage = "select"
  /\ sessions' \in {sessions, {x \in sessions : x.expires > clock}}
  /\ logins' = [logins EXCEPT ![s].at.stage = "verify", ![s].at.read = password]
  /\ UNCHANGED <<clock, password, clients, account, issued, guesses, failed>>

\* The hash is compared; the failure is recorded, or the account's are forgotten.
VerifyFails(s) ==
  LET c == logins[s].by IN
  /\ logins[s].at.stage = "verify" /\ logins[s].at.typed # logins[s].at.read
  /\ clients' = [clients EXCEPT ![c] = Recorded(@, ClientLimit)]
  /\ account' = Recorded(account, AccountLimit)
  /\ guesses' = guesses \cup {[by |-> c, at |-> clock, no |-> failed]}
  /\ failed' = failed + 1
  /\ logins' = [logins EXCEPT ![s].at = Free]
  /\ UNCHANGED <<clock, password, sessions, issued>>

VerifyPasses(s) ==
  /\ logins[s].at.stage = "verify" /\ logins[s].at.typed = logins[s].at.read
  /\ account' = Fresh
  /\ logins' = [logins EXCEPT ![s].at.stage = "insert"]
  /\ UNCHANGED <<clock, password, clients, sessions, issued, guesses, failed>>

\* The transaction that inserts the session and its audit event; it may fail.
Insert(s) ==
  /\ logins[s].at.stage = "insert"
  /\ \/ /\ issued' = issued + 1
        /\ sessions' = sessions \cup {[no |-> issued', expires |-> clock + TTL]}
        /\ logins' = [logins EXCEPT ![s].at = [@ EXCEPT !.stage = "done", !.session = issued']]
     \/ logins' = [logins EXCEPT ![s].at = Free] /\ UNCHANGED <<issued, sessions>>
  /\ UNCHANGED <<clock, password, clients, account, guesses, failed>>

\* The answer of a login has been read, or its reader is gone.
Answered(s) ==
  /\ logins[s].at.stage = "done"
  /\ logins' = [logins EXCEPT ![s].at = Free]
  /\ UNCHANGED <<clock, password, clients, account, sessions, issued, guesses, failed>>

\* The session of somebody who is not followed.
Elsewhere(s) ==
  /\ logins[s].at.stage = "insert"
  /\ logins' = [logins EXCEPT ![s].at = Free]
  /\ UNCHANGED <<clock, password, clients, account, sessions, issued, guesses, failed>>

-----------------------------------------------------------------------------
(* Around it *)

Tick ==
  /\ clock' = clock + 1
  /\ guesses' = {g \in guesses : g.at > clock' - Lockout}
  /\ failed' = IF guesses' = {} THEN 0 ELSE failed
  /\ UNCHANGED <<password, clients, account, logins, sessions, issued>>

\* bootstrap-admin with BOOTSTRAP_ADMIN_ALLOW_UPDATE: one transaction.
Rotate ==
  /\ password' = password + 1
  /\ sessions' = {}
  /\ UNCHANGED <<clock, clients, account, logins, issued, guesses, failed>>

-----------------------------------------------------------------------------

Underway(c) == {s \in Slots : logins[s].by = c /\ logins[s].at.stage \in {"select", "verify"}}

\* However logins overlap, the wrong passwords of one client that are looked at
\* within any LOGIN_LOCKOUT_MS are fewer than the limit, but for the logins that
\* had passed the check when the limit was reached: one per login under way.
GuessesBounded ==
  \A c \in Clients :
    Cardinality({g \in guesses : g.by = c}) <= ClientLimit - 1 + Cardinality(Slots)
=============================================================================
