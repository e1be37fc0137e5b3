--------------------------- MODULE OperationStore ---------------------------
(***************************************************************************)
(* The rows of the `operations` table that belong to one server, and the   *)
(* conditional statements the API's transactions run on them.  Enrollment  *)
(* creates one agent per server, and every statement filters by the server *)
(* or by its agent, so servers do not interact and one is enough.          *)
(*                                                                         *)
(* Time: a row's `leaseExpiresAt` minus the current time is kept as `ttl`, *)
(* in ticks.  Zero means the lease has passed, and also SQL's null on rows *)
(* that are not running.                                                   *)
(***************************************************************************)
EXTENDS Integers, FiniteSets

CONSTANTS
  Ops,         \* identifiers the rows may get
  LeaseTicks   \* the 90 s of leaseExpiry, in ticks

ASSUME LeaseTicksAssumption == LeaseTicks \in Nat \ {0}

VARIABLES
  status,      \* [Ops -> Status]: "absent" while the row does not exist
  ttl          \* [Ops -> 0 .. LeaseTicks]: what is left of the row's lease

storeVars == <<status, ttl>>

Verdicts == {"succeeded", "failed"}
Status == {"absent", "queued", "running"} \cup Verdicts

StoreTypeOK ==
  /\ status \in [Ops -> Status]
  /\ ttl \in [Ops -> 0 .. LeaseTicks]

StoreInit ==
  /\ status = [o \in Ops |-> "absent"]
  /\ ttl = [o \in Ops |-> 0]

\* The rows the partial unique index covers.
Active == {o \in Ops : status[o] \in {"queued", "running"}}

Lapsed(o) == status[o] = "running" /\ ttl[o] = 0

\* Mutant of InsertRow: the table has no unique index.
InsertRowUnindexed(o) ==
  /\ status[o] = "absent"
  /\ status' = [status EXCEPT ![o] = "queued"]
  /\ UNCHANGED ttl

\* The unique index makes the insert fail while another row is active.
InsertRow(o) ==
  /\ status[o] = "absent"
  /\ Active = {}
  /\ status' = [status EXCEPT ![o] = "queued"]
  /\ UNCHANGED ttl

\* Mutant of ClaimRow: the update has no condition on the status it selected.
ClaimRowSelected(o) ==
  /\ status' = [status EXCEPT ![o] = "running"]
  /\ ttl' = [ttl EXCEPT ![o] = LeaseTicks]

ClaimRow(o) ==
  /\ status[o] = "queued"
  /\ status' = [status EXCEPT ![o] = "running"]
  /\ ttl' = [ttl EXCEPT ![o] = LeaseTicks]

RenewRow(o) ==
  /\ status[o] = "running"
  /\ ttl' = [ttl EXCEPT ![o] = LeaseTicks]
  /\ UNCHANGED status

\* Mutant of FinishRow: the update does not ask for a running row.
FinishRowAnyway(o, verdict) ==
  /\ status' = [status EXCEPT ![o] = verdict]
  /\ ttl' = [ttl EXCEPT ![o] = 0]

FinishRow(o, verdict) ==
  /\ status[o] = "running"
  /\ status' = [status EXCEPT ![o] = verdict]
  /\ ttl' = [ttl EXCEPT ![o] = 0]

RecoverRow(o) ==
  /\ Lapsed(o)
  /\ status' = [status EXCEPT ![o] = "failed"]
  /\ UNCHANGED ttl

\* Time passes: every lease in force loses one tick.
Elapse ==
  /\ \E o \in Ops : ttl[o] > 0
  /\ ttl' = [o \in Ops |-> IF ttl[o] > 0 THEN ttl[o] - 1 ELSE 0]
  /\ UNCHANGED status
=============================================================================
