--------------------------- MODULE OperationQueue ---------------------------
(***************************************************************************)
(* DatabaseAgentService: the durable operation queue of the control plane. *)
(*                                                                         *)
(* A request handler is a JavaScript async function; between two of its    *)
(* database round trips any other handler may run.  Each handler is a      *)
(* process of this module, with one action per atomic piece: a select, a   *)
(* transaction, or the synchronous code between two awaits.  Transactions  *)
(* run at READ COMMITTED and touch rows through conditional updates only,  *)
(* so each is one action of OperationStore plus the rows it inserts.       *)
(***************************************************************************)
EXTENDS OperationStore, Sequences

CONSTANTS
  ReadOps,       \* the operations whose kind is settings.read or config.read
  Users,         \* handlers of panel requests (enqueueOperation, readSettings)
  Agents,        \* handlers of agent requests (claim, progress, logs, complete)
  NoOp,          \* the op of a handler that addresses none yet
  Cursors,       \* the log cursors an agent may send
  KeepEvents,    \* maxEvents of trimEvents
  MaxEvents,     \* bound: no progress or log call starts once this many events exist
  MaxFaults      \* bound: how often a handler fails or the API restarts

ASSUME QueueAssumption ==
  /\ ReadOps \subseteq Ops
  /\ NoOp \notin Ops
  /\ Cursors \subseteq Nat \ {0}
  /\ KeepEvents \in Nat \ {0}
  /\ MaxEvents \in Nat
  /\ MaxFaults \in Nat
  /\ Users \cap Agents = {}

VARIABLES
  events,        \* every row ever inserted into operation_events, in id order
  floor,         \* how many of the oldest of them trimEvents has deleted
  logCursor,     \* [Ops -> Nat]: the row's log_cursor
  call,          \* [Handlers -> Call]: where each handler stands
  reader,        \* [ReadOps -> the promise readSettings/readConfig returned]
  cached,        \* the ops with an entry in settingsReadResults/configReadResults
  faults         \* failures so far

queueVars == <<events, floor, logCursor, call, reader, cached, faults>>
vars == <<storeVars, queueVars>>

Handlers == Users \cup Agents

EventTypes == {"queued", "claimed", "progress", "log", "completed", "recovered"}
Event == [op : Ops, type : EventTypes, cursor : Cursors \cup {0}]

Call == [pc : {"idle", "recover", "recover.commit", "conflict", "insert", "busy",
               "pick", "claim.commit", "progress.commit", "log.commit",
               "complete.commit", "trim", "trim.delete", "register"},
         op : Ops \cup {NoOp},          \* the operation the request addresses
         lost : Ops \cup {NoOp},        \* the expired row recover has selected
         cursor : Cursors \cup {0},
         verdict : Verdicts,
         cut : Nat]                     \* how many events trimEvents is to delete

Frame(pc, o, lost, c, v) == [pc |-> pc, op |-> o, lost |-> lost, cursor |-> c, verdict |-> v,
                             cut |-> 0]
Idle == Frame("idle", NoOp, NoOp, 0, "failed")

QueueTypeOK ==
  /\ events \in Seq(Event)
  /\ floor \in Nat
  /\ logCursor \in [Ops -> Cursors \cup {0}]
  /\ call \in [Handlers -> Call]
  /\ reader \in [ReadOps -> {"none", "waiting", "value", "error"}]
  /\ cached \subseteq ReadOps
  /\ faults \in 0 .. MaxFaults

TypeOK == StoreTypeOK /\ QueueTypeOK

Init ==
  /\ StoreInit
  /\ events = <<>>
  /\ floor = 0
  /\ logCursor = [o \in Ops |-> 0]
  /\ call = [h \in Handlers |-> Idle]
  /\ reader = [o \in ReadOps |-> "none"]
  /\ cached = {}
  /\ faults = 0

-----------------------------------------------------------------------------
(* Steps shared by the handlers *)

At(h, pc) == call[h].pc = pc
Return(h) == call' = [call EXCEPT ![h] = Idle]
Begin(h, pc, o, c, v) ==
  /\ At(h, "idle")
  /\ call' = [call EXCEPT ![h] = Frame(pc, o, NoOp, c, v)]
GotoWith(h, pc, o, lost) ==
  call' = [call EXCEPT ![h] = Frame(pc, o, lost, call[h].cursor, call[h].verdict)]
Goto(h, pc) == GotoWith(h, pc, call[h].op, NoOp)

\* The work is committed; a read, though, has yet to register itself.
GotoTrim(h) ==
  call' = [call EXCEPT ![h] = Frame("trim", IF h \in Users THEN call[h].op ELSE NoOp, NoOp,
                                    0, "failed")]

Emit(o, type, c) == events' = Append(events, [op |-> o, type |-> type, cursor |-> c])

feedVars == <<events, floor, logCursor>>
memoryVars == <<reader, cached>>

\* A conditional update that changed no row: the handler returns early.
Missed(h) == Return(h) /\ UNCHANGED <<storeVars, feedVars, memoryVars, faults>>

\* What follows trimEvents: recovery selects once more, a read registers itself,
\* every other request is done.
AfterTrim(h) ==
  IF call[h].lost # NoOp THEN Goto(h, "recover")
  ELSE IF h \in Users /\ call[h].op \in ReadOps THEN Goto(h, "register")
  ELSE Return(h)

\* trimEvents: a select finds the oldest of the newest KeepEvents rows, then a
\* delete removes what is older, with whatever happens in between.
TrimSelect(h) ==
  /\ At(h, "trim")
  /\ IF Len(events) - floor > KeepEvents
       THEN call' = [call EXCEPT ![h] = [@ EXCEPT !.pc = "trim.delete",
                                                   !.cut = Len(events) - KeepEvents]]
       ELSE AfterTrim(h)
  /\ UNCHANGED <<storeVars, feedVars, memoryVars, faults>>

TrimDelete(h) ==
  /\ At(h, "trim.delete")
  /\ floor' = IF call[h].cut > floor THEN call[h].cut ELSE floor
  /\ AfterTrim(h)
  /\ UNCHANGED <<storeVars, events, logCursor, memoryVars, faults>>

-----------------------------------------------------------------------------
(* recoverExpiredOperations, the first thing enqueue and claim do *)

\* The select.  The query returns a list, but a server has one active row at most.
RecoverSelect(h) ==
  /\ At(h, "recover")
  /\ \/ \E o \in Ops :
          /\ Lapsed(o)
          /\ GotoWith(h, "recover.commit", call[h].op, o)
     \/ /\ \A o \in Ops : ~Lapsed(o)
        /\ Goto(h, IF h \in Users THEN "conflict" ELSE "busy")
  /\ UNCHANGED <<storeVars, feedVars, memoryVars, faults>>

\* The transaction tests status and lease again; a trim follows in any case.
RecoverCommit(h) ==
  LET o == call[h].lost IN
  /\ At(h, "recover.commit")
  /\ \/ /\ RecoverRow(o)
        /\ Emit(o, "recovered", 0)
     \/ /\ ~Lapsed(o)
        /\ UNCHANGED <<storeVars, events>>
  /\ GotoWith(h, "trim", call[h].op, o)
  /\ UNCHANGED <<floor, logCursor, memoryVars, faults>>

-----------------------------------------------------------------------------
(* enqueueOperation, and readSettings/readConfig around it *)

\* A request whose row will get identifier o (fresh: no other request has it).
\* A read first drops the cached results that have expired: any of them may have.
BeginEnqueue(h, o) ==
  /\ status[o] = "absent"
  /\ \A g \in Handlers : call[g].op # o
  /\ Begin(h, "recover", o, 0, "failed")
  /\ \E expired \in SUBSET cached :
       /\ o \notin ReadOps => expired = {}
       /\ cached' = cached \ expired
  /\ UNCHANGED <<storeVars, feedVars, reader, faults>>

ConflictCheck(h) ==
  /\ At(h, "conflict")
  /\ IF Active # {} THEN Return(h) ELSE Goto(h, "insert")
  /\ UNCHANGED <<storeVars, feedVars, memoryVars, faults>>

\* Mutant of EnqueueCommit: the event is not part of the transaction.
EnqueueSilently(h) ==
  /\ At(h, "insert")
  /\ InsertRow(call[h].op)
  /\ GotoTrim(h)
  /\ UNCHANGED <<events, floor, logCursor, memoryVars, faults>>

EnqueueCommit(h) ==
  LET o == call[h].op IN
  /\ At(h, "insert")
  /\ InsertRow(o)
  /\ Emit(o, "queued", 0)
  /\ GotoTrim(h)
  /\ UNCHANGED <<floor, logCursor, memoryVars, faults>>

\* isUniqueViolation: another request inserted since the conflict check.
EnqueueConflict(h) == At(h, "insert") /\ Active # {} /\ Missed(h)

\* Mutant of Register: the promise body does not look for a cached result.
RegisterBlindly(h) ==
  /\ At(h, "register")
  /\ reader' = [reader EXCEPT ![call[h].op] = "waiting"]
  /\ Return(h)
  /\ UNCHANGED <<storeVars, feedVars, cached, faults>>

\* The promise body: take the result if completeJob came first, wait otherwise.
Register(h) ==
  LET o == call[h].op IN
  /\ At(h, "register")
  /\ reader' = [reader EXCEPT ![o] = IF o \in cached THEN "value" ELSE "waiting"]
  /\ cached' = cached \ {o}
  /\ Return(h)
  /\ UNCHANGED <<storeVars, feedVars, faults>>

\* Mutant of ReaderTimeout: the timer is cleared once the operation has ended.
ReaderTimeoutWhileActive(o) ==
  /\ reader[o] = "waiting"
  /\ o \in Active
  /\ reader' = [reader EXCEPT ![o] = "error"]
  /\ UNCHANGED <<storeVars, feedVars, call, cached, faults>>

\* The 30 s (settings) or 90 s (config) timer rejects the promise.
ReaderTimeout(o) ==
  /\ reader[o] = "waiting"
  /\ reader' = [reader EXCEPT ![o] = "error"]
  /\ UNCHANGED <<storeVars, feedVars, call, cached, faults>>

-----------------------------------------------------------------------------
(* claimNext *)

\* Mutant of BeginClaim: a claim does not recover expired operations.
BeginClaimOnly(h) ==
  /\ Begin(h, "busy", NoOp, 0, "failed")
  /\ UNCHANGED <<storeVars, feedVars, memoryVars, faults>>

BeginClaim(h) ==
  /\ Begin(h, "recover", NoOp, 0, "failed")
  /\ UNCHANGED <<storeVars, feedVars, memoryVars, faults>>

\* Mutant of BusyCheck: it counts the queued rows as well.
BusyCheckActive(h) ==
  /\ At(h, "busy")
  /\ IF Active # {} THEN Return(h) ELSE Goto(h, "pick")
  /\ UNCHANGED <<storeVars, feedVars, memoryVars, faults>>

BusyCheck(h) ==
  /\ At(h, "busy")
  /\ IF \E o \in Ops : status[o] = "running" THEN Return(h) ELSE Goto(h, "pick")
  /\ UNCHANGED <<storeVars, feedVars, memoryVars, faults>>

PickCandidate(h) ==
  /\ At(h, "pick")
  /\ \/ \E o \in Ops :
          /\ status[o] = "queued"
          /\ GotoWith(h, "claim.commit", o, NoOp)
     \/ /\ \A o \in Ops : status[o] # "queued"
        /\ Return(h)
  /\ UNCHANGED <<storeVars, feedVars, memoryVars, faults>>

ClaimCommit(h) ==
  LET o == call[h].op IN
  /\ At(h, "claim.commit")
  /\ ClaimRow(o)
  /\ Emit(o, "claimed", 0)
  /\ GotoTrim(h)
  /\ UNCHANGED <<floor, logCursor, memoryVars, faults>>

ClaimLost(h) == At(h, "claim.commit") /\ status[call[h].op] # "queued" /\ Missed(h)

-----------------------------------------------------------------------------
(* progressJob, appendJobLogs and completeJob: load the row, then commit *)

\* activeOperation, or the same select in completeJob: 404 unless running.
BeginProgress(h, o) ==
  /\ status[o] = "running"
  /\ Len(events) < MaxEvents
  /\ Begin(h, "progress.commit", o, 0, "failed")
  /\ UNCHANGED <<storeVars, feedVars, memoryVars, faults>>

ProgressCommit(h) ==
  LET o == call[h].op IN
  /\ At(h, "progress.commit")
  /\ RenewRow(o)
  /\ Emit(o, "progress", 0)
  /\ GotoTrim(h)
  /\ UNCHANGED <<floor, logCursor, memoryVars, faults>>

BeginLog(h, o, c) ==
  /\ status[o] = "running"
  /\ Len(events) < MaxEvents
  /\ Begin(h, "log.commit", o, c, "failed")
  /\ UNCHANGED <<storeVars, feedVars, memoryVars, faults>>

\* Mutant of LogCommit: the cursor is stored, never compared.
LogCommitTwice(h) ==
  LET o == call[h].op
      c == call[h].cursor IN
  /\ At(h, "log.commit")
  /\ RenewRow(o)
  /\ logCursor' = [logCursor EXCEPT ![o] = c]
  /\ Emit(o, "log", c)
  /\ GotoTrim(h)
  /\ UNCHANGED <<floor, memoryVars, faults>>

\* Mutant of LogCommit: only a repetition of the last chunk is dropped.
LogCommitUnordered(h) ==
  LET o == call[h].op
      c == call[h].cursor IN
  /\ At(h, "log.commit")
  /\ RenewRow(o)
  /\ \/ /\ logCursor[o] # c
        /\ logCursor' = [logCursor EXCEPT ![o] = c]
        /\ Emit(o, "log", c)
     \/ /\ logCursor[o] = c
        /\ UNCHANGED <<logCursor, events>>
  /\ GotoTrim(h)
  /\ UNCHANGED <<floor, memoryVars, faults>>

\* The lease is renewed in any case; lines at or below the cursor are dropped.
LogCommit(h) ==
  LET o == call[h].op
      c == call[h].cursor IN
  /\ At(h, "log.commit")
  /\ RenewRow(o)
  /\ \/ /\ logCursor[o] < c
        /\ logCursor' = [logCursor EXCEPT ![o] = c]
        /\ Emit(o, "log", c)
     \/ /\ logCursor[o] >= c
        /\ UNCHANGED <<logCursor, events>>
  /\ GotoTrim(h)
  /\ UNCHANGED <<floor, memoryVars, faults>>

\* completeJob answers the waiting reader, or caches for one that has yet to
\* register, before its transaction runs; expired results are dropped first.
BeginComplete(h, o, v) ==
  /\ status[o] = "running"
  /\ Begin(h, "complete.commit", o, 0, v)
  /\ \/ /\ o \in ReadOps /\ v = "succeeded"
        /\ \E expired \in SUBSET cached :
             cached' = (cached \ expired) \cup (IF reader[o] = "waiting" THEN {} ELSE {o})
        /\ reader' = [reader EXCEPT ![o] = IF @ = "waiting" THEN "value" ELSE @]
     \/ /\ o \in ReadOps /\ v = "failed"
        /\ reader' = [reader EXCEPT ![o] = IF @ = "waiting" THEN "error" ELSE @]
        /\ UNCHANGED cached
     \/ /\ o \notin ReadOps
        /\ UNCHANGED memoryVars
  /\ UNCHANGED <<storeVars, feedVars, faults>>

CompleteCommit(h) ==
  LET o == call[h].op IN
  /\ At(h, "complete.commit")
  /\ FinishRow(o, call[h].verdict)
  /\ Emit(o, "completed", 0)
  /\ GotoTrim(h)
  /\ UNCHANGED <<floor, logCursor, memoryVars, faults>>

\* OperationNotFoundError: the row stopped running after it was loaded.
CommitMissed(h) ==
  /\ call[h].pc \in {"progress.commit", "log.commit", "complete.commit"}
  /\ status[call[h].op] # "running"
  /\ Missed(h)

-----------------------------------------------------------------------------
(* Failures: a rejected query drops one request, a restart drops them all *)

HandlerFails(h) ==
  /\ ~At(h, "idle")
  /\ faults < MaxFaults
  /\ faults' = faults + 1
  /\ Return(h)
  /\ UNCHANGED <<storeVars, feedVars, memoryVars>>

ApiRestart ==
  /\ faults < MaxFaults
  /\ faults' = faults + 1
  /\ call' = [h \in Handlers |-> Idle]
  /\ reader' = [o \in ReadOps |-> IF reader[o] = "waiting" THEN "error" ELSE reader[o]]
  /\ cached' = {}
  /\ UNCHANGED <<storeVars, feedVars>>

\* Time passes.
Tick == Elapse /\ UNCHANGED queueVars

-----------------------------------------------------------------------------

EnqueueSteps(h) ==
  ConflictCheck(h) \/ EnqueueCommit(h) \/ EnqueueConflict(h) \/ Register(h)
ClaimSteps(h) ==
  BusyCheck(h) \/ PickCandidate(h) \/ ClaimCommit(h) \/ ClaimLost(h)
JobSteps(h) ==
  ProgressCommit(h) \/ LogCommit(h) \/ CompleteCommit(h) \/ CommitMissed(h)

\* What a handler does once its request has begun, failures apart.
Continue(h) ==
  \/ RecoverSelect(h) \/ RecoverCommit(h) \/ TrimSelect(h) \/ TrimDelete(h)
  \/ EnqueueSteps(h) \/ ClaimSteps(h) \/ JobSteps(h)

Request ==
  \/ \E h \in Users, o \in Ops : BeginEnqueue(h, o)
  \/ \E h \in Agents : BeginClaim(h)
  \/ \E h \in Agents, o \in Ops : BeginProgress(h, o)
  \/ \E h \in Agents, o \in Ops, c \in Cursors : BeginLog(h, o, c)
  \/ \E h \in Agents, o \in Ops, v \in Verdicts : BeginComplete(h, o, v)

Next ==
  \/ Request
  \/ \E h \in Handlers : Continue(h)
  \/ \E h \in Handlers : HandlerFails(h)
  \/ \E o \in ReadOps : ReaderTimeout(o)
  \/ ApiRestart
  \/ Tick

Spec == Init /\ [][Next]_vars

\* The event loop runs every handler on, timers fire and clocks advance; the
\* host agent's poll loop claims again and again (SF: its handler is busy with
\* other calls in between).  Panel requests need not arrive.
Fairness ==
  /\ \A h \in Handlers : WF_vars(Continue(h))
  /\ \A o \in ReadOps : WF_vars(ReaderTimeout(o))
  /\ WF_vars(Tick)
  /\ SF_vars(\E h \in Agents : BeginClaim(h))

FairSpec == Spec /\ Fairness

-----------------------------------------------------------------------------
(* Properties *)

\* At most one operation of the server is queued or running, however many
\* requests pass enqueueOperation's conflict check together.
OneActive == \A o, p \in Active : o = p

\* The event feed is ordered per operation: queued, then claimed, then
\* progress and log events, then one completed or recovered, with nothing
\* after it -- although progress, logs, completion and recovery of the same
\* operation race each other from different handlers.
Phase(type) == CASE type = "queued" -> 0
                 [] type = "claimed" -> 1
                 [] type \in {"progress", "log"} -> 2
                 [] type \in {"completed", "recovered"} -> 3

EventOrder ==
  \A i, j \in DOMAIN events :
    (i < j /\ events[i].op = events[j].op) =>
      \/ Phase(events[i].type) < Phase(events[j].type)
      \/ Phase(events[i].type) = 2 /\ Phase(events[j].type) = 2

\* A log chunk is published at most once and chunks are published in cursor
\* order, whatever calls the agent repeats or reorders.
LogsOnce ==
  \A i, j \in DOMAIN events :
    (i < j /\ events[i].op = events[j].op /\ events[i].type = "log"
           /\ events[j].type = "log") => events[i].cursor < events[j].cursor

\* Trimming never deletes one of the newest KeepEvents events, also when
\* handlers trim concurrently with inserts.
NewestRetained == Len(events) - floor >= IF Len(events) < KeepEvents THEN Len(events)
                                         ELSE KeepEvents

\* A reader never gets a value of an operation no agent ever claimed, and a
\* result is never held in memory for a reader that is still waiting.
ReadersServed ==
  \A o \in ReadOps :
    /\ reader[o] = "value" => status[o] \in {"running"} \cup Verdicts
    /\ ~(reader[o] = "waiting" /\ o \in cached)

\* Lifecycle events published so far, per operation.
Announced == [o \in Ops |->
  {t \in EventTypes \ {"progress", "log"} :
     \E i \in DOMAIN events : events[i].op = o /\ events[i].type = t}]

Lifecycle == INSTANCE OperationLifecycle WITH state <- status, announced <- Announced

\* Every transaction is one transition of the promised life cycle together
\* with its announcement, or changes neither.
ImplementsLifecycle == Lifecycle!Spec

\* The queue moves: an operation does not stay queued, and one whose lease has
\* passed does not stay so: it is recovered, completed or renewed.
QueueMoves == []<>(\A o \in Ops : status[o] # "queued" /\ ~Lapsed(o))

\* Whoever reads settings or configuration gets an answer.
ReadersAnswered == []<>(\A o \in ReadOps : reader[o] # "waiting")
=============================================================================
