------------------------ MODULE OperationQueueProofs ------------------------
(***************************************************************************)
(* Safety of the operation queue, for any number of operations, handlers   *)
(* and faults.  The argument has two layers.  Whatever a handler is doing, *)
(* one of its steps is, as far as the tables are concerned, one of seven   *)
(* transactions on one row (StepsAreTransactions); the invariants of the   *)
(* tables are then proved of those transactions only.                      *)
(***************************************************************************)
EXTENDS OperationQueue, TLAPS

\* A handler that is about to write knows the row it writes.
CallOK ==
  \A h \in Handlers :
    /\ call[h].pc = "recover.commit" => call[h].lost \in Ops
    /\ call[h].pc \in {"insert", "claim.commit", "progress.commit", "log.commit",
                       "complete.commit", "conflict"} => call[h].op \in Ops
    /\ call[h].pc = "register" => call[h].op \in ReadOps
    /\ call[h].pc = "log.commit" => call[h].cursor \in Cursors
    /\ (h \in Users /\ call[h].pc # "idle") => call[h].op \in Ops

\* What one transaction does to the row of o and to the event table.
Transaction(o) ==
  \/ InsertRow(o) /\ Emit(o, "queued", 0) /\ UNCHANGED logCursor
  \/ ClaimRow(o) /\ Emit(o, "claimed", 0) /\ UNCHANGED logCursor
  \/ RenewRow(o) /\ Emit(o, "progress", 0) /\ UNCHANGED logCursor
  \/ /\ RenewRow(o)
     /\ \E c \in Cursors :
          /\ logCursor[o] < c
          /\ logCursor' = [logCursor EXCEPT ![o] = c]
          /\ Emit(o, "log", c)
  \/ RenewRow(o) /\ UNCHANGED <<events, logCursor>>
  \/ /\ \E v \in Verdicts : FinishRow(o, v)
     /\ Emit(o, "completed", 0)
     /\ UNCHANGED logCursor
  \/ RecoverRow(o) /\ Emit(o, "recovered", 0) /\ UNCHANGED logCursor

tableVars == <<status, ttl, events, logCursor>>

TableStep ==
  \/ \E o \in Ops : Transaction(o)
  \/ Elapse /\ UNCHANGED <<events, logCursor>>
  \/ UNCHANGED tableVars

TableTypeOK ==
  /\ StoreTypeOK
  /\ events \in Seq(Event)
  /\ logCursor \in [Ops -> Cursors \cup {0}]

\* The newest phase the events of an operation may have, given its row.
Reached(s) == CASE s = "absent" -> -1
                [] s = "queued" -> 0
                [] s = "running" -> 2
                [] s \in Verdicts -> 3

\* The event table never runs ahead of the operations table.
EventsFollowRows ==
  \A i \in DOMAIN events :
    /\ Phase(events[i].type) <= Reached(status[events[i].op])
    /\ events[i].type = "log" => events[i].cursor <= logCursor[events[i].op]

TableInv == TableTypeOK /\ OneActive /\ EventsFollowRows /\ EventOrder /\ LogsOnce

-----------------------------------------------------------------------------
(* The handlers *)

\* The handlers start idle.
LEMMA CallInit == Init => call \in [Handlers -> Call] /\ CallOK
BY QueueAssumption DEF Init, CallOK, Call, Idle, Frame, Verdicts

\* A handler about to delete events has just counted them, or keeps its count.
CallOKNext ==
  /\ call' \in [Handlers -> Call]
  /\ CallOK'
  /\ \A h \in Handlers :
       call'[h].pc = "trim.delete" =>
         call'[h] = call[h] \/ call'[h].cut = Len(events) - KeepEvents

\* After a trim a handler is well formed whichever way it goes on.
LEMMA AfterTrimOK ==
  ASSUME call \in [Handlers -> Call], CallOK, NEW h \in Handlers, AfterTrim(h),
         call[h].pc \in {"trim", "trim.delete"}
  PROVE  CallOKNext
<1> USE QueueAssumption DEF CallOKNext, Goto, GotoWith, Frame, Return, Call, CallOK, Idle, Verdicts
<1>1. CASE call[h].lost # NoOp /\ Goto(h, "recover")
  BY <1>1
<1>2. CASE h \in Users /\ call[h].op \in ReadOps /\ Goto(h, "register")
  BY <1>2
<1>3. CASE Return(h)
  BY <1>3
<1> QED
  BY <1>1, <1>2, <1>3 DEF AfterTrim

\* Types and program counters of the handlers are preserved by every step.
LEMMA CallStep ==
  ASSUME call \in [Handlers -> Call], CallOK, events \in Seq(Event), floor \in Nat,
         [Next]_vars
  PROVE  CallOKNext
<1> USE QueueAssumption DEF CallOKNext, At, Goto, GotoWith, GotoTrim, AfterTrim, Frame, Return, Begin, Missed, Call, CallOK, Idle, Verdicts
<1>0. \A h \in Handlers : h \in Users \/ h \in Agents
  BY DEF Handlers
<1>1. ASSUME NEW h \in Users, NEW o \in Ops, BeginEnqueue(h, o) PROVE CallOKNext
  BY <1>1 DEF BeginEnqueue, Handlers
<1>2. ASSUME NEW h \in Agents, BeginClaim(h) PROVE CallOKNext
  BY <1>2 DEF BeginClaim, Handlers
<1>3. ASSUME NEW h \in Agents, NEW o \in Ops, BeginProgress(h, o) PROVE CallOKNext
  BY <1>3 DEF BeginProgress, Handlers
<1>4. ASSUME NEW h \in Agents, NEW o \in Ops, NEW c \in Cursors, BeginLog(h, o, c)
      PROVE  CallOKNext
  BY <1>4 DEF BeginLog, Handlers
<1>5. ASSUME NEW h \in Agents, NEW o \in Ops, NEW v \in Verdicts, BeginComplete(h, o, v)
      PROVE  CallOKNext
  <2>1. Begin(h, "complete.commit", o, 0, v)
    BY <1>5 DEF BeginComplete
  <2> QED
    BY <2>1, SMTT(30) DEF Handlers
<1>6. ASSUME NEW h \in Handlers, RecoverSelect(h) PROVE CallOKNext
  <2>1. CASE \E o \in Ops : GotoWith(h, "recover.commit", call[h].op, o)
    BY <1>6, <2>1 DEF RecoverSelect
  <2>2. CASE h \in Users /\ Goto(h, "conflict")
    BY <1>6, <2>2 DEF RecoverSelect
  <2>3. CASE h \notin Users /\ Goto(h, "busy")
    BY <1>6, <2>3 DEF RecoverSelect
  <2> QED
    BY <1>6, <2>1, <2>2, <2>3 DEF RecoverSelect
<1>7. ASSUME NEW h \in Handlers, RecoverCommit(h) PROVE CallOKNext
  BY <1>7 DEF RecoverCommit
<1>8. ASSUME NEW h \in Handlers, TrimSelect(h) PROVE CallOKNext
  <2>1. Len(events) \in Nat
    OBVIOUS
  <2>2. CASE AfterTrim(h)
    BY <2>2, <1>8, AfterTrimOK DEF TrimSelect
  <2>3. CASE /\ Len(events) - floor > KeepEvents
             /\ call' = [call EXCEPT ![h] = [@ EXCEPT !.pc = "trim.delete",
                                                      !.cut = Len(events) - KeepEvents]]
    <3>1. Len(events) - KeepEvents \in Nat
      BY <2>1, <2>3
    <3>2. h \in Users => call[h].op \in Ops
      BY <1>8 DEF TrimSelect
    <3>3. call' \in [Handlers -> Call]
      <4>1. call[h] \in Call
        OBVIOUS
      <4>2. [call[h] EXCEPT !.pc = "trim.delete", !.cut = Len(events) - KeepEvents] \in Call
        BY <3>1, <4>1
      <4> HIDE DEF Call, CallOK
      <4> QED
        BY <2>3, <4>2
    <3>4. /\ \A g \in Handlers : g # h => call'[g] = call[g]
          /\ call'[h].pc = "trim.delete"
          /\ call'[h].cut = Len(events) - KeepEvents
          /\ call'[h].op = call[h].op
      BY <2>3
    <3>5. CallOK'
      BY <3>2, <3>4
    <3> QED
      BY <3>3, <3>4, <3>5
  <2> HIDE DEF CallOKNext, AfterTrim, Call, CallOK
  <2> QED
    BY <1>8, <2>2, <2>3 DEF TrimSelect
<1>16. ASSUME NEW h \in Handlers, TrimDelete(h) PROVE CallOKNext
  BY <1>16, AfterTrimOK DEF TrimDelete
<1>9. ASSUME NEW h \in Handlers, EnqueueSteps(h) PROVE CallOKNext
  <2>1. CASE ConflictCheck(h)
    <3>1. /\ At(h, "conflict") /\ call[h].op \in Ops
          /\ Return(h) \/ Goto(h, "insert")
      BY <1>9, <2>1 DEF EnqueueSteps, ConflictCheck
    <3>2. CASE Return(h)
      BY <3>1, <3>2
    <3>3. CASE Goto(h, "insert")
      BY <3>1, <3>3
    <3> QED
      BY <3>1, <3>2, <3>3
  <2>2. CASE EnqueueCommit(h)
    BY <2>2 DEF EnqueueCommit
  <2>3. CASE EnqueueConflict(h)
    BY <2>3 DEF EnqueueConflict
  <2>4. CASE Register(h)
    BY <2>4 DEF Register
  <2> QED
    BY <1>9, <2>1, <2>2, <2>3, <2>4 DEF EnqueueSteps
<1>10. ASSUME NEW h \in Handlers, ClaimSteps(h) PROVE CallOKNext
  BY <1>10 DEF ClaimSteps, BusyCheck, PickCandidate, ClaimCommit, ClaimLost
<1>11. ASSUME NEW h \in Handlers, JobSteps(h) PROVE CallOKNext
  <2>1. CASE ProgressCommit(h)
    BY <2>1 DEF ProgressCommit
  <2>2. CASE LogCommit(h)
    BY <2>2 DEF LogCommit
  <2>3. CASE CompleteCommit(h)
    BY <2>3 DEF CompleteCommit
  <2>4. CASE CommitMissed(h)
    BY <2>4 DEF CommitMissed
  <2> QED
    BY <1>11, <2>1, <2>2, <2>3, <2>4 DEF JobSteps
<1>12. ASSUME NEW h \in Handlers, HandlerFails(h) PROVE CallOKNext
  BY <1>12 DEF HandlerFails
<1>13. ASSUME NEW o \in ReadOps, ReaderTimeout(o) PROVE CallOKNext
  BY <1>13 DEF ReaderTimeout
<1>14. CASE ApiRestart
  BY <1>14 DEF ApiRestart
<1>15. CASE Tick \/ UNCHANGED vars
  BY <1>15 DEF Tick, vars, queueVars
<1> HIDE DEF CallOKNext
<1>17. CASE Request
  BY <1>1, <1>2, <1>3, <1>4, <1>5, <1>17 DEF Request
<1>18. ASSUME NEW h \in Handlers, Continue(h) PROVE CallOKNext
  BY <1>6, <1>7, <1>8, <1>9, <1>10, <1>11, <1>16, <1>18 DEF Continue
<1> QED
  BY <1>12, <1>13, <1>14, <1>15, <1>17, <1>18 DEF Next

-----------------------------------------------------------------------------
(* The tables *)

\* To the tables, every step of the system is one transaction on one row, the
\* passing of time, or nothing.
LEMMA StepsAreTransactions ==
  ASSUME call \in [Handlers -> Call], CallOK,
         logCursor \in [Ops -> Cursors \cup {0}], [Next]_vars
  PROVE  TableStep
<1> USE DEF TableStep, tableVars, storeVars, feedVars, Missed, At
<1>1. ASSUME NEW h \in Users, NEW o \in Ops, BeginEnqueue(h, o) PROVE TableStep
  BY <1>1 DEF BeginEnqueue
<1>2. ASSUME NEW h \in Agents, BeginClaim(h) PROVE TableStep
  BY <1>2 DEF BeginClaim
<1>3. ASSUME NEW h \in Agents, NEW o \in Ops, BeginProgress(h, o) PROVE TableStep
  BY <1>3 DEF BeginProgress
<1>4. ASSUME NEW h \in Agents, NEW o \in Ops, NEW c \in Cursors, BeginLog(h, o, c)
      PROVE  TableStep
  BY <1>4 DEF BeginLog
<1>5. ASSUME NEW h \in Agents, NEW o \in Ops, NEW v \in Verdicts, BeginComplete(h, o, v)
      PROVE  TableStep
  BY <1>5 DEF BeginComplete
<1>6. ASSUME NEW h \in Handlers, RecoverSelect(h) PROVE TableStep
  BY <1>6 DEF RecoverSelect
<1>7. ASSUME NEW h \in Handlers, RecoverCommit(h) PROVE TableStep
  <2>1. call[h].lost \in Ops
    BY <1>7 DEF RecoverCommit, CallOK
  <2> QED
    BY <1>7, <2>1 DEF RecoverCommit, Transaction
<1>8. ASSUME NEW h \in Handlers, TrimSelect(h) \/ TrimDelete(h) PROVE TableStep
  BY <1>8 DEF TrimSelect, TrimDelete
<1>9. ASSUME NEW h \in Handlers, EnqueueSteps(h) PROVE TableStep
  <2>1. CASE EnqueueCommit(h)
    <3>1. call[h].op \in Ops
      BY <2>1 DEF EnqueueCommit, CallOK
    <3> QED
      BY <2>1, <3>1 DEF EnqueueCommit, Transaction
  <2>2. CASE ConflictCheck(h) \/ EnqueueConflict(h) \/ Register(h)
    BY <2>2 DEF ConflictCheck, EnqueueConflict, Register
  <2> QED
    BY <1>9, <2>1, <2>2 DEF EnqueueSteps
<1>10. ASSUME NEW h \in Handlers, ClaimSteps(h) PROVE TableStep
  <2>1. CASE ClaimCommit(h)
    <3>1. call[h].op \in Ops
      BY <2>1 DEF ClaimCommit, CallOK
    <3> QED
      BY <2>1, <3>1 DEF ClaimCommit, Transaction
  <2>2. CASE BusyCheck(h) \/ PickCandidate(h) \/ ClaimLost(h)
    BY <2>2 DEF BusyCheck, PickCandidate, ClaimLost
  <2> QED
    BY <1>10, <2>1, <2>2 DEF ClaimSteps
<1>11. ASSUME NEW h \in Handlers, JobSteps(h) PROVE TableStep
  <2>1. CASE ProgressCommit(h)
    <3>1. call[h].op \in Ops
      BY <2>1 DEF ProgressCommit, CallOK
    <3> QED
      BY <2>1, <3>1 DEF ProgressCommit, Transaction
  <2>2. CASE LogCommit(h)
    <3>1. call[h].op \in Ops /\ call[h].cursor \in Cursors
      BY <2>2 DEF LogCommit, CallOK
    <3> QED
      BY <2>2, <3>1 DEF LogCommit, Transaction
  <2>3. CASE CompleteCommit(h)
    <3>1. call[h].op \in Ops
      BY <2>3 DEF CompleteCommit, CallOK
    <3>2. call[h].verdict \in Verdicts
      BY DEF Call
    <3> QED
      BY <2>3, <3>1, <3>2 DEF CompleteCommit, Transaction
  <2>4. CASE CommitMissed(h)
    BY <2>4 DEF CommitMissed
  <2> QED
    BY <1>11, <2>1, <2>2, <2>3, <2>4 DEF JobSteps
<1>12. ASSUME NEW h \in Handlers, HandlerFails(h) PROVE TableStep
  BY <1>12 DEF HandlerFails
<1>13. ASSUME NEW o \in ReadOps, ReaderTimeout(o) PROVE TableStep
  BY <1>13 DEF ReaderTimeout
<1>14. CASE ApiRestart
  BY <1>14 DEF ApiRestart
<1>15. CASE Tick
  BY <1>15 DEF Tick, queueVars
<1>16. CASE UNCHANGED vars
  BY <1>16 DEF vars, queueVars
<1> QED
  BY <1>1, <1>2, <1>3, <1>4, <1>5, <1>6, <1>7, <1>8, <1>9, <1>10, <1>11, <1>12,
     <1>13, <1>14, <1>15, <1>16 DEF Next, Request, Continue

\* A transaction that publishes appends one event, of the row it changes.
LEMMA Publishes ==
  ASSUME events \in Seq(Event), NEW o \in Ops, NEW t \in EventTypes,
         NEW c \in Cursors \cup {0}, Emit(o, t, c)
  PROVE  /\ events' \in Seq(Event)
         /\ Len(events') = Len(events) + 1
         /\ DOMAIN events = 1 .. Len(events)
         /\ DOMAIN events' = 1 .. Len(events) + 1
         /\ \A i \in DOMAIN events : events'[i] = events[i] /\ events[i] \in Event
         /\ events'[Len(events) + 1] = [op |-> o, type |-> t, cursor |-> c]
<1>1. [op |-> o, type |-> t, cursor |-> c] \in Event
  BY DEF Event
<1> QED
  BY <1>1 DEF Emit

\* The tables start empty.
LEMMA TableInit == Init => TableInv
BY QueueAssumption, LeaseTicksAssumption
   DEF Init, StoreInit, TableInv, TableTypeOK, StoreTypeOK, Status, OneActive, Active,
       EventsFollowRows, EventOrder, LogsOnce

\* A transaction keeps the types of the tables.
LEMMA TableTypeStep ==
  ASSUME TableTypeOK, TableStep
  PROVE  TableTypeOK'
<1> USE QueueAssumption, LeaseTicksAssumption
        DEF TableTypeOK, StoreTypeOK, Status, Verdicts
<1>1. ASSUME NEW o \in Ops, Transaction(o) PROVE TableTypeOK'
  <2>1. StoreTypeOK'
    <3>1. CASE InsertRow(o)
      BY <3>1 DEF InsertRow
    <3>2. CASE ClaimRow(o)
      BY <3>2 DEF ClaimRow
    <3>3. CASE RenewRow(o)
      BY <3>3 DEF RenewRow
    <3>4. ASSUME NEW v \in Verdicts, FinishRow(o, v) PROVE StoreTypeOK'
      BY <3>4 DEF FinishRow
    <3>5. CASE RecoverRow(o)
      BY <3>5 DEF RecoverRow
    <3> HIDE DEF StoreTypeOK, TableTypeOK
    <3> QED
      BY <1>1, <3>1, <3>2, <3>3, <3>4, <3>5 DEF Transaction
  <2>2. events' \in Seq(Event)
    BY <1>1, Publishes DEF Transaction, EventTypes
  <2>3. logCursor' \in [Ops -> Cursors \cup {0}]
    BY <1>1 DEF Transaction
  <2> QED
    BY <2>1, <2>2, <2>3
<1>2. CASE Elapse /\ UNCHANGED <<events, logCursor>>
  BY <1>2 DEF Elapse
<1>3. CASE UNCHANGED tableVars
  BY <1>3 DEF tableVars
<1> QED
  BY <1>1, <1>2, <1>3 DEF TableStep

\* The insert is the only transaction that makes a row active, and the unique
\* index lets it through only when no other row is.
LEMMA OneActiveStep ==
  ASSUME TableTypeOK, OneActive, TableStep
  PROVE  OneActive'
<1> USE DEF TableTypeOK, StoreTypeOK, OneActive, Active
<1>1. ASSUME NEW o \in Ops, Transaction(o) PROVE OneActive'
  <2>1. CASE InsertRow(o)
    BY <2>1 DEF InsertRow
  <2>2. CASE ClaimRow(o)
    BY <2>2 DEF ClaimRow
  <2>3. CASE RenewRow(o)
    BY <2>3 DEF RenewRow
  <2>4. ASSUME NEW v \in Verdicts, FinishRow(o, v) PROVE OneActive'
    BY <2>4 DEF FinishRow, Verdicts
  <2>5. CASE RecoverRow(o)
    BY <2>5 DEF RecoverRow
  <2> QED
    BY <1>1, <2>1, <2>2, <2>3, <2>4, <2>5 DEF Transaction
<1>2. CASE UNCHANGED status
  BY <1>2
<1> QED
  BY <1>1, <1>2 DEF TableStep, Elapse, tableVars

\* How a transaction changes the tables, event by event: rows other than o's
\* stay, and an event published for o fits between what o's row allowed before
\* and what it allows now.
LEMMA TransactionEffect ==
  ASSUME TableTypeOK, NEW o \in Ops, Transaction(o)
  PROVE  /\ \A p \in Ops \ {o} : status'[p] = status[p] /\ logCursor'[p] = logCursor[p]
         /\ Reached(status[o]) <= Reached(status'[o])
         /\ logCursor[o] <= logCursor'[o]
         /\ \/ events' = events
            \/ \E t \in EventTypes, c \in Cursors \cup {0} :
                 /\ Emit(o, t, c)
                 /\ Phase(t) <= Reached(status'[o])
                 /\ \/ Reached(status[o]) < Phase(t)
                    \/ Reached(status[o]) = 2 /\ Phase(t) = 2
                 /\ t = "log" => logCursor[o] < c /\ c = logCursor'[o]
<1> USE QueueAssumption
    DEF TableTypeOK, StoreTypeOK, Status, Verdicts, Reached, Phase, EventTypes
<1>a. /\ Phase("claimed") = 1 /\ Phase("progress") = 2 /\ Phase("log") = 2
      /\ Phase("completed") = 3 /\ Phase("recovered") = 3
  OBVIOUS
<1>b. /\ Reached("queued") = 0 /\ Reached("running") = 2 /\ Reached("failed") = 3
      /\ \A v \in Verdicts : Reached(v) = 3
  OBVIOUS
<1>c. logCursor[o] \in Int
  <2>1. logCursor[o] \in Cursors \cup {0} /\ \A c \in Cursors \cup {0} : c \in Int
    OBVIOUS
  <2> QED
    BY <2>1
<1>d. /\ {"claimed", "progress", "completed", "recovered"} \subseteq EventTypes
      /\ 0 \in Cursors \cup {0}
  OBVIOUS
<1>1. CASE InsertRow(o) /\ Emit(o, "queued", 0) /\ UNCHANGED logCursor
  <2>1. status[o] = "absent" /\ status'[o] = "queued"
    BY <1>1 DEF InsertRow
  <2>2. Reached("absent") = -1 /\ Reached("queued") = 0 /\ Phase("queued") = 0
    OBVIOUS
  <2>3. \A p \in Ops \ {o} : status'[p] = status[p] /\ logCursor'[p] = logCursor[p]
    BY <1>1 DEF InsertRow
  <2>4. logCursor'[o] = logCursor[o] /\ logCursor[o] \in Int
    <3>1. logCursor[o] \in Cursors \cup {0} /\ \A c \in Cursors \cup {0} : c \in Int
      OBVIOUS
    <3> QED
      BY <1>1, <3>1
  <2>5. "queued" \in EventTypes /\ 0 \in Cursors \cup {0} /\ "queued" # "log"
    OBVIOUS
  <2>6. Reached(status[o]) = -1 /\ Reached(status'[o]) = 0
    BY <2>1, <2>2
  <2> HIDE DEF Reached, Phase, EventTypes, TableTypeOK
  <2> QED
    BY <1>1, <2>2, <2>3, <2>4, <2>5, <2>6
<1>2. CASE ClaimRow(o) /\ Emit(o, "claimed", 0) /\ UNCHANGED logCursor
  <2>1. /\ status[o] = "queued"
        /\ status'[o] = "running"
        /\ \A p \in Ops \ {o} : status'[p] = status[p]
    BY <1>2 DEF ClaimRow
  <2> HIDE DEF Reached, Phase, EventTypes, TableTypeOK
  <2> QED
    BY <1>2, <1>a, <1>b, <1>c, <1>d, <2>1
<1>3. CASE RenewRow(o) /\ Emit(o, "progress", 0) /\ UNCHANGED logCursor
  <2>1. /\ status[o] = "running"
        /\ status'[o] = "running"
        /\ \A p \in Ops \ {o} : status'[p] = status[p]
    BY <1>3 DEF RenewRow
  <2> HIDE DEF Reached, Phase, EventTypes, TableTypeOK
  <2> QED
    BY <1>3, <1>a, <1>b, <1>c, <1>d, <2>1
<1>4. ASSUME RenewRow(o), NEW c \in Cursors, logCursor[o] < c,
             logCursor' = [logCursor EXCEPT ![o] = c], Emit(o, "log", c)
      PROVE  /\ \A p \in Ops \ {o} : status'[p] = status[p] /\ logCursor'[p] = logCursor[p]
             /\ Reached(status[o]) <= Reached(status'[o])
             /\ logCursor[o] <= logCursor'[o]
             /\ Phase("log") <= Reached(status'[o])
             /\ Reached(status[o]) = 2 /\ Phase("log") = 2
             /\ c = logCursor'[o]
  <2>1. status[o] = "running" /\ status'[o] = "running"
    BY <1>4 DEF RenewRow
  <2>2. logCursor'[o] = c /\ c \in Int
    BY <1>4
  <2>3. \A p \in Ops \ {o} : status'[p] = status[p] /\ logCursor'[p] = logCursor[p]
    BY <1>4 DEF RenewRow
  <2> HIDE DEF Reached, Phase, EventTypes, TableTypeOK
  <2> QED
    BY <1>4, <1>a, <1>b, <1>c, <2>1, <2>2, <2>3
<1>5. CASE RenewRow(o) /\ UNCHANGED <<events, logCursor>>
  <2>1. /\ status[o] = "running"
        /\ status'[o] = "running"
        /\ \A p \in Ops \ {o} : status'[p] = status[p]
    BY <1>5 DEF RenewRow
  <2> HIDE DEF Reached, Phase, EventTypes, TableTypeOK
  <2> QED
    BY <1>5, <1>a, <1>b, <1>c, <1>d, <2>1
<1>6. CASE /\ \E v \in Verdicts : FinishRow(o, v)
           /\ Emit(o, "completed", 0)
           /\ UNCHANGED logCursor
  <2>1. /\ status[o] = "running"
        /\ status'[o] \in Verdicts
        /\ \A p \in Ops \ {o} : status'[p] = status[p]
    BY <1>6 DEF FinishRow
  <2> HIDE DEF Verdicts, Reached, Phase, EventTypes, TableTypeOK
  <2> QED
    BY <1>6, <1>a, <1>b, <1>c, <1>d, <2>1
<1>7. CASE RecoverRow(o) /\ Emit(o, "recovered", 0) /\ UNCHANGED logCursor
  <2>1. /\ status[o] = "running"
        /\ status'[o] = "failed"
        /\ \A p \in Ops \ {o} : status'[p] = status[p]
    BY <1>7 DEF RecoverRow, Lapsed
  <2> HIDE DEF Reached, Phase, EventTypes, TableTypeOK
  <2> QED
    BY <1>7, <1>a, <1>b, <1>c, <1>d, <2>1
<1> QED
  BY <1>1, <1>2, <1>3, <1>4, <1>5, <1>6, <1>7 DEF Transaction

\* A transaction keeps the event table in step with its row, and ordered.
LEMMA EventsStep ==
  ASSUME TableTypeOK, EventsFollowRows, EventOrder, LogsOnce, NEW o \in Ops, Transaction(o)
  PROVE  EventsFollowRows' /\ EventOrder' /\ LogsOnce'
<1>0. \A i \in DOMAIN events : events[i] \in Event
  BY DEF TableTypeOK
<1>a. /\ status \in [Ops -> Status]
      /\ logCursor \in [Ops -> Cursors \cup {0}]
      /\ Cursors \subseteq Nat
  BY QueueAssumption DEF TableTypeOK, StoreTypeOK
<1>g. \A c \in Cursors \cup {0} : c \in Int
  BY <1>a
<1>b. \A p \in Ops : Reached(status[p]) \in Int /\ logCursor[p] \in Int
  BY <1>a DEF Reached, Status, Verdicts
<1>c. \A t \in EventTypes : Phase(t) \in 0 .. 3 /\ (Phase(t) = 2 <=> t \in {"progress", "log"})
  BY DEF Phase, EventTypes
<1>d. /\ TableTypeOK'
  BY TableTypeStep DEF TableStep
<1>e. \A p \in Ops : Reached(status'[p]) \in Int /\ logCursor'[p] \in Int
  BY <1>d, QueueAssumption DEF TableTypeOK, StoreTypeOK, Reached, Status, Verdicts
<1>f. \A p \in Ops : /\ Reached(status[p]) <= Reached(status'[p])
                     /\ logCursor[p] <= logCursor'[p]
  BY <1>b, <1>e, TransactionEffect
<1>1. CASE events' = events
  <2>1. ASSUME NEW i \in DOMAIN events
        PROVE  /\ Phase(events[i].type) <= Reached(status'[events[i].op])
               /\ events[i].type = "log" => events[i].cursor <= logCursor'[events[i].op]
    <3> DEFINE p == events[i].op
    <3>1. p \in Ops /\ events[i].type \in EventTypes /\ events[i].cursor \in Int
      BY <1>0, <1>g DEF Event
    <3>2. /\ Phase(events[i].type) <= Reached(status[p])
          /\ events[i].type = "log" => events[i].cursor <= logCursor[p]
      BY DEF EventsFollowRows
    <3>3. /\ Reached(status[p]) \in Int /\ logCursor[p] \in Int
          /\ Reached(status'[p]) \in Int /\ logCursor'[p] \in Int
          /\ Reached(status[p]) <= Reached(status'[p])
          /\ logCursor[p] <= logCursor'[p]
          /\ Phase(events[i].type) \in Int
      BY <1>b, <1>c, <1>e, <1>f, <3>1
    <3> QED
      BY <3>1, <3>2, <3>3
  <2> QED
    BY <1>1, <2>1 DEF EventsFollowRows, EventOrder, LogsOnce
<1>2. ASSUME NEW t \in EventTypes, NEW c \in Cursors \cup {0}, Emit(o, t, c),
             Phase(t) <= Reached(status'[o]),
             \/ Reached(status[o]) < Phase(t)
             \/ Reached(status[o]) = 2 /\ Phase(t) = 2,
             t = "log" => logCursor[o] < c /\ c = logCursor'[o]
      PROVE  EventsFollowRows' /\ EventOrder' /\ LogsOnce'
  <2> DEFINE n == Len(events)
  <2>1. /\ n \in Nat
        /\ DOMAIN events = 1 .. n
        /\ DOMAIN events' = 1 .. n + 1
        /\ \A i \in 1 .. n : events'[i] = events[i]
        /\ events'[n + 1] = [op |-> o, type |-> t, cursor |-> c]
    BY <1>2, Publishes DEF TableTypeOK
  <2>2. \A i \in 1 .. n : /\ events[i].op \in Ops
                          /\ events[i].type \in EventTypes
                          /\ events[i].cursor \in Int
    <3>1. \A i \in 1 .. n : events[i] \in Event
      BY <1>0, <2>1
    <3>2. \A e \in Event : e.op \in Ops /\ e.type \in EventTypes /\ e.cursor \in Cursors \cup {0}
      BY DEF Event
    <3> QED
      BY <1>g, <3>1, <3>2
  <2>3. \A i \in 1 .. n : events[i].op = o =>
          /\ Phase(events[i].type) <= Reached(status[o])
          /\ events[i].type = "log" => events[i].cursor <= logCursor[o]
    BY <2>1 DEF EventsFollowRows
  <2>4. EventsFollowRows'
    <3>1. ASSUME NEW i \in 1 .. n
          PROVE  /\ Phase(events[i].type) <= Reached(status'[events[i].op])
                 /\ events[i].type = "log" => events[i].cursor <= logCursor'[events[i].op]
      <4> DEFINE p == events[i].op
      <4>1. p \in Ops /\ Phase(events[i].type) \in Int /\ events[i].cursor \in Int
        BY <1>c, <2>2
      <4>2. /\ Phase(events[i].type) <= Reached(status[p])
            /\ events[i].type = "log" => events[i].cursor <= logCursor[p]
        BY <2>1 DEF EventsFollowRows
      <4>3. /\ Reached(status[p]) \in Int /\ logCursor[p] \in Int
            /\ Reached(status'[p]) \in Int /\ logCursor'[p] \in Int
            /\ Reached(status[p]) <= Reached(status'[p])
            /\ logCursor[p] <= logCursor'[p]
        BY <1>b, <1>e, <1>f, <4>1
      <4> QED
        BY <4>1, <4>2, <4>3
    <3>2. c \in Int /\ (t = "log" => c <= logCursor'[o])
      BY <1>2, <1>a, <1>e
    <3> QED
      BY <1>2, <2>1, <3>1, <3>2 DEF EventsFollowRows
  <2>5. EventOrder'
    <3>1. ASSUME NEW i \in 1 .. n, events[i].op = o
          PROVE  \/ Phase(events[i].type) < Phase(t)
                 \/ Phase(events[i].type) = 2 /\ Phase(t) = 2
      <4>1. /\ Phase(events[i].type) \in Int /\ Phase(t) \in Int
            /\ Reached(status[o]) \in Int
            /\ Phase(events[i].type) <= Reached(status[o])
        BY <1>2, <1>b, <1>c, <2>2, <2>3, <3>1
      <4> QED
        BY <1>2, <4>1
    <3> QED
      BY <2>1, <2>2, <3>1 DEF EventOrder
  <2>6. LogsOnce'
    <3>1. ASSUME NEW i \in 1 .. n, events[i].op = o, events[i].type = "log", t = "log"
          PROVE  events[i].cursor < c
      BY <1>2, <1>a, <1>b, <2>2, <2>3, <3>1
    <3> QED
      BY <2>1, <2>2, <3>1 DEF LogsOnce
  <2> QED
    BY <2>4, <2>5, <2>6
<1> QED
  BY <1>1, <1>2, TransactionEffect

\* The invariant of the tables is inductive.
LEMMA TableInvStep ==
  ASSUME TableInv, TableStep
  PROVE  TableInv'
<1>1. TableTypeOK' /\ OneActive'
  BY TableTypeStep, OneActiveStep DEF TableInv
<1>2. EventsFollowRows' /\ EventOrder' /\ LogsOnce'
  <2>1. CASE \E o \in Ops : Transaction(o)
    BY <2>1, EventsStep DEF TableInv
  <2>2. CASE UNCHANGED <<status, events, logCursor>>
    BY <2>2 DEF TableInv, EventsFollowRows, EventOrder, LogsOnce
  <2> QED
    BY <2>1, <2>2 DEF TableStep, Elapse, tableVars
<1> QED
  BY <1>1, <1>2 DEF TableInv

-----------------------------------------------------------------------------
(* Memory, faults and trimming *)

MemoryTypeOK ==
  /\ reader \in [ReadOps -> {"none", "waiting", "value", "error"}]
  /\ cached \subseteq ReadOps
  /\ floor \in Nat
  /\ faults \in 0 .. MaxFaults

\* What a step may do to the oldest retained event.
FloorStep ==
  \/ floor' = floor
  \/ \E h \in Handlers : call[h].pc = "trim.delete" /\ floor' = call[h].cut

\* What a handler is about to delete is not among the newest KeepEvents events.
CutsOK ==
  \A h \in Handlers : call[h].pc = "trim.delete" => call[h].cut + KeepEvents <= Len(events)

\* What every step does to the API's memory and to the oldest event.
LEMMA MemoryStep ==
  ASSUME MemoryTypeOK, call \in [Handlers -> Call], CallOK, [Next]_vars
  PROVE  MemoryTypeOK' /\ FloorStep
<1> USE QueueAssumption DEF MemoryTypeOK, FloorStep, memoryVars, feedVars, Missed, At
<1>1. ASSUME NEW h \in Users, NEW o \in Ops, BeginEnqueue(h, o) PROVE MemoryTypeOK' /\ FloorStep
  BY <1>1 DEF BeginEnqueue
<1>2. ASSUME NEW h \in Agents, BeginClaim(h) PROVE MemoryTypeOK' /\ FloorStep
  BY <1>2 DEF BeginClaim
<1>3. ASSUME NEW h \in Agents, NEW o \in Ops, BeginProgress(h, o) PROVE MemoryTypeOK' /\ FloorStep
  BY <1>3 DEF BeginProgress
<1>4. ASSUME NEW h \in Agents, NEW o \in Ops, NEW c \in Cursors, BeginLog(h, o, c)
      PROVE  MemoryTypeOK' /\ FloorStep
  BY <1>4 DEF BeginLog
<1>5. ASSUME NEW h \in Agents, NEW o \in Ops, NEW v \in Verdicts, BeginComplete(h, o, v)
      PROVE  MemoryTypeOK' /\ FloorStep
  BY <1>5 DEF BeginComplete
<1>6. ASSUME NEW h \in Handlers, RecoverSelect(h) PROVE MemoryTypeOK' /\ FloorStep
  BY <1>6 DEF RecoverSelect
<1>7. ASSUME NEW h \in Handlers, RecoverCommit(h) PROVE MemoryTypeOK' /\ FloorStep
  BY <1>7 DEF RecoverCommit
<1>8. ASSUME NEW h \in Handlers, TrimSelect(h) \/ TrimDelete(h) PROVE MemoryTypeOK' /\ FloorStep
  BY <1>8 DEF TrimSelect, TrimDelete, Call
<1>9. ASSUME NEW h \in Handlers, EnqueueSteps(h) PROVE MemoryTypeOK' /\ FloorStep
  BY <1>9 DEF EnqueueSteps, ConflictCheck, EnqueueCommit, EnqueueConflict, Register
<1>10. ASSUME NEW h \in Handlers, ClaimSteps(h) PROVE MemoryTypeOK' /\ FloorStep
  BY <1>10 DEF ClaimSteps, BusyCheck, PickCandidate, ClaimCommit, ClaimLost
<1>11. ASSUME NEW h \in Handlers, JobSteps(h) PROVE MemoryTypeOK' /\ FloorStep
  BY <1>11 DEF JobSteps, ProgressCommit, LogCommit, CompleteCommit, CommitMissed
<1>12. ASSUME NEW h \in Handlers, HandlerFails(h) PROVE MemoryTypeOK' /\ FloorStep
  BY <1>12 DEF HandlerFails
<1>13. ASSUME NEW o \in ReadOps, ReaderTimeout(o) PROVE MemoryTypeOK' /\ FloorStep
  BY <1>13 DEF ReaderTimeout
<1>14. CASE ApiRestart
  BY <1>14 DEF ApiRestart
<1>15. CASE Tick \/ UNCHANGED vars
  BY <1>15 DEF Tick, vars, queueVars
<1> QED
  BY <1>1, <1>2, <1>3, <1>4, <1>5, <1>6, <1>7, <1>8, <1>9, <1>10, <1>11, <1>12,
     <1>13, <1>14, <1>15 DEF Next, Request, Continue

\* The event table only grows.
LEMMA EventsGrow ==
  ASSUME TableTypeOK, TableStep
  PROVE  Len(events) \in Nat /\ Len(events') \in Nat /\ Len(events') >= Len(events)
<1>1. events \in Seq(Event) /\ Len(events) \in Nat
  BY DEF TableTypeOK
<1>2. ASSUME NEW o \in Ops, NEW t \in EventTypes, NEW c \in Cursors \cup {0}, Emit(o, t, c)
      PROVE  Len(events') = Len(events) + 1
  BY <1>1, <1>2, Publishes
<1>3. CASE events' = events
  BY <1>1, <1>3
<1>4. CASE \E o \in Ops : Transaction(o)
  BY <1>1, <1>2, <1>3, <1>4 DEF Transaction, EventTypes
<1> QED
  BY <1>3, <1>4 DEF TableStep, tableVars

-----------------------------------------------------------------------------
(* The queue *)

\* The inductive invariant: well-formed handlers, ordered tables, bounded trims.
IInv ==
  /\ call \in [Handlers -> Call]
  /\ CallOK
  /\ CutsOK
  /\ TableInv
  /\ MemoryTypeOK
  /\ NewestRetained

\* Every step of the system preserves the inductive invariant.
LEMMA IInvInductive == IInv /\ [Next]_vars => IInv'
<1> SUFFICES ASSUME IInv, [Next]_vars PROVE IInv'
  OBVIOUS
<1> USE DEF IInv
<1>0. TableTypeOK /\ events \in Seq(Event) /\ floor \in Nat
  BY DEF TableInv, TableTypeOK, MemoryTypeOK
<1>1. CallOKNext
  BY <1>0, CallStep
<1>2. TableInv' /\ TableStep
  BY StepsAreTransactions, TableInvStep DEF TableInv, TableTypeOK
<1>3. MemoryTypeOK' /\ FloorStep
  BY MemoryStep
<1>4. Len(events) \in Nat /\ Len(events') \in Nat /\ Len(events') >= Len(events)
  BY <1>0, <1>2, EventsGrow
<1>5. KeepEvents \in Nat /\ KeepEvents > 0
  BY QueueAssumption
<1>6. \A h \in Handlers : call[h].cut \in Nat
  BY DEF Call
<1>7. CutsOK'
  BY <1>1, <1>4, <1>5, <1>6 DEF CutsOK, CallOKNext
<1>8. NewestRetained'
  <2>1. floor' = floor \/ floor' + KeepEvents <= Len(events)
    BY <1>3, <1>6 DEF FloorStep, CutsOK
  <2> QED
    BY <1>0, <1>3, <1>4, <1>5, <2>1 DEF NewestRetained, MemoryTypeOK
<1> QED
  BY <1>1, <1>2, <1>3, <1>7, <1>8 DEF CallOKNext

\* The inductive invariant holds in every reachable state.
LEMMA IInvAlways == Spec => []IInv
<1>1. Init => IInv
  <2>1. Init => CutsOK /\ MemoryTypeOK /\ NewestRetained
    BY QueueAssumption DEF Init, Idle, Frame, CutsOK, MemoryTypeOK, NewestRetained
  <2> QED
    BY <2>1, CallInit, TableInit DEF IInv
<1> QED
  BY <1>1, IInvInductive, PTL DEF Spec

\* At most one operation of a server is queued or running, in every state and
\* for any number of concurrent requests, failures and restarts.
THEOREM AtMostOneActive == Spec => []OneActive
<1>1. IInv => OneActive
  BY DEF IInv, TableInv
<1> QED
  BY <1>1, IInvAlways, PTL

\* Subscribers see the events of an operation in life-cycle order, and nothing
\* after its verdict.
THEOREM EventsInOrder == Spec => []EventOrder
<1>1. IInv => EventOrder
  BY DEF IInv, TableInv
<1> QED
  BY <1>1, IInvAlways, PTL

\* No log chunk is published twice or out of order, whatever the agent repeats.
THEOREM LogsPublishedOnce == Spec => []LogsOnce
<1>1. IInv => LogsOnce
  BY DEF IInv, TableInv
<1> QED
  BY <1>1, IInvAlways, PTL

\* The newest KeepEvents events are never trimmed, however the selects and
\* deletes of trims and the inserts of different handlers interleave.
THEOREM NewestEventsRetained == Spec => []NewestRetained
<1>1. IInv => NewestRetained
  BY DEF IInv
<1> QED
  BY <1>1, IInvAlways, PTL

\* Every variable of the queue keeps its type.
THEOREM TypeCorrect == Spec => []TypeOK
<1>1. IInv => TypeOK
  BY DEF IInv, TableInv, TableTypeOK, MemoryTypeOK, TypeOK, QueueTypeOK
<1> QED
  BY <1>1, IInvAlways, PTL

-----------------------------------------------------------------------------
(* The queue implements the life cycle *)

\* Publishing adds the event's type to what is announced for its operation.
LEMMA Announces ==
  ASSUME events \in Seq(Event), NEW o \in Ops, NEW t \in EventTypes,
         NEW c \in Cursors \cup {0}, Emit(o, t, c)
  PROVE  Announced' = IF t \in {"progress", "log"} THEN Announced
                      ELSE [Announced EXCEPT ![o] = @ \cup {t}]
<1> DEFINE n == Len(events)
<1>1. /\ n \in Nat
      /\ DOMAIN events = 1 .. n
      /\ DOMAIN events' = 1 .. n + 1
      /\ \A i \in 1 .. n : events'[i] = events[i]
      /\ events'[n + 1] = [op |-> o, type |-> t, cursor |-> c]
  BY Publishes
<1>2. ASSUME NEW p \in Ops
      PROVE  Announced'[p] = Announced[p] \cup
               (IF p = o /\ t \notin {"progress", "log"} THEN {t} ELSE {})
  <2>1. ASSUME NEW u \in EventTypes \ {"progress", "log"}
        PROVE  (\E i \in DOMAIN events' : events'[i].op = p /\ events'[i].type = u)
               <=> \/ \E i \in DOMAIN events : events[i].op = p /\ events[i].type = u
                   \/ p = o /\ u = t
    BY <1>1
  <2> QED
    BY <2>1 DEF Announced
<1>3. Announced' = [p \in Ops |-> Announced'[p]] /\ Announced = [p \in Ops |-> Announced[p]]
  BY DEF Announced
<1> QED
  BY <1>2, <1>3

\* The initial state maps to the life cycle's.
LEMMA LifecycleInit == Init => Lifecycle!Init
BY DEF Init, StoreInit, Lifecycle!Init, Announced

\* Every transaction maps to a step of the life cycle, or to a stutter.
LEMMA LifecycleStep ==
  ASSUME TableTypeOK, TableStep
  PROVE  Lifecycle!Next \/ UNCHANGED Lifecycle!lifecycleVars
<1> USE DEF Lifecycle!Next, Lifecycle!lifecycleVars, Lifecycle!Advance
<1>0. events \in Seq(Event)
  BY DEF TableTypeOK
<1>1. ASSUME NEW o \in Ops, Transaction(o)
      PROVE  Lifecycle!Next \/ UNCHANGED Lifecycle!lifecycleVars
  <2>1. CASE InsertRow(o) /\ Emit(o, "queued", 0)
    <3>1. Lifecycle!Submit(o)
      BY <1>0, <2>1, Announces
         DEF InsertRow, Active, EventTypes, Lifecycle!Submit, Lifecycle!Live
    <3> QED
      BY <3>1
  <2>2. CASE ClaimRow(o) /\ Emit(o, "claimed", 0)
    <3>1. Lifecycle!Start(o)
      BY <1>0, <2>2, Announces DEF ClaimRow, EventTypes, Lifecycle!Start
    <3> QED
      BY <3>1
  <2>3. CASE RenewRow(o) /\ Emit(o, "progress", 0)
    BY <1>0, <2>3, Announces DEF RenewRow, EventTypes
  <2>4. ASSUME RenewRow(o), NEW c \in Cursors, Emit(o, "log", c)
        PROVE  UNCHANGED Lifecycle!lifecycleVars
    BY <1>0, <2>4, Announces DEF RenewRow, EventTypes
  <2>5. CASE RenewRow(o) /\ UNCHANGED events
    BY <2>5 DEF RenewRow, Announced
  <2>6. ASSUME NEW v \in Verdicts, FinishRow(o, v), Emit(o, "completed", 0)
        PROVE  Lifecycle!Next
    <3>1. Lifecycle!Finish(o, v)
      BY <1>0, <2>6, Announces DEF FinishRow, EventTypes, Lifecycle!Finish
    <3> QED
      BY <3>1 DEF Verdicts
  <2>7. CASE RecoverRow(o) /\ Emit(o, "recovered", 0)
    <3>1. Lifecycle!GiveUp(o)
      BY <1>0, <2>7, Announces DEF RecoverRow, Lapsed, EventTypes, Lifecycle!GiveUp
    <3> QED
      BY <3>1
  <2> QED
    BY <1>1, <2>1, <2>2, <2>3, <2>4, <2>5, <2>6, <2>7 DEF Transaction
<1>2. CASE UNCHANGED <<status, events>>
  BY <1>2 DEF Announced
<1> QED
  BY <1>1, <1>2 DEF TableStep, Elapse, tableVars

\* The queue, with all its handlers, implements the life cycle it promises:
\* every step is one of OperationLifecycle's, announced as it is made, or
\* leaves both the state and the announcements as they are.
THEOREM QueueImplementsLifecycle == Spec => ImplementsLifecycle
<1>1. IInv /\ [Next]_vars => [Lifecycle!Next]_(Lifecycle!lifecycleVars)
  BY StepsAreTransactions, LifecycleStep DEF IInv, TableInv, TableTypeOK
<1> QED
  BY <1>1, LifecycleInit, IInvAlways, PTL DEF Spec, ImplementsLifecycle, Lifecycle!Spec

-----------------------------------------------------------------------------
(* The readers *)

\* Results, delivered or cached, come from operations an agent has claimed; what is cached
\* nobody waits for.
Served(o) == status[o] \in {"running"} \cup Verdicts
ReadersInv ==
  \A o \in ReadOps :
    /\ reader[o] = "value" \/ o \in cached => Served(o)
    /\ ~(reader[o] = "waiting" /\ o \in cached)

\* What is claimed stays so.
LEMMA ServedStays ==
  ASSUME TableTypeOK, TableStep, NEW o \in Ops, Served(o)
  PROVE  Served(o)'
<1> USE DEF Served, TableTypeOK, StoreTypeOK, Verdicts
<1>1. ASSUME NEW p \in Ops, Transaction(p) PROVE Served(o)'
  <2>1. CASE InsertRow(p)
    BY <2>1 DEF InsertRow
  <2>2. CASE ClaimRow(p)
    BY <2>2 DEF ClaimRow
  <2>3. CASE RenewRow(p)
    BY <2>3 DEF RenewRow
  <2>4. ASSUME NEW v \in Verdicts, FinishRow(p, v) PROVE Served(o)'
    BY <2>4 DEF FinishRow
  <2>5. CASE RecoverRow(p)
    BY <2>5 DEF RecoverRow
  <2> QED
    BY <1>1, <2>1, <2>2, <2>3, <2>4, <2>5 DEF Transaction
<1>2. CASE UNCHANGED status
  BY <1>2
<1> QED
  BY <1>1, <1>2 DEF TableStep, Elapse, tableVars

\* What a step does to the readers and the cache of results: nothing anew, unless a read
\* registers itself or an agent reports a read.
Reads ==
  \/ \A o \in ReadOps : /\ reader'[o] \in {reader[o], "error"}
                        /\ o \in cached' => o \in cached
  \/ \E h \in Handlers : Register(h)
  \/ \E h \in Agents, o \in ReadOps : BeginComplete(h, o, "succeeded")

LEMMA StepsAreReads ==
  ASSUME IInv, [Next]_vars
  PROVE  Reads
<1> USE DEF Reads, memoryVars, IInv, MemoryTypeOK
<1>1. ASSUME NEW h \in Handlers, Continue(h) PROVE Reads
  BY <1>1 DEF Continue, RecoverSelect, RecoverCommit, TrimSelect, TrimDelete, EnqueueSteps,
              ConflictCheck, EnqueueCommit, EnqueueConflict, ClaimSteps, BusyCheck,
              PickCandidate, ClaimCommit, ClaimLost, JobSteps, ProgressCommit, LogCommit,
              CompleteCommit, CommitMissed, Missed
<1>2. ASSUME NEW h \in Users, NEW o \in Ops, BeginEnqueue(h, o) PROVE Reads
  BY <1>2 DEF BeginEnqueue
<1>3. ASSUME NEW h \in Agents, NEW o \in Ops, NEW v \in Verdicts, BeginComplete(h, o, v) PROVE Reads
  <2>1. CASE o \in ReadOps /\ v = "succeeded"
    BY <1>3, <2>1
  <2>2. CASE UNCHANGED memoryVars
    BY <2>2
  <2>3. CASE reader' = [reader EXCEPT ![o] = IF @ = "waiting" THEN "error" ELSE @] /\ UNCHANGED cached
    BY <2>3
  <2> QED
    BY <1>3, <2>1, <2>2, <2>3 DEF BeginComplete
<1>4. CASE UNCHANGED memoryVars
  BY <1>4
<1>5. ASSUME NEW o \in ReadOps, ReaderTimeout(o) PROVE Reads
  BY <1>5 DEF ReaderTimeout
<1>6. CASE ApiRestart
  BY <1>6 DEF ApiRestart
<1> QED
  BY <1>1, <1>2, <1>3, <1>4, <1>5, <1>6
     DEF Next, Request, BeginClaim, BeginProgress, BeginLog, HandlerFails, Tick, vars, queueVars

LEMMA ReadersStep ==
  ASSUME IInv, ReadersInv, [Next]_vars
  PROVE  ReadersInv'
<1>0. /\ TableTypeOK /\ TableStep /\ ReadOps \subseteq Ops /\ Reads
      /\ reader \in [ReadOps -> {"none", "waiting", "value", "error"}] /\ CallOK
  BY StepsAreTransactions, StepsAreReads, QueueAssumption DEF IInv, TableInv, TableTypeOK, MemoryTypeOK
<1>1. ASSUME NEW o \in ReadOps, Served(o) PROVE Served(o)'
  BY <1>0, <1>1, ServedStays
<1>2. CASE \A o \in ReadOps : /\ reader'[o] \in {reader[o], "error"}
                              /\ o \in cached' => o \in cached
  BY <1>1, <1>2 DEF ReadersInv
<1>3. ASSUME NEW h \in Handlers, Register(h) PROVE ReadersInv'
  <2>1. call[h].op \in ReadOps
    BY <1>0, <1>3 DEF Register, At, CallOK
  <2> QED
    BY <1>0, <1>1, <1>3, <2>1 DEF Register, ReadersInv
<1>4. ASSUME NEW h \in Agents, NEW o \in ReadOps, BeginComplete(h, o, "succeeded") PROVE ReadersInv'
  <2>1. Served(o) /\ Served(o)'
    BY <1>1, <1>4 DEF BeginComplete, Served
  <2>2. /\ reader' = [reader EXCEPT ![o] = IF @ = "waiting" THEN "value" ELSE @]
        /\ \A p \in cached' : p \in cached \/ (p = o /\ reader[o] # "waiting")
    BY <1>4 DEF BeginComplete
  <2> QED
    BY <1>0, <1>1, <2>1, <2>2 DEF ReadersInv
<1> QED
  BY <1>0, <1>2, <1>3, <1>4 DEF Reads

\* A read is answered with a value only when an agent has claimed its operation, and no result
\* waits in memory for a reader who waits for it: whether the result or the reader comes
\* first, and whichever requests fail, time out or are dropped by a restart.
THEOREM ReadersAreServed == Spec => []ReadersServed
<1>1. Init => ReadersInv
  BY DEF Init, ReadersInv
<1>2. ReadersInv => ReadersServed
  BY DEF ReadersInv, ReadersServed, Served
<1> QED
  BY <1>1, <1>2, ReadersStep, IInvAlways, PTL DEF Spec
=============================================================================
