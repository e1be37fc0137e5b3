--------------------------- MODULE HostAgentProofs ---------------------------
(***************************************************************************)
(* Theorems about HostAgent: for any operations, lease, retry limit and    *)
(* number of faults, host commands never overlap and none runs twice; what *)
(* is reported is what happened, no result of a long operation is lost,    *)
(* and until something fails the worker keeps its lease.                   *)
(***************************************************************************)
EXTENDS HostAgent, TLAPS

\* Where the loop and the worker may be at the same time, and what they then
\* refer to: a worker that is past its start is the one the active-job file
\* names; it starts while the loop sleeps; the loop only takes for dead what is
\* gone, and only executes while there is no worker.
Places ==
  /\ main.pc \in {"run", "execute", "post", "check", "reconcile"} => main.op \in Ops
  /\ main.pc \in {"pending", "fallback"} => pending.op \in Ops
  /\ main.pc # "fallback" => pending.attempts < RetryLimit
  /\ worker.pc # "none" => worker.op \in Ops
  /\ worker.pc = "starting" => main.pc = "sleep"
  /\ worker.pc \notin {"none", "starting"} => active = worker.op
  /\ (main.pc = "check" /\ worker.pc # "none") => worker.op = main.op
  /\ main.pc \in {"reconcile", "run", "execute", "post"} => worker.pc = "none"

\* The operations whose rows have been claimed.
Claimed == {o \in Ops : status[o] \notin {"absent", "queued"}}

\* Only what has been claimed is executed, or about to be; what is about to be
\* executed has not been.
Unexecuted ==
  /\ \A o \in Ops : outcome[o] # "none" => o \in Claimed
  /\ main.pc \in {"run", "execute"} => main.op \in Claimed
  /\ worker.pc \in {"starting", "prepare", "command"} => worker.op \in Claimed
  /\ main.pc = "run" => outcome[main.op] = "none"
  /\ worker.pc \in {"starting", "prepare"} => outcome[worker.op] = "none"

IInv == TypeOK /\ Places /\ Unexecuted

-----------------------------------------------------------------------------
(* Requests *)

\* What a request, answered or given up, may do to the rows, the network and the
\* number of faults: rows keep their type, and an operation once claimed remains so.
Calls ==
  /\ StoreTypeOK'
  /\ net' \subseteq Request
  /\ faults' \in 0 .. MaxFaults
  /\ Claimed \subseteq Claimed'

\* A row statement, and everything built from it, is such a call.
LEMMA RowCalls ==
  ASSUME TypeOK, NEW o \in Ops, NEW v \in Verdicts, net' \subseteq net, faults' \in 0 .. MaxFaults,
         RenewRow(o) \/ FinishRow(o, v) \/ RecoverRow(o) \/ UNCHANGED storeVars
  PROVE  Calls
<1> USE LeaseTicksAssumption DEF TypeOK, AgentTypeOK, StoreTypeOK, Status, Verdicts, Calls, Claimed
<1>1. CASE RenewRow(o)
  BY <1>1 DEF RenewRow
<1>2. CASE FinishRow(o, v)
  BY <1>2 DEF FinishRow
<1>3. CASE RecoverRow(o)
  BY <1>3 DEF RecoverRow, Lapsed
<1>4. CASE UNCHANGED storeVars
  BY <1>4 DEF storeVars
<1> QED
  BY <1>1, <1>2, <1>3, <1>4

\* Progress, answered.
LEMMA ProgressCalls ==
  ASSUME TypeOK, NEW o \in Ops, HandleProgress(o), net' \subseteq net, faults' \in 0 .. MaxFaults
  PROVE  Calls
BY RowCalls DEF HandleProgress, Verdicts

\* A completion, answered.
LEMMA CompleteCalls ==
  ASSUME TypeOK, NEW o \in Ops, NEW v \in Verdicts, HandleComplete(o, v),
         net' \subseteq net, faults' \in 0 .. MaxFaults
  PROVE  Calls
BY RowCalls DEF HandleComplete

\* A request given up.
LEMMA GiveUpCalls ==
  ASSUME TypeOK, NEW m \in Request, GiveUp(m)
  PROVE  Calls
BY AgentAssumption DEF TypeOK, AgentTypeOK, StoreTypeOK, GiveUp, Calls, Claimed, storeVars

\* The requests that are sent are requests.
LEMMA Requests ==
  /\ Claim \in Request
  /\ \A o \in Ops : Progress(o) \in Request
  /\ \A o \in Ops, v \in Verdicts : Complete(o, v) \in Request
BY DEF Claim, Progress, Complete, Request, Verdicts

\* post_completion, whatever it returns.
LEMMA PostCalls ==
  ASSUME TypeOK, NEW o \in Ops, NEW v \in Verdicts, Post(o, v) \/ PostFails(o, v)
  PROVE  Calls
<1>0. faults \in 0 .. MaxFaults
  BY DEF TypeOK, AgentTypeOK
<1>1. CASE Post(o, v)
  BY <1>0, <1>1, CompleteCalls DEF Post
<1>2. CASE GiveUp(Complete(o, v))
  BY <1>2, GiveUpCalls, Requests
<1>3. CASE UNCHANGED <<storeVars, net, faults>>
  BY <1>0, <1>3, RowCalls
<1> QED
  BY <1>1, <1>2, <1>3 DEF PostFails

\* A step that touches neither rows nor network.
LEMMA QuietCalls ==
  ASSUME TypeOK, UNCHANGED <<storeVars, net>>, faults' \in 0 .. MaxFaults
  PROVE  Calls
BY DEF TypeOK, AgentTypeOK, StoreTypeOK, Calls, Claimed, storeVars

\* A claim: its operation was queued, and is running.
LEMMA ClaimCalls ==
  ASSUME TypeOK, NEW o \in Ops, HandleClaim(o), net' \subseteq net, UNCHANGED faults
  PROVE  Calls /\ status[o] = "queued" /\ o \in Claimed'
BY LeaseTicksAssumption
   DEF TypeOK, AgentTypeOK, StoreTypeOK, Status, Verdicts, HandleClaim, ClaimRow, Calls, Claimed

-----------------------------------------------------------------------------
(* The invariant *)

LEMMA InvInit == Init => IInv
BY LeaseTicksAssumption, AgentAssumption
   DEF Init, IInv, TypeOK, StoreTypeOK, AgentTypeOK, StoreInit, Status, Verdicts, Outcome, Loop,
       NoPending, NoWorker, Places, Unexecuted, Claimed, Request

\* The types of the agent's variables.
MainType == [pc : {"letters", "pending", "fallback", "active", "check", "reconcile",
                   "claim", "run", "execute", "post", "sleep"},
             op : Ops \cup {NoOp}, verdict : Verdicts, tried : SUBSET Ops]
PendingType == [op : Ops \cup {NoOp}, verdict : Verdicts, attempts : 0 .. RetryLimit]
WorkerType == [pc : {"none", "starting", "prepare", "command", "flush", "complete", "cleanup"},
               op : Ops \cup {NoOp}, verdict : Verdicts, fresh : BOOLEAN]
LettersType == [Ops -> Verdicts \cup {"none"}]

AgentTypes ==
  /\ main \in MainType /\ pending \in PendingType /\ worker \in WorkerType
  /\ active \in Ops \cup {NoOp} /\ excusing \subseteq Ops
  /\ letters \in LettersType /\ outcome \in [Ops -> Outcome]

LEMMA Types == TypeOK => AgentTypes
BY DEF TypeOK, AgentTypeOK, AgentTypes, MainType, PendingType, WorkerType, LettersType

\* A step whose calls are known: what becomes of the commands.
Fates ==
  /\ \A o \in Ops : outcome'[o] # outcome[o] => o \in Claimed
  /\ main'.pc \in {"run", "execute"} => main'.op \in Claimed'
  /\ worker'.pc \in {"starting", "prepare", "command"} => worker'.op \in Claimed'
  /\ main'.pc = "run" => outcome'[main'.op] = "none"
  /\ worker'.pc \in {"starting", "prepare"} => outcome'[worker'.op] = "none"

LEMMA Assemble ==
  ASSUME IInv, Calls, AgentTypes', Places', Fates
  PROVE  IInv'
<1>1. TypeOK'
  BY DEF Calls, AgentTypes, TypeOK, AgentTypeOK, MainType, PendingType, WorkerType, LettersType
<1>2. \A o \in Ops : outcome'[o] # "none" => o \in Claimed'
  BY DEF IInv, Unexecuted, Fates, Calls
<1>3. Unexecuted'
  BY <1>2 DEF Unexecuted, Fates
<1> QED
  BY <1>1, <1>3 DEF IInv

\* A step that leaves commands and worker alone: nothing awaits its command anew.
LEMMA KeepFates ==
  ASSUME IInv, Calls, UNCHANGED <<worker, outcome>>, main'.pc \notin {"run", "execute"}
  PROVE  Fates
<1>1. worker.pc \in {"starting", "prepare", "command"} => worker.op \in Ops
  BY DEF IInv, Places
<1> QED
  BY <1>1 DEF IInv, Unexecuted, Fates, Calls

\* A step of the loop from one place without an operation to another.
LEMMA Idles ==
  ASSUME IInv, Calls, UNCHANGED <<active, worker, excusing, outcome>>, main.pc # "sleep",
         main' \in MainType, pending' \in PendingType, letters' \in LettersType,
         main'.pc \in {"letters", "pending", "fallback", "active", "claim", "sleep"},
         main'.pc \in {"pending", "fallback"} => pending'.op \in Ops,
         main'.pc # "fallback" => pending'.attempts < RetryLimit
  PROVE  IInv'
<1>1. AgentTypes'
  BY Types DEF IInv, AgentTypes
<1>2. Places'
  BY DEF IInv, Places
<1>3. Fates
  BY KeepFates
<1> QED
  BY <1>1, <1>2, <1>3, Assemble

\* GoMain, and the other changes of the loop's state.
LEMMA Going ==
  ASSUME main \in MainType, NEW o \in Ops \cup {NoOp}, NEW p,
         p \in {"letters", "pending", "fallback", "active", "check", "reconcile",
                "claim", "run", "execute", "post", "sleep"}, GoMain(p, o)
  PROVE  main' \in MainType /\ main'.pc = p /\ main'.op = o
BY DEF GoMain, MainType

-----------------------------------------------------------------------------
(* The steps of the loop *)

\* The loop's steps before it claims.
LEMMA RetryStep ==
  ASSUME IInv, \/ \E o \in Ops : RetryLetter(o)
               \/ LettersDone \/ RetryPending \/ PostFallback \/ FallbackFails \/ FallbackExhausted
  PROVE  IInv'
<1>0. TypeOK /\ AgentTypes /\ Places
  BY Types DEF IInv
<1> USE DEF AgentTypes
<1>1. ASSUME NEW o \in Ops, RetryLetter(o) PROVE IInv'
  <2>1. letters[o] \in Verdicts
    BY <1>0, <1>1 DEF RetryLetter, LettersType
  <2>2. Calls
    BY <1>0, <1>1, <2>1, PostCalls DEF RetryLetter
  <2>3. main' \in MainType /\ main'.pc = "letters"
    BY <1>0, <1>1 DEF RetryLetter, MainType
  <2>4. letters' \in LettersType
    BY <1>0, <1>1 DEF RetryLetter, LettersType
  <2>5. UNCHANGED <<pending, active, worker, excusing, outcome>> /\ main.pc = "letters"
    BY <1>1 DEF RetryLetter
  <2>6. pending'.attempts < RetryLimit
    BY <1>0, <2>5 DEF Places
  <2> QED
    BY <1>0, <2>2, <2>3, <2>4, <2>5, <2>6, Idles
<1>2. CASE LettersDone
  <2>1. UNCHANGED <<storeVars, net, pending, active, worker, excusing, letters, outcome, faults>>
        /\ main.pc = "letters"
    BY <1>2 DEF LettersDone
  <2>2. Calls
    BY <1>0, <2>1, QuietCalls DEF TypeOK, AgentTypeOK
  <2>3. main' \in MainType /\ main'.pc \in {"active", "pending"}
        /\ (main'.pc = "pending" => pending.op # NoOp)
    BY <1>0, <1>2 DEF LettersDone, MainType
  <2>4. pending.op \in Ops \cup {NoOp} /\ pending.attempts < RetryLimit
    BY <1>0, <2>1 DEF PendingType, Places
  <2> QED
    BY <1>0, <2>1, <2>2, <2>3, <2>4, Idles
<1>3. CASE RetryPending
  <2>1. main.pc = "pending" /\ pending.op \in Ops /\ pending.verdict \in Verdicts
        /\ pending.attempts < RetryLimit
    BY <1>0, <1>3 DEF RetryPending, Places, PendingType
  <2>2. Calls
    BY <1>0, <1>3, <2>1, PostCalls DEF RetryPending
  <2>3. UNCHANGED <<active, worker, excusing, letters, outcome>>
    BY <1>3 DEF RetryPending
  <2>4. CASE pending' = NoPending /\ GoMain("active", NoOp)
    <3>1. main' \in MainType /\ main'.pc = "active"
      BY <1>0, <2>4, Going
    <3>2. pending' \in PendingType /\ pending'.attempts < RetryLimit
      BY <2>4, AgentAssumption DEF NoPending, PendingType, Verdicts
    <3> QED
      BY <1>0, <2>1, <2>2, <2>3, <3>1, <3>2, Idles
  <2>5. CASE pending' = [pending EXCEPT !.attempts = @ + 1] /\ GoMain("fallback", NoOp)
    <3>1. main' \in MainType /\ main'.pc = "fallback"
      BY <1>0, <2>5, Going
    <3>2. pending' \in PendingType /\ pending'.op \in Ops
      BY <1>0, <2>1, <2>5, AgentAssumption DEF PendingType
    <3> QED
      BY <1>0, <2>1, <2>2, <2>3, <3>1, <3>2, Idles
  <2> QED
    BY <1>3, <2>4, <2>5 DEF RetryPending
<1>4. CASE PostFallback
  <2>1. main.pc = "fallback" /\ pending.op \in Ops
    BY <1>0, <1>4 DEF PostFallback, Places
  <2>2. Calls
    BY <1>0, <1>4, <2>1, PostCalls DEF PostFallback, Verdicts
  <2>3. UNCHANGED <<active, worker, excusing, letters, outcome>>
    BY <1>4 DEF PostFallback
  <2>4. main' \in MainType /\ main'.pc = "active"
    BY <1>0, <1>4, Going DEF PostFallback
  <2>5. pending' \in PendingType /\ pending'.attempts < RetryLimit
    BY <1>4, AgentAssumption DEF PostFallback, NoPending, PendingType, Verdicts
  <2> QED
    BY <1>0, <2>1, <2>2, <2>3, <2>4, <2>5, Idles
<1>5. CASE FallbackFails
  <2>1. main.pc = "fallback" /\ pending.op \in Ops /\ pending.attempts < RetryLimit
    BY <1>0, <1>5 DEF FallbackFails, Places
  <2>2. Calls
    BY <1>0, <1>5, <2>1, GiveUpCalls, Requests DEF FallbackFails, Verdicts
  <2>3. UNCHANGED <<pending, active, worker, excusing, letters, outcome>>
    BY <1>5 DEF FallbackFails
  <2>4. main' \in MainType /\ main'.pc = "active"
    BY <1>0, <1>5, Going DEF FallbackFails
  <2> QED
    BY <1>0, <2>1, <2>2, <2>3, <2>4, Idles
<1>6. CASE FallbackExhausted
  <2>1. main.pc = "fallback" /\ pending.op \in Ops /\ pending.verdict \in Verdicts
    BY <1>0, <1>6 DEF FallbackExhausted, Places, PendingType
  <2>2. GiveUp(Complete(pending.op, "failed"))
    BY <1>6 DEF FallbackExhausted, GiveUp
  <2>3. Calls
    BY <1>0, <2>1, <2>2, GiveUpCalls, Requests DEF Verdicts
  <2>4. UNCHANGED <<active, worker, excusing, outcome>>
    BY <1>6 DEF FallbackExhausted
  <2>5. main' \in MainType /\ main'.pc = "active"
    BY <1>0, <1>6, Going DEF FallbackExhausted
  <2>6. pending' \in PendingType /\ pending'.attempts < RetryLimit
    BY <1>0, <1>6, AgentAssumption DEF FallbackExhausted, NoPending, PendingType, Verdicts
  <2>7. letters' \in LettersType
    BY <1>0, <1>6, <2>1 DEF FallbackExhausted, LettersType
  <2> QED
    BY <1>0, <2>1, <2>3, <2>4, <2>5, <2>6, <2>7, Idles
<1> QED
  BY <1>1, <1>2, <1>3, <1>4, <1>5, <1>6

\* The loop looks for the worker and reconciles.
LEMMA CheckStep ==
  ASSUME IInv, ReadActive \/ CheckAlive \/ CheckDead \/ ReconcilePost \/ ReconcileSave
  PROVE  IInv'
<1>0. TypeOK /\ AgentTypes /\ Places
  BY Types DEF IInv
<1> USE DEF AgentTypes
<1>1. CASE ReadActive
  <2>1. UNCHANGED <<storeVars, pending, active, worker, excusing, letters, net, outcome, faults>>
        /\ main.pc = "active"
    BY <1>1 DEF ReadActive
  <2>2. Calls
    BY <1>0, <2>1, QuietCalls DEF TypeOK, AgentTypeOK
  <2>3. pending'.attempts < RetryLimit
    BY <1>0, <2>1 DEF Places
  <2>4. CASE GoMain("claim", NoOp)
    <3>1. main' \in MainType /\ main'.pc = "claim"
      BY <1>0, <2>4, Going
    <3> QED
      BY <1>0, <2>1, <2>2, <2>3, <3>1, Idles
  <2>5. CASE active # NoOp /\ GoMain("check", active)
    <3>1. main' \in MainType /\ main'.pc = "check" /\ main'.op = active
      BY <1>0, <2>5, Going
    <3>2. AgentTypes'
      BY <1>0, <2>1, <3>1
    <3>3. Places'
      BY <1>0, <2>1, <2>3, <2>5, <3>1 DEF Places
    <3>4. Fates
      BY <2>1, <2>2, <3>1, KeepFates
    <3> QED
      BY <2>2, <3>2, <3>3, <3>4, Assemble
  <2> QED
    BY <1>1, <2>4, <2>5 DEF ReadActive
<1>2. CASE CheckAlive
  <2>1. UNCHANGED <<pending, active, worker, excusing, letters, outcome>>
        /\ main.pc = "check" /\ main.op \in Ops
    BY <1>0, <1>2 DEF CheckAlive, Places
  <2>2. Calls
    <3>1. faults \in 0 .. MaxFaults
      BY <1>0 DEF TypeOK, AgentTypeOK
    <3> QED
      BY <1>0, <1>2, <2>1, <3>1, ProgressCalls, GiveUpCalls, Requests DEF CheckAlive
  <2>3. main' \in MainType /\ main'.pc = "claim"
    BY <1>0, <1>2, Going DEF CheckAlive
  <2>4. pending'.attempts < RetryLimit
    BY <1>0, <2>1 DEF Places
  <2> QED
    BY <1>0, <2>1, <2>2, <2>3, <2>4, Idles
<1>3. CASE CheckDead
  <2>1. UNCHANGED <<storeVars, pending, active, worker, excusing, letters, net, outcome, faults>>
        /\ main.pc = "check" /\ main.op \in Ops
    BY <1>0, <1>3 DEF CheckDead, Places
  <2>2. Calls
    BY <1>0, <2>1, QuietCalls DEF TypeOK, AgentTypeOK
  <2>3. main' \in MainType /\ main'.pc = "reconcile" /\ main'.op \in Ops
    BY <1>0, <1>3, <2>1, Going DEF CheckDead
  <2>4. worker.pc = "none"
    BY <1>0, <1>3, <2>1 DEF CheckDead, WorkerAlive, Places
  <2>5. AgentTypes'
    BY <1>0, <2>1, <2>3
  <2>6. Places'
    BY <1>0, <2>1, <2>3, <2>4 DEF Places
  <2>7. Fates
    BY <2>1, <2>2, <2>3, KeepFates
  <2> QED
    BY <2>2, <2>5, <2>6, <2>7, Assemble
<1>4. CASE ReconcilePost \/ ReconcileSave
  <2>1. UNCHANGED <<pending, worker, excusing, outcome>>
        /\ main.pc = "reconcile" /\ main.op \in Ops /\ worker.pc = "none"
    BY <1>0, <1>4 DEF ReconcilePost, ReconcileSave, Places
  <2>2. Calls
    BY <1>0, <1>4, <2>1, PostCalls, GiveUpCalls, Requests DEF ReconcilePost, ReconcileSave, Verdicts
  <2>3. main' \in MainType /\ main'.pc = "claim"
    BY <1>0, <1>4, Going DEF ReconcilePost, ReconcileSave
  <2>4. active' \in Ops \cup {NoOp} /\ letters' \in LettersType
    BY <1>0, <1>4, <2>1 DEF ReconcilePost, ReconcileSave, LettersType, Verdicts
  <2>5. AgentTypes'
    BY <1>0, <2>1, <2>3, <2>4
  <2>6. Places'
    BY <1>0, <2>1, <2>3 DEF Places
  <2>7. Fates
    BY <2>1, <2>2, <2>3, KeepFates
  <2> QED
    BY <2>2, <2>5, <2>6, <2>7, Assemble
<1> QED
  BY <1>1, <1>2, <1>3, <1>4

\* The loop claims, and starts or executes what it got.
LEMMA ClaimStep ==
  ASSUME IInv, \/ \E o \in Ops : ClaimJob(o)
               \/ SkipClaim \/ StartWorker \/ CannotStart \/ Execute
               \/ \E v \in Verdicts : Executed(v)
               \/ PostResult \/ WakeUp
  PROVE  IInv'
<1>0. TypeOK /\ AgentTypes /\ Places /\ Unexecuted
  BY Types DEF IInv
<1> USE DEF AgentTypes
<1>1. ASSUME NEW o \in Ops, ClaimJob(o) PROVE IInv'
  <2>1. UNCHANGED <<pending, active, worker, excusing, letters, outcome>>
        /\ main.pc = "claim" /\ active = NoOp
    BY <1>1 DEF ClaimJob
  <2>2. Calls /\ o \notin Claimed /\ o \in Claimed'
    BY <1>0, <1>1, ClaimCalls DEF ClaimJob, Claimed
  <2>3. main' \in MainType /\ main'.pc = "run" /\ main'.op = o
    BY <1>0, <1>1, Going DEF ClaimJob
  <2>4. worker.pc = "none"
    BY <1>0, <2>1, AgentAssumption DEF Places
  <2>5. AgentTypes'
    BY <1>0, <2>1, <2>3
  <2>6. Places'
    BY <1>0, <2>1, <2>3, <2>4 DEF Places
  <2>7. Fates
    BY <1>0, <2>1, <2>2, <2>3, <2>4 DEF Fates, Unexecuted
  <2> QED
    BY <2>2, <2>5, <2>6, <2>7, Assemble
<1>2. CASE SkipClaim
  <2>1. UNCHANGED <<pending, active, worker, excusing, letters, outcome>> /\ main.pc = "claim"
    BY <1>2 DEF SkipClaim
  <2>2. Calls
    BY <1>0, <1>2, RowCalls, GiveUpCalls, Requests, QuietCalls DEF SkipClaim, TypeOK, AgentTypeOK
  <2>3. main' \in MainType /\ main'.pc = "sleep"
    BY <1>0, <1>2, Going DEF SkipClaim
  <2>4. pending'.attempts < RetryLimit
    BY <1>0, <2>1 DEF Places
  <2> QED
    BY <1>0, <2>1, <2>2, <2>3, <2>4, Idles
<1>3. CASE StartWorker
  <2>1. UNCHANGED <<storeVars, pending, active, excusing, letters, net, outcome, faults>>
        /\ main.pc = "run" /\ main.op \in Ops /\ worker.pc = "none"
    BY <1>0, <1>3 DEF StartWorker, Places
  <2>2. Calls
    BY <1>0, <2>1, QuietCalls DEF TypeOK, AgentTypeOK
  <2>3. main' \in MainType /\ main'.pc = "sleep"
    BY <1>0, <1>3, Going DEF StartWorker
  <2>4. worker' \in WorkerType /\ worker'.pc = "starting" /\ worker'.op = main.op
    BY <1>0, <1>3, <2>1 DEF StartWorker, NoWorker, WorkerType, Verdicts
  <2>5. AgentTypes'
    BY <1>0, <2>1, <2>3, <2>4
  <2>6. Places'
    BY <1>0, <2>1, <2>3, <2>4 DEF Places
  <2>7. Fates
    BY <1>0, <2>1, <2>2, <2>3, <2>4 DEF Fates, Unexecuted, Calls
  <2> QED
    BY <2>2, <2>5, <2>6, <2>7, Assemble
<1>4. CASE CannotStart
  <2>1. UNCHANGED <<pending, active, worker, excusing, outcome>>
        /\ main.pc = "run" /\ main.op \in Ops
    BY <1>0, <1>4 DEF CannotStart, Places
  <2>2. ASSUME HandleComplete(main.op, "failed"), UNCHANGED net PROVE Calls
    <3>1. faults' \in 0 .. MaxFaults
      BY <1>0, <1>4, AgentAssumption DEF CannotStart, TypeOK, AgentTypeOK
    <3> QED
      BY <1>0, <2>1, <2>2, <3>1, CompleteCalls DEF Verdicts
  <2>3. ASSUME net' \in {net, net \cup {Complete(main.op, "failed")}}, UNCHANGED storeVars
        PROVE  Calls
    <3>1. GiveUp(Complete(main.op, "failed"))
      BY <1>4, <2>3 DEF CannotStart, GiveUp
    <3> QED
      BY <1>0, <2>1, <3>1, GiveUpCalls, Requests DEF Verdicts
  <2>4. Calls
    BY <1>4, <2>2, <2>3 DEF CannotStart
  <2>5. main' \in MainType /\ main'.pc = "sleep"
    BY <1>0, <1>4, Going DEF CannotStart
  <2>6. letters' \in LettersType
    BY <1>0, <1>4, <2>1 DEF CannotStart, LettersType, Verdicts
  <2>7. pending'.attempts < RetryLimit
    BY <1>0, <2>1 DEF Places
  <2> QED
    BY <1>0, <2>1, <2>4, <2>5, <2>6, <2>7, Idles
<1>5. CASE Execute
  <2>1. UNCHANGED <<storeVars, pending, active, worker, excusing, letters, net, faults>>
        /\ main.pc = "run" /\ main.op \in Ops /\ worker.pc = "none"
    BY <1>0, <1>5 DEF Execute, Places
  <2>2. Calls
    BY <1>0, <2>1, QuietCalls DEF TypeOK, AgentTypeOK
  <2>3. main' \in MainType /\ main'.pc = "execute" /\ main'.op = main.op
    BY <1>0, <1>5, <2>1, Going DEF Execute
  <2>4. outcome' = [outcome EXCEPT ![main.op] = "running"]
    BY <1>5 DEF Execute
  <2>5. AgentTypes'
    BY <1>0, <2>1, <2>3, <2>4 DEF Outcome
  <2>6. Places'
    BY <1>0, <2>1, <2>3 DEF Places
  <2>7. Fates
    BY <1>0, <2>1, <2>2, <2>3, <2>4 DEF Fates, Unexecuted, Calls
  <2> QED
    BY <2>2, <2>5, <2>6, <2>7, Assemble
<1>6. ASSUME NEW v \in Verdicts, Executed(v) PROVE IInv'
  <2>1. UNCHANGED <<storeVars, pending, active, worker, excusing, letters, net, faults>>
        /\ main.pc = "execute" /\ main.op \in Ops /\ worker.pc = "none"
    BY <1>0, <1>6 DEF Executed, Places
  <2>2. Calls
    BY <1>0, <2>1, QuietCalls DEF TypeOK, AgentTypeOK
  <2>3. main' \in MainType /\ main'.pc = "post" /\ main'.op = main.op
    BY <1>0, <1>6 DEF Executed, MainType
  <2>4. outcome' = [outcome EXCEPT ![main.op] = v]
    BY <1>6 DEF Executed
  <2>5. AgentTypes'
    BY <1>0, <2>1, <2>3, <2>4 DEF Outcome
  <2>6. Places'
    BY <1>0, <2>1, <2>3 DEF Places
  <2>7. Fates
    BY <1>0, <2>1, <2>3, <2>4 DEF Fates, Unexecuted
  <2> QED
    BY <2>2, <2>5, <2>6, <2>7, Assemble
<1>7. CASE PostResult
  <2>1. UNCHANGED <<active, worker, excusing, letters, outcome>>
        /\ main.pc = "post" /\ main.op \in Ops /\ main.verdict \in Verdicts
    BY <1>0, <1>7 DEF PostResult, Places, MainType
  <2>2. Calls
    BY <1>0, <1>7, <2>1, PostCalls DEF PostResult
  <2>3. main' \in MainType /\ main'.pc = "sleep"
    BY <1>7 DEF PostResult, Loop, MainType, Verdicts
  <2>4. pending' \in PendingType /\ pending'.attempts < RetryLimit
    BY <1>0, <1>7, <2>1, AgentAssumption DEF PostResult, PendingType, Places
  <2> QED
    BY <1>0, <2>1, <2>2, <2>3, <2>4, Idles
<1>8. CASE WakeUp
  <2>1. UNCHANGED <<storeVars, pending, active, worker, excusing, letters, net, outcome, faults>>
        /\ main.pc = "sleep" /\ worker.pc # "starting"
    BY <1>8 DEF WakeUp
  <2>2. Calls
    BY <1>0, <2>1, QuietCalls DEF TypeOK, AgentTypeOK
  <2>3. main' \in MainType /\ main'.pc = "letters"
    BY <1>8 DEF WakeUp, Loop, MainType, Verdicts
  <2>4. AgentTypes'
    BY <1>0, <2>1, <2>3
  <2>5. Places'
    BY <1>0, <2>1, <2>3 DEF Places
  <2>6. Fates
    BY <2>1, <2>2, <2>3, KeepFates
  <2> QED
    BY <2>2, <2>4, <2>5, <2>6, Assemble
<1> QED
  BY <1>1, <1>2, <1>3, <1>4, <1>5, <1>6, <1>7, <1>8

-----------------------------------------------------------------------------
(* The steps of the worker *)

\* What a step of the worker does: it goes on with its operation or is gone.
LEMMA Works ==
  ASSUME IInv, Calls, UNCHANGED <<main, pending>>, worker.pc # "none",
         worker' \in WorkerType, letters' \in LettersType, outcome' \in [Ops -> Outcome],
         active' \in Ops \cup {NoOp}, excusing' \subseteq Ops,
         worker'.pc # "starting",
         worker'.pc # "none" => worker'.op = worker.op /\ active' = worker.op,
         worker'.pc = "prepare" => worker.pc = "starting" /\ outcome' = outcome,
         worker'.pc = "command" => worker.pc \in {"prepare", "command"},
         \A o \in Ops : outcome'[o] # outcome[o] => o = worker.op /\ worker.pc \in {"prepare", "command"}
  PROVE  IInv'
<1>0. AgentTypes /\ Places /\ Unexecuted
  BY Types DEF IInv
<1>1. worker.op \in Ops /\ main.pc \notin {"reconcile", "run", "execute", "post"}
  BY <1>0 DEF Places
<1>2. AgentTypes'
  BY <1>0 DEF AgentTypes
<1>3. Places'
  BY <1>0, <1>1 DEF Places
<1>4. Fates
  BY <1>0, <1>1 DEF Fates, Unexecuted, Calls
<1> QED
  BY <1>2, <1>3, <1>4, Assemble

LEMMA WorkerSteps ==
  ASSUME IInv, WorkerStep
  PROVE  IInv'
<1>0. TypeOK /\ AgentTypes /\ Places /\ Unexecuted /\ faults \in 0 .. MaxFaults
  BY Types DEF IInv, TypeOK, AgentTypeOK
<1>n. NoWorker \in WorkerType /\ NoWorker.pc = "none"
  BY DEF NoWorker, WorkerType, Verdicts
<1> USE DEF AgentTypes
<1>1. CASE WorkerPersist
  <2>1. UNCHANGED <<storeVars, main, pending, excusing, letters, net, outcome, faults>>
        /\ worker.pc = "starting" /\ worker.op \in Ops /\ active' = worker.op
    BY <1>0, <1>1 DEF WorkerPersist, Places
  <2>2. Calls
    BY <1>0, <2>1, QuietCalls
  <2>3. worker' \in WorkerType /\ worker'.pc = "prepare" /\ worker'.op = worker.op
    BY <1>0, <1>1 DEF WorkerPersist, WorkerType
  <2> QED
    BY <1>0, <2>1, <2>2, <2>3, Works
<1>2. CASE WorkerCannotPersist \/ WorkerAborts
  <2>1. UNCHANGED <<storeVars, main, pending, active, net, outcome, letters>>
        /\ worker.pc # "none" /\ worker.op \in Ops /\ worker' = NoWorker
    BY <1>0, <1>2 DEF WorkerCannotPersist, WorkerAborts, SaveFails, Places
  <2>2. faults' \in 0 .. MaxFaults
    BY <1>0, <1>2, AgentAssumption DEF WorkerCannotPersist, WorkerAborts, SaveFails
  <2>3. Calls
    BY <1>0, <2>1, <2>2, QuietCalls
  <2>4. excusing' \subseteq Ops
    BY <1>0, <1>2, <2>1 DEF WorkerCannotPersist, WorkerAborts
  <2> QED
    BY <1>0, <1>n, <2>1, <2>3, <2>4, Works
<1>3. CASE WorkerRun
  <2>1. UNCHANGED <<storeVars, main, pending, active, excusing, letters, net, faults>>
        /\ worker.pc = "prepare" /\ worker.op \in Ops /\ active = worker.op
    BY <1>0, <1>3 DEF WorkerRun, Places
  <2>2. Calls
    BY <1>0, <2>1, QuietCalls
  <2>3. worker' \in WorkerType /\ worker'.pc = "command" /\ worker'.op = worker.op
    BY <1>0, <1>3 DEF WorkerRun, WorkerType
  <2>4. /\ outcome' \in [Ops -> Outcome]
        /\ \A o \in Ops : outcome'[o] # outcome[o] => o = worker.op
    BY <1>0, <1>3 DEF WorkerRun, Outcome
  <2> QED
    BY <1>0, <2>1, <2>2, <2>3, <2>4, Works
<1>4. CASE WorkerProgress \/ WorkerFlush
  <2>1. UNCHANGED <<main, pending, active, excusing, letters, outcome>>
        /\ worker.pc \in {"command", "flush"} /\ worker.op \in Ops /\ active = worker.op
    BY <1>0, <1>4 DEF WorkerProgress, WorkerFlush, Places
  <2>2. Calls
    <3>1. CASE UNCHANGED <<storeVars, net, faults>>
      <4>1. TypeOK /\ faults' \in 0 .. MaxFaults
        BY <3>1 DEF IInv, TypeOK, AgentTypeOK
      <4> QED
        BY <3>1, <4>1, QuietCalls
    <3>2. CASE ~UNCHANGED <<storeVars, net, faults>>
      BY <1>0, <1>4, <2>1, <3>2, ProgressCalls, GiveUpCalls, Requests DEF WorkerProgress, WorkerFlush
    <3> QED
      BY <3>1, <3>2
  <2>3. worker' \in WorkerType /\ worker'.op = worker.op
        /\ worker'.pc \in {"command", "complete"} /\ (worker'.pc = "command" => worker.pc = "command")
    BY <1>0, <1>4 DEF WorkerProgress, WorkerFlush, WorkerType
  <2> QED
    BY <1>0, <2>1, <2>2, <2>3, Works
<1>5. ASSUME NEW v \in Verdicts, CommandEnds(v) PROVE IInv'
  <2>1. UNCHANGED <<storeVars, main, pending, active, excusing, letters, net, faults>>
        /\ worker.pc = "command" /\ worker.op \in Ops /\ active = worker.op
    BY <1>0, <1>5 DEF CommandEnds, Places
  <2>2. Calls
    BY <1>0, <2>1, QuietCalls
  <2>3. worker' \in WorkerType /\ worker'.pc = "flush" /\ worker'.op = worker.op
    BY <1>0, <1>5 DEF CommandEnds, WorkerType
  <2>4. /\ outcome' \in [Ops -> Outcome]
        /\ \A o \in Ops : outcome'[o] # outcome[o] => o = worker.op
    BY <1>0, <1>5 DEF CommandEnds, Outcome
  <2> QED
    BY <1>0, <2>1, <2>2, <2>3, <2>4, Works
<1>6. CASE WorkerPost \/ WorkerSaves
  <2>1. UNCHANGED <<main, pending, active, excusing, outcome>> /\ worker.pc = "complete"
        /\ worker.op \in Ops /\ worker.verdict \in Verdicts /\ active = worker.op
    BY <1>0, <1>6 DEF WorkerPost, WorkerSaves, Places, WorkerType
  <2>2. Calls
    BY <1>0, <1>6, <2>1, PostCalls DEF WorkerPost, WorkerSaves
  <2>3. worker' \in WorkerType /\ worker'.pc = "cleanup" /\ worker'.op = worker.op
    BY <1>0, <1>6 DEF WorkerPost, WorkerSaves, WorkerType
  <2>4. letters' \in LettersType
    BY <1>0, <1>6, <2>1 DEF WorkerPost, WorkerSaves, LettersType
  <2> QED
    BY <1>0, <2>1, <2>2, <2>3, <2>4, Works
<1>7. CASE WorkerCleanup
  <2>1. UNCHANGED <<storeVars, main, pending, excusing, letters, net, outcome, faults>>
        /\ worker.pc = "cleanup" /\ active' = NoOp /\ worker' = NoWorker
    BY <1>7 DEF WorkerCleanup
  <2>2. Calls
    BY <1>0, <2>1, QuietCalls
  <2> QED
    BY <1>0, <1>n, <2>1, <2>2, Works
<1> QED
  BY <1>1, <1>2, <1>3, <1>4, <1>5, <1>6, <1>7 DEF WorkerStep

-----------------------------------------------------------------------------
(* All other steps *)

\* A step that leaves the loop, the file and the worker's operation alone.
LEMMA Asides ==
  ASSUME IInv, Calls, UNCHANGED <<main, pending, active, outcome>>,
         worker' \in WorkerType, worker'.pc = worker.pc, worker'.op = worker.op,
         excusing' \subseteq Ops, letters' \in LettersType
  PROVE  IInv'
<1>0. AgentTypes /\ Places /\ Unexecuted
  BY Types DEF IInv
<1>1. AgentTypes'
  BY <1>0 DEF AgentTypes
<1>2. Places'
  BY <1>0 DEF Places
<1>3. Fates
  BY <1>0 DEF Fates, Unexecuted, Calls
<1> QED
  BY <1>1, <1>2, <1>3, Assemble

\* The control plane, late requests, excuses and the clock.
LEMMA OtherStep ==
  ASSUME IInv, \/ \E o \in Ops : Enqueue(o) \/ Recover(o) \/ Excuse(o)
               \/ \E m \in net : Arrive(m)
               \/ Tick
  PROVE  IInv'
<1>0. TypeOK /\ AgentTypes /\ Places /\ faults \in 0 .. MaxFaults /\ net \subseteq Request
  BY Types DEF IInv, TypeOK, AgentTypeOK
<1> USE DEF AgentTypes
<1>1. ASSUME NEW o \in Ops, Enqueue(o) PROVE IInv'
  <2>1. UNCHANGED agentVars
    BY <1>1 DEF Enqueue
  <2>2. Calls
    BY <1>0, <1>1, <2>1
       DEF Enqueue, InsertRow, agentVars, Calls, TypeOK, StoreTypeOK, Status, Claimed
  <2> QED
    BY <1>0, <2>1, <2>2, Asides DEF agentVars
<1>2. ASSUME NEW o \in Ops, Recover(o) PROVE IInv'
  <2>1. UNCHANGED agentVars
    BY <1>2 DEF Recover
  <2>2. Calls
    BY <1>0, <1>2, <2>1, RowCalls DEF Recover, agentVars, Verdicts
  <2> QED
    BY <1>0, <2>1, <2>2, Asides DEF agentVars
<1>3. ASSUME NEW o \in Ops, Excuse(o) PROVE IInv'
  <2>1. UNCHANGED <<main, pending, active, worker, outcome>> /\ excusing' \subseteq Ops
    BY <1>0, <1>3 DEF Excuse
  <2>2. Calls
    BY <1>0, <1>3, PostCalls, GiveUpCalls, Requests DEF Excuse, Verdicts
  <2>3. letters' \in LettersType
    BY <1>0, <1>3 DEF Excuse, LettersType, Verdicts
  <2> QED
    BY <1>0, <2>1, <2>2, <2>3, Asides
<1>4. ASSUME NEW m \in net, Arrive(m) PROVE IInv'
  <2>1. UNCHANGED <<main, pending, active, worker, excusing, letters, outcome, faults>>
        /\ net' \subseteq net
    BY <1>4 DEF Arrive
  <2>2. m \in Request
    BY <1>0
  <2>3. CASE m.kind = "progress" /\ HandleProgress(m.op)
    <3>1. m.op \in Ops
      BY <2>2, <2>3 DEF Request
    <3> QED
      BY <1>0, <2>1, <2>3, <3>1, ProgressCalls, Asides
  <2>4. CASE m.kind = "complete" /\ HandleComplete(m.op, m.verdict)
    <3>1. m.op \in Ops /\ m.verdict \in Verdicts
      BY <2>2, <2>4 DEF Request
    <3> QED
      BY <1>0, <2>1, <2>4, <3>1, CompleteCalls, Asides
  <2>5. ASSUME NEW o \in Ops, HandleClaim(o) PROVE IInv'
    BY <1>0, <2>1, <2>5, ClaimCalls, Asides
  <2>6. CASE UNCHANGED storeVars
    <3>1. Calls
      BY <1>0, <2>1, <2>6 DEF Calls, TypeOK, StoreTypeOK, storeVars, Claimed
    <3> QED
      BY <1>0, <2>1, <3>1, Asides
  <2> QED
    BY <1>4, <2>3, <2>4, <2>5, <2>6 DEF Arrive
<1>5. CASE Tick
  <2>1. UNCHANGED <<main, pending, active, excusing, letters, net, outcome, faults>> /\ Elapse
    BY <1>5 DEF Tick
  <2>2. Calls
    BY <1>0, <2>1, LeaseTicksAssumption DEF Elapse, Calls, TypeOK, StoreTypeOK, Claimed
  <2>3. worker' \in WorkerType /\ worker'.pc = worker.pc /\ worker'.op = worker.op
    BY <1>0, <1>5 DEF Tick, WorkerType
  <2> QED
    BY <1>0, <2>1, <2>2, <2>3, Asides
<1> QED
  BY <1>1, <1>2, <1>3, <1>4, <1>5

\* The agent restarts: what it was executing is killed.
LEMMA RestartStep ==
  ASSUME IInv, AgentRestart
  PROVE  IInv'
<1>0. TypeOK /\ AgentTypes /\ Unexecuted /\ faults \in 0 .. MaxFaults
  BY Types DEF IInv, TypeOK, AgentTypeOK
<1>1. faults' \in 0 .. MaxFaults /\ UNCHANGED <<storeVars, active, letters, net>>
  BY <1>0, AgentAssumption DEF AgentRestart
<1>2. Calls
  BY <1>0, <1>1, QuietCalls
<1>3. main' \in MainType /\ main'.pc = "letters" /\ worker' \in WorkerType /\ worker'.pc = "none"
  BY DEF AgentRestart, Loop, NoWorker, MainType, WorkerType, Verdicts
<1>4. pending' \in PendingType /\ pending'.attempts < RetryLimit
  BY AgentAssumption DEF AgentRestart, NoPending, PendingType, Verdicts
<1>5. /\ outcome' \in [Ops -> Outcome] /\ excusing' = {}
      /\ \A o \in Ops : outcome'[o] # outcome[o] => outcome[o] = "running"
  BY <1>0 DEF AgentRestart, AgentTypes, Outcome
<1>6. AgentTypes'
  BY <1>0, <1>1, <1>3, <1>4, <1>5 DEF AgentTypes
<1>7. Places'
  BY <1>3, <1>4 DEF Places
<1>8. Fates
  BY <1>0, <1>3, <1>5 DEF Fates, Unexecuted
<1> QED
  BY <1>2, <1>6, <1>7, <1>8, Assemble

LEMMA InvStutter ==
  ASSUME IInv, UNCHANGED vars
  PROVE  IInv'
<1>1. TypeOK /\ AgentTypes /\ faults \in 0 .. MaxFaults
  BY Types DEF IInv, TypeOK, AgentTypeOK
<1>2. UNCHANGED storeVars /\ UNCHANGED agentVars
  BY DEF vars
<1>3. Calls
  BY <1>1, <1>2, QuietCalls DEF agentVars
<1> QED
  BY <1>1, <1>2, <1>3, Asides DEF agentVars, AgentTypes

LEMMA InvStep == IInv /\ [Next]_vars => IInv'
<1> SUFFICES ASSUME IInv, [Next]_vars PROVE IInv'
  OBVIOUS
<1>1. CASE LoopStep
  BY <1>1, RetryStep, CheckStep, ClaimStep DEF LoopStep
<1>2. CASE WorkerStep
  BY <1>2, WorkerSteps
<1>3. CASE AgentRestart
  BY <1>3, RestartStep
<1>4. CASE UNCHANGED vars
  BY <1>4, InvStutter
<1>5. CASE \/ \E o \in Ops : Enqueue(o) \/ Recover(o) \/ Excuse(o)
           \/ \E m \in net : Arrive(m)
           \/ Tick
  BY <1>5, OtherStep
<1> QED
  BY <1>1, <1>2, <1>3, <1>4, <1>5 DEF Next

-----------------------------------------------------------------------------
(* The theorems *)

\* The invariant of the specification.
THEOREM Invariance == Spec => []IInv
BY InvInit, InvStep, PTL DEF Spec

\* Every variable keeps its type; in particular the retries of a pending completion never
\* exceed their limit (pending_completion_attempts of pz-agent.sh).
THEOREM TypeCorrect == Spec => []TypeOK
<1>1. IInv => TypeOK
  BY DEF IInv
<1> QED
  BY <1>1, Invariance, PTL

\* The loop and the worker of the agent never execute host commands at the same time,
\* whatever operations exist, and whatever is lost, killed, late or not written.
THEOREM HostIsExclusive == Spec => []HostExclusive
<1>1. IInv => HostExclusive
  BY DEF IInv, Places, HostExclusive
<1> QED
  BY <1>1, Invariance, PTL

\* No step starts the command of an operation that has been started before.
LEMMA OnceStep == IInv /\ [Next]_vars =>
  [\A o \in Ops : outcome'[o] = "running" => outcome[o] \in {"none", "running"}]_vars
<1> SUFFICES ASSUME IInv, Next, NEW o \in Ops, outcome'[o] = "running"
             PROVE  outcome[o] \in {"none", "running"}
  OBVIOUS
<1>0. AgentTypes /\ Places /\ Unexecuted
  BY Types DEF IInv
<1>1. CASE UNCHANGED outcome
  BY <1>1
<1>2. CASE Execute
  BY <1>0, <1>2 DEF Execute, AgentTypes, Unexecuted
<1>3. CASE WorkerRun
  BY <1>0, <1>3 DEF WorkerRun, AgentTypes, Unexecuted
<1>4. ASSUME NEW v \in Verdicts, Executed(v) \/ CommandEnds(v)
      PROVE  outcome[o] \in {"none", "running"}
  BY <1>0, <1>4 DEF Executed, CommandEnds, AgentTypes, Verdicts
<1>5. CASE AgentRestart
  BY <1>5 DEF AgentRestart
<1>6. \/ UNCHANGED outcome \/ Execute \/ WorkerRun \/ AgentRestart
      \/ \E v \in Verdicts : Executed(v) \/ CommandEnds(v)
  <2>1. LoopStep => \/ UNCHANGED outcome \/ Execute \/ \E v \in Verdicts : Executed(v)
    BY DEF LoopStep, RetryLetter, LettersDone, RetryPending, PostFallback, FallbackFails,
           FallbackExhausted, ReadActive, CheckAlive, CheckDead, ReconcilePost, ReconcileSave,
           ClaimJob, SkipClaim, StartWorker, CannotStart, PostResult, WakeUp
  <2>2. WorkerStep => \/ UNCHANGED outcome \/ WorkerRun \/ \E v \in Verdicts : CommandEnds(v)
    BY DEF WorkerStep, WorkerPersist, WorkerCannotPersist, WorkerAborts, WorkerProgress,
           WorkerFlush, WorkerPost, WorkerSaves, WorkerCleanup
  <2> QED
    BY <2>1, <2>2 DEF Next, Enqueue, Recover, Arrive, Excuse, Tick, agentVars
<1> QED
  BY <1>1, <1>2, <1>3, <1>4, <1>5, <1>6

\* The command of an operation is executed at most once, although completions are retried,
\* requests arrive late, rows are recovered and the agent restarts.
THEOREM ExecutedAtMostOnce == Spec => ExecutedOnce
BY Invariance, OnceStep, PTL DEF Spec, ExecutedOnce

-----------------------------------------------------------------------------
(* Verdicts: what is reported, kept and leased *)

\* Whatever holds or carries a success got it from a command that has succeeded.
Proven ==
  /\ \A o \in Ops : status[o] = "succeeded" => outcome[o] = "succeeded"
  /\ \A o \in Ops : letters[o] = "succeeded" => outcome[o] = "succeeded"
  /\ \A o \in Ops : Complete(o, "succeeded") \in net => outcome[o] = "succeeded"
  /\ pending.op # NoOp /\ pending.verdict = "succeeded" => outcome[pending.op] = "succeeded"
  /\ main.pc = "execute" => outcome[main.op] = "running"
  /\ main.pc = "post" => outcome[main.op] = main.verdict
  /\ worker.pc = "command" => outcome[worker.op] = "running"
  /\ worker.pc \in {"flush", "complete", "cleanup"} => outcome[worker.op] = worker.verdict

\* A long operation that was started stays with its worker, its file or its letter; the
\* loop executes no such operation itself, only drops the file of the worker it has found
\* dead, and claims without one.
Kept ==
  /\ Accounted
  /\ worker.pc = "none" => worker.op = NoOp
  /\ main.pc \in {"execute", "post"} => main.op \notin LongOps
  /\ main.pc \in {"check", "reconcile"} => active \in {main.op, NoOp}
  /\ main.pc \in {"run", "execute", "post"} \/ worker.pc = "starting" => active = NoOp
  /\ worker.pc = "cleanup" =>
       status[worker.op] # "running" \/ letters[worker.op] # "none" \/ worker.op \in Unwritable

\* Until something fails, the lease of a long operation is renewed in time, and nobody but
\* its worker reports on it.
Leased(o, least) == status[o] = "running" /\ ttl[o] >= least
Smooth ==
  faults = 0 =>
    /\ net = {} /\ excusing = {}
    /\ \A o \in Ops : letters[o] # "none" => o \in Refused /\ letters[o] = "succeeded"
    /\ pending.op \notin LongOps
    /\ main.pc \in {"check", "reconcile"} => main.op \in LongOps
    /\ worker.pc # "none" => worker.op \in LongOps
    /\ active # NoOp => worker.pc \notin {"none", "starting"}
    /\ main.pc = "run" => Leased(main.op, LeaseTicks)
    /\ worker.pc \in {"starting", "prepare"} => Leased(worker.op, LeaseTicks)
    /\ worker.pc = "command" /\ worker.fresh => Leased(worker.op, LeaseTicks)
    /\ worker.pc \in {"command", "flush", "complete"} => Leased(worker.op, LeaseTicks - 1)
    /\ \A o \in LongOps \ Refused : status[o] = "running" =>
         \/ main.pc = "run" /\ main.op = o
         \/ worker.pc \notin {"none", "cleanup"} /\ worker.op = o
    /\ \A o \in LongOps \ Refused : status[o] = "failed" => outcome[o] = "failed"

VInv == Proven /\ Kept /\ Smooth

-----------------------------------------------------------------------------
(* Requests and verdicts *)

\* What is in the hands of the agent: claimed, and its command or report to come.
InHand(o) ==
  \/ main.pc = "run" /\ main.op = o
  \/ worker.pc \notin {"none", "cleanup"} /\ worker.op = o

\* What requests do to the rows: verdicts stay, and successes are true.
Rows ==
  /\ \A o \in Ops : status[o] \in Verdicts => status'[o] = status[o]
  /\ \A o \in Ops : status'[o] = "running" => status[o] \in {"queued", "running"}
  /\ \A o \in Ops : status'[o] = "succeeded" => outcome[o] = "succeeded"
  /\ \A o \in Ops : Complete(o, "succeeded") \in net' => outcome[o] = "succeeded"

\* Unless something fails, they keep what is in the agent's hands, and report no failure of
\* a long operation that has not failed.
Even ==
  faults' = 0 =>
    /\ faults = 0 /\ net' = {}
    /\ \A o \in Ops : InHand(o) => status'[o] = "running" /\ ttl'[o] >= ttl[o]
    /\ \A o \in LongOps \ Refused : status'[o] = "running" => status[o] = "running"
    /\ \A o \in LongOps \ Refused : status'[o] = "failed" => outcome[o] = "failed"

LEMMA TrueRequests ==
  ASSUME NEW o \in Ops, NEW p \in Ops, NEW v
  PROVE  /\ Complete(o, "succeeded") = Complete(p, v) => o = p /\ v = "succeeded"
         /\ Complete(o, "succeeded") # Progress(p) /\ Complete(o, "succeeded") # Claim
<1>1. /\ Complete(o, "succeeded").kind = "complete" /\ Complete(o, "succeeded").op = o
      /\ Complete(o, "succeeded").verdict = "succeeded"
      /\ Complete(p, v).op = p /\ Complete(p, v).verdict = v
      /\ Progress(p).kind = "progress" /\ Claim.kind = "claim"
  BY DEF Complete, Progress, Claim
<1> QED
  BY <1>1

\* What is in hand is leased while nothing fails.
LEMMA InHandLeased ==
  ASSUME IInv, VInv, faults = 0, NEW o \in Ops, InHand(o)
  PROVE  status[o] = "running" /\ ttl[o] > 0 /\ ttl[o] \in 0 .. LeaseTicks
<1>1. LeaseTicks - 1 > 0 /\ LeaseTicks \in Nat /\ ttl[o] \in 0 .. LeaseTicks
  BY AgentAssumption, LeaseTicksAssumption DEF IInv, TypeOK, StoreTypeOK
<1>2. CASE main.pc = "run" /\ main.op = o
  BY <1>1, <1>2 DEF VInv, Smooth, Leased
<1>3. CASE worker.pc \notin {"none", "cleanup"} /\ worker.op = o
  <2>1. worker.pc \in {"starting", "prepare", "command", "flush", "complete"}
    BY <1>3 DEF IInv, TypeOK, AgentTypeOK
  <2> QED
    BY <1>1, <1>3, <2>1 DEF VInv, Smooth, Leased
<1> QED
  BY <1>2, <1>3 DEF InHand

\* No row changes, and no request is sent.
LEMMA QuietRows ==
  ASSUME IInv, VInv, UNCHANGED storeVars, net' \subseteq net, faults' = faults \/ faults' > 0
  PROVE  Rows /\ Even
<1>1. Rows
  BY DEF VInv, Proven, Rows, storeVars, IInv, TypeOK, StoreTypeOK
<1>2. Even
  <2> SUFFICES ASSUME faults' = 0 PROVE faults = 0 /\ Even
    BY DEF Even
  <2>1. faults = 0
    OBVIOUS
  <2>2. net' = {}
    BY <2>1 DEF VInv, Smooth
  <2> QED
    BY <2>1, <2>2, InHandLeased DEF Even, storeVars, VInv, Smooth
<1> QED
  BY <1>1, <1>2

\* A request is given up.
LEMMA GiveUpRows ==
  ASSUME IInv, VInv, NEW m, GiveUp(m), \A o \in Ops : m = Complete(o, "succeeded") => outcome[o] = "succeeded"
  PROVE  Rows /\ Even /\ faults' > 0
<1>1. faults' > 0
  BY AgentAssumption DEF GiveUp, IInv, TypeOK, AgentTypeOK
<1>2. Rows
  BY DEF VInv, Proven, Rows, GiveUp, storeVars, IInv, TypeOK, StoreTypeOK
<1> QED
  BY <1>1, <1>2 DEF Even

\* A row is renewed, by progress that is answered or arrives late.
LEMMA ProgressRows ==
  ASSUME IInv, VInv, NEW o \in Ops, HandleProgress(o), net' \subseteq net, UNCHANGED faults
  PROVE  Rows /\ Even
<1>1. CASE status[o] = "running" /\ RenewRow(o)
  <2>1. Rows
    BY <1>1 DEF RenewRow, VInv, Proven, Rows, IInv, TypeOK, StoreTypeOK
  <2>2. ASSUME faults' = 0 PROVE Even
    <3>1. faults = 0 /\ net' = {}
      BY <2>2 DEF VInv, Smooth
    <3>2. \A p \in Ops : ttl[p] \in 0 .. LeaseTicks /\ (ttl'[p] = ttl[p] \/ ttl'[p] = LeaseTicks)
      BY <1>1 DEF RenewRow, IInv, TypeOK, StoreTypeOK
    <3>3. \A p \in Ops : InHand(p) => status'[p] = "running" /\ ttl'[p] >= ttl[p]
      BY <1>1, <3>1, <3>2, InHandLeased, LeaseTicksAssumption DEF RenewRow
    <3> QED
      BY <1>1, <3>1, <3>3 DEF Even, RenewRow, VInv, Smooth
  <2> QED
    BY <2>1, <2>2 DEF Even
<1>2. CASE UNCHANGED storeVars
  BY <1>2, QuietRows
<1> QED
  BY <1>1, <1>2 DEF HandleProgress

\* A row is finished, with a verdict that is true.
LEMMA CompleteRows ==
  ASSUME IInv, VInv, NEW o \in Ops, NEW v \in Verdicts, HandleComplete(o, v), net' \subseteq net,
         faults' = faults \/ faults' > 0, v = "succeeded" => outcome[o] = "succeeded"
  PROVE  /\ Rows /\ status'[o] # "running"
         /\ (faults = 0 => ~InHand(o) /\ (o \in LongOps \ Refused => status[o] # "running")) => Even
<1>1. CASE status[o] = "running" /\ FinishRow(o, v)
  <2>0. /\ status'[o] = v /\ \A p \in Ops : p # o => status'[p] = status[p] /\ ttl'[p] = ttl[p]
        /\ v # "running" /\ status[o] \notin Verdicts
    BY <1>1 DEF FinishRow, IInv, TypeOK, StoreTypeOK, Verdicts
  <2>1. Rows
    BY <2>0 DEF VInv, Proven, Rows
  <2>2. ASSUME faults' = 0, faults = 0 => ~InHand(o) /\ (o \in LongOps \ Refused => status[o] # "running")
        PROVE  Even
    <3>1. faults = 0 /\ net' = {}
      BY <2>2 DEF VInv, Smooth
    <3>2. \A p \in Ops : InHand(p) => status'[p] = "running" /\ ttl'[p] >= ttl[p]
      BY <2>0, <2>2, <3>1, InHandLeased
    <3>3. LongOps \subseteq Ops
      BY AgentAssumption
    <3> QED
      BY <1>1, <2>0, <2>2, <3>1, <3>2, <3>3 DEF Even, VInv, Smooth
  <2>3. faults' # 0 => Even
    BY DEF Even
  <2> QED
    BY <2>0, <2>1, <2>2, <2>3
<1>2. CASE status[o] # "running" /\ UNCHANGED storeVars
  BY <1>2, QuietRows DEF storeVars
<1> QED
  BY <1>1, <1>2 DEF HandleComplete

\* post_completion with a verdict that is true.
LEMMA PostRows ==
  ASSUME IInv, VInv, NEW o \in Ops, NEW v \in Verdicts, Post(o, v) \/ PostFails(o, v),
         v = "succeeded" => outcome[o] = "succeeded",
         faults = 0 /\ Accepted(o, v) => ~InHand(o) /\ (o \in LongOps \ Refused => status[o] # "running")
  PROVE  /\ Rows /\ Even
         /\ Post(o, v) => status'[o] # "running"
<1>1. ASSUME Post(o, v) PROVE Rows /\ Even
  BY <1>1, CompleteRows DEF Post
<1>2. ASSUME GiveUp(Complete(o, v)) PROVE Rows /\ Even
  BY <1>2, GiveUpRows, TrueRequests
<1>3. ASSUME UNCHANGED <<storeVars, net, faults>> PROVE Rows /\ Even
  BY <1>3, QuietRows
<1>4. ASSUME PostFails(o, v) PROVE Rows /\ Even
  BY <1>2, <1>3, <1>4 DEF PostFails
<1>5. Post(o, v) => status'[o] # "running"
  BY DEF Post, HandleComplete, FinishRow, storeVars, IInv, TypeOK, StoreTypeOK, Verdicts
<1> QED
  BY <1>1, <1>4, <1>5

-----------------------------------------------------------------------------
(* Steps beside the worker *)

\* The letters keep true verdicts, and go when their operation is settled; those of an
\* agent that nothing has gone wrong for are refused successes.
LettersOK ==
  /\ \A o \in Ops : letters'[o] = "succeeded" => outcome[o] = "succeeded"
  /\ \A o \in Ops : letters'[o] = "none" => letters[o] = "none" \/ status'[o] # "running"
  /\ faults' = 0 => \A o \in Ops : letters'[o] \in {"none", letters[o]}

PendingOK ==
  /\ pending'.op # NoOp /\ pending'.verdict = "succeeded" => outcome[pending'.op] = "succeeded"
  /\ faults' = 0 => pending'.op \notin LongOps

\* The active-job file stays, or goes when its operation has been reported.
ActiveOK ==
  \/ UNCHANGED active
  \/ /\ active' = NoOp /\ worker.pc = "none"
     /\ \A o \in Ops : active = o => status'[o] # "running" \/ letters'[o] # "none"

\* The loop does not start anything.
MainOK ==
  \/ UNCHANGED main
  \/ /\ main.pc = "run" => faults' > 0
     /\ main'.pc \notin {"run", "execute", "post"}
     /\ main'.pc \in {"check", "reconcile"} =>
          /\ active' \in {main'.op, NoOp}
          /\ faults' = 0 => main'.op \in LongOps

LEMMA Stays ==
  ASSUME IInv, IInv', VInv, Rows, Even, LettersOK, PendingOK, ActiveOK, MainOK,
         UNCHANGED <<worker, outcome>>, excusing' \subseteq excusing
  PROVE  VInv'
<1>0. LongOps \subseteq Ops
  BY AgentAssumption
<1>w. worker.pc # "none" => worker.op \in Ops
  BY DEF IInv, Places
<1>1. Proven'
  BY DEF VInv, Proven, Rows, LettersOK, PendingOK, MainOK
<1>2. Kept'
  <2>1. ASSUME NEW o \in LongOps \ Unwritable, status'[o] = "running", outcome'[o] # "none"
        PROVE  worker'.op = o \/ active' = o \/ letters'[o] # "none"
    <3>1. status[o] = "running"
      <4>1. o \in Ops /\ outcome[o] # "none"
        BY <1>0, <2>1
      <4>2. status[o] # "queued"
        BY <4>1 DEF IInv, Unexecuted, Claimed
      <4> QED
        BY <2>1, <4>1, <4>2 DEF Rows
    <3>2. worker.op = o \/ active = o \/ letters[o] # "none"
      BY <2>1, <3>1 DEF VInv, Kept, Accounted
    <3> QED
      BY <1>0, <2>1, <3>2 DEF LettersOK, ActiveOK
  <2>2. Accounted'
    BY <2>1 DEF Accounted
  <2>3. /\ main'.pc \in {"execute", "post"} => main'.op \notin LongOps
        /\ main'.pc \in {"check", "reconcile"} => active' \in {main'.op, NoOp}
        /\ main'.pc \in {"run", "execute", "post"} \/ worker'.pc = "starting" => active' = NoOp
    BY DEF VInv, Kept, MainOK, ActiveOK
  <2>4. worker'.pc = "cleanup" =>
          status'[worker'.op] # "running" \/ letters'[worker'.op] # "none" \/ worker'.op \in Unwritable
    <3> SUFFICES ASSUME worker.pc = "cleanup", status'[worker.op] = "running"
                 PROVE  letters'[worker.op] # "none" \/ worker.op \in Unwritable
      OBVIOUS
    <3>1. worker.op \in Ops /\ outcome[worker.op] = worker.verdict /\ worker.verdict # "none"
      BY <1>w DEF VInv, Proven, IInv, TypeOK, AgentTypeOK, Verdicts
    <3>2. status[worker.op] # "queued"
      BY <3>1 DEF IInv, Unexecuted, Claimed
    <3>3. status[worker.op] = "running"
      BY <3>1, <3>2 DEF Rows
    <3> QED
      BY <3>1, <3>3 DEF VInv, Kept, LettersOK
  <2> QED
    BY <2>2, <2>3, <2>4 DEF VInv, Kept
<1>3. Smooth'
  <2> SUFFICES ASSUME faults' = 0 PROVE Smooth'
    BY DEF Smooth
  <2>1. /\ faults = 0 /\ net' = {} /\ excusing' = {}
        /\ \A o \in Ops : letters'[o] # "none" => o \in Refused /\ letters'[o] = "succeeded"
        /\ pending'.op \notin LongOps
    BY DEF Even, VInv, Smooth, LettersOK, PendingOK
  <2>2. /\ main'.pc \in {"check", "reconcile"} => main'.op \in LongOps
        /\ active' # NoOp => worker'.pc \notin {"none", "starting"}
    <3>1. CASE UNCHANGED main
      BY <2>1, <3>1 DEF VInv, Smooth, ActiveOK
    <3>2. CASE ~UNCHANGED main
      BY <2>1, <3>2 DEF VInv, Smooth, MainOK, ActiveOK
    <3> QED
      BY <3>1, <3>2
  <2>3. ASSUME NEW o \in Ops, NEW n \in {LeaseTicks, LeaseTicks - 1}, InHand(o), Leased(o, n)
        PROVE  status'[o] = "running" /\ ttl'[o] >= n
    <3>1. ttl[o] \in Nat /\ ttl'[o] \in Nat /\ n \in Int
      BY LeaseTicksAssumption DEF IInv, TypeOK, StoreTypeOK
    <3> QED
      BY <2>1, <2>3, <3>1 DEF Even, Leased
  <2>4. /\ main'.pc = "run" => main' = main
        /\ main.pc = "run" => main' = main /\ main.op \in Ops
    <3>1. faults' = 0
      OBVIOUS
    <3> QED
      BY <3>1 DEF MainOK, IInv, Places
  <2>5. /\ main'.pc = "run" => Leased(main.op, LeaseTicks)'
        /\ worker'.pc \in {"starting", "prepare"} => Leased(worker.op, LeaseTicks)'
        /\ worker'.pc = "command" /\ worker'.fresh => Leased(worker.op, LeaseTicks)'
        /\ worker'.pc \in {"command", "flush", "complete"} => Leased(worker.op, LeaseTicks - 1)'
    BY <1>w, <2>1, <2>3, <2>4 DEF VInv, Smooth, InHand, Leased
  <2>6. \A o \in LongOps \ Refused : status'[o] = "running" =>
         \/ main'.pc = "run" /\ main'.op = o
         \/ worker'.pc \notin {"none", "cleanup"} /\ worker'.op = o
    BY <2>1, <2>4 DEF VInv, Smooth, Even
  <2>7. \A o \in LongOps \ Refused : status'[o] = "failed" => outcome'[o] = "failed"
    BY DEF Even
  <2> QED
    BY <1>w, <2>1, <2>2, <2>5, <2>6, <2>7 DEF VInv, Smooth
<1> QED
  BY <1>1, <1>2, <1>3 DEF VInv

\* What a step leaves alone is as it should be.
LEMMA Untouched ==
  ASSUME VInv, Even
  PROVE  /\ UNCHANGED letters => LettersOK
         /\ UNCHANGED pending => PendingOK
         /\ UNCHANGED active => ActiveOK
         /\ UNCHANGED main => MainOK
BY DEF VInv, Proven, Smooth, Even, LettersOK, PendingOK, ActiveOK, MainOK

\* The loop's retries.
LEMMA RetryVerdicts ==
  ASSUME IInv, IInv', VInv,
         \/ \E o \in Ops : RetryLetter(o)
         \/ LettersDone \/ RetryPending \/ PostFallback \/ FallbackFails \/ FallbackExhausted
  PROVE  VInv'
<1>0. AgentTypes /\ Places /\ LongOps \subseteq Ops /\ NoOp \notin Ops /\ NoPending.op = NoOp
  BY Types, AgentAssumption DEF IInv, NoPending
<1> USE DEF AgentTypes
<1>1. ASSUME NEW o \in Ops, RetryLetter(o) PROVE VInv'
  <2>1. letters[o] \in Verdicts /\ main.pc = "letters" /\ (letters[o] = "succeeded" => outcome[o] = "succeeded")
    BY <1>0, <1>1 DEF RetryLetter, LettersType, VInv, Proven
  <2>2. faults = 0 => ~Accepted(o, letters[o])
    BY <1>1 DEF RetryLetter, VInv, Smooth, Accepted
  <2>3. Post(o, letters[o]) \/ PostFails(o, letters[o])
    BY <1>1 DEF RetryLetter
  <2>4. /\ Rows /\ Even
        /\ Post(o, letters[o]) => status'[o] # "running"
    BY <2>1, <2>2, <2>3, PostRows
  <2>5. main'.pc = "letters"
    BY <1>0, <1>1, <2>1 DEF RetryLetter, MainType
  <2>6. LettersOK
    <3>1. CASE UNCHANGED letters
      BY <2>4, <3>1, Untouched
    <3>2. CASE letters' = [letters EXCEPT ![o] = "none"] /\ Post(o, letters[o])
      BY <1>0, <2>4, <3>2 DEF LettersOK, LettersType, VInv, Proven
    <3> QED
      BY <1>1, <3>1, <3>2 DEF RetryLetter
  <2>7. UNCHANGED <<pending, active, worker, excusing, outcome>>
    BY <1>1 DEF RetryLetter
  <2>8. MainOK
    BY <2>1, <2>5 DEF MainOK
  <2> QED
    BY <2>4, <2>6, <2>7, <2>8, Untouched, Stays
<1>2. CASE LettersDone
  <2>1. UNCHANGED <<storeVars, net, pending, active, worker, excusing, letters, outcome, faults>>
        /\ main.pc = "letters"
    BY <1>2 DEF LettersDone
  <2>2. Rows /\ Even
    BY <2>1, QuietRows
  <2>3. main'.pc \in {"active", "pending"}
    BY <1>0, <1>2 DEF LettersDone, MainType
  <2>4. MainOK
    BY <2>1, <2>3 DEF MainOK
  <2> QED
    BY <2>1, <2>2, <2>4, Untouched, Stays
<1>3. CASE RetryPending \/ PostFallback
  <2>1. /\ main.pc \in {"pending", "fallback"} /\ pending.op \in Ops /\ pending.op # NoOp
        /\ pending.verdict \in Verdicts
        /\ pending.verdict = "succeeded" => outcome[pending.op] = "succeeded"
    BY <1>0, <1>3 DEF RetryPending, PostFallback, Places, PendingType, VInv, Proven
  <2>2. faults = 0 => ~InHand(pending.op) /\ pending.op \notin LongOps
    BY <2>1 DEF VInv, Smooth, InHand
  <2>3. PICK v \in {pending.verdict, "failed"} : Post(pending.op, v) \/ PostFails(pending.op, v)
    BY <1>3 DEF RetryPending, PostFallback
  <2>4. Rows /\ Even
    <3>1. v \in Verdicts /\ (v = "succeeded" => outcome[pending.op] = "succeeded")
      BY <2>1, <2>3 DEF Verdicts
    <3> QED
      BY <2>1, <2>2, <2>3, <3>1, PostRows
  <2>5. UNCHANGED <<active, worker, excusing, letters, outcome>>
    BY <1>3 DEF RetryPending, PostFallback
  <2>6. main'.pc \in {"active", "fallback"}
    BY <1>0, <1>3, Going DEF RetryPending, PostFallback
  <2>7. MainOK
    BY <2>1, <2>6 DEF MainOK
  <2>8. PendingOK
    <3>1. CASE pending' = NoPending
      BY <1>0, <3>1 DEF PendingOK
    <3>2. CASE pending' = [pending EXCEPT !.attempts = @ + 1]
      <4>1. pending'.op = pending.op /\ pending'.verdict = pending.verdict
        BY <1>0, <3>2 DEF PendingType
      <4> QED
        BY <2>1, <2>2, <2>4, <4>1 DEF PendingOK, Even
    <3> QED
      BY <1>3, <3>1, <3>2 DEF RetryPending, PostFallback
  <2> QED
    BY <2>4, <2>5, <2>7, <2>8, Untouched, Stays
<1>4. CASE FallbackFails \/ FallbackExhausted
  <2>1. /\ main.pc = "fallback" /\ pending.op \in Ops /\ pending.op # NoOp
        /\ pending.verdict \in Verdicts
        /\ pending.verdict = "succeeded" => outcome[pending.op] = "succeeded"
    BY <1>0, <1>4 DEF FallbackFails, FallbackExhausted, Places, PendingType, VInv, Proven
  <2>2. GiveUp(Complete(pending.op, "failed"))
    BY <1>4 DEF FallbackFails, FallbackExhausted, GiveUp
  <2>3. Rows /\ Even /\ faults' > 0
    BY <2>1, <2>2, GiveUpRows, TrueRequests
  <2>4. UNCHANGED <<active, worker, excusing, outcome>>
    BY <1>4 DEF FallbackFails, FallbackExhausted
  <2>5. main'.pc = "active"
    BY <1>0, <1>4, Going DEF FallbackFails, FallbackExhausted
  <2>6. MainOK
    BY <2>1, <2>5 DEF MainOK
  <2>7. PendingOK
    <3>1. CASE UNCHANGED pending
      BY <2>3, <3>1, Untouched
    <3>2. CASE pending' = NoPending
      BY <1>0, <3>2 DEF PendingOK
    <3>3. CASE pending' = [pending EXCEPT !.attempts = 0]
      <4>1. pending'.op = pending.op /\ pending'.verdict = pending.verdict
        BY <1>0, <3>3 DEF PendingType
      <4> QED
        BY <2>1, <2>3, <4>1 DEF PendingOK
    <3> QED
      BY <1>4, <3>1, <3>2, <3>3 DEF FallbackFails, FallbackExhausted
  <2>8. LettersOK
    <3>1. CASE UNCHANGED letters
      BY <2>3, <3>1, Untouched
    <3>2. CASE letters' = [letters EXCEPT ![pending.op] = pending.verdict]
      BY <1>0, <2>1, <2>3, <3>2 DEF LettersOK, LettersType, VInv, Proven, Verdicts
    <3> QED
      BY <1>4, <3>1, <3>2 DEF FallbackFails, FallbackExhausted
  <2> QED
    BY <2>3, <2>4, <2>6, <2>7, <2>8, Untouched, Stays
<1> QED
  BY <1>1, <1>2, <1>3, <1>4

\* The loop looks for the worker and reconciles.
LEMMA CheckVerdicts ==
  ASSUME IInv, IInv', VInv, ReadActive \/ CheckAlive \/ CheckDead \/ ReconcilePost \/ ReconcileSave
  PROVE  VInv'
<1>0. AgentTypes /\ Places /\ LongOps \subseteq Ops /\ NoOp \notin Ops
  BY Types, AgentAssumption DEF IInv
<1> USE DEF AgentTypes
<1>1. CASE ReadActive
  <2>1. UNCHANGED <<storeVars, pending, active, worker, excusing, letters, net, outcome, faults>>
        /\ main.pc = "active"
    BY <1>1 DEF ReadActive
  <2>2. Rows /\ Even
    BY <2>1, QuietRows
  <2>3. MainOK
    <3>1. CASE GoMain("claim", NoOp)
      BY <1>0, <2>1, <3>1, Going DEF MainOK
    <3>2. CASE active # NoOp /\ GoMain("check", active)
      <4>1. main'.pc = "check" /\ main'.op = active
        BY <1>0, <3>2, Going
      <4>2. faults = 0 => active \in LongOps
        BY <1>0, <3>2 DEF Places, VInv, Smooth
      <4> QED
        BY <2>1, <2>2, <4>1, <4>2 DEF MainOK, Even
    <3> QED
      BY <1>1, <3>1, <3>2 DEF ReadActive
  <2> QED
    BY <2>1, <2>2, <2>3, Untouched, Stays
<1>2. CASE CheckAlive
  <2>1. UNCHANGED <<pending, active, worker, excusing, letters, outcome>>
        /\ main.pc = "check" /\ main.op \in Ops
    BY <1>0, <1>2 DEF CheckAlive, Places
  <2>2. Rows /\ Even
    <3>1. ASSUME HandleProgress(main.op), UNCHANGED <<net, faults>> PROVE Rows /\ Even
      BY <2>1, <3>1, ProgressRows
    <3>2. ASSUME GiveUp(Progress(main.op)) PROVE Rows /\ Even
      BY <2>1, <3>2, GiveUpRows, TrueRequests
    <3> QED
      BY <1>2, <3>1, <3>2 DEF CheckAlive
  <2>3. MainOK
    BY <1>0, <1>2, <2>1, Going DEF CheckAlive, MainOK
  <2> QED
    BY <2>1, <2>2, <2>3, Untouched, Stays
<1>3. CASE CheckDead
  <2>1. UNCHANGED <<storeVars, pending, active, worker, excusing, letters, net, outcome, faults>>
        /\ main.pc = "check" /\ main.op \in Ops
    BY <1>0, <1>3 DEF CheckDead, Places
  <2>2. Rows /\ Even
    BY <2>1, QuietRows
  <2>3. main'.pc = "reconcile" /\ main'.op = main.op
    BY <1>0, <1>3, <2>1, Going DEF CheckDead
  <2>4. active \in {main.op, NoOp} /\ (faults = 0 => main.op \in LongOps)
    BY <2>1 DEF VInv, Kept, Smooth
  <2>5. MainOK
    BY <2>1, <2>2, <2>3, <2>4 DEF MainOK, Even
  <2> QED
    BY <2>1, <2>2, <2>5, Untouched, Stays
<1>4. CASE ReconcilePost \/ ReconcileSave
  <2>1. UNCHANGED <<pending, worker, excusing, outcome>>
        /\ main.pc = "reconcile" /\ main.op \in Ops /\ worker.pc = "none"
    BY <1>0, <1>4 DEF ReconcilePost, ReconcileSave, Places
  <2>2. active \in {main.op, NoOp} /\ (faults = 0 => main.op \in LongOps)
    BY <2>1 DEF VInv, Kept, Smooth
  <2>3. faults = 0 => ~InHand(main.op) /\ (main.op \notin Refused => status[main.op] # "running")
    BY <2>1, <2>2 DEF VInv, Smooth, InHand
  <2>4. MainOK
    BY <1>0, <1>4, <2>1, Going DEF ReconcilePost, ReconcileSave, MainOK
  <2>5. CASE ReconcilePost
    <3>1. Post(main.op, "failed") /\ UNCHANGED letters /\ active' = NoOp
      BY <2>5 DEF ReconcilePost
    <3>2. Rows /\ Even /\ status'[main.op] # "running"
      BY <2>1, <2>3, <3>1, PostRows DEF Verdicts
    <3>3. ActiveOK
      BY <1>0, <2>1, <2>2, <3>1, <3>2 DEF ActiveOK
    <3> QED
      BY <2>1, <2>4, <3>1, <3>2, <3>3, Untouched, Stays
  <2>6. CASE ReconcileSave
    <3>1. Rows /\ Even /\ faults' > 0
      BY <2>1, <2>6, GiveUpRows, TrueRequests DEF ReconcileSave
    <3>2. CASE active' = NoOp /\ letters' = [letters EXCEPT ![main.op] = "failed"]
      <4>1. LettersOK /\ letters'[main.op] # "none"
        BY <1>0, <2>1, <3>1, <3>2 DEF LettersOK, LettersType, VInv, Proven
      <4>2. ActiveOK
        BY <1>0, <2>1, <2>2, <3>2, <4>1 DEF ActiveOK
      <4> QED
        BY <2>1, <2>4, <3>1, <4>1, <4>2, Untouched, Stays
    <3>3. CASE UNCHANGED <<active, letters>>
      BY <2>1, <2>4, <3>1, <3>3, Untouched, Stays
    <3> QED
      BY <2>6, <3>2, <3>3 DEF ReconcileSave
  <2> QED
    BY <1>4, <2>5, <2>6
<1> QED
  BY <1>1, <1>2, <1>3, <1>4

\* The loop finds nothing to run, cannot start it, or posts what it has run.
LEMMA IdleVerdicts ==
  ASSUME IInv, IInv', VInv, SkipClaim \/ CannotStart \/ PostResult \/ WakeUp
  PROVE  VInv'
<1>0. AgentTypes /\ Places /\ LongOps \subseteq Ops /\ NoOp \notin Ops
  BY Types, AgentAssumption DEF IInv
<1> USE DEF AgentTypes
<1>1. CASE SkipClaim
  <2>1. UNCHANGED <<pending, active, worker, excusing, letters, outcome>> /\ main.pc = "claim"
    BY <1>1 DEF SkipClaim
  <2>2. Rows /\ Even
    <3>1. ASSUME UNCHANGED <<storeVars, net, faults>> PROVE Rows /\ Even
      BY <3>1, QuietRows
    <3>2. ASSUME GiveUp(Claim) PROVE Rows /\ Even
      BY <3>2, GiveUpRows, TrueRequests
    <3> QED
      BY <1>1, <3>1, <3>2 DEF SkipClaim
  <2>3. MainOK
    BY <1>0, <1>1, <2>1, Going DEF SkipClaim, MainOK
  <2> QED
    BY <2>1, <2>2, <2>3, Untouched, Stays
<1>2. CASE CannotStart
  <2>1. UNCHANGED <<pending, active, worker, excusing, outcome>>
        /\ main.pc = "run" /\ main.op \in Ops
    BY <1>0, <1>2 DEF CannotStart, Places
  <2>2. faults' > 0
    BY <1>2, AgentAssumption DEF CannotStart, IInv, TypeOK, AgentTypeOK
  <2>3. Rows /\ Even
    <3>1. ASSUME HandleComplete(main.op, "failed"), UNCHANGED net PROVE Rows
      <4>1. CASE status[main.op] = "running" /\ FinishRow(main.op, "failed")
        BY <2>1, <3>1, <4>1 DEF FinishRow, VInv, Proven, Rows, IInv, TypeOK, StoreTypeOK, Verdicts
      <4>2. CASE UNCHANGED storeVars
        BY <2>2, <3>1, <4>2, QuietRows
      <4> QED
        BY <3>1, <4>1, <4>2 DEF HandleComplete
    <3>2. ASSUME net' \in {net, net \cup {Complete(main.op, "failed")}}, UNCHANGED storeVars
          PROVE  Rows
      <4>1. GiveUp(Complete(main.op, "failed"))
        BY <1>2, <3>2 DEF CannotStart, GiveUp
      <4> QED
        BY <2>1, <4>1, GiveUpRows, TrueRequests
    <3>3. Rows
      BY <1>2, <3>1, <3>2 DEF CannotStart
    <3> QED
      BY <2>2, <3>3 DEF Even
  <2>4. main'.pc = "sleep"
    BY <1>0, <1>2, Going DEF CannotStart
  <2>5. MainOK
    BY <2>1, <2>2, <2>4 DEF MainOK
  <2>6. LettersOK
    <3>1. CASE UNCHANGED letters
      BY <2>3, <3>1, Untouched
    <3>2. CASE letters' = [letters EXCEPT ![main.op] = "failed"]
      BY <1>0, <2>1, <2>2, <3>2 DEF LettersOK, LettersType, VInv, Proven
    <3> QED
      BY <1>2, <3>1, <3>2 DEF CannotStart
  <2> QED
    BY <2>1, <2>3, <2>5, <2>6, Untouched, Stays
<1>3. CASE PostResult
  <2>1. /\ UNCHANGED <<active, worker, excusing, letters, outcome>>
        /\ main.pc = "post" /\ main.op \in Ops /\ main.verdict \in Verdicts
        /\ outcome[main.op] = main.verdict /\ worker.pc = "none"
    BY <1>0, <1>3 DEF PostResult, Places, MainType, VInv, Proven
  <2>2. main.op \notin LongOps /\ (faults = 0 => ~InHand(main.op))
    BY <2>1 DEF VInv, Kept, Smooth, InHand
  <2>3. Post(main.op, main.verdict) \/ PostFails(main.op, main.verdict)
    BY <1>3 DEF PostResult
  <2>4. Rows /\ Even
    BY <2>1, <2>2, <2>3, PostRows
  <2>5. main'.pc = "sleep"
    BY <1>3 DEF PostResult, Loop
  <2>6. MainOK
    BY <2>1, <2>5 DEF MainOK
  <2>7. PendingOK
    <3>1. CASE UNCHANGED pending
      BY <2>4, <3>1, Untouched
    <3>2. CASE pending' = [op |-> main.op, verdict |-> main.verdict, attempts |-> 0]
      <4>1. pending'.op = main.op /\ pending'.verdict = main.verdict
        BY <3>2
      <4> QED
        BY <2>1, <2>2, <2>4, <4>1 DEF PendingOK, Even
    <3> QED
      BY <1>3, <3>1, <3>2 DEF PostResult
  <2> QED
    BY <2>1, <2>4, <2>6, <2>7, Untouched, Stays
<1>4. CASE WakeUp
  <2>1. UNCHANGED <<storeVars, pending, active, worker, excusing, letters, net, outcome, faults>>
        /\ main.pc = "sleep"
    BY <1>4 DEF WakeUp
  <2>2. Rows /\ Even
    BY <2>1, QuietRows
  <2>3. main'.pc = "letters"
    BY <1>4 DEF WakeUp, Loop
  <2>4. MainOK
    BY <2>1, <2>3 DEF MainOK
  <2> QED
    BY <2>1, <2>2, <2>4, Untouched, Stays
<1> QED
  BY <1>1, <1>2, <1>3, <1>4

\* The control plane, late requests and excuses.
LEMMA OtherVerdicts ==
  ASSUME IInv, IInv', VInv,
         \/ \E o \in Ops : Enqueue(o) \/ Recover(o) \/ Excuse(o)
         \/ \E m \in net : Arrive(m)
  PROVE  VInv'
<1>0. AgentTypes /\ net \subseteq Request /\ LongOps \subseteq Ops
  BY Types, AgentAssumption DEF IInv, TypeOK, AgentTypeOK
<1> USE DEF AgentTypes
<1>1. ASSUME NEW o \in Ops, InsertRow(o), UNCHANGED agentVars PROVE VInv'
  <2>1. /\ status[o] = "absent" /\ status'[o] = "queued" /\ UNCHANGED ttl
        /\ \A p \in Ops : p # o => status'[p] = status[p]
    BY <1>1 DEF InsertRow, IInv, TypeOK, StoreTypeOK
  <2>2. Rows
    BY <1>1, <2>1 DEF Rows, VInv, Proven, Verdicts, agentVars
  <2>3. Even
    <3> SUFFICES ASSUME faults = 0 PROVE Even
      BY <1>1 DEF Even, agentVars
    <3>1. ttl \in [Ops -> 0 .. LeaseTicks]
      BY DEF IInv, TypeOK, StoreTypeOK
    <3>2. \A p \in Ops : InHand(p) => status'[p] = "running" /\ ttl'[p] >= ttl[p]
      BY <2>1, <3>1, InHandLeased, LeaseTicksAssumption
    <3> QED
      BY <1>0, <1>1, <2>1, <3>2 DEF Even, VInv, Smooth, agentVars
  <2> QED
    BY <1>1, <2>2, <2>3, Untouched, Stays DEF agentVars
<1>2. ASSUME NEW o \in Ops, RecoverRow(o), UNCHANGED agentVars PROVE VInv'
  <2>1. /\ status[o] = "running" /\ ttl[o] = 0 /\ status'[o] = "failed" /\ UNCHANGED ttl
        /\ \A p \in Ops : p # o => status'[p] = status[p]
    BY <1>2 DEF RecoverRow, Lapsed, IInv, TypeOK, StoreTypeOK
  <2>2. Rows
    BY <1>2, <2>1 DEF Rows, VInv, Proven, Verdicts, agentVars
  <2>3. Even
    <3> SUFFICES ASSUME faults = 0 PROVE Even
      BY <1>2 DEF Even, agentVars
    <3>1. ~InHand(o)
      BY <2>1, InHandLeased
    <3>2. \A p \in Ops : InHand(p) => status'[p] = "running" /\ ttl'[p] >= ttl[p]
      BY <2>1, <3>1, InHandLeased
    <3>3. o \notin LongOps \ Refused
      BY <2>1, <3>1 DEF VInv, Smooth, InHand
    <3> QED
      BY <1>0, <1>2, <2>1, <3>2, <3>3 DEF Even, VInv, Smooth, agentVars
  <2> QED
    BY <1>2, <2>2, <2>3, Untouched, Stays DEF agentVars
<1>3. ASSUME NEW o \in Ops, Excuse(o) PROVE VInv'
  <2>1. UNCHANGED <<main, pending, active, worker, outcome>> /\ excusing' \subseteq excusing
    BY <1>3 DEF Excuse
  <2>2. faults # 0
    BY <1>3 DEF Excuse, VInv, Smooth
  <2>3. CASE Post(o, "failed") /\ UNCHANGED letters
    <3>1. Rows /\ Even
      BY <2>2, <2>3, PostRows DEF Verdicts
    <3> QED
      BY <2>1, <2>3, <3>1, Untouched, Stays
  <2>4. CASE GiveUp(Complete(o, "failed"))
    <3>1. Rows /\ Even /\ faults' > 0
      BY <2>4, GiveUpRows, TrueRequests
    <3>2. LettersOK
      <4>1. CASE UNCHANGED letters
        BY <3>1, <4>1, Untouched
      <4>2. CASE letters' = [letters EXCEPT ![o] = "failed"]
        BY <1>0, <3>1, <4>2 DEF LettersOK, LettersType, VInv, Proven
      <4>3. ~Post(o, "failed")
        BY <3>1, <2>2, <2>4, AgentAssumption DEF Post, GiveUp, IInv, TypeOK, AgentTypeOK
      <4> QED
        BY <1>3, <4>1, <4>2, <4>3 DEF Excuse
    <3> QED
      BY <2>1, <3>1, <3>2, Untouched, Stays
  <2> QED
    BY <1>3, <2>3, <2>4 DEF Excuse
<1>4. ASSUME NEW m \in net, Arrive(m) PROVE VInv'
  <2>1. /\ UNCHANGED <<main, pending, active, worker, excusing, letters, outcome, faults>>
        /\ net' \subseteq net /\ m \in Request
    BY <1>0, <1>4 DEF Arrive
  <2>2. faults # 0
    BY <1>4 DEF VInv, Smooth
  <2>3. Even
    BY <2>1, <2>2 DEF Even
  <2>4. CASE m.kind = "progress" /\ HandleProgress(m.op)
    <3>1. m.op \in Ops
      BY <2>1, <2>4 DEF Request
    <3>2. Rows
      BY <2>1, <2>4, <3>1, ProgressRows
    <3> QED
      BY <2>1, <2>3, <3>2, Untouched, Stays
  <2>5. CASE m.kind = "complete" /\ HandleComplete(m.op, m.verdict)
    <3>1. m.op \in Ops /\ m.verdict \in Verdicts
      BY <2>1, <2>5 DEF Request
    <3>2. m = Complete(m.op, m.verdict)
      BY <2>1, <2>5 DEF Request, Complete
    <3>3. m.verdict = "succeeded" => outcome[m.op] = "succeeded"
      BY <1>4, <3>1, <3>2 DEF VInv, Proven
    <3>4. Rows
      BY <2>1, <2>2, <2>5, <3>1, <3>3, CompleteRows
    <3> QED
      BY <2>1, <2>3, <3>4, Untouched, Stays
  <2>6. ASSUME NEW o \in Ops, HandleClaim(o) PROVE VInv'
    <3>1. /\ status[o] = "queued" /\ status'[o] = "running"
          /\ \A p \in Ops : p # o => status'[p] = status[p]
      BY <2>6 DEF HandleClaim, ClaimRow, IInv, TypeOK, StoreTypeOK
    <3>2. Rows
      BY <2>1, <3>1 DEF Rows, VInv, Proven, Verdicts
    <3> QED
      BY <2>1, <2>3, <3>2, Untouched, Stays
  <2>7. CASE UNCHANGED storeVars
    <3>1. Rows
      BY <2>1, <2>7, QuietRows
    <3> QED
      BY <2>1, <2>3, <3>1, Untouched, Stays
  <2> QED
    BY <1>4, <2>4, <2>5, <2>6, <2>7 DEF Arrive
<1> QED
  BY <1>1, <1>2, <1>3, <1>4 DEF Enqueue, Recover

-----------------------------------------------------------------------------
(* Steps that start, execute and report *)

\* Where rows, files and requests stay, and no success is forgotten.
LEMMA Remembers ==
  ASSUME IInv, VInv, UNCHANGED <<storeVars, letters, net, pending>>,
         \A o \in Ops : outcome[o] = "succeeded" => outcome'[o] = "succeeded",
         main'.pc = "execute" => outcome'[main'.op] = "running",
         main'.pc = "post" => outcome'[main'.op] = main'.verdict,
         worker'.pc = "command" => outcome'[worker'.op] = "running",
         worker'.pc \in {"flush", "complete", "cleanup"} => outcome'[worker'.op] = worker'.verdict
  PROVE  Proven'
<1>1. pending.op # NoOp => pending.op \in Ops
  BY Types DEF IInv, AgentTypes, PendingType
<1> QED
  BY <1>1 DEF VInv, Proven, storeVars

\* The loop claims an operation, and starts its worker or its command.
LEMMA ClaimVerdicts ==
  ASSUME IInv, IInv', VInv,
         \/ \E o \in Ops : ClaimJob(o)
         \/ StartWorker \/ Execute
         \/ \E v \in Verdicts : Executed(v)
  PROVE  VInv'
<1>0. AgentTypes /\ Places /\ LongOps \subseteq Ops /\ NoOp \notin Ops
  BY Types, AgentAssumption DEF IInv
<1> USE DEF AgentTypes
<1>1. ASSUME NEW o \in Ops, ClaimJob(o) PROVE VInv'
  <2>1. UNCHANGED <<pending, active, worker, excusing, letters, net, outcome, faults>>
        /\ main.pc = "claim" /\ active = NoOp
    BY <1>1 DEF ClaimJob
  <2>2. /\ status[o] = "queued" /\ status'[o] = "running" /\ ttl'[o] = LeaseTicks
        /\ \A p \in Ops : p # o => status'[p] = status[p] /\ status[p] # "running"
    BY <1>1 DEF ClaimJob, HandleClaim, ClaimRow, IInv, TypeOK, StoreTypeOK
  <2>3. outcome[o] = "none"
    BY <2>2 DEF IInv, Unexecuted, Claimed
  <2>4. main'.pc = "run" /\ main'.op = o
    BY <1>0, <1>1, Going DEF ClaimJob
  <2>5. worker.pc = "none" /\ worker.op = NoOp
    BY <1>0, <2>1 DEF Places, VInv, Kept
  <2>6. Proven'
    BY <2>1, <2>2, <2>4, <2>5 DEF VInv, Proven
  <2>7. Kept'
    BY <1>0, <2>1, <2>2, <2>3, <2>4, <2>5 DEF Kept, Accounted
  <2>8. LeaseTicks >= LeaseTicks
    BY LeaseTicksAssumption
  <2>9. Smooth'
    BY <1>0, <2>1, <2>2, <2>4, <2>5, <2>8 DEF VInv, Smooth, Leased
  <2> QED
    BY <2>6, <2>7, <2>9 DEF VInv
<1>2. CASE StartWorker
  <2>1. UNCHANGED <<storeVars, pending, active, excusing, letters, net, outcome, faults>>
        /\ main.pc = "run" /\ main.op \in LongOps /\ worker.pc = "none"
    BY <1>0, <1>2 DEF StartWorker, Places
  <2>2. main'.pc = "sleep"
    BY <1>0, <1>2, Going DEF StartWorker
  <2>3. worker'.pc = "starting" /\ worker'.op = main.op
    BY <1>2 DEF StartWorker, NoWorker
  <2>4. Proven'
    BY <2>1, <2>2, <2>3, Remembers
  <2>5. active = NoOp /\ worker.op = NoOp
    BY <2>1 DEF VInv, Kept
  <2>6. Kept'
    BY <1>0, <2>1, <2>2, <2>3, <2>5 DEF VInv, Kept, Accounted, storeVars
  <2>7. Smooth'
    BY <1>0, <2>1, <2>2, <2>3, <2>5 DEF VInv, Smooth, Leased, storeVars
  <2> QED
    BY <2>4, <2>6, <2>7 DEF VInv
<1>3. ASSUME UNCHANGED <<storeVars, pending, active, worker, excusing, letters, net, faults>>,
             main.pc \in {"run", "execute"}, main.op \in Ops \ LongOps, worker.pc = "none",
             outcome[main.op] # "succeeded", main'.op = main.op,
             NEW v \in {"running"} \cup Verdicts, outcome' = [outcome EXCEPT ![main.op] = v],
             main'.pc \in {"execute", "post"}, main'.pc = "execute" => v = "running",
             main'.pc = "post" => main'.verdict = v
      PROVE  VInv'
  <2>1. /\ outcome'[main.op] = v
        /\ \A o \in Ops : o # main.op => outcome'[o] = outcome[o]
    BY <1>0, <1>3
  <2>2. Proven'
    BY <1>0, <1>3, <2>1, Remembers
  <2>3. Kept'
    <3>1. main.pc = "execute" => active = NoOp
      BY DEF VInv, Kept
    <3>2. active = NoOp
      BY <1>3, <3>1 DEF VInv, Kept
    <3>3. Accounted'
      BY <1>0, <1>3, <2>1 DEF VInv, Kept, Accounted, storeVars
    <3> QED
      BY <1>3, <3>2, <3>3 DEF VInv, Kept
  <2>4. Smooth'
    BY <1>0, <1>3, <2>1 DEF VInv, Smooth, Leased, storeVars
  <2> QED
    BY <2>2, <2>3, <2>4 DEF VInv
<1>4. CASE Execute
  <2>1. UNCHANGED <<storeVars, pending, active, worker, excusing, letters, net, faults>>
        /\ main.pc = "run" /\ main.op \in Ops \ LongOps /\ worker.pc = "none"
    BY <1>0, <1>4 DEF Execute, Places
  <2>2. outcome[main.op] # "succeeded"
    BY <2>1 DEF IInv, Unexecuted
  <2>3. main'.pc = "execute" /\ main'.op = main.op
    BY <1>0, <1>4, <2>1, Going DEF Execute
  <2>4. PICK v \in {"running"} \cup Verdicts : v = "running"
    OBVIOUS
  <2>5. outcome' = [outcome EXCEPT ![main.op] = v]
    BY <1>4, <2>4 DEF Execute
  <2> QED
    BY <1>3, <2>1, <2>2, <2>3, <2>4, <2>5
<1>5. ASSUME NEW v \in Verdicts, Executed(v) PROVE VInv'
  <2>1. UNCHANGED <<storeVars, pending, active, worker, excusing, letters, net, faults>>
        /\ main.pc = "execute" /\ main.op \in Ops /\ worker.pc = "none"
    BY <1>0, <1>5 DEF Executed, Places
  <2>2. outcome[main.op] = "running"
    BY <2>1 DEF VInv, Proven
  <2>3. main'.pc = "post" /\ main'.op = main.op /\ main'.verdict = v
    BY <1>0, <1>5 DEF Executed, MainType
  <2>4. outcome' = [outcome EXCEPT ![main.op] = v]
    BY <1>5 DEF Executed
  <2>5. main.op \notin LongOps
    BY <2>1 DEF VInv, Kept
  <2> QED
    BY <1>3, <2>1, <2>2, <2>3, <2>4, <2>5
<1> QED
  BY <1>1, <1>2, <1>4, <1>5

\* The worker goes on with its operation: requests may change its row, and its verdict may
\* be kept in a letter.
LEMMA Carries ==
  ASSUME IInv, VInv, Rows, UNCHANGED <<main, pending, active, outcome>>,
         worker.pc \in {"command", "flush", "complete"},
         worker'.op = worker.op, worker'.verdict = worker.verdict,
         \/ worker.pc = "command" /\ worker'.pc = "command"
         \/ worker.pc # "command" /\ worker'.pc \in {"complete", "cleanup"},
         \A o \in Ops : letters'[o] = "succeeded" => outcome[o] = "succeeded",
         \A o \in Ops : letters'[o] = "none" => letters[o] = "none",
         worker'.pc = "cleanup" =>
           status'[worker.op] # "running" \/ letters'[worker.op] # "none" \/ worker.op \in Unwritable
  PROVE  Proven' /\ Kept'
<1>1. Proven'
  BY DEF VInv, Proven, Rows
<1>2. ASSUME NEW o \in LongOps \ Unwritable, status'[o] = "running", outcome'[o] # "none"
      PROVE  worker'.op = o \/ active' = o \/ letters'[o] # "none"
  <2>1. o \in Ops /\ outcome[o] # "none"
    BY <1>2, AgentAssumption
  <2>2. status[o] # "queued"
    BY <2>1 DEF IInv, Unexecuted, Claimed
  <2>3. status[o] = "running"
    BY <1>2, <2>1, <2>2 DEF Rows
  <2> QED
    BY <1>2, <2>1, <2>3 DEF VInv, Kept, Accounted
<1>3. Accounted'
  BY <1>2 DEF Accounted
<1>4. Kept'
  BY <1>3 DEF VInv, Kept
<1> QED
  BY <1>1, <1>4

\* The worker runs its command.
LEMMA RunVerdicts ==
  ASSUME IInv, IInv', VInv,
         \/ WorkerPersist \/ WorkerCannotPersist \/ WorkerRun \/ WorkerAborts \/ WorkerProgress
         \/ \E v \in Verdicts : CommandEnds(v)
  PROVE  VInv'
<1>0. AgentTypes /\ Places /\ LongOps \subseteq Ops /\ NoOp \notin Ops
  BY Types, AgentAssumption DEF IInv
<1> USE DEF AgentTypes
<1>1. CASE WorkerPersist
  <2>1. UNCHANGED <<storeVars, main, pending, excusing, letters, net, outcome, faults>>
        /\ worker.pc = "starting" /\ worker.op \in Ops /\ active' = worker.op /\ main.pc = "sleep"
    BY <1>0, <1>1 DEF WorkerPersist, Places
  <2>2. worker'.pc = "prepare" /\ worker'.op = worker.op
    BY <1>0, <1>1 DEF WorkerPersist, WorkerType
  <2>3. Proven'
    BY <2>1, <2>2, Remembers
  <2>4. active = NoOp
    BY <2>1 DEF VInv, Kept
  <2>5. Kept'
    BY <1>0, <2>1, <2>2, <2>4 DEF VInv, Kept, Accounted, storeVars
  <2>6. Smooth'
    BY <1>0, <2>1, <2>2 DEF VInv, Smooth, Leased, storeVars
  <2> QED
    BY <2>3, <2>5, <2>6 DEF VInv
<1>2. CASE WorkerCannotPersist \/ WorkerAborts
  <2>1. /\ UNCHANGED <<storeVars, main, pending, active, net, outcome, letters>>
        /\ worker.pc \in {"starting", "prepare"} /\ worker.op \in Ops /\ worker' = NoWorker
        /\ main.pc \notin {"run", "execute", "post"}
    BY <1>0, <1>2 DEF WorkerCannotPersist, WorkerAborts, SaveFails, Places
  <2>2. faults' > 0
    BY <1>2, AgentAssumption DEF WorkerCannotPersist, WorkerAborts, SaveFails, IInv, TypeOK, AgentTypeOK
  <2>3. worker'.pc = "none" /\ worker'.op = NoOp
    BY <2>1 DEF NoWorker
  <2>4. Proven'
    BY <2>1, <2>3, Remembers
  <2>5. outcome[worker.op] = "none"
    BY <2>1 DEF IInv, Unexecuted
  <2>6. Kept'
    BY <1>0, <2>1, <2>3, <2>5 DEF VInv, Kept, Accounted, storeVars
  <2>7. Smooth'
    BY <2>2 DEF Smooth
  <2> QED
    BY <2>4, <2>6, <2>7 DEF VInv
<1>3. CASE WorkerRun
  <2>1. /\ UNCHANGED <<storeVars, main, pending, active, excusing, letters, net, faults>>
        /\ worker.pc = "prepare" /\ worker.op \in Ops /\ active = worker.op
        /\ main.pc \notin {"run", "execute", "post"} /\ outcome[worker.op] = "none"
    BY <1>0, <1>3 DEF WorkerRun, Places, IInv, Unexecuted
  <2>2. worker'.pc = "command" /\ worker'.op = worker.op /\ worker'.fresh = worker.fresh
    BY <1>0, <1>3 DEF WorkerRun, WorkerType
  <2>3. /\ outcome'[worker.op] = "running"
        /\ \A o \in Ops : o # worker.op => outcome'[o] = outcome[o]
    BY <1>0, <1>3, <2>1 DEF WorkerRun
  <2>4. Proven'
    BY <2>1, <2>2, <2>3, Remembers
  <2>5. Kept'
    BY <1>0, <2>1, <2>2, <2>3 DEF VInv, Kept, Accounted, storeVars
  <2>6. faults = 0 => Leased(worker.op, LeaseTicks) /\ Leased(worker.op, LeaseTicks - 1)
    BY <2>1, LeaseTicksAssumption DEF VInv, Smooth, Leased, IInv, TypeOK, StoreTypeOK
  <2>7. Smooth'
    BY <1>0, <2>1, <2>2, <2>3, <2>6 DEF VInv, Smooth, Leased, storeVars
  <2> QED
    BY <2>4, <2>5, <2>7 DEF VInv
<1>4. CASE WorkerProgress
  <2>1. /\ UNCHANGED <<main, pending, active, excusing, letters, outcome>>
        /\ worker.pc = "command" /\ worker.op \in Ops
    BY <1>0, <1>4 DEF WorkerProgress, Places
  <2>2. worker'.pc = "command" /\ worker'.op = worker.op /\ worker'.verdict = worker.verdict
    BY <1>0, <1>4, <2>1 DEF WorkerProgress, WorkerType
  <2>3. CASE HandleProgress(worker.op) /\ UNCHANGED <<net, faults>>
    <3>1. Rows
      BY <2>1, <2>3, ProgressRows
    <3>2. Proven' /\ Kept'
      BY <2>1, <2>2, <3>1, Carries DEF VInv, Proven
    <3>3. faults = 0 => Leased(worker.op, LeaseTicks)' /\ Leased(worker.op, LeaseTicks - 1)'
                        /\ UNCHANGED status
      BY <2>1, <2>2, <2>3, LeaseTicksAssumption
         DEF VInv, Smooth, Leased, HandleProgress, RenewRow, IInv, TypeOK, StoreTypeOK
    <3>4. Smooth'
      <4>1. main.pc # "run"
        BY <2>1 DEF IInv, Places
      <4> QED
        BY <1>0, <2>1, <2>2, <2>3, <3>3, <4>1 DEF VInv, Smooth
    <3> QED
      BY <3>2, <3>4 DEF VInv
  <2>4. CASE GiveUp(Progress(worker.op))
    <3>1. Rows /\ faults' > 0
      BY <2>1, <2>4, GiveUpRows, TrueRequests
    <3>2. Proven' /\ Kept'
      BY <2>1, <2>2, <3>1, Carries DEF VInv, Proven
    <3> QED
      BY <3>1, <3>2 DEF VInv, Smooth
  <2> QED
    BY <1>4, <2>3, <2>4 DEF WorkerProgress
<1>5. ASSUME NEW v \in Verdicts, CommandEnds(v) PROVE VInv'
  <2>1. /\ UNCHANGED <<storeVars, main, pending, active, excusing, letters, net, faults>>
        /\ worker.pc = "command" /\ worker.op \in Ops /\ active = worker.op
        /\ main.pc \notin {"run", "execute", "post"} /\ outcome[worker.op] = "running"
    BY <1>0, <1>5 DEF CommandEnds, Places, VInv, Proven
  <2>2. worker'.pc = "flush" /\ worker'.op = worker.op /\ worker'.verdict = v
    BY <1>0, <1>5 DEF CommandEnds, WorkerType
  <2>3. /\ outcome'[worker.op] = v
        /\ \A o \in Ops : o # worker.op => outcome'[o] = outcome[o]
    BY <1>0, <1>5, <2>1 DEF CommandEnds
  <2>4. Proven'
    BY <2>1, <2>2, <2>3, Remembers
  <2>5. Kept'
    BY <1>0, <2>1, <2>2, <2>3 DEF VInv, Kept, Accounted, storeVars
  <2>6. Smooth'
    BY <1>0, <2>1, <2>2, <2>3 DEF VInv, Smooth, Leased, storeVars
  <2> QED
    BY <2>4, <2>5, <2>6 DEF VInv
<1> QED
  BY <1>1, <1>2, <1>3, <1>4, <1>5

\* The worker reports.
LEMMA ReportVerdicts ==
  ASSUME IInv, IInv', VInv, WorkerFlush \/ WorkerPost \/ WorkerSaves \/ WorkerCleanup
  PROVE  VInv'
<1>0. AgentTypes /\ Places /\ LongOps \subseteq Ops /\ NoOp \notin Ops
  BY Types, AgentAssumption DEF IInv
<1> USE DEF AgentTypes
<1>1. CASE WorkerFlush
  <2>1. /\ UNCHANGED <<main, pending, active, excusing, letters, outcome>>
        /\ worker.pc = "flush" /\ worker.op \in Ops
    BY <1>0, <1>1 DEF WorkerFlush, Places
  <2>2. worker'.pc = "complete" /\ worker'.op = worker.op /\ worker'.verdict = worker.verdict
    BY <1>0, <1>1, <2>1 DEF WorkerFlush, WorkerType
  <2>3. CASE HandleProgress(worker.op) /\ UNCHANGED <<net, faults>>
    <3>1. Rows
      BY <2>1, <2>3, ProgressRows
    <3>2. Proven' /\ Kept'
      BY <2>1, <2>2, <3>1, Carries DEF VInv, Proven
    <3>3. faults = 0 => Leased(worker.op, LeaseTicks - 1)' /\ UNCHANGED status
      BY <2>1, <2>2, <2>3, LeaseTicksAssumption
         DEF VInv, Smooth, Leased, HandleProgress, RenewRow, IInv, TypeOK, StoreTypeOK
    <3>4. Smooth'
      <4>1. main.pc # "run"
        BY <2>1 DEF IInv, Places
      <4> QED
        BY <1>0, <2>1, <2>2, <2>3, <3>3, <4>1 DEF VInv, Smooth
    <3> QED
      BY <3>2, <3>4 DEF VInv
  <2>4. CASE GiveUp(Progress(worker.op))
    <3>1. Rows /\ faults' > 0
      BY <2>1, <2>4, GiveUpRows, TrueRequests
    <3>2. Proven' /\ Kept'
      BY <2>1, <2>2, <3>1, Carries DEF VInv, Proven
    <3> QED
      BY <3>1, <3>2 DEF VInv, Smooth
  <2>5. CASE UNCHANGED <<storeVars, net, faults>>
    <3>1. Rows
      BY <2>5, QuietRows
    <3>2. Proven' /\ Kept'
      BY <2>1, <2>2, <3>1, Carries DEF VInv, Proven
    <3>3. faults = 0 => Leased(worker.op, LeaseTicks - 1)' /\ UNCHANGED status
      BY <2>1, <2>2, <2>5 DEF VInv, Smooth, Leased, storeVars
    <3>4. Smooth'
      <4>1. main.pc # "run"
        BY <2>1 DEF IInv, Places
      <4> QED
        BY <1>0, <2>1, <2>2, <2>5, <3>3, <4>1 DEF VInv, Smooth
    <3> QED
      BY <3>2, <3>4 DEF VInv
  <2> QED
    BY <1>1, <2>3, <2>4, <2>5 DEF WorkerFlush
<1>2. CASE WorkerPost \/ WorkerSaves
  <2>1. /\ UNCHANGED <<main, pending, active, excusing, outcome>>
        /\ worker.pc = "complete" /\ worker.op \in Ops /\ worker.verdict \in Verdicts
        /\ outcome[worker.op] = worker.verdict /\ main.pc # "run"
    BY <1>0, <1>2 DEF WorkerPost, WorkerSaves, Places, WorkerType, VInv, Proven
  <2>2. worker'.pc = "cleanup" /\ worker'.op = worker.op /\ worker'.verdict = worker.verdict
    BY <1>0, <1>2, <2>1 DEF WorkerPost, WorkerSaves, WorkerType
  <2>3. faults = 0 =>
          \A o \in LongOps \ Refused : status[o] = "running" => o = worker.op
    BY <2>1 DEF VInv, Smooth
  <2>4. CASE WorkerPost
    <3>1. Post(worker.op, worker.verdict) /\ UNCHANGED <<letters, net, faults>>
      BY <2>4 DEF WorkerPost, Post
    <3>2. Rows /\ status'[worker.op] # "running"
      BY <2>1, <3>1, CompleteRows DEF Post
    <3>3. Proven' /\ Kept'
      BY <2>1, <2>2, <3>1, <3>2, Carries DEF VInv, Proven
    <3>4. \A o \in Ops : status'[o] = status[o] \/ (o = worker.op /\ status'[o] = outcome[o])
      BY <2>1, <3>1 DEF Post, HandleComplete, FinishRow, storeVars, IInv, TypeOK, StoreTypeOK
    <3>5. Smooth'
      BY <1>0, <2>1, <2>2, <2>3, <3>1, <3>2, <3>4 DEF VInv, Smooth
    <3> QED
      BY <3>3, <3>5 DEF VInv
  <2>5. CASE WorkerSaves
    <3>1. PostFails(worker.op, worker.verdict)
      BY <2>5 DEF WorkerSaves
    <3>2. /\ \A o \in Ops : letters'[o] = letters[o] \/ (o = worker.op /\ letters'[o] = worker.verdict)
          /\ worker.op \in Unwritable \/ letters'[worker.op] = worker.verdict
      BY <1>0, <2>1, <2>5 DEF WorkerSaves, LettersType
    <3>3. Rows
      BY <2>1, <3>1, GiveUpRows, QuietRows, TrueRequests DEF PostFails
    <3>4. Proven' /\ Kept'
      <4>1. \A o \in Ops : letters'[o] = "succeeded" => outcome[o] = "succeeded"
        BY <2>1, <3>2 DEF VInv, Proven
      <4>2. \A o \in Ops : letters'[o] = "none" => letters[o] = "none"
        BY <2>1, <3>2 DEF Verdicts
      <4>3. letters'[worker.op] # "none" \/ worker.op \in Unwritable
        BY <2>1, <3>2 DEF Verdicts
      <4> QED
        BY <2>1, <2>2, <3>3, <4>1, <4>2, <4>3, Carries
    <3>5. Smooth'
      <4> SUFFICES ASSUME faults' = 0 PROVE Smooth'
        BY DEF Smooth
      <4>1. ~GiveUp(Complete(worker.op, worker.verdict))
        BY AgentAssumption DEF GiveUp, IInv, TypeOK, AgentTypeOK
      <4>2. UNCHANGED <<storeVars, net, faults>> /\ worker.op \in Refused /\ worker.verdict = "succeeded"
        BY <3>1, <4>1 DEF PostFails, Accepted
      <4> QED
        BY <1>0, <2>1, <2>2, <2>3, <3>2, <4>2 DEF VInv, Smooth, storeVars
    <3> QED
      BY <3>4, <3>5 DEF VInv
  <2> QED
    BY <1>2, <2>4, <2>5
<1>3. CASE WorkerCleanup
  <2>1. /\ UNCHANGED <<storeVars, main, pending, excusing, letters, net, outcome, faults>>
        /\ worker.pc = "cleanup" /\ worker.op \in Ops /\ active = worker.op
        /\ active' = NoOp /\ worker' = NoWorker /\ main.pc # "run"
    BY <1>0, <1>3 DEF WorkerCleanup, Places
  <2>2. worker'.pc = "none" /\ worker'.op = NoOp
    BY <2>1 DEF NoWorker
  <2>3. Proven'
    BY <2>1, <2>2, Remembers DEF VInv, Proven
  <2>4. Kept'
    BY <1>0, <2>1, <2>2 DEF VInv, Kept, Accounted, storeVars
  <2>5. Smooth'
    BY <1>0, <2>1, <2>2 DEF VInv, Smooth, storeVars
  <2> QED
    BY <2>3, <2>4, <2>5 DEF VInv
<1> QED
  BY <1>1, <1>2, <1>3

\* The agent restarts, and the clock advances.
LEMMA RestartVerdicts ==
  ASSUME IInv, VInv, AgentRestart
  PROVE  VInv'
<1>0. AgentTypes /\ Places /\ LongOps \subseteq Ops
  BY Types, AgentAssumption DEF IInv
<1>1. faults' > 0 /\ UNCHANGED <<storeVars, active, letters, net>>
  BY AgentAssumption DEF AgentRestart, IInv, TypeOK, AgentTypeOK
<1>2. main'.pc = "letters" /\ worker'.pc = "none" /\ worker'.op = NoOp /\ pending'.op = NoOp
  BY DEF AgentRestart, Loop, NoWorker, NoPending
<1>3. \A o \in Ops : /\ outcome[o] = "succeeded" => outcome'[o] = "succeeded"
                     /\ outcome'[o] # "none" => outcome[o] # "none"
  BY DEF AgentRestart
<1>4. Proven'
  BY <1>1, <1>2, <1>3 DEF VInv, Proven, storeVars
<1>5. ASSUME NEW o \in LongOps \ Unwritable, status'[o] = "running", outcome'[o] # "none"
      PROVE  worker'.op = o \/ active' = o \/ letters'[o] # "none"
  <2>1. o \in Ops /\ o # NoOp /\ status[o] = "running" /\ outcome[o] # "none"
    BY <1>0, <1>1, <1>3, <1>5, AgentAssumption DEF storeVars
  <2>2. worker.op = o => worker.pc \notin {"none", "starting"}
    BY <2>1 DEF VInv, Kept, IInv, Unexecuted
  <2>3. active = o \/ letters[o] # "none"
    BY <1>0, <1>5, <2>1, <2>2 DEF VInv, Kept, Accounted, Places
  <2> QED
    BY <1>1, <2>3
<1>6. Kept'
  BY <1>2, <1>5 DEF Kept, Accounted
<1>7. Smooth'
  BY <1>1 DEF Smooth
<1> QED
  BY <1>4, <1>6, <1>7 DEF VInv

LEMMA TickVerdicts ==
  ASSUME IInv, VInv, Tick
  PROVE  VInv'
<1>0. AgentTypes /\ Places /\ LongOps \subseteq Ops
  BY Types, AgentAssumption DEF IInv
<1>1. UNCHANGED <<status, main, pending, active, excusing, letters, net, outcome, faults>>
  BY DEF Tick, Elapse
<1>2. worker'.pc = worker.pc /\ worker'.op = worker.op /\ worker'.verdict = worker.verdict
      /\ worker'.fresh = FALSE
  BY <1>0 DEF Tick, AgentTypes, WorkerType
<1>3. Proven'
  BY <1>1, <1>2 DEF VInv, Proven
<1>4. Kept'
  BY <1>1, <1>2 DEF VInv, Kept, Accounted
<1>5. Smooth'
  <2> SUFFICES ASSUME faults = 0 PROVE Smooth'
    BY <1>1 DEF Smooth
  <2>1. main.pc # "run" /\ (worker.pc = "none" \/ (worker.pc = "command" /\ worker.fresh))
    BY AgentAssumption DEF Tick, Timely
  <2>2. worker.pc = "command" => Leased(worker.op, LeaseTicks - 1)'
    <3> SUFFICES ASSUME worker.pc = "command" PROVE Leased(worker.op, LeaseTicks - 1)'
      OBVIOUS
    <3>1. Leased(worker.op, LeaseTicks) /\ worker.op \in Ops
      BY <1>0, <2>1 DEF VInv, Smooth, Places
    <3>2. ttl[worker.op] \in 0 .. LeaseTicks /\ LeaseTicks \in Nat \ {0}
      BY <3>1, LeaseTicksAssumption DEF IInv, TypeOK, StoreTypeOK
    <3>3. ttl'[worker.op] = ttl[worker.op] - 1
      BY <3>1, <3>2 DEF Tick, Elapse, Leased
    <3> QED
      BY <1>1, <1>2, <3>1, <3>2, <3>3 DEF Leased
  <2> QED
    BY <1>1, <1>2, <2>1, <2>2 DEF VInv, Smooth
<1> QED
  BY <1>3, <1>4, <1>5 DEF VInv

LEMMA VerdictsInit == Init => VInv
BY AgentAssumption
   DEF Init, StoreInit, VInv, Proven, Kept, Accounted, Smooth, Loop, NoPending, NoWorker

LEMMA VerdictsStep ==
  ASSUME IInv, IInv', VInv, [Next]_vars
  PROVE  VInv'
<1>1. CASE LoopStep
  BY <1>1, RetryVerdicts, CheckVerdicts, IdleVerdicts, ClaimVerdicts DEF LoopStep
<1>2. CASE WorkerStep
  BY <1>2, RunVerdicts, ReportVerdicts DEF WorkerStep
<1>3. CASE \/ \E o \in Ops : Enqueue(o) \/ Recover(o) \/ Excuse(o)
           \/ \E m \in net : Arrive(m)
  BY <1>3, OtherVerdicts
<1>4. CASE AgentRestart
  BY <1>4, RestartVerdicts
<1>5. CASE Tick
  BY <1>5, TickVerdicts
<1>6. CASE UNCHANGED vars
  <2>1. UNCHANGED storeVars /\ UNCHANGED agentVars
    BY <1>6 DEF vars
  <2>2. Proven' /\ Kept'
    BY <2>1 DEF storeVars, agentVars, VInv, Proven, Kept, Accounted
  <2>3. Smooth'
    BY <2>1 DEF storeVars, agentVars, VInv, Smooth, Leased
  <2> QED
    BY <2>2, <2>3 DEF VInv
<1> QED
  BY <1>1, <1>2, <1>3, <1>4, <1>5, <1>6 DEF Next

LEMMA Verdict == Spec => []VInv
<1>1. Init => IInv /\ VInv
  BY InvInit, VerdictsInit
<1>2. IInv /\ VInv /\ [Next]_vars => IInv' /\ VInv'
  BY InvStep, VerdictsStep
<1> QED
  BY <1>1, <1>2, PTL DEF Spec

\* The panel shows success only for an operation whose command has succeeded, whatever is
\* repeated, late, recovered or restarted; it shows failure of a long operation that did not
\* fail only after a fault or a rejected result.
THEOREM VerdictsAreTrue == Spec => []Truthful
<1>1. IInv /\ VInv => Truthful
  BY AgentAssumption DEF VInv, Proven, Smooth, Truthful, IInv, TypeOK, AgentTypeOK
<1> QED
  BY <1>1, Invariance, Verdict, PTL

\* The result of a long operation that still runs at the API is never lost: its worker, its
\* active-job file or a dead letter answers for it, also across restarts of the agent.
THEOREM ResultsAreKept == Spec => []Accounted
<1>1. VInv => Accounted
  BY DEF VInv, Kept
<1> QED
  BY <1>1, Verdict, PTL

\* While nothing fails, the worker's progress keeps the lease of its operation in force until
\* its result has been taken, for every lease of more than one tick.
THEOREM LeaseIsKept == Spec => []WorkerKeepsLease
<1>1. IInv /\ VInv => WorkerKeepsLease
  <2> SUFFICES ASSUME IInv, VInv, faults = 0, worker.pc \in {"command", "flush", "complete"}
               PROVE  status[worker.op] = "running" /\ ttl[worker.op] > 0
    BY DEF WorkerKeepsLease
  <2>1. worker.op \in Ops /\ InHand(worker.op)
    BY DEF IInv, Places, InHand
  <2> QED
    BY <2>1, InHandLeased
<1> QED
  BY <1>1, Invariance, Verdict, PTL
=============================================================================
