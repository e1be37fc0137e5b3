------------------------------ MODULE HostAgent ------------------------------
(***************************************************************************)
(* pz-agent.sh --poll: the host's poll loop and its background worker,     *)
(* against the operation rows of the control plane.                        *)
(*                                                                         *)
(* The loop executes most kinds itself, and blocks meanwhile.  The kinds   *)
(* start, stop, restart and build.update go to a worker, a subshell that   *)
(* outlives the iteration; the file `active-job` names it.  Results the    *)
(* API does not take become pending (in memory, retried by the loop) or    *)
(* dead letters (files, retried by the loop, also after a restart).        *)
(*                                                                         *)
(* A request is answered in one step, or the client gives up after its     *)
(* attempts: then a copy may still reach the API at any later time.  The   *)
(* API's transactions are those of OperationStore; OperationQueue checks   *)
(* that its concurrent handlers amount to them.                            *)
(***************************************************************************)
EXTENDS OperationStore

CONSTANTS
  LongOps,        \* the operations of the kinds run_long_job executes
  Refused,        \* the operations whose successful result the API's schema rejects
  NoOp,           \* no operation
  RetryLimit,     \* PZ_AGENT_PENDING_COMPLETION_RETRIES
  Unwritable,     \* the operations whose state files the disk may refuse
  MaxFaults       \* bound: give-ups, failed writes and restarts

\* A worker posts several times in a tick, and a lease outlasts a tick.
ASSUME AgentAssumption ==
  /\ LeaseTicks > 1
  /\ LongOps \subseteq Ops
  /\ Refused \subseteq Ops
  /\ NoOp \notin Ops
  /\ RetryLimit \in Nat \ {0}
  /\ Unwritable \subseteq Ops
  /\ MaxFaults \in Nat

VARIABLES
  main,      \* the poll loop: its place, and the operation it is busy with
  pending,   \* pending_job_id, pending_completion and pending_completion_attempts
  active,    \* the operation the active-job file names, NoOp without the file
  worker,    \* the background worker: its place, operation and verdict
  excusing,  \* operations whose worker could not persist the file and reports so
  letters,   \* [Ops -> Verdicts, or "none"]: the dead-letter files
  net,       \* requests nobody waits for that may still reach the API
  outcome,   \* [Ops -> Outcome]: what became of the operation on the host
  faults     \* failures so far

agentVars == <<main, pending, active, worker, excusing, letters, net, outcome, faults>>
vars == <<storeVars, agentVars>>

Outcome == {"none", "running", "killed"} \cup Verdicts
Request == [kind : {"claim"}, op : {NoOp}, verdict : {"failed"}]
             \cup [kind : {"progress"}, op : Ops, verdict : {"failed"}]
             \cup [kind : {"complete"}, op : Ops, verdict : Verdicts]

Claim == [kind |-> "claim", op |-> NoOp, verdict |-> "failed"]
Progress(o) == [kind |-> "progress", op |-> o, verdict |-> "failed"]
Complete(o, v) == [kind |-> "complete", op |-> o, verdict |-> v]

NoPending == [op |-> NoOp, verdict |-> "failed", attempts |-> 0]
NoWorker == [pc |-> "none", op |-> NoOp, verdict |-> "failed", fresh |-> FALSE]
Loop == [pc |-> "letters", op |-> NoOp, verdict |-> "failed", tried |-> {}]

AgentTypeOK ==
  /\ main \in [pc : {"letters", "pending", "fallback", "active", "check", "reconcile",
                     "claim", "run", "execute", "post", "sleep"},
               op : Ops \cup {NoOp}, verdict : Verdicts, tried : SUBSET Ops]
  /\ pending \in [op : Ops \cup {NoOp}, verdict : Verdicts, attempts : 0 .. RetryLimit]
  /\ active \in Ops \cup {NoOp}
  /\ worker \in [pc : {"none", "starting", "prepare", "command", "flush", "complete", "cleanup"},
                 op : Ops \cup {NoOp}, verdict : Verdicts, fresh : BOOLEAN]
  /\ excusing \subseteq Ops
  /\ letters \in [Ops -> Verdicts \cup {"none"}]
  /\ net \subseteq Request
  /\ outcome \in [Ops -> Outcome]
  /\ faults \in 0 .. MaxFaults

TypeOK == StoreTypeOK /\ AgentTypeOK

Init ==
  /\ StoreInit
  /\ main = Loop
  /\ pending = NoPending
  /\ active = NoOp
  /\ worker = NoWorker
  /\ excusing = {}
  /\ letters = [o \in Ops |-> "none"]
  /\ net = {}
  /\ outcome = [o \in Ops |-> "none"]
  /\ faults = 0

-----------------------------------------------------------------------------
(* The control plane *)

\* Mutant of HandleProgress: progress does not renew the lease.
HandleProgressOnly(o) == UNCHANGED storeVars

\* What the API does for progress (or a log chunk) and for a completion: a 404
\* changes nothing, and post_completion takes it for an answer.
HandleProgress(o) == IF status[o] = "running" THEN RenewRow(o) ELSE UNCHANGED storeVars
HandleComplete(o, v) == IF status[o] = "running" THEN FinishRow(o, v) ELSE UNCHANGED storeVars
Accepted(o, v) == ~(o \in Refused /\ v = "succeeded")

\* A panel request queues an operation.
Enqueue(o) == InsertRow(o) /\ UNCHANGED agentVars

\* Recovery, which precedes every enqueue and every claim.
Recover(o) == RecoverRow(o) /\ UNCHANGED agentVars

\* Mutant of HandleClaim: an expired operation is handed out again.
HandleClaimAgain(o) ==
  \/ (\A p \in Ops : status[p] # "running") /\ ClaimRow(o)
  \/ Lapsed(o) /\ RenewRow(o)

\* claimNext once nothing is left to recover: a queued row, or no job.
HandleClaim(o) ==
  /\ \A p \in Ops : status[p] # "running"
  /\ ClaimRow(o)
NothingToClaim ==
  /\ \A o \in Ops : ~Lapsed(o)
  /\ \/ \E o \in Ops : status[o] = "running"
     \/ \A o \in Ops : status[o] # "queued"

\* A request whose client has given up arrives after all, or is lost.
Arrive(m) ==
  /\ net' = net \ {m}
  /\ \/ m.kind = "progress" /\ HandleProgress(m.op)
     \/ m.kind = "complete" /\ Accepted(m.op, m.verdict) /\ HandleComplete(m.op, m.verdict)
     \/ m.kind = "claim" /\ \E o \in Ops : HandleClaim(o)
     \/ UNCHANGED storeVars
  /\ UNCHANGED <<main, pending, active, worker, excusing, letters, outcome, faults>>

-----------------------------------------------------------------------------
(* Steps shared by the loop and the worker *)

\* Mutant of Post: a 404 is not an answer.
PostUntilFound(o, v) ==
  /\ Accepted(o, v)
  /\ FinishRow(o, v)
  /\ UNCHANGED <<net, faults>>

\* post_completion returns 0: a 2xx or a 404.
Post(o, v) ==
  /\ Accepted(o, v)
  /\ HandleComplete(o, v)
  /\ UNCHANGED <<net, faults>>

\* All attempts of a request fail; a copy may be on its way.
GiveUp(m) ==
  /\ faults < MaxFaults
  /\ faults' = faults + 1
  /\ net' \in {net, net \cup {m}}
  /\ UNCHANGED storeVars

\* post_completion returns 1: every attempt is rejected, or gets no answer.
PostFails(o, v) ==
  \/ /\ ~Accepted(o, v)
     /\ UNCHANGED <<storeVars, net, faults>>
  \/ GiveUp(Complete(o, v))

\* A state file of the worker's operation cannot be written.
SaveFails ==
  /\ worker.op \in Unwritable
  /\ faults < MaxFaults
  /\ faults' = faults + 1
  /\ UNCHANGED letters

GoMain(pc, o) == main' = [main EXCEPT !.pc = pc, !.op = o]

-----------------------------------------------------------------------------
(* The poll loop *)

\* retry_dead_letters: each file is posted once an iteration.
RetryLetter(o) ==
  /\ main.pc = "letters"
  /\ letters[o] # "none"
  /\ o \notin main.tried
  /\ \/ Post(o, letters[o]) /\ letters' = [letters EXCEPT ![o] = "none"]
     \/ PostFails(o, letters[o]) /\ UNCHANGED letters
  /\ main' = [main EXCEPT !.tried = @ \cup {o}]
  /\ UNCHANGED <<pending, active, worker, excusing, outcome>>

LettersDone ==
  /\ main.pc = "letters"
  /\ \A o \in Ops : letters[o] = "none" \/ o \in main.tried
  /\ main' = [main EXCEPT !.pc = IF pending.op = NoOp THEN "active" ELSE "pending", !.tried = {}]
  /\ UNCHANGED <<storeVars, pending, active, worker, excusing, letters, net, outcome, faults>>

RetryPending ==
  /\ main.pc = "pending"
  /\ \/ /\ Post(pending.op, pending.verdict)
        /\ pending' = NoPending
        /\ GoMain("active", NoOp)
     \/ /\ PostFails(pending.op, pending.verdict)
        /\ pending' = [pending EXCEPT !.attempts = @ + 1]
        /\ GoMain("fallback", NoOp)
  /\ UNCHANGED <<active, worker, excusing, letters, outcome>>

\* fallback_completion: report failure instead, since the result was rejected.
PostFallback ==
  /\ main.pc = "fallback"
  /\ Post(pending.op, "failed")
  /\ pending' = NoPending
  /\ GoMain("active", NoOp)
  /\ UNCHANGED <<active, worker, excusing, letters, outcome>>

\* The fallback fails as well: wait, or write a dead letter at the limit.
FallbackFails ==
  /\ main.pc = "fallback"
  /\ pending.attempts < RetryLimit
  /\ GiveUp(Complete(pending.op, "failed"))
  /\ GoMain("active", NoOp)
  /\ UNCHANGED <<pending, active, worker, excusing, letters, outcome>>

FallbackExhausted ==
  /\ main.pc = "fallback"
  /\ pending.attempts >= RetryLimit
  /\ faults < MaxFaults
  /\ net' \in {net, net \cup {Complete(pending.op, "failed")}}
  /\ \/ /\ letters' = [letters EXCEPT ![pending.op] = pending.verdict]
        /\ pending' = NoPending
     \/ /\ pending.op \in Unwritable
        /\ pending' = [pending EXCEPT !.attempts = 0]
        /\ UNCHANGED letters
  /\ faults' = faults + 1
  /\ GoMain("active", NoOp)
  /\ UNCHANGED <<storeVars, active, worker, excusing, outcome>>

\* The active-job file is read first, the process it names looked up after.
ReadActive ==
  /\ main.pc = "active"
  /\ IF active = NoOp THEN GoMain("claim", NoOp) ELSE GoMain("check", active)
  /\ UNCHANGED <<storeVars, pending, active, worker, excusing, letters, net, outcome, faults>>

WorkerAlive(o) == worker.pc # "none" /\ worker.op = o

CheckAlive ==
  /\ main.pc = "check"
  /\ WorkerAlive(main.op)
  /\ \/ HandleProgress(main.op) /\ UNCHANGED <<net, faults>>
     \/ GiveUp(Progress(main.op))
  /\ GoMain("claim", NoOp)
  /\ UNCHANGED <<pending, active, worker, excusing, letters, outcome>>

CheckDead ==
  /\ main.pc = "check"
  /\ ~WorkerAlive(main.op)
  /\ GoMain("reconcile", main.op)
  /\ UNCHANGED <<storeVars, pending, active, worker, excusing, letters, net, outcome, faults>>

\* Mutant of ReconcilePost: the active-job file stays.
ReconcilePostOnly ==
  /\ main.pc = "reconcile"
  /\ Post(main.op, "failed")
  /\ GoMain("claim", NoOp)
  /\ UNCHANGED <<pending, active, worker, excusing, letters, outcome>>

\* reconcile_dead_worker: report the failure, then drop the file.
ReconcilePost ==
  /\ main.pc = "reconcile"
  /\ Post(main.op, "failed")
  /\ active' = NoOp
  /\ GoMain("claim", NoOp)
  /\ UNCHANGED <<pending, worker, excusing, letters, outcome>>

ReconcileSave ==
  /\ main.pc = "reconcile"
  /\ GiveUp(Complete(main.op, "failed"))
  /\ \/ active' = NoOp /\ letters' = [letters EXCEPT ![main.op] = "failed"]
     \/ main.op \in Unwritable /\ UNCHANGED <<active, letters>>
  /\ GoMain("claim", NoOp)
  /\ UNCHANGED <<pending, worker, excusing, outcome>>

\* Mutant of ClaimJob: the active-job file does not stop it.
ClaimJobAnyway(o) ==
  /\ main.pc = "claim"
  /\ pending.op = NoOp
  /\ HandleClaim(o)
  /\ GoMain("run", o)
  /\ UNCHANGED <<pending, active, worker, excusing, letters, net, outcome, faults>>

\* jobs/claim, unless a completion is pending or the file is there; the local
\* status may be unavailable, then nothing is claimed either.
ClaimJob(o) ==
  /\ main.pc = "claim"
  /\ pending.op = NoOp
  /\ active = NoOp
  /\ HandleClaim(o)
  /\ GoMain("run", o)
  /\ UNCHANGED <<pending, active, worker, excusing, letters, net, outcome, faults>>

SkipClaim ==
  /\ main.pc = "claim"
  /\ \/ /\ pending.op # NoOp \/ active # NoOp \/ NothingToClaim
        /\ UNCHANGED <<storeVars, net, faults>>
     \/ GiveUp(Claim)
  /\ GoMain("sleep", NoOp)
  /\ UNCHANGED <<pending, active, worker, excusing, letters, outcome>>

\* run_long_job returns at once.
StartWorker ==
  /\ main.pc = "run"
  /\ main.op \in LongOps
  /\ worker' = [NoWorker EXCEPT !.pc = "starting", !.op = main.op]
  /\ GoMain("sleep", NoOp)
  /\ UNCHANGED <<storeVars, pending, active, excusing, letters, net, outcome, faults>>

\* run_long_job returns 1, as the state directory is gone: the loop reports that.
CannotStart ==
  /\ main.pc = "run"
  /\ main.op \in LongOps \cap Unwritable
  /\ faults < MaxFaults
  /\ faults' = faults + 1
  /\ \/ HandleComplete(main.op, "failed") /\ UNCHANGED <<net, letters>>
     \/ /\ net' \in {net, net \cup {Complete(main.op, "failed")}}
        /\ letters' \in {letters, [letters EXCEPT ![main.op] = "failed"]}
        /\ UNCHANGED storeVars
  /\ GoMain("sleep", NoOp)
  /\ UNCHANGED <<pending, active, worker, excusing, outcome>>

\* The other kinds: the loop runs the command, then posts its result.
Execute ==
  /\ main.pc = "run"
  /\ main.op \notin LongOps
  /\ outcome' = [outcome EXCEPT ![main.op] = "running"]
  /\ GoMain("execute", main.op)
  /\ UNCHANGED <<storeVars, pending, active, worker, excusing, letters, net, faults>>

Executed(v) ==
  /\ main.pc = "execute"
  /\ outcome' = [outcome EXCEPT ![main.op] = v]
  /\ main' = [main EXCEPT !.pc = "post", !.verdict = v]
  /\ UNCHANGED <<storeVars, pending, active, worker, excusing, letters, net, faults>>

PostResult ==
  /\ main.pc = "post"
  /\ \/ Post(main.op, main.verdict) /\ UNCHANGED pending
     \/ /\ PostFails(main.op, main.verdict)
        /\ pending' = [op |-> main.op, verdict |-> main.verdict, attempts |-> 0]
  /\ main' = [Loop EXCEPT !.pc = "sleep"]
  /\ UNCHANGED <<active, worker, excusing, letters, outcome>>

\* The interval is 5 s at least; a worker has written its file by then.
WakeUp ==
  /\ main.pc = "sleep"
  /\ worker.pc # "starting"
  /\ main' = Loop
  /\ UNCHANGED <<storeVars, pending, active, worker, excusing, letters, net, outcome, faults>>

-----------------------------------------------------------------------------
(* The worker *)

WorkerPersist ==
  /\ worker.pc = "starting"
  /\ active' = worker.op
  /\ worker' = [worker EXCEPT !.pc = "prepare"]
  /\ UNCHANGED <<storeVars, main, pending, excusing, letters, net, outcome, faults>>

\* "host agent could not persist its worker lease": report and exit.
WorkerCannotPersist ==
  /\ worker.pc = "starting"
  /\ SaveFails
  /\ worker' = NoWorker
  /\ excusing' = excusing \cup {worker.op}
  /\ UNCHANGED <<storeVars, main, pending, active, net, outcome>>

Excuse(o) ==
  /\ o \in excusing
  /\ \/ Post(o, "failed") /\ UNCHANGED letters
     \/ /\ GiveUp(Complete(o, "failed"))
        /\ \/ letters' = [letters EXCEPT ![o] = "failed"]
           \/ o \in Unwritable /\ UNCHANGED letters
  /\ excusing' = excusing \ {o}
  /\ UNCHANGED <<main, pending, active, worker, outcome>>

WorkerRun ==
  /\ worker.pc = "prepare"
  /\ outcome' = [outcome EXCEPT ![worker.op] = "running"]
  /\ worker' = [worker EXCEPT !.pc = "command"]
  /\ UNCHANGED <<storeVars, main, pending, active, excusing, letters, net, faults>>

\* The result file cannot be created: exit 1, and the active-job file stays.
WorkerAborts ==
  /\ worker.pc = "prepare"
  /\ SaveFails
  /\ worker' = NoWorker
  /\ UNCHANGED <<storeVars, main, pending, active, excusing, net, outcome>>

\* Every 2 s: post_progress and the console delta, answered or not.
WorkerProgress ==
  /\ worker.pc = "command"
  /\ ~worker.fresh
  /\ \/ HandleProgress(worker.op) /\ UNCHANGED <<net, faults>>
     \/ GiveUp(Progress(worker.op))
  /\ worker' = [worker EXCEPT !.fresh = TRUE]
  /\ UNCHANGED <<main, pending, active, excusing, letters, outcome>>

CommandEnds(v) ==
  /\ worker.pc = "command"
  /\ outcome' = [outcome EXCEPT ![worker.op] = v]
  /\ worker' = [worker EXCEPT !.pc = "flush", !.verdict = v, !.fresh = FALSE]
  /\ UNCHANGED <<storeVars, main, pending, active, excusing, letters, net, faults>>

\* The last console delta, which renews the lease like progress, if it has lines.
WorkerFlush ==
  /\ worker.pc = "flush"
  /\ \/ HandleProgress(worker.op) /\ UNCHANGED <<net, faults>>
     \/ UNCHANGED <<storeVars, net, faults>>
     \/ GiveUp(Progress(worker.op))
  /\ worker' = [worker EXCEPT !.pc = "complete"]
  /\ UNCHANGED <<main, pending, active, excusing, letters, outcome>>

\* Mutant of WorkerPost: the exit status of the command is ignored.
WorkerPostSuccess ==
  /\ worker.pc = "complete"
  /\ Post(worker.op, "succeeded")
  /\ worker' = [worker EXCEPT !.pc = "cleanup"]
  /\ UNCHANGED <<main, pending, active, excusing, letters, outcome>>

WorkerPost ==
  /\ worker.pc = "complete"
  /\ Post(worker.op, worker.verdict)
  /\ worker' = [worker EXCEPT !.pc = "cleanup"]
  /\ UNCHANGED <<main, pending, active, excusing, letters, outcome>>

\* Mutant of WorkerSaves: a result nobody takes is not written down.
WorkerDrops ==
  /\ worker.pc = "complete"
  /\ PostFails(worker.op, worker.verdict)
  /\ worker' = [worker EXCEPT !.pc = "cleanup"]
  /\ UNCHANGED <<main, pending, active, excusing, letters, outcome>>

WorkerSaves ==
  /\ worker.pc = "complete"
  /\ PostFails(worker.op, worker.verdict)
  /\ \/ letters' = [letters EXCEPT ![worker.op] = worker.verdict]
     \/ worker.op \in Unwritable /\ UNCHANGED letters
  /\ worker' = [worker EXCEPT !.pc = "cleanup"]
  /\ UNCHANGED <<main, pending, active, excusing, outcome>>

WorkerCleanup ==
  /\ worker.pc = "cleanup"
  /\ active' = NoOp
  /\ worker' = NoWorker
  /\ UNCHANGED <<storeVars, main, pending, excusing, letters, net, outcome, faults>>

-----------------------------------------------------------------------------
(* Restarts and time *)

\* The unit is restarted (Restart=always, the whole control group): processes
\* and shell variables are gone, the state files stay.
AgentRestart ==
  /\ faults < MaxFaults
  /\ faults' = faults + 1
  /\ main' = Loop
  /\ pending' = NoPending
  /\ worker' = NoWorker
  /\ excusing' = {}
  /\ outcome' = [o \in Ops |-> IF outcome[o] = "running" THEN "killed" ELSE outcome[o]]
  /\ UNCHANGED <<storeVars, active, letters, net>>

\* While nothing has failed, only sleeping and host commands take time that
\* counts against a lease, and a worker posts several times per tick.
Timely ==
  /\ main.pc \in {"sleep", "execute"}
  /\ worker.pc = "none" \/ (worker.pc = "command" /\ worker.fresh)

Tick ==
  /\ Timely \/ faults > 0
  /\ Elapse
  /\ worker' = [worker EXCEPT !.fresh = FALSE]
  /\ UNCHANGED <<main, pending, active, excusing, letters, net, outcome, faults>>

-----------------------------------------------------------------------------

LoopStep ==
  \/ \E o \in Ops : RetryLetter(o)
  \/ LettersDone
  \/ RetryPending \/ PostFallback \/ FallbackFails \/ FallbackExhausted
  \/ ReadActive \/ CheckAlive \/ CheckDead \/ ReconcilePost \/ ReconcileSave
  \/ \E o \in Ops : ClaimJob(o)
  \/ SkipClaim \/ StartWorker \/ CannotStart \/ Execute
  \/ \E v \in Verdicts : Executed(v)
  \/ PostResult \/ WakeUp

WorkerStep ==
  \/ WorkerPersist \/ WorkerCannotPersist \/ WorkerRun \/ WorkerAborts
  \/ WorkerProgress
  \/ \E v \in Verdicts : CommandEnds(v)
  \/ WorkerFlush \/ WorkerPost \/ WorkerSaves \/ WorkerCleanup

Next ==
  \/ \E o \in Ops : Enqueue(o)
  \/ \E o \in Ops : Recover(o)
  \/ \E m \in net : Arrive(m)
  \/ LoopStep
  \/ WorkerStep
  \/ \E o \in Ops : Excuse(o)
  \/ AgentRestart
  \/ Tick

Spec == Init /\ [][Next]_vars

\* Processes run on, host commands end, and the clock advances whenever the loop
\* sleeps; recovery is justified by the claims of the loop, so it is fair only
\* where the loop claims.
Fairness ==
  /\ WF_vars(LoopStep)
  /\ WF_vars(WorkerPersist \/ WorkerRun \/ WorkerProgress)
  /\ WF_vars(\E v \in Verdicts : CommandEnds(v))
  /\ WF_vars(WorkerFlush \/ WorkerPost \/ WorkerSaves \/ WorkerCleanup)
  /\ \A o \in Ops : WF_vars(Excuse(o))
  /\ \A o \in Ops : WF_vars(main.pc = "claim" /\ pending.op = NoOp /\ active = NoOp /\ Recover(o))
  /\ SF_vars(Tick)

FairSpec == Spec /\ Fairness

-----------------------------------------------------------------------------
(* Properties *)

\* The loop and the worker never run host commands at the same time, whatever
\* requests, processes and files are lost in between.
HostExclusive == ~(main.pc = "execute" /\ worker.pc = "command")

\* The command of an operation is never executed a second time, although its
\* completion is retried, repeated or lost and rows are recovered.
ExecutedOnce ==
  [][\A o \in Ops : outcome'[o] = "running" => outcome[o] \in {"none", "running"}]_vars

\* The panel shows success only for what succeeded on the host; it shows failure
\* of something that succeeded only after a fault, a rejected result, or, for
\* the kinds the loop runs itself, an expired lease.
Truthful ==
  \A o \in Ops :
    /\ status[o] = "succeeded" => outcome[o] = "succeeded"
    /\ (status[o] = "failed" /\ outcome[o] # "failed")
         => faults > 0 \/ o \in Refused \/ o \notin LongOps

\* The verdict of a finished operation that is still running at the API is in
\* the hands of the loop or the worker, or on disk for the next agent process
\* (where the disk takes its files; the verdict of a blocking job dies with a restart).
Accounted ==
  \A o \in LongOps \ Unwritable :
    (status[o] = "running" /\ outcome[o] # "none") =>
      worker.op = o \/ active = o \/ letters[o] # "none"

\* As long as nothing fails, the lease of an operation the worker executes does
\* not pass, however long it takes.
WorkerKeepsLease ==
  (faults = 0 /\ worker.pc \in {"command", "flush", "complete"})
    => status[worker.op] = "running" /\ ttl[worker.op] > 0

\* The panel's README: "The heartbeat agent renews a lease while an update,
\* backup, restart, or reset is active".
LeaseWhileActive ==
  \A o \in Ops : (faults = 0 /\ outcome[o] = "running") => status[o] = "running"

\* Every queued or claimed operation is settled.
Settles == \A o \in Ops : o \in Active ~> o \notin Active

\* A dead letter the API accepts is delivered.
LettersDelivered == \A o \in Ops \ Refused : letters[o] # "none" ~> letters[o] = "none"
=============================================================================
