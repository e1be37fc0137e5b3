----------------------------- MODULE ControlPanel -----------------------------
(***************************************************************************)
(* The frame every page of the panel lives in (App.tsx): the cached status *)
(* and operations, and the mutation that queues an operation, with the     *)
(* handlers of the API and the host behind it.                             *)
(*                                                                         *)
(* OperationQueue shows that a server has at most one active operation and *)
(* how it is settled; here it is queued, carried out or failed in one step *)
(* each.  Other people and pzctl queue operations too.  A page keeps       *)
(* nothing when it is left: one part of the panel is followed at a time.   *)
(***************************************************************************)
EXTENDS AgentStatus

CONSTANT MaxOps   \* bound on operations

VARIABLES
  part,     \* the part of the panel that is open
  ops,      \* the operations of the server
  known,    \* the operations query has an active one
  status,   \* the status query's data, or None
  post,     \* the mutation and its request, or None
  form      \* the state of the open part: see PanelPages

shellVars == <<part, ops, known, status, post>>

Kinds == {"config.update", "mods.configure", "settings.update",
          "mods.update.check", "mods.update.apply", "other"}

\* What a request says, and the value that was shown as the current one to a user
\* who changes it (a configuration) or does not (the access settings).
Request == [kind : Kinds, value : Values \cup {None}, rev : Nat,
            shown : Values \cup {None}]

\* An operation as the API serves it; its result is the revision it has left.
Record == [request : Request, status : {"active", "succeeded", "failed"}, result : Nat]

ShellInit ==
  /\ part \in {"settings", "mods", "workshop", "access", "console"}
  /\ ops = <<>> /\ known = FALSE /\ status = None /\ post = None

ShellTypeOK ==
  /\ part \in {"settings", "mods", "workshop", "access", "console"}
  /\ ops \in Seq(Record)
  /\ known \in BOOLEAN /\ status \in Values \cup {None}

Active == ops # <<>> /\ ops[Len(ops)].status = "active"
busy == known \/ post # None

\* A request whose content is not followed.
Plain(kind) == [kind |-> kind, value |-> CHOOSE v \in Values : TRUE, rev |-> 0,
                shown |-> None]

-----------------------------------------------------------------------------
(* The API and the host *)

\* POST operations: nothing to change, an active operation or no server row.
Refused(r) == r.value = None \/ Active \/ owner = None

Queue(r) ==
  /\ Len(ops) < MaxOps
  /\ ops' = Append(ops, [request |-> r, status |-> "active", result |-> 0])

PostArrives ==
  /\ post # None /\ post.state = "sent"
  /\ IF Refused(post.request)
       THEN post' = [post EXCEPT !.state = "refused"] /\ UNCHANGED <<ops, drops>>
       ELSE /\ Queue(post.request)
            /\ \/ post' = [post EXCEPT !.state = "queued", !.id = Len(ops')] /\ UNCHANGED drops
               \/ post' = [post EXCEPT !.state = "refused"] /\ Drop   \* the answer is lost
  /\ UNCHANGED <<agentVars, host, part, known, status, form>>

\* Another user, pzctl or the timer.
Elsewhere ==
  /\ Authorized /\ ~Active
  /\ Queue(Plain("other"))
  /\ UNCHANGED <<agentVars, host, drops, part, known, status, post, form>>

Settle(outcome, result) ==
  ops' = [ops EXCEPT ![Len(ops)].status = outcome, ![Len(ops)].result = result]

Writes == {"config.update", "mods.configure", "settings.update"}

\* Mutant of CarriedOut: the host does not compare revisions.
CarriedOutAnyway(r) ==
  \/ r.kind \in Writes /\ host' = [rev |-> host.rev + 1, value |-> r.value]
  \/ r.kind \notin Writes /\ UNCHANGED host
  \/ r.kind = "other" /\ host' \in [rev : {host.rev + 1}, value : Values]

\* The host carries a request out.  A configuration update needs the revision it
\* was made for; other operations may write the same files.
CarriedOut(r) ==
  /\ r.kind = "config.update" => r.rev = host.rev
  /\ \/ r.kind \in Writes /\ host' = [rev |-> host.rev + 1, value |-> r.value]
     \/ r.kind \notin Writes /\ UNCHANGED host
     \/ r.kind = "other" /\ host' \in [rev : {host.rev + 1}, value : Values]

Succeeds ==
  /\ Active
  /\ CarriedOut(ops[Len(ops)].request)
  /\ Settle("succeeded", host'.rev)
  /\ UNCHANGED <<agentVars, drops, part, known, status, post, form>>

\* It fails on the host, or its lease lapses, while its worker may carry it out all
\* the same.
Fails ==
  /\ Active
  /\ UNCHANGED host \/ CarriedOut(ops[Len(ops)].request)
  /\ Settle("failed", 0)
  /\ UNCHANGED <<agentVars, drops, part, known, status, post, form>>

-----------------------------------------------------------------------------
(* The frame *)

\* operationMutation.mutate: one at a time, as busy disables every button.
Mutate(r) == post' = [request |-> r, state |-> "sent", id |-> 0, attached |-> TRUE]

\* The operations query: every 10 s, and after a mutation or an event.
RefreshOperations ==
  /\ known # Active
  /\ known' = Active
  /\ UNCHANGED <<agentVars, host, drops, part, ops, status, post, form>>

\* The buttons of the overview, whose confirmation the user may decline.
QueueLifecycle ==
  /\ part = "access" /\ ~form.open
  /\ ~busy
  /\ Mutate(Plain("other"))
  /\ UNCHANGED <<agentVars, host, drops, part, ops, known, status, form>>

\* The form that adds a Workshop item, beside the load order.
AddMod ==
  /\ part = "mods" /\ ~form.review
  /\ ~busy
  /\ Mutate(Plain("other"))
  /\ UNCHANGED <<agentVars, host, drops, part, ops, known, status, form>>

\* ResetWorldDialog: typed phrase, and its own `saving` instead of busy, which
\* only its button looks at: it may be confirmed while an operation is active.
ResetWorld ==
  /\ part = "mods" /\ ~form.review
  /\ post = None
  /\ Mutate(Plain("other"))
  /\ UNCHANGED <<agentVars, host, drops, part, ops, known, status, form>>

Server == PostArrives \/ Elsewhere \/ Succeeds \/ Fails
Frame == RefreshOperations \/ QueueLifecycle \/ AddMod \/ ResetWorld
=============================================================================
