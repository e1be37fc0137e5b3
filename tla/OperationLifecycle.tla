------------------------- MODULE OperationLifecycle -------------------------
(***************************************************************************)
(* What the control plane promises about the operations of one server,     *)
(* with every request handler, lease and retry abstracted away: operations *)
(* run one at a time, each is started at most once and gets exactly one    *)
(* verdict, and the event feed announces each of those transitions in the  *)
(* same step that makes it.  OperationQueue implements this module.        *)
(***************************************************************************)
CONSTANT Ops

VARIABLES
  state,       \* [Ops -> the life an operation has reached]
  announced    \* [Ops -> the lifecycle events published for it]

lifecycleVars == <<state, announced>>

Live == {o \in Ops : state[o] \in {"queued", "running"}}

Init ==
  /\ state = [o \in Ops |-> "absent"]
  /\ announced = [o \in Ops |-> {}]

\* o leaves life `from` for `to`, and subscribers are told by event `type`.
Advance(o, from, to, type) ==
  /\ state[o] = from
  /\ state' = [state EXCEPT ![o] = to]
  /\ announced' = [announced EXCEPT ![o] = @ \cup {type}]

Submit(o) == Live = {} /\ Advance(o, "absent", "queued", "queued")
Start(o) == Advance(o, "queued", "running", "claimed")
Finish(o, verdict) == Advance(o, "running", verdict, "completed")
GiveUp(o) == Advance(o, "running", "failed", "recovered")

Next ==
  \E o \in Ops :
    \/ Submit(o)
    \/ Start(o)
    \/ \E verdict \in {"succeeded", "failed"} : Finish(o, verdict)
    \/ GiveUp(o)

Spec == Init /\ [][Next]_lifecycleVars
=============================================================================
