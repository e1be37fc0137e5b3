---------------------------- MODULE DirectCommand ----------------------------
(***************************************************************************)
(* What the panel is promised of direct commands, whatever becomes of the  *)
(* connection they take: a command runs at most once, only with its row in *)
(* the audit trail, and for somebody whose role the host's own program     *)
(* admits ("the API and host both enforce the caller role", panel/README), *)
(* and is answered at most once; success is only reported when it has      *)
(* succeeded, and what is refused never runs.                              *)
(***************************************************************************)
CONSTANTS
  Commands,   \* commands somebody may ask for
  Admins,     \* those an administrator asks for
  Reads       \* those that may run unaudited, and are only answered with a row

VARIABLES
  program,    \* who may run commands on the host
  audited,    \* the commands with a row that asks for, or reveals, them
  host,       \* [Commands -> Fate]
  answer      \* [Commands -> Answers]

Fate == {"none", "running", "ok", "failed"}
Answers == {"none", "ok", "failed", "unavailable", "refused"}

Init ==
  /\ program = "anybody"
  /\ audited = {}
  /\ host = [c \in Commands |-> "none"]
  /\ answer = [c \in Commands |-> "none"]

Audit(c) ==
  /\ audited' = audited \cup {c}
  /\ UNCHANGED <<program, host, answer>>

Start(c) ==
  /\ host[c] = "none"
  /\ c \in audited \cup Reads
  /\ program = "admin" => c \in Admins
  /\ answer[c] # "refused"
  /\ host' = [host EXCEPT ![c] = "running"]
  /\ UNCHANGED <<program, audited, answer>>

\* Commands end, several at once when the host's program is stopped, and maybe updated.
End(ended, fate) ==
  /\ \A c \in ended : host[c] = "running"
  /\ host' = [c \in Commands |-> IF c \in ended THEN fate ELSE host[c]]
  /\ program' \in {"anybody", "admin"}
  /\ UNCHANGED <<audited, answer>>

Answer(c, a) ==
  /\ answer[c] = "none"
  /\ a = "ok" => host[c] = "ok" /\ c \in audited
  /\ a = "refused" => host[c] = "none"
  /\ answer' = [answer EXCEPT ![c] = a]
  /\ UNCHANGED <<program, audited, host>>

Next ==
  \/ \E c \in Commands : Audit(c) \/ Start(c) \/ \E a \in Answers \ {"none"} : Answer(c, a)
  \/ \E ended \in SUBSET Commands, fate \in {"ok", "failed"} : End(ended, fate)

Spec == Init /\ [][Next]_<<program, audited, host, answer>>
=============================================================================
