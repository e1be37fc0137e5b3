----------------------------- MODULE AgentStatus -----------------------------
(***************************************************************************)
(* How a host becomes the agent of the server and how the API knows its    *)
(* state: enrollment, heartbeats, and the last status, which is served     *)
(* while it is younger than AGENT_STALE_SECONDS.                           *)
(*                                                                         *)
(* Of the host's state, one value is followed: the one the part of the     *)
(* panel under study edits.  Its revision counts the changes.              *)
(***************************************************************************)
EXTENDS Integers, Sequences, FiniteSets

CONSTANTS
  Hosts,      \* hosts that have the enrollment token and name the same server
  Values,     \* values of the followed part of the host's state
  None,
  MaxDrops    \* bound on lost requests and answers, and on silences

ASSUME StatusAssumption == MaxDrops \in Nat /\ None \notin Values \cup Hosts

VARIABLES
  enrolling,  \* the enrollment of each host
  owner,      \* the host whose token the agents row has, or None
  host,       \* the state of the server's host: [rev, value]
  beats,      \* statuses sent and not yet recorded
  seen,       \* lastStatus, or None when it is older than AGENT_STALE_SECONDS
  drops

agentVars == <<enrolling, owner, beats, seen>>

AgentInit ==
  /\ enrolling = [h \in Hosts |-> "idle"] /\ owner = None
  /\ host \in [rev : {0}, value : Values]
  /\ beats = {} /\ seen = None
  /\ drops = 0

\* The same with a host enrolled and the others refused.
EnrolledInit ==
  /\ owner \in Hosts
  /\ enrolling = [h \in Hosts |-> IF h = owner THEN "enrolled" ELSE "refused"]
  /\ host \in [rev : {0}, value : Values]
  /\ beats = {} /\ seen = None
  /\ drops = 0

AgentTypeOK ==
  /\ enrolling \in [Hosts -> {"idle", "checked", "enrolled", "refused", "lost"}]
  /\ owner \in Hosts \cup {None}
  /\ host \in [rev : Nat, value : Values]
  /\ beats \subseteq Values /\ seen \in Values \cup {None}
  /\ drops \in 0 .. MaxDrops

Drop == drops < MaxDrops /\ drops' = drops + 1

Enrolled == \E h \in Hosts : enrolling[h] = "enrolled"

-----------------------------------------------------------------------------
(* Enrollment *)

\* The first query: is there a row of this name?
EnrollChecks(h) ==
  /\ enrolling[h] = "idle"
  /\ enrolling' = [enrolling EXCEPT ![h] = IF owner = None THEN "checked" ELSE "refused"]
  /\ UNCHANGED <<owner, host, beats, seen, drops>>

\* Mutant of EnrollInserts: no unique index on the name.
EnrollInsertsAnyway(h) ==
  /\ enrolling[h] = "checked"
  /\ owner' = h
  /\ \/ enrolling' = [enrolling EXCEPT ![h] = "enrolled"] /\ UNCHANGED drops
     \/ enrolling' = [enrolling EXCEPT ![h] = "lost"] /\ Drop
  /\ UNCHANGED <<host, beats, seen>>

\* The transaction: the unique index refuses a second row.  The access token is
\* in the answer alone: a host whose answer is lost is refused from then on.
EnrollInserts(h) ==
  /\ enrolling[h] = "checked"
  /\ IF owner # None
       THEN enrolling' = [enrolling EXCEPT ![h] = "refused"] /\ UNCHANGED <<owner, drops>>
       ELSE /\ owner' = h
            /\ \/ enrolling' = [enrolling EXCEPT ![h] = "enrolled"] /\ UNCHANGED drops
               \/ enrolling' = [enrolling EXCEPT ![h] = "lost"] /\ Drop
  /\ UNCHANGED <<host, beats, seen>>

-----------------------------------------------------------------------------
(* Heartbeats *)

\* authorizeAgent: the token the host was given is that of the row.
Authorized == owner # None /\ enrolling[owner] = "enrolled"

Beat ==
  /\ Authorized
  /\ beats = {}
  /\ beats' = {host.value}
  /\ UNCHANGED <<enrolling, owner, host, seen, drops>>

\* curl gives up on a heartbeat, which may be recorded all the same, and the
\* next one is sent.
LateBeat ==
  /\ Authorized
  /\ beats # {} /\ host.value \notin beats
  /\ Drop
  /\ beats' = beats \cup {host.value}
  /\ UNCHANGED <<enrolling, owner, host, seen>>

BeatLost ==
  /\ Drop
  /\ \E b \in beats : beats' = beats \ {b}
  /\ UNCHANGED <<enrolling, owner, host, seen>>

Heartbeat ==
  \E b \in beats :
    /\ beats' = beats \ {b}
    /\ seen' = b
    /\ UNCHANGED <<enrolling, owner, host, drops>>

\* AGENT_STALE_SECONDS pass without a heartbeat.
Silence ==
  /\ seen # None
  /\ Drop
  /\ seen' = None
  /\ UNCHANGED <<enrolling, owner, host, beats>>

\* getStatus: the status, or none (404 or 503).
GetStatus == IF owner = None THEN None ELSE seen

Agent ==
  \/ \E h \in Hosts : EnrollChecks(h) \/ EnrollInserts(h)
  \/ Beat \/ LateBeat \/ BeatLost \/ Heartbeat \/ Silence

-----------------------------------------------------------------------------

\* A host that was told it is enrolled is the agent of the server: its token
\* stays the one the heartbeats and the socket are checked against, whatever
\* other host enrolls under the same name at the same time.
EnrolledIsAgent == \A h \in Hosts : enrolling[h] = "enrolled" => owner = h
=============================================================================
