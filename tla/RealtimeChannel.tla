--------------------------- MODULE RealtimeChannel ---------------------------
(***************************************************************************)
(* Direct commands: the panel's request, the broker of the API process,    *)
(* the WebSocket that the host has dialed, and the host's client.          *)
(*                                                                         *)
(* The broker keys everything by server, and a server has one agent, so    *)
(* one server is modelled.  The host's client dials again whenever its     *)
(* connection ends; the API may learn of that end much later, and of the   *)
(* next connection before.  A connection has a number, and two ends that   *)
(* close apart; it delivers what both ends still read, in any order, which *)
(* is that of commands executed concurrently.                              *)
(*                                                                         *)
(* The registry's answer to who may execute a command is reduced to        *)
(* whether it needs an administrator; a restart of the host's program may  *)
(* be an update that changes it.                                           *)
(***************************************************************************)
EXTENDS Integers, FiniteSets

CONSTANTS
  Commands,       \* requests of the panel
  Reads,          \* those of config and settings/reveal; the others are of /commands
  Admins,         \* those an administrator made
  None,           \* no connection
  MaxConnections, \* bound: connections the host dials
  MaxPending,     \* maxPendingPerServer
  MaxRunning,     \* the capacity of Client.commands
  MaxFaults       \* bound: failures

ASSUME ChannelAssumption ==
  /\ Reads \subseteq Commands
  /\ Admins \subseteq Commands
  /\ None \notin Nat
  /\ MaxConnections \in Nat
  /\ MaxPending \in Nat \ {0}
  /\ MaxRunning \in Nat \ {0}
  /\ MaxFaults \in Nat

VARIABLES
  dialed,         \* the number of connections dialed
  open,           \* connections whose close handler has not run
  opening,        \* connections whose open handler awaits the authentication
  awaited,        \* keys of pendingRealtimeMessages
  authenticated,  \* authenticatedRealtimeSockets
  shut,           \* connections the API has closed itself
  connection,     \* connections.get(serverId): the socket and what it has announced
  request,        \* [Commands -> Request]: the panel's requests in the API process
  audited,        \* commands with a row server.command.requested, or that of a reveal
  answer,         \* [Commands -> answer the panel got]
  wire,           \* messages under way
  client,         \* the host's connection: its number, and what the client does with it
  program,        \* whether the registry of the host's program needs an administrator
  jobs,           \* [Commands -> connection a command the client is busy with came by]
  host,           \* [Commands -> Fate]: what the command has come to on the host
  faults          \* failures so far

apiVars == <<open, opening, awaited, authenticated, shut, connection>>
panelVars == <<request, audited, answer>>
hostVars == <<dialed, client, program, jobs, host>>
vars == <<apiVars, panelVars, hostVars, wire, faults>>

Connections == 1 .. MaxConnections
\* Where a request is, and its outcome: "refused" is an error before anything was sent.
Place == {"idle", "audit", "execute", "pending", "record", "reply", "answered", "lost"}
Verdict == {"none", "ok", "failed", "unavailable", "refused"}
Needs == {"anybody", "admin"}
Message ==
  [kind : {"ready"}, on : Connections]
    \cup [kind : {"hello"}, on : Connections, needs : Needs]
    \cup [kind : {"execute"}, on : Connections, command : Commands]
    \cup [kind : {"result"}, on : Connections, command : Commands, ok : BOOLEAN]
ToHost == {"ready", "execute"}

Ready(s) == [kind |-> "ready", on |-> s]
Hello(s, needs) == [kind |-> "hello", on |-> s, needs |-> needs]
ExecuteMessage(s, c) == [kind |-> "execute", on |-> s, command |-> c]
Result(s, c, ok) == [kind |-> "result", on |-> s, command |-> c, ok |-> ok]

Disconnected == [socket |-> None, needs |-> "none"]
Down == [on |-> None, pc |-> "down"]

\* Every variable has its type; without a connection nothing is announced.
TypeOK ==
  /\ dialed \in 0 .. MaxConnections
  /\ open \subseteq Connections /\ opening \subseteq Connections
  /\ awaited \subseteq Connections /\ authenticated \subseteq Connections
  /\ shut \subseteq Connections
  /\ connection \in [socket : Connections, needs : Needs \cup {"none"}] \cup {Disconnected}
  /\ request \in [Commands -> [at : Place, verdict : Verdict]]
  /\ audited \subseteq Commands
  /\ answer \in [Commands -> Verdict]
  /\ wire \subseteq Message
  /\ client \in [on : Connections, pc : {"ready", "serve"}] \cup {Down}
  /\ program \in Needs
  /\ jobs \in [Commands -> Connections \cup {None}]
  /\ host \in [Commands -> {"none", "running", "ok", "failed"}]
  /\ faults \in 0 .. MaxFaults

Init ==
  /\ dialed = 0
  /\ open = {} /\ opening = {} /\ awaited = {} /\ authenticated = {} /\ shut = {}
  /\ connection = Disconnected
  /\ request = [c \in Commands |-> [at |-> "idle", verdict |-> "none"]]
  /\ audited = {}
  /\ answer = [c \in Commands |-> "none"]
  /\ wire = {}
  /\ client = Down
  /\ program = "anybody"
  /\ jobs = [c \in Commands |-> None]
  /\ host = [c \in Commands |-> "none"]
  /\ faults = 0

Fault == faults < MaxFaults /\ faults' = faults + 1
NoFault == UNCHANGED faults

-----------------------------------------------------------------------------
(* The broker *)

\* RealtimeBroker.pending.
Pending == {c \in Commands : request[c].at = "pending"}

\* A command's promise is settled; its handler goes on with the verdict.
Settled(verdict) == [at |-> "record", verdict |-> verdict]
Settle(c, verdict) == request' = [request EXCEPT ![c] = Settled(verdict)]

\* rejectPending.
RejectPending ==
  request' = [c \in Commands |-> IF c \in Pending THEN Settled("unavailable") ELSE request[c]]

\* connect: a previous connection loses its commands and is closed.
Connect(s) ==
  /\ IF connection.socket \in {None, s}
       THEN UNCHANGED <<request, shut>>
       ELSE RejectPending /\ shut' = shut \cup {connection.socket}
  /\ connection' = [socket |-> s, needs |-> "none"]

\* Mutant of Disconnect: any socket that closes takes the connection away.
DisconnectAny(s) ==
  connection' = Disconnected /\ RejectPending

\* disconnect, if the socket is still the connection.
Disconnect(s) ==
  IF connection.socket = s
    THEN connection' = Disconnected /\ RejectPending
    ELSE UNCHANGED <<connection, request>>

-----------------------------------------------------------------------------
(* The API's end of the connections *)

\* Mutant of Authenticated: whether the socket has closed meanwhile is not looked at.
AuthenticatedAnyway(s) ==
  /\ s \in opening
  /\ opening' = opening \ {s}
  /\ awaited' = awaited \ {s}
  /\ authenticated' = authenticated \cup {s}
  /\ Connect(s)
  /\ wire' = wire \cup {Ready(s)}
  /\ NoFault
  /\ UNCHANGED <<open, audited, answer, hostVars>>

\* The open handler after authenticateRealtime.  (It then hands on what the socket has
\* sent meanwhile: nothing, as the client waits for control.ready.)
Authenticated(s) ==
  /\ s \in opening
  /\ opening' = opening \ {s}
  /\ IF s \in awaited
       THEN /\ awaited' = awaited \ {s}
            /\ authenticated' = authenticated \cup {s}
            /\ Connect(s)
            /\ wire' = wire \cup {Ready(s)}
       ELSE UNCHANGED <<awaited, authenticated, request, shut, connection, wire>>
  /\ NoFault
  /\ UNCHANGED <<open, audited, answer, hostVars>>

\* The authentication fails; the database, say, cannot be reached.
AuthenticationFails(s) ==
  /\ s \in opening
  /\ Fault
  /\ opening' = opening \ {s}
  /\ awaited' = awaited \ {s}
  /\ shut' = shut \cup {s}
  /\ UNCHANGED <<open, authenticated, connection, panelVars, hostVars, wire>>

\* The close handler runs, at any time once one end has closed the connection, or the
\* network has; what the host has sent on it is lost.
Close(s) ==
  /\ s \in open
  /\ IF client.on = s /\ s \notin shut THEN Fault ELSE NoFault
  /\ open' = open \ {s}
  /\ awaited' = awaited \ {s}
  /\ authenticated' = authenticated \ {s}
  /\ Disconnect(s)
  /\ wire' = {m \in wire : m.on = s => m.kind \in ToHost}
  /\ UNCHANGED <<opening, shut, audited, answer, hostVars>>

\* The message handler and receive, of the connection's socket only.
ReceiveHello(s, needs) ==
  /\ Hello(s, needs) \in wire
  /\ wire' = wire \ {Hello(s, needs)}
  /\ connection' = IF s \in authenticated /\ connection.socket = s
                     THEN [connection EXCEPT !.needs = needs] ELSE connection
  /\ NoFault
  /\ UNCHANGED <<open, opening, awaited, authenticated, shut, panelVars, hostVars>>

\* A result settles a command that is still pending, whichever connection it was sent on.
ReceiveResult(s, c, ok) ==
  /\ Result(s, c, ok) \in wire
  /\ wire' = wire \ {Result(s, c, ok)}
  /\ IF s \in authenticated /\ connection.socket = s /\ c \in Pending
       THEN Settle(c, IF ok THEN "ok" ELSE "failed")
       ELSE UNCHANGED request
  /\ NoFault
  /\ UNCHANGED <<apiVars, audited, answer, hostVars>>

\* The API process restarts: the requests it was busy with get no answer.
ApiRestart ==
  /\ Fault
  /\ open' = {} /\ opening' = {} /\ awaited' = {} /\ authenticated' = {} /\ shut' = {}
  /\ connection' = Disconnected
  /\ request' = [c \in Commands |-> IF request[c].at \in {"idle", "answered"} THEN request[c]
                                      ELSE [at |-> "lost", verdict |-> "none"]]
  /\ wire' = {m \in wire : m.kind \in ToHost}
  /\ UNCHANGED <<audited, answer, hostVars>>

-----------------------------------------------------------------------------
(* The panel's requests *)

Goto(c, place) == request' = [request EXCEPT ![c].at = place]
Reply(c, verdict) ==
  /\ Goto(c, "answered")
  /\ answer' = [answer EXCEPT ![c] = verdict]

\* A request arrives.  /commands asks what the connection has announced, and compares
\* roles; a read goes to the broker, unless its user's role is too low.
Ask(c) ==
  /\ request[c].at = "idle"
  /\ IF c \in Reads
       THEN (Goto(c, "execute") /\ UNCHANGED answer) \/ Reply(c, "refused")
       ELSE IF connection.needs = "none" \/ (connection.needs = "admin" /\ c \notin Admins)
              THEN Reply(c, "refused")
              ELSE Goto(c, "audit") /\ UNCHANGED answer
  /\ NoFault
  /\ UNCHANGED <<apiVars, audited, hostVars, wire>>

\* server.command.requested is recorded, or the command refused.
RecordRequest(c) ==
  /\ request[c].at = "audit"
  /\ \/ Goto(c, "execute") /\ audited' = audited \cup {c} /\ UNCHANGED answer /\ NoFault
     \/ Reply(c, "refused") /\ Fault /\ UNCHANGED audited
  /\ UNCHANGED <<apiVars, hostVars, wire>>

\* execute: the broker sends the command, unless there is no connection, too much is
\* pending, or the connection has not announced it.  What is sent on a connection that
\* has just closed is lost.
Execute(c) ==
  /\ request[c].at = "execute"
  /\ IF connection.needs = "none" \/ Cardinality(Pending) >= MaxPending
       THEN Settle(c, "refused") /\ UNCHANGED wire
       ELSE /\ Goto(c, "pending")
            /\ wire' = IF client.on = connection.socket
                         THEN wire \cup {ExecuteMessage(connection.socket, c)} ELSE wire
  /\ NoFault
  /\ UNCHANGED <<apiVars, audited, answer, hostVars>>

\* Mutant of Timeout: the timer only covers the way to the host.
TimeoutUntilReceived(c) ==
  /\ request[c].at = "pending"
  /\ host[c] = "none"
  /\ Settle(c, "unavailable")
  /\ NoFault
  /\ UNCHANGED <<apiVars, audited, answer, hostVars, wire>>

\* The timer of a command fires; the host may be busy with it.
Timeout(c) ==
  /\ request[c].at = "pending"
  /\ Settle(c, "unavailable")
  /\ NoFault
  /\ UNCHANGED <<apiVars, audited, answer, hostVars, wire>>

\* Mutant of RecordOutcome: a reveal that cannot be recorded is answered.
RecordOutcomeOrNot(c) ==
  /\ request[c].at = "record"
  /\ Goto(c, "reply")
  /\ \/ audited' = audited \cup {c} /\ NoFault
     \/ Fault /\ UNCHANGED audited
  /\ UNCHANGED <<apiVars, answer, hostVars, wire>>

\* The outcome is recorded: of a command, if possible; of a read that has succeeded,
\* or it is not answered.  A read's result may have the wrong form.
RecordOutcome(c) ==
  /\ request[c].at = "record"
  /\ IF c \in Reads /\ request[c].verdict = "ok"
       THEN \/ Goto(c, "reply") /\ audited' = audited \cup {c} /\ UNCHANGED answer /\ NoFault
            \/ Reply(c, "unavailable") /\ Fault /\ UNCHANGED audited
            \/ Reply(c, "failed") /\ Fault /\ UNCHANGED audited
       ELSE Goto(c, "reply") /\ NoFault /\ UNCHANGED <<audited, answer>>
  /\ UNCHANGED <<apiVars, hostVars, wire>>

\* The answer is sent.
Respond(c) ==
  /\ request[c].at = "reply"
  /\ Reply(c, request[c].verdict)
  /\ NoFault
  /\ UNCHANGED <<apiVars, audited, hostVars, wire>>

-----------------------------------------------------------------------------
(* The host's client *)

\* Run: the backoff is over, runConnection dials.
Dial ==
  /\ client = Down
  /\ dialed < MaxConnections
  /\ dialed' = dialed + 1
  /\ client' = [on |-> dialed + 1, pc |-> "ready"]
  /\ open' = open \cup {dialed + 1}
  /\ opening' = opening \cup {dialed + 1}
  /\ awaited' = awaited \cup {dialed + 1}
  /\ NoFault
  /\ UNCHANGED <<authenticated, shut, connection, panelVars, program, jobs, host, wire>>

\* control.ready is answered with the registry.
Announce ==
  /\ client.pc = "ready"
  /\ Ready(client.on) \in wire
  /\ client' = [client EXCEPT !.pc = "serve"]
  /\ wire' = (wire \ {Ready(client.on)}) \cup {Hello(client.on, program)}
  /\ NoFault
  /\ UNCHANGED <<apiVars, panelVars, dialed, program, jobs, host>>

\* runConnection returns: the API has closed the connection, or its end has gone; or a
\* deadline has passed, a ping has failed or the network has.
Hangup ==
  /\ client # Down
  /\ IF client.on \notin open \/ client.on \in shut THEN NoFault ELSE Fault
  /\ wire' = {m \in wire : m.on = client.on => m.kind \notin ToHost}
  /\ client' = Down
  /\ UNCHANGED <<apiVars, panelVars, dialed, program, jobs, host>>

Busy == {c \in Commands : jobs[c] # None}

\* A result is written while its connection lasts.
Write(c, s, ok, sent) ==
  wire' = sent \cup (IF client.on = s /\ s \in open THEN {Result(s, c, ok)} ELSE {})

\* Mutant of Receive: the role is not looked at.
ReceiveFromAnybody(c) ==
  LET sent == wire \ {ExecuteMessage(client.on, c)}
  IN  /\ client.pc = "serve"
      /\ ExecuteMessage(client.on, c) \in wire
      /\ IF Cardinality(Busy) >= MaxRunning
           THEN Write(c, client.on, FALSE, sent) /\ UNCHANGED <<jobs, host>>
           ELSE /\ wire' = sent
                /\ jobs' = [jobs EXCEPT ![c] = client.on]
                /\ host' = [host EXCEPT ![c] = "running"]
      /\ NoFault
      /\ UNCHANGED <<apiVars, panelVars, dialed, client, program>>

\* The client reads a command, and refuses it when too many are running or the actor's
\* role does not suffice.
Receive(c) ==
  LET sent == wire \ {ExecuteMessage(client.on, c)}
  IN  /\ client.pc = "serve"
      /\ ExecuteMessage(client.on, c) \in wire
      /\ IF Cardinality(Busy) >= MaxRunning \/ (program = "admin" /\ c \notin Admins)
           THEN Write(c, client.on, FALSE, sent) /\ UNCHANGED <<jobs, host>>
           ELSE /\ wire' = sent
                /\ jobs' = [jobs EXCEPT ![c] = client.on]
                /\ host' = [host EXCEPT ![c] = "running"]
      /\ NoFault
      /\ UNCHANGED <<apiVars, panelVars, dialed, client, program>>

\* A command ends.  A deadline, or the end of its connection, makes its result a failure,
\* whether or not the process could be killed before it was done.
Finish(c, fate) ==
  /\ host[c] = "running"
  /\ host' = [host EXCEPT ![c] = fate]
  /\ jobs' = [jobs EXCEPT ![c] = None]
  /\ \/ Write(c, jobs[c], fate = "ok", wire) /\ NoFault
     \/ Fault /\ Write(c, jobs[c], FALSE, wire)
  /\ UNCHANGED <<apiVars, panelVars, dialed, client, program>>

\* The program is stopped with all its processes and started again, perhaps updated.
HostRestart ==
  /\ Fault
  /\ client' = Down
  /\ program' \in Needs
  /\ host' = [c \in Commands |-> IF host[c] = "running" THEN "failed" ELSE host[c]]
  /\ jobs' = [c \in Commands |-> None]
  /\ wire' = {m \in wire : m.kind \notin ToHost}
  /\ UNCHANGED <<apiVars, panelVars, dialed>>

-----------------------------------------------------------------------------

SocketStep(s) ==
  \/ Authenticated(s) \/ AuthenticationFails(s) \/ Close(s)
  \/ \E needs \in Needs : ReceiveHello(s, needs)
  \/ \E c \in Commands, ok \in BOOLEAN : ReceiveResult(s, c, ok)

RequestStep(c) ==
  Ask(c) \/ RecordRequest(c) \/ Execute(c) \/ Timeout(c) \/ RecordOutcome(c) \/ Respond(c)

HostStep ==
  \/ Dial \/ Announce \/ Hangup
  \/ \E c \in Commands : Receive(c) \/ \E fate \in {"ok", "failed"} : Finish(c, fate)

Next ==
  \/ \E s \in Connections : SocketStep(s)
  \/ \E c \in Commands : RequestStep(c)
  \/ HostStep
  \/ ApiRestart
  \/ HostRestart

Spec == Init /\ [][Next]_vars

\* Handlers run on, timers fire, messages arrive; a connection that one end has closed is
\* found closed by the other end (pings, idle timeouts), and the client dials again.
\* Failures need not happen.
Fairness ==
  /\ \A s \in Connections :
       /\ WF_vars(Authenticated(s))
       /\ WF_vars(NoFault /\ Close(s))
       /\ WF_vars(\E needs \in Needs : ReceiveHello(s, needs))
  /\ \A c \in Commands :
       WF_vars(NoFault /\ (RecordRequest(c) \/ Execute(c) \/ Timeout(c) \/ RecordOutcome(c)
                             \/ Respond(c)))
  /\ WF_vars(Dial)
  /\ WF_vars(Announce)
  /\ WF_vars(NoFault /\ Hangup)

FairSpec == Spec /\ Fairness

-----------------------------------------------------------------------------
(* Properties *)

\* What is pending can still be answered: it waits on the connection of the broker, which
\* is authenticated and whose close handler has yet to run.  Otherwise the connection would
\* never be taken away again, and commands would be sent to nobody.
OnLiveConnection ==
  IF connection.socket = None
    THEN Pending = {}
    ELSE connection.socket \in open \cap authenticated

\* Every command keeps the promise of DirectCommand, its role too, although the API has
\* compared it with what an earlier connection of another program had announced.
Direct == INSTANCE DirectCommand
ImplementsDirect == Direct!Spec

\* Every request is answered in the end, unless the API process was stopped meanwhile.
Answered ==
  \A c \in Commands : request[c].at \notin {"idle", "answered", "lost"}
                        ~> request[c].at \in {"answered", "lost"}

\* When nothing fails any more, the broker ends up with the connection the host uses, and
\* with the registry of the program the host runs, however late it learns of ends and
\* authentications.  (Unless all connections the bound allows have been dialed.)
Reconnects ==
  <>[](dialed = MaxConnections \/ connection = [socket |-> client.on, needs |-> program])
=============================================================================
