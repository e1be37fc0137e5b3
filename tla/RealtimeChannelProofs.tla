------------------------ MODULE RealtimeChannelProofs ------------------------
(***************************************************************************)
(* Proofs about RealtimeChannel: for any commands, connections, capacities *)
(* and failures, the broker waits only on a live connection, and every     *)
(* command keeps the promise of DirectCommand.                             *)
(***************************************************************************)
EXTENDS RealtimeChannel, TLAPS

-----------------------------------------------------------------------------
(* The inductive invariant *)

\* The broker's connection has been authenticated, and is open; a socket that still awaits
\* its authentication is open too.
BrokerOK ==
  /\ OnLiveConnection
  /\ connection.socket = None => connection.needs = "none"
  /\ awaited \subseteq open

\* The command is on its way to the host.
Underway(c) == \E s \in Connections : ExecuteMessage(s, c) \in wire

\* The host has not seen the command, and will not see it unless it is still sent.
Untouched(c) == host[c] = "none" /\ ~Underway(c)

\* The command is sent once, after its row; its result says what it has come to; it has an
\* answer when its request ends.
CommandOK(c) ==
  LET at == request[c].at  verdict == request[c].verdict IN
  /\ at \in {"idle", "audit", "execute"} => Untouched(c)
  /\ at \in {"record", "reply"} /\ verdict = "refused" => Untouched(c)
  /\ answer[c] = "refused" => Untouched(c)
  /\ answer[c] # "none" => at = "answered"
  /\ at \in {"execute", "pending"} => c \in audited \cup Reads
  /\ at \in {"record", "reply"} => verdict # "none"
  /\ at \in {"record", "reply"} /\ verdict = "ok" => host[c] = "ok" /\ c \in audited \cup Reads
  /\ at = "reply" /\ verdict = "ok" => c \in audited
  /\ Underway(c) => host[c] = "none" /\ c \in audited \cup Reads
  /\ \A s, t \in Connections : ExecuteMessage(s, c) \in wire /\ ExecuteMessage(t, c) \in wire => s = t
  /\ \A s \in Connections : Result(s, c, TRUE) \in wire => host[c] = "ok"

IInv == TypeOK /\ BrokerOK /\ \A c \in Commands : CommandOK(c)

-----------------------------------------------------------------------------
(* Messages *)

LEMMA MessageTypes ==
  ASSUME NEW s \in Connections, NEW c \in Commands, NEW ok \in BOOLEAN, NEW needs \in Needs
  PROVE  /\ Ready(s) \in Message /\ Hello(s, needs) \in Message
         /\ ExecuteMessage(s, c) \in Message /\ Result(s, c, ok) \in Message
BY DEF Message, Ready, Hello, ExecuteMessage, Result

\* Messages of different kinds, connections or commands are different.
LEMMA MessageFacts ==
  ASSUME NEW s, NEW c, NEW t, NEW d, NEW ok, NEW needs
  PROVE  /\ ExecuteMessage(s, c) = ExecuteMessage(t, d) => s = t /\ c = d
         /\ Result(s, c, TRUE) = Result(t, d, ok) => s = t /\ c = d /\ ok
         /\ ExecuteMessage(s, c) \notin {Ready(t), Hello(t, needs), Result(t, d, ok)}
         /\ Result(s, c, TRUE) \notin {Ready(t), Hello(t, needs)}
<1>1. /\ ExecuteMessage(s, c).kind = "execute" /\ ExecuteMessage(s, c).on = s
      /\ ExecuteMessage(s, c).command = c
      /\ ExecuteMessage(t, d).on = t /\ ExecuteMessage(t, d).command = d
      /\ Result(s, c, TRUE).kind = "result" /\ Result(s, c, TRUE).on = s
      /\ Result(s, c, TRUE).command = c /\ Result(s, c, TRUE).ok
      /\ Result(t, d, ok).on = t /\ Result(t, d, ok).command = d /\ Result(t, d, ok).ok = ok
      /\ Result(t, d, ok).kind = "result"
      /\ Ready(t).kind = "ready" /\ Hello(t, needs).kind = "hello"
  BY DEF Ready, Hello, ExecuteMessage, Result
<1> QED
  BY <1>1

LEMMA ExecuteFacts ==
  ASSUME NEW s, NEW c, NEW t, NEW d
  PROVE  /\ ExecuteMessage(s, c) = ExecuteMessage(t, d) => s = t /\ c = d
         /\ Result(s, c, TRUE) # ExecuteMessage(t, d)
<1>1. /\ ExecuteMessage(s, c).on = s /\ ExecuteMessage(s, c).command = c
      /\ ExecuteMessage(t, d).on = t /\ ExecuteMessage(t, d).command = d
      /\ ExecuteMessage(t, d).kind = "execute" /\ Result(s, c, TRUE).kind = "result"
  BY DEF ExecuteMessage, Result
<1> QED
  BY <1>1

\* No command and no success comes onto the wire.
Quieter(c) ==
  /\ \A s \in Connections : ExecuteMessage(s, c) \in wire' => ExecuteMessage(s, c) \in wire
  /\ \A s \in Connections : Result(s, c, TRUE) \in wire' => Result(s, c, TRUE) \in wire

\* A command stays as it is while nothing is done about it.
LEMMA CommandKept ==
  ASSUME NEW c \in Commands, CommandOK(c), Quieter(c), request'[c] = request[c],
         host'[c] = host[c], answer'[c] = answer[c], audited \subseteq audited'
  PROVE  CommandOK(c)'
BY DEF CommandOK, Quieter, Underway, Untouched

\* Or while its promise is settled without a result, or the API process stops.
LEMMA CommandSettled ==
  ASSUME NEW c \in Commands, CommandOK(c), Quieter(c),
         \/ request'[c] = request[c]
         \/ request'[c] = Settled("unavailable") /\ request[c].at = "pending"
         \/ request'[c] = [at |-> "lost", verdict |-> "none"] /\ request[c].at # "answered",
         host'[c] = host[c] \/ (host[c] = "running" /\ host'[c] \in {"ok", "failed"}),
         answer'[c] = answer[c], UNCHANGED audited
  PROVE  CommandOK(c)'
<1>1. Untouched(c) => Untouched(c)'
  BY DEF Quieter, Underway, Untouched
<1>2. /\ Underway(c)' => Underway(c) /\ (Underway(c) => host'[c] = host[c])
      /\ host[c] = "ok" => host'[c] = "ok"
  BY DEF Quieter, Underway, CommandOK
<1>3. CASE request'[c] = request[c]
  BY <1>1, <1>2, <1>3 DEF CommandOK, Quieter
<1>4. CASE request'[c] = Settled("unavailable") /\ request[c].at = "pending"
  <2>1. request'[c].at = "record" /\ request'[c].verdict = "unavailable" /\ answer[c] = "none"
    BY <1>4 DEF Settled, CommandOK
  <2> QED
    BY <1>1, <1>2, <2>1 DEF CommandOK, Quieter
<1>5. CASE request'[c] = [at |-> "lost", verdict |-> "none"] /\ request[c].at # "answered"
  <2>1. request'[c].at = "lost" /\ answer[c] = "none"
    BY <1>5 DEF CommandOK
  <2> QED
    BY <1>1, <1>2, <2>1 DEF CommandOK, Quieter
<1> QED
  BY <1>3, <1>4, <1>5

-----------------------------------------------------------------------------
(* The promise *)

Promised == Direct!Next \/ UNCHANGED <<program, audited, host, answer>>

LEMMA InitIInv == Init => IInv
<1> SUFFICES ASSUME Init PROVE IInv
  OBVIOUS
<1>1. TypeOK
  BY ChannelAssumption DEF Init, TypeOK, Place, Verdict, Needs
<1>2. BrokerOK
  BY DEF Init, BrokerOK, OnLiveConnection, Disconnected, Pending
<1>3. ASSUME NEW c \in Commands PROVE CommandOK(c)
  BY DEF Init, CommandOK, Underway, Untouched
<1> QED
  BY <1>1, <1>2, <1>3 DEF IInv

-----------------------------------------------------------------------------
(* Types *)

Request == [at : Place, verdict : Verdict]

LEMMA SettledTypes ==
  ASSUME request \in [Commands -> Request]
  PROVE  /\ \A v \in Verdict : Settled(v) \in Request
         /\ [at |-> "lost", verdict |-> "none"] \in Request
         /\ \A c \in Commands, v \in Verdict : Settle(c, v) => request' \in [Commands -> Request]
         /\ \A c \in Commands, p \in Place : Goto(c, p) => request' \in [Commands -> Request]
         /\ RejectPending => request' \in [Commands -> Request]
<1>1. /\ \A v \in Verdict : Settled(v) \in Request
      /\ [at |-> "lost", verdict |-> "none"] \in Request
      /\ "unavailable" \in Verdict
  BY DEF Settled, Request, Place, Verdict
<1>2. ASSUME NEW c \in Commands, NEW p \in Place, Goto(c, p)
      PROVE  request' \in [Commands -> Request]
  <2> DEFINE q == [request[c] EXCEPT !.at = p]
  <2>1. q \in Request
    BY DEF Request
  <2>2. request' = [request EXCEPT ![c] = q]
    BY <1>2 DEF Goto, Request
  <2> HIDE DEF q
  <2> QED
    BY <2>1, <2>2
<1>3. ASSUME NEW c \in Commands, NEW v \in Verdict, Settle(c, v)
      PROVE  request' \in [Commands -> Request]
  BY <1>1, <1>3 DEF Settle
<1>4. RejectPending => request' \in [Commands -> Request]
  BY <1>1 DEF RejectPending
<1> QED
  BY <1>1, <1>2, <1>3, <1>4

LEMMA FaultTypes == ASSUME TypeOK PROVE Fault \/ NoFault => faults' \in 0 .. MaxFaults
BY ChannelAssumption DEF TypeOK, Fault, NoFault

LEMMA SocketTypes ==
  ASSUME TypeOK, NEW s \in Connections, SocketStep(s)
  PROVE  TypeOK'
<1> USE DEF TypeOK
<1>0. request \in [Commands -> Request]
  BY DEF Request
<1> USE FaultTypes
<1>1. CASE Authenticated(s)
  <2>1. request' \in [Commands -> Request] /\ shut' \subseteq Connections
    BY <1>0, <1>1, SettledTypes DEF Authenticated, Connect, Disconnected
  <2>2. connection' \in [socket : Connections, needs : Needs \cup {"none"}] \cup {Disconnected}
    BY <1>1 DEF Authenticated, Connect
  <2>3. wire' \subseteq Message
    BY <1>1 DEF Authenticated, Message, Ready
  <2> QED
    BY <1>1, <2>1, <2>2, <2>3 DEF Authenticated, Request, hostVars
<1>2. CASE AuthenticationFails(s)
  BY <1>2 DEF AuthenticationFails, panelVars, hostVars
<1>3. CASE Close(s)
  <2>1. request' \in [Commands -> Request]
    BY <1>0, <1>3, SettledTypes DEF Close, Disconnect
  <2>2. connection' \in {connection, Disconnected} /\ faults' \in 0 .. MaxFaults
    BY <1>3 DEF Close, Disconnect
  <2> QED
    BY <1>3, <2>1, <2>2 DEF Close, Request, hostVars
<1>4. ASSUME NEW needs \in Needs, ReceiveHello(s, needs) PROVE TypeOK'
  <2>1. connection' \in [socket : Connections, needs : Needs \cup {"none"}] \cup {Disconnected}
    <3>1. CASE s \in authenticated /\ connection.socket = s
      <4>1. connection \in [socket : Connections, needs : Needs \cup {"none"}]
        BY <3>1, ChannelAssumption DEF Disconnected, Connections
      <4> QED
        BY <1>4, <3>1, <4>1 DEF ReceiveHello
    <3>2. CASE ~(s \in authenticated /\ connection.socket = s)
      BY <1>4, <3>2 DEF ReceiveHello
    <3> QED
      BY <3>1, <3>2
  <2> QED
    BY <1>4, <2>1 DEF ReceiveHello, panelVars, hostVars
<1>5. ASSUME NEW c \in Commands, NEW ok \in BOOLEAN, ReceiveResult(s, c, ok) PROVE TypeOK'
  <2>1. request' \in [Commands -> Request]
    BY <1>0, <1>5, SettledTypes DEF ReceiveResult, Verdict
  <2> QED
    BY <1>5, <2>1 DEF ReceiveResult, Request, apiVars, hostVars
<1> QED
  BY <1>1, <1>2, <1>3, <1>4, <1>5 DEF SocketStep

LEMMA RequestTypes ==
  ASSUME TypeOK, NEW c \in Commands, RequestStep(c)
  PROVE  TypeOK'
<1> USE DEF TypeOK
<1>0. request \in [Commands -> Request]
  BY DEF Request
<1>1. /\ {"execute", "answered", "audit", "pending", "reply"} \subseteq Place
      /\ {"refused", "unavailable", "failed"} \subseteq Verdict
  BY DEF Place, Verdict
<1>2. ASSUME NEW v \in Verdict, Reply(c, v)
      PROVE  request' \in [Commands -> Request] /\ answer' \in [Commands -> Verdict]
  BY <1>0, <1>1, <1>2, SettledTypes DEF Reply
<1>3. request[c].verdict \in Verdict
  BY <1>0 DEF Request
<1>4. /\ request' \in [Commands -> Request] /\ answer' \in [Commands -> Verdict]
      /\ audited' \subseteq Commands
  <2>1. CASE Ask(c)
    BY <1>0, <1>1, <1>2, <2>1, SettledTypes DEF Ask
  <2>2. CASE RecordRequest(c)
    BY <1>0, <1>1, <1>2, <2>2, SettledTypes DEF RecordRequest
  <2>3. CASE Execute(c)
    BY <1>0, <1>1, <2>3, SettledTypes DEF Execute
  <2>4. CASE Timeout(c)
    BY <1>0, <1>1, <2>4, SettledTypes DEF Timeout
  <2>5. CASE RecordOutcome(c)
    BY <1>0, <1>1, <1>2, <2>5, SettledTypes DEF RecordOutcome
  <2>6. CASE Respond(c)
    BY <1>2, <1>3, <2>6 DEF Respond
  <2> QED
    BY <2>1, <2>2, <2>3, <2>4, <2>5, <2>6 DEF RequestStep
<1>5. wire' \subseteq Message
  <2>1. CASE Execute(c)
    <3>1. client.on = connection.socket =>
            connection.socket \in Connections \/ connection = Disconnected
      OBVIOUS
    <3>2. connection = Disconnected => connection.needs = "none"
      BY DEF Disconnected
    <3>3. \A s \in Connections : ExecuteMessage(s, c) \in Message
      BY DEF ExecuteMessage, Message
    <3> QED
      BY <2>1, <3>1, <3>2, <3>3 DEF Execute
  <2> QED
    BY <2>1 DEF RequestStep, Ask, RecordRequest, Timeout, RecordOutcome, Respond
<1>6. faults' \in 0 .. MaxFaults
  BY FaultTypes DEF RequestStep, Ask, RecordRequest, Execute, Timeout, RecordOutcome, Respond
<1>7. UNCHANGED <<apiVars, hostVars>>
  BY DEF RequestStep, Ask, RecordRequest, Execute, Timeout, RecordOutcome, Respond
<1> QED
  BY <1>4, <1>5, <1>6, <1>7 DEF Request, apiVars, hostVars

LEMMA HostTypes ==
  ASSUME TypeOK, BrokerOK, HostStep
  PROVE  TypeOK'
<1> USE FaultTypes DEF TypeOK
<1>1. CASE Dial
  <2>1. dialed + 1 \in Connections /\ dialed + 1 \in 0 .. MaxConnections
    BY <1>1, ChannelAssumption DEF Dial, Connections
  <2> QED
    BY <1>1, <2>1 DEF Dial, panelVars
<1>2. CASE Announce
  <2>1. client \in [on : Connections, pc : {"ready", "serve"}]
    BY <1>2 DEF Announce, Down
  <2>2. Hello(client.on, program) \in Message
    BY <2>1, MessageTypes DEF Message, Hello
  <2> QED
    BY <1>2, <2>1, <2>2 DEF Announce, apiVars, panelVars
<1>3. CASE Hangup
  BY <1>3 DEF Hangup, apiVars, panelVars
<1>4. ASSUME NEW c \in Commands, NEW s, NEW ok \in BOOLEAN, NEW sent \in SUBSET wire,
             Write(c, s, ok, sent)
      PROVE  wire' \subseteq Message
  <2>1. s \in Connections => Result(s, c, ok) \in Message
    BY DEF Message, Result
  <2> QED
    BY <1>4, <2>1 DEF Write
<1>5. ASSUME NEW c \in Commands, Receive(c) PROVE TypeOK'
  <2>1. client.on \in Connections
    BY <1>5 DEF Receive, Down
  <2>2. wire' \subseteq Message
    <3> DEFINE sent == wire \ {ExecuteMessage(client.on, c)}
    <3>1. Write(c, client.on, FALSE, sent) \/ wire' = sent
      BY <1>5 DEF Receive
    <3>2. sent \in SUBSET wire
      OBVIOUS
    <3> HIDE DEF sent
    <3> QED
      BY <1>4, <3>1, <3>2
  <2> QED
    BY <1>5, <2>1, <2>2 DEF Receive, apiVars, panelVars
<1>6. ASSUME NEW c \in Commands, NEW fate \in {"ok", "failed"}, Finish(c, fate) PROVE TypeOK'
  <2>1. wire' \subseteq Message
    BY <1>4, <1>6 DEF Finish
  <2> QED
    BY <1>6, <2>1 DEF Finish, apiVars, panelVars
<1> QED
  BY <1>1, <1>2, <1>3, <1>5, <1>6 DEF HostStep

LEMMA RestartTypes ==
  ASSUME TypeOK, ApiRestart \/ HostRestart
  PROVE  TypeOK'
<1> USE FaultTypes DEF TypeOK
<1>1. CASE ApiRestart
  <2>1. request' \in [Commands -> Request]
    BY <1>1, SettledTypes DEF ApiRestart, Request
  <2> QED
    BY <1>1, <2>1 DEF ApiRestart, Request, hostVars
<1>2. CASE HostRestart
  BY <1>2 DEF HostRestart, apiVars, panelVars
<1> QED
  BY <1>1, <1>2

LEMMA NextTypes == TypeOK /\ BrokerOK /\ [Next]_vars => TypeOK'
<1> SUFFICES ASSUME TypeOK, BrokerOK, [Next]_vars PROVE TypeOK'
  OBVIOUS
<1>1. CASE UNCHANGED vars
  BY <1>1 DEF TypeOK, vars, apiVars, panelVars, hostVars
<1> QED
  BY <1>1, SocketTypes, RequestTypes, HostTypes, RestartTypes DEF Next

-----------------------------------------------------------------------------
(* The broker's connection *)

\* A request that nobody settles can only become pending on a connection.
LEMMA BrokerRest ==
  ASSUME BrokerOK, UNCHANGED <<open, awaited, authenticated, connection>>,
         Pending' \subseteq Pending \/ connection.needs # "none"
  PROVE  BrokerOK'
BY DEF BrokerOK, OnLiveConnection

LEMMA NoPending ==
  ASSUME TypeOK
  PROVE  RejectPending => Pending' = {}
BY DEF TypeOK, RejectPending, Pending, Settled

LEMMA BrokerSocket ==
  ASSUME TypeOK, BrokerOK, NEW s \in Connections, SocketStep(s)
  PROVE  BrokerOK'
<1> USE DEF BrokerOK, OnLiveConnection
<1>1. s # None
  BY ChannelAssumption DEF Connections
<1>2. CASE Authenticated(s)
  <2>1. CASE s \in awaited
    BY <1>1, <1>2, <2>1 DEF Authenticated, Connect
  <2>2. CASE s \notin awaited
    BY <1>2, <2>2, BrokerRest DEF Authenticated, Pending
  <2> QED
    BY <2>1, <2>2
<1>3. CASE AuthenticationFails(s)
  BY <1>3 DEF AuthenticationFails, panelVars, Pending
<1>4. CASE Close(s)
  <2>1. CASE connection.socket = s
    BY <1>4, <2>1, NoPending DEF Close, Disconnect, Disconnected
  <2>2. CASE connection.socket # s
    BY <1>4, <2>2 DEF Close, Disconnect, Pending
  <2> QED
    BY <2>1, <2>2
<1>5. ASSUME NEW needs \in Needs, ReceiveHello(s, needs) PROVE BrokerOK'
  <2>1. Pending' = Pending /\ UNCHANGED <<open, awaited, authenticated>>
    BY <1>5 DEF ReceiveHello, panelVars, Pending
  <2>2. connection'.socket = connection.socket /\ (connection.socket = None => connection' = connection)
    BY <1>1, <1>5 DEF ReceiveHello, TypeOK, Disconnected
  <2> QED
    BY <2>1, <2>2
<1>6. ASSUME NEW c \in Commands, NEW ok \in BOOLEAN, ReceiveResult(s, c, ok) PROVE BrokerOK'
  <2>1. Pending' \subseteq Pending
    BY <1>6 DEF ReceiveResult, Settle, Settled, Pending, TypeOK
  <2> QED
    BY <1>6, <2>1, BrokerRest DEF ReceiveResult, apiVars
<1> QED
  BY <1>2, <1>3, <1>4, <1>5, <1>6 DEF SocketStep

LEMMA BrokerNext == TypeOK /\ BrokerOK /\ [Next]_vars => BrokerOK'
<1> SUFFICES ASSUME TypeOK, BrokerOK, [Next]_vars PROVE BrokerOK'
  OBVIOUS
<1>1. ASSUME NEW c \in Commands, RequestStep(c) PROVE BrokerOK'
  <2>1. Pending' \subseteq Pending \/ connection.needs # "none"
    <3>1. CASE Execute(c)
      BY <3>1 DEF Execute, Settle, Settled, Pending, TypeOK
    <3>2. CASE Timeout(c)
      BY <3>2 DEF Timeout, Settle, Settled, Pending, TypeOK
    <3> QED
      BY <1>1, <3>1, <3>2
      DEF RequestStep, Ask, RecordRequest, RecordOutcome, Respond, Reply, Goto, Pending, TypeOK
  <2>2. UNCHANGED <<open, awaited, authenticated, connection>>
    BY <1>1 DEF RequestStep, Ask, RecordRequest, Execute, Timeout, RecordOutcome, Respond, apiVars
  <2> QED
    BY <2>1, <2>2, BrokerRest
<1>2. CASE Dial
  BY <1>2 DEF Dial, panelVars, BrokerOK, OnLiveConnection, Pending
<1>3. CASE Announce \/ Hangup \/ (\E c \in Commands : Receive(c) \/ \E fate \in {"ok", "failed"} : Finish(c, fate))
           \/ HostRestart \/ UNCHANGED vars
  <2>1. UNCHANGED <<apiVars, panelVars>>
    BY <1>3 DEF Announce, Hangup, Receive, Finish, HostRestart, vars
  <2> QED
    BY <2>1, BrokerRest DEF apiVars, panelVars, Pending
<1>4. CASE ApiRestart
  <2>1. Pending' = {}
    BY <1>4 DEF ApiRestart, Pending, TypeOK
  <2> QED
    BY <1>4, <2>1 DEF ApiRestart, BrokerOK, OnLiveConnection, Disconnected
<1> QED
  BY <1>1, <1>2, <1>3, <1>4, BrokerSocket DEF Next, HostStep

-----------------------------------------------------------------------------
(* The commands *)

\* What every step has to show.
StepOK == (\A c \in Commands : CommandOK(c)') /\ Promised

LEMMA NoMoreMessages ==
  ASSUME NEW c \in Commands, NEW t, NEW needs, wire' \subseteq wire \cup {Ready(t), Hello(t, needs)}
  PROVE  Quieter(c)
<1>1. ASSUME NEW s
      PROVE  /\ ExecuteMessage(s, c) \notin {Ready(t), Hello(t, needs)}
             /\ Result(s, c, TRUE) \notin {Ready(t), Hello(t, needs)}
  BY MessageFacts
<1> QED
  BY <1>1 DEF Quieter

\* An answer, as DirectCommand allows it.
LEMMA AnswerStep ==
  ASSUME IInv, NEW c \in Commands, NEW v \in Verdict \ {"none"}, answer[c] = "none",
         answer' = [answer EXCEPT ![c] = v], UNCHANGED <<program, audited, host>>,
         v = "ok" => host[c] = "ok" /\ c \in audited,
         v = "refused" => host[c] = "none"
  PROVE  Promised
<1>1. v \in Direct!Answers \ {"none"}
  BY DEF Direct!Answers, Verdict
<1>2. Direct!Answer(c, v)
  BY DEF Direct!Answer
<1> QED
  BY <1>1, <1>2 DEF Promised, Direct!Next

LEMMA AuditStep ==
  ASSUME NEW c \in Commands, audited' = audited \cup {c}, UNCHANGED <<program, host, answer>>
  PROVE  Promised
BY DEF Promised, Direct!Next, Direct!Audit

LEMMA SocketCommands ==
  ASSUME IInv, NEW s \in Connections, SocketStep(s)
  PROVE  StepOK
<1>1. UNCHANGED <<audited, answer, hostVars>>
  BY DEF SocketStep, Authenticated, AuthenticationFails, Close, ReceiveHello, ReceiveResult, panelVars
<1>2. Promised
  BY <1>1 DEF Promised, hostVars
<1>3. ASSUME NEW d \in Commands PROVE CommandOK(d)'
  <2>0. CommandOK(d) /\ request \in [Commands -> Request]
    BY DEF IInv, TypeOK, Request
  <2> USE <2>0, <1>1, CommandSettled DEF hostVars
  <2>1. CASE Authenticated(s)
    <3>1. Quieter(d)
      BY <2>1, NoMoreMessages DEF Authenticated
    <3>2. request'[d] = request[d] \/ (request'[d] = Settled("unavailable") /\ request[d].at = "pending")
      BY <2>1 DEF Authenticated, Connect, RejectPending, Pending
    <3> QED
      BY <3>1, <3>2
  <2>2. CASE AuthenticationFails(s)
    BY <2>2, NoMoreMessages DEF AuthenticationFails, panelVars
  <2>3. CASE Close(s)
    <3>1. Quieter(d)
      BY <2>3, NoMoreMessages DEF Close
    <3>2. request'[d] = request[d] \/ (request'[d] = Settled("unavailable") /\ request[d].at = "pending")
      BY <2>3 DEF Close, Disconnect, RejectPending, Pending
    <3> QED
      BY <3>1, <3>2
  <2>4. ASSUME NEW needs \in Needs, ReceiveHello(s, needs) PROVE CommandOK(d)'
    BY <2>4, NoMoreMessages DEF ReceiveHello, panelVars
  <2>5. ASSUME NEW c \in Commands, NEW ok \in BOOLEAN, ReceiveResult(s, c, ok) PROVE CommandOK(d)'
    <3>1. Quieter(d)
      BY <2>5, NoMoreMessages DEF ReceiveResult
    <3>2. CASE request'[d] = request[d]
      BY <3>1, <3>2
    <3>3. CASE d = c /\ c \in Pending /\ Settle(c, IF ok THEN "ok" ELSE "failed")
      <4>1. ok => host[c] = "ok"
        BY <2>5 DEF ReceiveResult, CommandOK, IInv
      <4>2. request[c].at = "pending" /\ answer[c] = "none" /\ c \in audited \cup Reads
        BY <3>3 DEF Pending, CommandOK
      <4>3. request'[c].at = "record" /\ request'[c].verdict = IF ok THEN "ok" ELSE "failed"
        BY <3>3 DEF Settle, Settled
      <4>4. Underway(c)' => Underway(c)
        BY <3>1, <3>3 DEF Quieter, Underway
      <4> QED
        BY <3>1, <3>3, <4>1, <4>2, <4>3, <4>4 DEF CommandOK, Quieter
    <3> QED
      BY <2>5, <3>2, <3>3 DEF ReceiveResult, Settle
  <2> QED
    BY <2>1, <2>2, <2>3, <2>4, <2>5 DEF SocketStep
<1> QED
  BY <1>2, <1>3 DEF StepOK

\* A request only changes its own command.
LEMMA OneRequest ==
  ASSUME IInv, NEW c \in Commands, CommandOK(c)', Promised,
         \A d \in Commands : d # c => /\ request'[d] = request[d] /\ answer'[d] = answer[d]
                                      /\ host'[d] = host[d] /\ Quieter(d),
         audited \subseteq audited'
  PROVE  StepOK
BY CommandKept DEF StepOK, IInv

\* What a request does when it ends.
LEMMA Replied ==
  ASSUME IInv, NEW c \in Commands, NEW v \in Verdict \ {"none"}, Reply(c, v),
         answer[c] = "none", UNCHANGED <<program, audited, host, wire>>,
         v = "ok" => host[c] = "ok" /\ c \in audited,
         v = "refused" => Untouched(c)
  PROVE  StepOK
<1>1. CommandOK(c) /\ request \in [Commands -> Request] /\ answer \in [Commands -> Verdict]
  BY DEF IInv, TypeOK, Request
<1>2. /\ request'[c].at = "answered" /\ answer'[c] = v
      /\ \A d \in Commands : d # c => request'[d] = request[d] /\ answer'[d] = answer[d]
  BY <1>1 DEF Reply, Goto, Request
<1>3. Promised
  BY AnswerStep DEF Reply, Untouched
<1>4. /\ Untouched(c) => Untouched(c)'
      /\ Underway(c)' => Underway(c)
      /\ \A d \in Commands : Quieter(d)
  BY DEF Untouched, Underway, Quieter
<1>5. CommandOK(c)'
  BY <1>1, <1>2, <1>4 DEF CommandOK
<1> QED
  BY <1>2, <1>3, <1>4, <1>5, OneRequest

\* A request that goes on, with an audit row or without one.
LEMMA WentOn ==
  ASSUME IInv, NEW c \in Commands, NEW there \in {"audit", "execute", "reply"}, Goto(c, there),
         UNCHANGED <<program, host, answer, wire>>,
         audited' = audited \cup {c} \/ audited' = audited,
         answer[c] = "none",
         there \in {"audit", "execute"} => request[c].at \in {"idle", "audit"},
         there = "execute" => c \in audited' \cup Reads,
         there = "reply" => request[c].at = "record" /\ (request[c].verdict = "ok" => c \in audited')
  PROVE  StepOK
<1>1. CommandOK(c) /\ request \in [Commands -> Request]
  BY DEF IInv, TypeOK, Request
<1>2. /\ request'[c].at = there /\ request'[c].verdict = request[c].verdict
      /\ \A d \in Commands : d # c => request'[d] = request[d]
  BY <1>1 DEF Goto, Request
<1>3. Promised
  BY AuditStep DEF Promised
<1>4. /\ Untouched(c) => Untouched(c)'
      /\ Underway(c)' => Underway(c)
      /\ \A d \in Commands : Quieter(d)
  BY DEF Untouched, Underway, Quieter
<1>5. CommandOK(c)'
  BY <1>1, <1>2, <1>4 DEF CommandOK
<1> QED
  BY <1>2, <1>3, <1>4, <1>5, OneRequest

\* A request whose promise is settled without a result.
LEMMA GaveUp ==
  ASSUME IInv, NEW c \in Commands, NEW v \in {"refused", "unavailable"}, Settle(c, v),
         UNCHANGED <<program, audited, host, answer, wire>>, answer[c] = "none",
         v = "refused" => Untouched(c)
  PROVE  StepOK
<1>1. CommandOK(c) /\ request \in [Commands -> Request]
  BY DEF IInv, TypeOK, Request
<1>2. /\ request'[c].at = "record" /\ request'[c].verdict = v
      /\ \A d \in Commands : d # c => request'[d] = request[d]
  BY <1>1 DEF Settle, Settled
<1>3. Promised
  BY DEF Promised
<1>4. /\ Untouched(c) => Untouched(c)'
      /\ Underway(c)' => Underway(c)
      /\ \A d \in Commands : Quieter(d)
  BY DEF Untouched, Underway, Quieter
<1>5. CommandOK(c)'
  BY <1>1, <1>2, <1>4 DEF CommandOK
<1> QED
  BY <1>2, <1>3, <1>4, <1>5, OneRequest

LEMMA RequestCommands ==
  ASSUME IInv, NEW c \in Commands, RequestStep(c)
  PROVE  StepOK
<1>0. CommandOK(c) /\ request \in [Commands -> Request]
  BY DEF IInv, TypeOK, Request
<1>1. CASE Ask(c)
  <2>1. answer[c] = "none" /\ Untouched(c) /\ request[c].at = "idle"
    BY <1>0, <1>1 DEF Ask, CommandOK
  <2>2. CASE Goto(c, "execute") /\ c \in Reads /\ UNCHANGED answer
    BY <1>1, <2>1, <2>2, WentOn DEF Ask, hostVars
  <2>3. CASE Reply(c, "refused")
    BY <1>1, <2>1, <2>3, Replied DEF Ask, hostVars, Verdict
  <2>4. CASE Goto(c, "audit") /\ UNCHANGED answer
    BY <1>1, <2>1, <2>4, WentOn DEF Ask, hostVars
  <2> QED
    BY <1>1, <2>2, <2>3, <2>4 DEF Ask
<1>2. CASE RecordRequest(c)
  <2>1. answer[c] = "none" /\ Untouched(c) /\ request[c].at = "audit"
    BY <1>0, <1>2 DEF RecordRequest, CommandOK
  <2>2. CASE Goto(c, "execute") /\ audited' = audited \cup {c} /\ UNCHANGED answer
    BY <1>2, <2>1, <2>2, WentOn DEF RecordRequest, hostVars
  <2>3. CASE Reply(c, "refused") /\ UNCHANGED audited
    BY <1>2, <2>1, <2>3, Replied DEF RecordRequest, hostVars, Verdict
  <2> QED
    BY <1>2, <2>2, <2>3 DEF RecordRequest
<1>3. CASE Execute(c)
  <2>1. answer[c] = "none" /\ Untouched(c) /\ request[c].at = "execute" /\ c \in audited \cup Reads
    BY <1>0, <1>3 DEF Execute, CommandOK
  <2>2. CASE Settle(c, "refused") /\ UNCHANGED wire
    BY <1>3, <2>1, <2>2, GaveUp DEF Execute, hostVars
  <2>3. CASE Goto(c, "pending") /\ wire' \subseteq wire \cup {ExecuteMessage(connection.socket, c)}
    <3>1. /\ request'[c].at = "pending"
          /\ \A d \in Commands : d # c => request'[d] = request[d]
      BY <1>0, <2>3 DEF Goto, Request
    <3>2. ASSUME NEW d \in Commands, NEW s \in Connections
          PROVE  /\ Result(s, d, TRUE) \in wire' => Result(s, d, TRUE) \in wire
                 /\ ExecuteMessage(s, d) \in wire' =>
                      ExecuteMessage(s, d) \in wire \/ (d = c /\ s = connection.socket)
      <4>1. /\ Result(s, d, TRUE) # ExecuteMessage(connection.socket, c)
            /\ ExecuteMessage(s, d) = ExecuteMessage(connection.socket, c) => d = c /\ s = connection.socket
        BY ExecuteFacts
      <4> QED
        BY <2>3, <4>1
    <3>3. /\ \A s \in Connections : ExecuteMessage(s, c) \in wire' => s = connection.socket
          /\ \A d \in Commands : d # c => Quieter(d)
      BY <2>1, <3>2 DEF Untouched, Underway, Quieter
    <3>4. UNCHANGED <<program, audited, host, answer>>
      BY <1>3 DEF Execute, hostVars
    <3>5. CommandOK(c)'
      BY <1>0, <2>1, <3>1, <3>2, <3>3, <3>4 DEF CommandOK, Untouched
    <3> QED
      BY <3>1, <3>3, <3>4, <3>5, OneRequest DEF Promised
  <2> QED
    BY <1>3, <2>2, <2>3 DEF Execute
<1>4. CASE Timeout(c)
  <2>1. answer[c] = "none"
    BY <1>0, <1>4 DEF Timeout, CommandOK
  <2> QED
    BY <1>4, <2>1, GaveUp DEF Timeout, hostVars
<1>5. CASE RecordOutcome(c)
  <2>1. answer[c] = "none" /\ request[c].at = "record"
    BY <1>0, <1>5 DEF RecordOutcome, CommandOK
  <2>2. CASE Goto(c, "reply") /\ audited' = audited \cup {c} /\ UNCHANGED answer
    BY <1>5, <2>1, <2>2, WentOn DEF RecordOutcome, hostVars
  <2>3. CASE UNCHANGED audited /\ (Reply(c, "unavailable") \/ Reply(c, "failed"))
    BY <1>5, <2>1, <2>3, Replied DEF RecordOutcome, hostVars, Verdict
  <2>4. CASE /\ ~(c \in Reads /\ request[c].verdict = "ok")
             /\ Goto(c, "reply") /\ UNCHANGED <<audited, answer>>
    <3>1. request[c].verdict = "ok" => c \in audited
      BY <1>0, <2>1, <2>4 DEF CommandOK
    <3> QED
      BY <1>5, <2>1, <2>4, <3>1, WentOn DEF RecordOutcome, hostVars
  <2> QED
    BY <1>5, <2>2, <2>3, <2>4 DEF RecordOutcome
<1>6. CASE Respond(c)
  <2>1. /\ answer[c] = "none" /\ request[c].at = "reply" /\ request[c].verdict \in Verdict \ {"none"}
        /\ request[c].verdict = "ok" => host[c] = "ok" /\ c \in audited
        /\ request[c].verdict = "refused" => Untouched(c)
    BY <1>0, <1>6 DEF Respond, CommandOK, Request
  <2> QED
    BY <1>6, <2>1, Replied DEF Respond, hostVars
<1> QED
  BY <1>1, <1>2, <1>3, <1>4, <1>5, <1>6 DEF RequestStep

\* A result of a command that is written adds nothing else to the wire.
LEMMA Written ==
  ASSUME NEW c \in Commands, NEW s, NEW ok \in BOOLEAN, NEW sent, Write(c, s, ok, sent)
  PROVE  /\ \A t, d : ExecuteMessage(t, d) \in wire' => ExecuteMessage(t, d) \in sent
         /\ \A t, d : Result(t, d, TRUE) \in wire' => Result(t, d, TRUE) \in sent \/ (d = c /\ ok = TRUE)
<1>1. wire' \subseteq sent \cup {Result(s, c, ok)}
  BY DEF Write
<1>2. ASSUME NEW t, NEW d
      PROVE  /\ ExecuteMessage(t, d) # Result(s, c, ok)
             /\ Result(t, d, TRUE) = Result(s, c, ok) => d = c /\ ok = TRUE
  <2>1. /\ ExecuteMessage(t, d).kind = "execute" /\ Result(s, c, ok).kind = "result"
        /\ Result(t, d, TRUE).command = d /\ Result(t, d, TRUE).ok
        /\ Result(s, c, ok).command = c /\ Result(s, c, ok).ok = ok
    BY DEF ExecuteMessage, Result
  <2> QED
    BY <2>1
<1> QED
  BY <1>1, <1>2

LEMMA ReceiveCommands ==
  ASSUME IInv, NEW c \in Commands, Receive(c)
  PROVE  StepOK
<1> DEFINE sent == wire \ {ExecuteMessage(client.on, c)}
<1>0. /\ client.on \in Connections /\ ExecuteMessage(client.on, c) \in wire /\ sent \subseteq wire
      /\ UNCHANGED <<panelVars, program>>
  BY DEF Receive, IInv, TypeOK, Down
<1>1. CASE Write(c, client.on, FALSE, sent) /\ UNCHANGED host
  <2> HIDE DEF sent
  <2>0. /\ \A t, d : ExecuteMessage(t, d) \in wire' => ExecuteMessage(t, d) \in sent
        /\ \A t, d : Result(t, d, TRUE) \in wire' => Result(t, d, TRUE) \in sent
    BY <1>1, Written
  <2>1. \A d \in Commands : Quieter(d)
    BY <1>0, <2>0 DEF Quieter
  <2> QED
    BY <1>0, <1>1, <2>1, CommandKept DEF StepOK, Promised, panelVars, IInv
<1>2. CASE /\ ~(program = "admin" /\ c \notin Admins)
           /\ wire' = sent /\ host' = [host EXCEPT ![c] = "running"]
  <2>1. CommandOK(c) /\ Underway(c)
    BY <1>0 DEF IInv, Underway
  <2>2. host[c] = "none" /\ c \in audited \cup Reads /\ answer[c] # "refused"
    BY <2>1 DEF CommandOK, Untouched
  <2>3. \A d \in Commands : Quieter(d)
    BY <1>0, <1>2 DEF Quieter
  <2>4. ~Underway(c)'
    <3>1. \A s \in Connections : ExecuteMessage(s, c) \in wire => s = client.on
      BY <1>0, <2>1 DEF CommandOK
    <3> QED
      BY <1>2, <3>1 DEF Underway
  <2>5. host'[c] = "running" /\ \A d \in Commands : d # c => host'[d] = host[d]
    BY <1>2 DEF IInv, TypeOK
  <2>6. CommandOK(c)'
    BY <1>0, <2>1, <2>2, <2>3, <2>4, <2>5 DEF CommandOK, Untouched, Quieter, panelVars
  <2>7. Direct!Start(c)
    BY <1>0, <1>2, <2>2 DEF Direct!Start, panelVars
  <2> QED
    BY <1>0, <2>3, <2>5, <2>6, <2>7, OneRequest DEF Promised, Direct!Next, panelVars
<1> QED
  BY <1>1, <1>2 DEF Receive

LEMMA FinishCommands ==
  ASSUME IInv, NEW c \in Commands, NEW fate \in {"ok", "failed"}, Finish(c, fate)
  PROVE  StepOK
<1>1. /\ UNCHANGED <<panelVars, program>> /\ host[c] = "running"
      /\ host'[c] = fate /\ \A d \in Commands : d # c => host'[d] = host[d]
      /\ CommandOK(c) /\ ~Underway(c)
  BY DEF Finish, IInv, TypeOK, CommandOK
<1>2. (Write(c, jobs[c], TRUE, wire) /\ fate = "ok") \/ Write(c, jobs[c], FALSE, wire)
  <2>1. CASE fate = "ok"
    BY <2>1 DEF Finish
  <2>2. CASE fate # "ok"
    BY <2>2 DEF Finish
  <2> QED
    BY <2>1, <2>2
<1>3. /\ \A t, d : ExecuteMessage(t, d) \in wire' => ExecuteMessage(t, d) \in wire
      /\ \A t, d : Result(t, d, TRUE) \in wire' => Result(t, d, TRUE) \in wire \/ (d = c /\ fate = "ok")
  BY <1>2, Written
<1>4. \A d \in Commands : d # c => Quieter(d)
  BY <1>3 DEF Quieter
<1>5. ~Underway(c)'
  BY <1>1, <1>3 DEF Underway
<1>6. CommandOK(c)'
  BY <1>1, <1>2, <1>3, <1>5 DEF CommandOK, Untouched, panelVars
<1>7. Direct!End({c}, fate)
  <2>1. program' \in {"anybody", "admin"}
    BY <1>1 DEF IInv, TypeOK, Needs
  <2>2. host' = [d \in Commands |-> IF d \in {c} THEN fate ELSE host[d]]
    BY DEF Finish, IInv, TypeOK
  <2> QED
    BY <1>1, <2>1, <2>2 DEF Direct!End, panelVars
<1> QED
  BY <1>1, <1>4, <1>6, <1>7, OneRequest DEF Promised, Direct!Next, panelVars

LEMMA HostCommands ==
  ASSUME IInv, HostStep
  PROVE  StepOK
<1>1. CASE Dial \/ Announce \/ Hangup
  <2>1. ASSUME NEW d \in Commands PROVE Quieter(d)
    BY <1>1, NoMoreMessages DEF Dial, Announce, Hangup
  <2>2. UNCHANGED <<panelVars, program, host>>
    BY <1>1 DEF Dial, Announce, Hangup
  <2> QED
    BY <2>1, <2>2, CommandKept DEF StepOK, Promised, panelVars, IInv
<1> QED
  BY <1>1, ReceiveCommands, FinishCommands DEF HostStep

LEMMA RestartCommands ==
  ASSUME IInv, ApiRestart \/ HostRestart
  PROVE  StepOK
<1>0. ASSUME NEW d \in Commands PROVE Quieter(d)
  BY NoMoreMessages DEF ApiRestart, HostRestart
<1>1. CASE ApiRestart
  <2>1. ASSUME NEW d \in Commands PROVE CommandOK(d)'
    <3>1. \/ request'[d] = request[d]
          \/ request'[d] = [at |-> "lost", verdict |-> "none"] /\ request[d].at # "answered"
      BY <1>1 DEF ApiRestart
    <3> QED
      BY <1>0, <1>1, <3>1, CommandSettled DEF ApiRestart, hostVars, IInv
  <2> QED
    BY <1>1, <2>1 DEF ApiRestart, hostVars, StepOK, Promised
<1>2. CASE HostRestart
  <2>1. ASSUME NEW d \in Commands PROVE CommandOK(d)'
    BY <1>0, <1>2, CommandSettled DEF HostRestart, panelVars, IInv
  <2>2. Direct!End({c \in Commands : host[c] = "running"}, "failed")
    BY <1>2 DEF HostRestart, panelVars, Direct!End, Needs
  <2> QED
    BY <2>1, <2>2 DEF StepOK, Promised, Direct!Next
<1> QED
  BY <1>1, <1>2

LEMMA NextIInv == IInv /\ [Next]_vars => IInv' /\ StepOK
<1> SUFFICES ASSUME IInv, [Next]_vars PROVE IInv' /\ StepOK
  OBVIOUS
<1>1. CASE UNCHANGED vars
  <2>1. \A d \in Commands : Quieter(d)
    BY <1>1 DEF vars, Quieter
  <2> QED
    BY <1>1, <2>1, NextTypes, BrokerNext, CommandKept
    DEF StepOK, Promised, IInv, vars, panelVars, hostVars
<1>2. CASE Next
  <2>1. StepOK
    BY <1>2, SocketCommands, RequestCommands, HostCommands, RestartCommands DEF Next
  <2> QED
    BY <2>1, NextTypes, BrokerNext DEF IInv, StepOK
<1> QED
  BY <1>1, <1>2

LEMMA Invariance == Spec => []IInv
BY InitIInv, NextIInv, PTL DEF Spec

-----------------------------------------------------------------------------
(* The theorems *)

\* Sockets, requests, messages and jobs are what they are said to be, whatever fails.
THEOREM TypeCorrect == Spec => []TypeOK
BY Invariance, PTL DEF IInv

\* The broker waits for answers only on a connection that can still give one: it is
\* authenticated, and its close handler has yet to run and to settle them.
THEOREM AlwaysOnLiveConnection == Spec => []OnLiveConnection
<1>1. IInv => OnLiveConnection
  BY DEF IInv, BrokerOK
<1> QED
  BY <1>1, Invariance, PTL

\* However many connections are lost, whenever the API learns of that, and whoever restarts:
\* a command runs at most once, audited and for a role the host admits; success is only
\* reported of what has succeeded, and what is refused never runs.
THEOREM CommandsAreDirect == Spec => ImplementsDirect
<1>1. Init => Direct!Init
  BY DEF Init, Direct!Init
<1>2. IInv /\ [Next]_vars => [Direct!Next]_<<program, audited, host, answer>>
  BY NextIInv DEF StepOK, Promised
<1> QED
  BY <1>1, <1>2, Invariance, PTL DEF Spec, ImplementsDirect, Direct!Spec
=============================================================================
