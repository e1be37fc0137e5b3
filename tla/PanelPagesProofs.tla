--------------------------- MODULE PanelPagesProofs ---------------------------
(***************************************************************************)
(* Safety of the panel's pages, for any hosts, values, operations and      *)
(* losses: what is applied is what was reviewed, and what a page says of   *)
(* its own operation is so.  Both rest on the order of the host's          *)
(* revisions: nothing the panel keeps is ahead of the host.                *)
(***************************************************************************)
EXTENDS PanelPages, TLAPS

Poll == {"none", "active", "succeeded", "failed"}
Shown == Values \cup {None}
Choices == Capabilities \cup {None, CHOOSE c \in Capabilities : TRUE}

SettingsForm == [draft : Shown, review : BOOLEAN, follow : Nat, poll : Poll,
                 awaits : Nat, saved : Nat]
ModsForm == [list : Shown, dirty : BOOLEAN, review : BOOLEAN, follow : Nat, poll : Poll]
WorkshopForm == [check : Nat, checked : Poll, offer : BOOLEAN, review : BOOLEAN,
                 follow : Nat, poll : Poll]
AccessForm == [open : BOOLEAN, value : Shown, typed : BOOLEAN, review : BOOLEAN]
ConsoleForm == [selected : Choices, running : Choices, output : Choices]

Posts == [request : Request, state : {"sent", "queued", "refused"}, id : Nat,
          attached : BOOLEAN]

-----------------------------------------------------------------------------
(* The invariant *)

\* Whoever was told so is enrolled.
HostOK == AgentTypeOK /\ EnrolledIsAgent

\* A revision the host has had, with the value it then had.
Fresh(s) == s.rev <= host.rev /\ (s.rev = host.rev => s.value = host.value)

\* A request that is, or may still be, carried out as its user has reviewed it.
Reviewed(r) ==
  /\ r.kind = "config.update" =>
       r.rev <= host.rev /\ (r.rev = host.rev => r.shown = host.value)
  /\ (r.kind = "settings.update" /\ r.shown # None) => r.value = r.shown

Recorded(i) ==
  /\ Reviewed(ops[i].request) /\ ops[i].request.value # None
  /\ ops[i].status = "succeeded" => ops[i].result <= host.rev

OpsOK ==
  /\ ShellTypeOK
  /\ \A i \in 1 .. Len(ops) : Recorded(i)
  /\ post \in Posts \cup {None}
  /\ post # None => /\ Reviewed(post.request)
                    /\ post.state = "queued" => post.id \in 1 .. Len(ops)

\* The snapshots are read in the order in which they replace each other.
ReadOK ==
  /\ config \in Snapshot \cup {None}
  /\ config # None => Fresh(config)
  /\ reading \in Fetch \cup {None}
  /\ reading # None => part = "settings"
  /\ (reading # None /\ reading.snapshot # None) =>
       /\ Fresh(reading.snapshot)
       /\ config # None => config.rev <= reading.snapshot.rev

\* An update the page has seen succeed.
Seen(id) == id \in 1 .. Len(ops) /\ ops[id].status = "succeeded"

SettingsOK ==
  /\ form \in SettingsForm /\ form.follow \in 0 .. Len(ops)
  /\ form.review => config # None
  /\ form.saved # 0 =>
       Seen(form.saved) /\ config # None /\ config.rev >= ops[form.saved].result
  /\ form.awaits # 0 =>
       /\ Seen(form.awaits) /\ reading # None
       /\ reading.snapshot # None => reading.snapshot.rev >= ops[form.awaits].result

FormOK ==
  /\ part = "settings" => SettingsOK
  /\ part = "mods" => form \in ModsForm /\ form.follow \in 0 .. Len(ops)
  /\ part = "workshop" =>
       form \in WorkshopForm /\ form.follow \in 0 .. Len(ops) /\ form.check \in 0 .. Len(ops)
  /\ part = "access" =>
       form \in AccessForm /\ (form.open /\ ~form.typed => form.value = status)
  /\ part = "console" =>
       /\ form \in ConsoleForm
       /\ form.output # None => form.output = form.selected
       /\ form.running # None => form.running = form.selected

IInv == HostOK /\ OpsOK /\ ReadOK /\ FormOK

LEMMA InvTypes == IInv => TypeOK
BY DEF IInv, HostOK, OpsOK, ReadOK, FormOK, SettingsOK, ModsForm, WorkshopForm, SettingsForm, TypeOK

\* A request whose content is not followed needs no review.
LEMMA PlainRequests ==
  ASSUME IInv, NEW k \in Kinds
  PROVE  /\ Plain(k) \in Request /\ Plain(k).kind = k /\ Plain(k).shown = None
         /\ k # "config.update" => Reviewed(Plain(k))
<1>1. (CHOOSE v \in Values : TRUE) \in Values
  BY DEF IInv, HostOK, AgentTypeOK
<1> QED
  BY <1>1 DEF Plain, Request, Reviewed

LEMMA Init1 == Init => IInv
<1> SUFFICES ASSUME Init PROVE IInv
  OBVIOUS
<1>1. HostOK
  BY StatusAssumption DEF Init, AgentInit, EnrolledInit, HostOK, AgentTypeOK, EnrolledIsAgent
<1>2. OpsOK
  <2>1. ops = <<>> /\ ops \in Seq(Record) /\ Len(ops) = 0
    BY DEF Init, ShellInit
  <2>2. ShellTypeOK /\ post = None
    BY <2>1 DEF Init, ShellInit, ShellTypeOK
  <2>3. \A i \in 1 .. Len(ops) : Recorded(i)
    BY <2>1
  <2> QED
    BY <2>2, <2>3 DEF OpsOK
<1>3. ReadOK
  BY DEF Init, ReadOK
<1>4. FormOK
  <2>1. part \in {"settings", "mods", "workshop", "access", "console"} /\ ops = <<>> /\ status = None
        /\ form = Blank
    BY DEF Init, ShellInit
  <2> QED
    BY <2>1 DEF Blank, FormOK, SettingsOK, SettingsForm, ModsForm, WorkshopForm, AccessForm,
                ConsoleForm, Poll, Shown, Choices
<1> QED
  BY <1>1, <1>2, <1>3, <1>4 DEF IInv

-----------------------------------------------------------------------------
(* What a step leaves alone *)

LEMMA OnlyForm ==
  ASSUME IInv, UNCHANGED <<agentVars, host, drops, shellVars, config, reading>>, FormOK'
  PROVE  IInv'
<1>1. HostOK'
  BY DEF IInv, HostOK, AgentTypeOK, EnrolledIsAgent, agentVars
<1>2. OpsOK'
  BY DEF IInv, OpsOK, ShellTypeOK, Recorded, Reviewed, shellVars
<1>3. ReadOK'
  BY DEF IInv, ReadOK, Fresh, shellVars
<1> QED
  BY <1>1, <1>2, <1>3 DEF IInv

LEMMA SameForm ==
  ASSUME FormOK, UNCHANGED <<part, ops, form, config, reading, status>>
  PROVE  FormOK'
BY DEF FormOK, SettingsOK, Seen

\* A mutation is sent.
LEMMA Posted ==
  ASSUME IInv, NEW r \in Request, Reviewed(r), Mutate(r),
         UNCHANGED <<agentVars, host, drops, part, ops, known, status, config, reading>>, FormOK'
  PROVE  IInv'
<1>1. HostOK'
  BY DEF IInv, HostOK, AgentTypeOK, EnrolledIsAgent, agentVars
<1>2. post' \in Posts /\ post'.request = r /\ post'.state = "sent"
  BY DEF Mutate, Posts
<1>3. OpsOK'
  BY <1>2 DEF IInv, OpsOK, ShellTypeOK, Recorded, Reviewed
<1>4. ReadOK'
  BY DEF IInv, ReadOK, Fresh
<1> QED
  BY <1>1, <1>3, <1>4 DEF IInv

-----------------------------------------------------------------------------
(* The host and the API *)

\* Enrollments and heartbeats, and the frame around them.
LEMMA AgentStep ==
  ASSUME IInv, Beats(Agent)
  PROVE  IInv'
<1>1. UNCHANGED <<host, shellVars, form, config, reading>>
  BY DEF Beats, Agent, EnrollChecks, EnrollInserts, Beat, LateBeat, BeatLost, Heartbeat, Silence
<1>2. HostOK'
  <2> USE StatusAssumption DEF IInv, HostOK, AgentTypeOK, EnrolledIsAgent, Drop
  <2>1. ASSUME NEW h \in Hosts, EnrollChecks(h) PROVE HostOK'
    BY <2>1 DEF EnrollChecks
  <2>2. ASSUME NEW h \in Hosts, EnrollInserts(h) PROVE HostOK'
    BY <2>2 DEF EnrollInserts
  <2>3. CASE Beat
    BY <2>3 DEF Beat
  <2>4. CASE LateBeat
    BY <2>4 DEF LateBeat
  <2>5. CASE BeatLost
    BY <2>5 DEF BeatLost
  <2>6. CASE Heartbeat
    BY <2>6 DEF Heartbeat
  <2>7. CASE Silence
    BY <2>7 DEF Silence
  <2> QED
    BY <2>1, <2>2, <2>3, <2>4, <2>5, <2>6, <2>7 DEF Beats, Agent
<1>3. OpsOK'
  BY <1>1 DEF IInv, OpsOK, ShellTypeOK, Recorded, Reviewed, shellVars
<1>4. ReadOK'
  BY <1>1 DEF IInv, ReadOK, Fresh, shellVars
<1>5. FormOK'
  BY <1>1, SameForm DEF IInv, shellVars
<1> QED
  BY <1>2, <1>3, <1>4, <1>5 DEF IInv

\* The rows only get longer: what was seen of them stays so.
LEMMA LongerForm ==
  ASSUME FormOK, ops \in Seq(Record), ops' \in Seq(Record), Len(ops') >= Len(ops),
         \A i \in 1 .. Len(ops) : ops[i].status = "succeeded" => ops'[i] = ops[i],
         UNCHANGED <<part, form, config, reading, status>>
  PROVE  FormOK'
<1>1. Len(ops) \in Nat /\ Len(ops') \in Nat
  OBVIOUS
<1>2. \A id : Seen(id) => Seen(id)' /\ ops'[id] = ops[id]
  BY <1>1 DEF Seen
<1> QED
  BY <1>1, <1>2 DEF FormOK, SettingsOK

\* An operation is queued.
LEMMA Queues ==
  ASSUME IInv, NEW r \in Request, Reviewed(r), r.value # None, Queue(r), UNCHANGED host
  PROVE  /\ ops' \in Seq(Record) /\ Len(ops') = Len(ops) + 1
         /\ \A i \in 1 .. Len(ops) : ops'[i] = ops[i]
         /\ \A i \in 1 .. Len(ops') : Recorded(i)'
<1>1. ops \in Seq(Record)
  BY DEF IInv, OpsOK, ShellTypeOK
<1>2. PICK q : q = [request |-> r, status |-> "active", result |-> 0]
  OBVIOUS
<1>3. q \in Record /\ q.request = r /\ q.status = "active"
  BY <1>2 DEF Record
<1>4. ops' = Append(ops, q)
  BY <1>2 DEF Queue
<1>5. /\ ops' \in Seq(Record) /\ Len(ops') = Len(ops) + 1
      /\ \A i \in 1 .. Len(ops) : ops'[i] = ops[i]
      /\ ops'[Len(ops) + 1] = q
  BY <1>1, <1>3, <1>4
<1>6. PICK n \in Nat : n = Len(ops)
  BY <1>1
<1>7. \A i \in 1 .. n : Recorded(i)'
  BY <1>5, <1>6 DEF IInv, OpsOK, Recorded, Reviewed
<1>8. ops'[n + 1] = q /\ Len(ops') = n + 1
  BY <1>5, <1>6
<1>9. Recorded(n + 1)'
  BY <1>3, <1>8 DEF Recorded, Reviewed
<1>10. \A i \in 1 .. Len(ops') : Recorded(i)'
  BY <1>7, <1>8, <1>9
<1> QED
  BY <1>5, <1>10

\* The operation that is active is settled, and the host may have a later revision.
LEMMA Settles ==
  ASSUME IInv, Active, NEW s \in {"succeeded", "failed"}, NEW n \in Nat, Settle(s, n),
         host' \in [rev : Nat, value : Values],
         host' = host \/ host'.rev > host.rev, s = "succeeded" => n <= host'.rev,
         UNCHANGED <<agentVars, drops, part, known, status, post, form, config, reading>>
  PROVE  IInv'
<1>0. /\ ops \in Seq(Record) /\ Len(ops) \in Nat /\ Len(ops) \in 1 .. Len(ops)
      /\ ops[Len(ops)] \in Record /\ ops[Len(ops)].status = "active"
  BY DEF IInv, OpsOK, ShellTypeOK, Active
<1>1. PICK q : q = [ops[Len(ops)] EXCEPT !.status = s, !.result = n]
  OBVIOUS
<1>2. q \in Record /\ q.request = ops[Len(ops)].request /\ q.status = s /\ q.result = n
  BY <1>0, <1>1 DEF Record
<1>3. ops' = [ops EXCEPT ![Len(ops)] = q]
  BY <1>0, <1>1 DEF Settle, Record
<1>4. /\ ops' \in Seq(Record) /\ Len(ops') = Len(ops) /\ ops'[Len(ops)] = q
      /\ \A i \in 1 .. Len(ops) : i # Len(ops) => ops'[i] = ops[i]
  BY <1>0, <1>2, <1>3
<1>5. host.rev \in Nat /\ host'.rev \in Nat /\ host'.rev >= host.rev
  BY DEF IInv, HostOK, AgentTypeOK
<1>6. \A r \in Request : Reviewed(r) => Reviewed(r)'
  BY <1>5 DEF Reviewed, Request
<1>7. HostOK'
  BY DEF IInv, HostOK, AgentTypeOK, EnrolledIsAgent, agentVars
<1>8. \A i \in 1 .. Len(ops) : ops[i] \in Record /\ ops[i].request \in Request /\ ops[i].result \in Nat
  <2>1. \A i \in 1 .. Len(ops) : ops[i] \in Record
    BY <1>0
  <2> QED
    BY <2>1 DEF Record
<1>9. \A i \in 1 .. Len(ops) : Recorded(i)'
  <2> SUFFICES ASSUME NEW i \in 1 .. Len(ops) PROVE Recorded(i)'
    OBVIOUS
  <2>1. Recorded(i)
    BY DEF IInv, OpsOK
  <2>2. ops'[i].request = ops[i].request /\ ops[i].request.value # None /\ Reviewed(ops[i].request)'
    BY <1>2, <1>4, <1>6, <1>8, <2>1 DEF Recorded
  <2>3. ops'[i].status = "succeeded" => ops'[i].result <= host'.rev
    BY <1>2, <1>4, <1>5, <1>8, <2>1 DEF Recorded
  <2> QED
    BY <2>2, <2>3 DEF Recorded, Reviewed
<1>10. OpsOK'
  <2>1. post # None => post.request \in Request /\ Reviewed(post.request)
    BY DEF IInv, OpsOK, Posts
  <2>2. post # None => Reviewed(post.request)'
    BY <1>6, <2>1
  <2> QED
    BY <1>4, <1>9, <2>2 DEF IInv, OpsOK, ShellTypeOK, Reviewed
<1>11. ReadOK'
  <2>1. \A z \in Snapshot : Fresh(z) => Fresh(z)'
    BY <1>5 DEF Fresh, Snapshot
  <2>2. /\ config # None => Fresh(config)'
        /\ (reading # None /\ reading.snapshot # None) => Fresh(reading.snapshot)'
    BY <2>1 DEF IInv, ReadOK, Fetch
  <2> QED
    BY <2>2 DEF IInv, ReadOK, Fresh
<1>12. FormOK'
  BY <1>0, <1>4, LongerForm DEF IInv
<1> QED
  BY <1>7, <1>10, <1>11, <1>12 DEF IInv

\* The host and the API, while a page that follows operations is open.
LEMMA ServerStep ==
  ASSUME IInv, Server, UNCHANGED <<config, reading>>
  PROVE  IInv'
<1>0. /\ ops \in Seq(Record) /\ Len(ops) \in Nat
      /\ \A i \in 1 .. Len(ops) : Recorded(i)
  BY DEF IInv, OpsOK, ShellTypeOK
<1>h. host \in [rev : Nat, value : Values] /\ host.rev \in Nat
  BY DEF IInv, HostOK, AgentTypeOK
<1>1. CASE PostArrives
  <2>0. /\ post # None /\ post.state = "sent" /\ post \in Posts /\ post.request \in Request
        /\ Reviewed(post.request)
        /\ UNCHANGED <<agentVars, host, part, known, status, form>>
    BY <1>1 DEF PostArrives, IInv, OpsOK, Posts
  <2>1. HostOK'
    <3>1. drops' = drops \/ Drop
      BY <1>1 DEF PostArrives
    <3>2. drops' \in 0 .. MaxDrops
      BY <3>1, StatusAssumption DEF Drop, IInv, HostOK, AgentTypeOK
    <3> QED
      BY <2>0, <3>2 DEF IInv, HostOK, AgentTypeOK, EnrolledIsAgent, agentVars
  <2>2. ReadOK'
    BY <2>0 DEF IInv, ReadOK, Fresh
  <2>3. CASE Refused(post.request)
    <3>1. UNCHANGED ops /\ post' = [post EXCEPT !.state = "refused"]
      BY <1>1, <2>3 DEF PostArrives
    <3>2. post' \in Posts /\ post'.request = post.request /\ post'.state = "refused"
      BY <2>0, <3>1 DEF Posts
    <3>3. OpsOK'
      BY <2>0, <3>1, <3>2 DEF IInv, OpsOK, ShellTypeOK, Recorded, Reviewed
    <3>4. FormOK'
      BY <2>0, <3>1, SameForm DEF IInv
    <3> QED
      BY <2>1, <2>2, <3>3, <3>4 DEF IInv
  <2>4. CASE ~Refused(post.request)
    <3>1. /\ Queue(post.request)
          /\ \/ post' = [post EXCEPT !.state = "queued", !.id = Len(ops')]
             \/ post' = [post EXCEPT !.state = "refused"]
      BY <1>1, <2>4 DEF PostArrives
    <3>2. post.request.value # None
      BY <2>4 DEF Refused
    <3>3. /\ ops' \in Seq(Record) /\ Len(ops') = Len(ops) + 1
          /\ \A i \in 1 .. Len(ops) : ops'[i] = ops[i]
          /\ \A i \in 1 .. Len(ops') : Recorded(i)'
      BY <2>0, <3>1, <3>2, Queues
    <3>4. /\ post' \in Posts /\ post'.request = post.request
          /\ post'.state = "queued" => post'.id \in 1 .. Len(ops')
      <4>1. PICK n \in Nat : n = Len(ops') /\ n \in 1 .. n
        BY <1>0, <3>3
      <4>2. CASE post' = [post EXCEPT !.state = "queued", !.id = n]
        BY <2>0, <4>1, <4>2 DEF Posts
      <4>3. CASE post' = [post EXCEPT !.state = "refused"]
        BY <2>0, <4>3 DEF Posts
      <4> QED
        BY <3>1, <4>1, <4>2, <4>3
    <3>5. OpsOK'
      BY <2>0, <3>3, <3>4 DEF IInv, OpsOK, ShellTypeOK, Reviewed
    <3>6. FormOK'
      BY <1>0, <2>0, <3>3, LongerForm DEF IInv
    <3> QED
      BY <2>1, <2>2, <3>5, <3>6 DEF IInv
  <2> QED
    BY <2>3, <2>4
<1>2. CASE Elsewhere
  <2>0. /\ Queue(Plain("other"))
        /\ UNCHANGED <<agentVars, host, drops, part, known, status, post, form>>
    BY <1>2 DEF Elsewhere
  <2>1. Plain("other") \in Request /\ Reviewed(Plain("other")) /\ Plain("other").value # None
    <3>1. (CHOOSE v \in Values : TRUE) \in Values
      BY <1>h
    <3> QED
      BY <3>1, StatusAssumption, PlainRequests DEF Kinds, Plain
  <2>2. PICK r \in Request : r = Plain("other")
    BY <2>1
  <2>3. /\ ops' \in Seq(Record) /\ Len(ops') = Len(ops) + 1
        /\ \A i \in 1 .. Len(ops) : ops'[i] = ops[i]
        /\ \A i \in 1 .. Len(ops') : Recorded(i)'
    BY <2>0, <2>1, <2>2, Queues
  <2>4. HostOK'
    BY <2>0 DEF IInv, HostOK, AgentTypeOK, EnrolledIsAgent, agentVars
  <2>5. OpsOK'
    BY <1>0, <2>0, <2>3 DEF IInv, OpsOK, ShellTypeOK, Reviewed
  <2>6. ReadOK'
    BY <2>0 DEF IInv, ReadOK, Fresh
  <2>7. FormOK'
    BY <1>0, <2>0, <2>3, LongerForm DEF IInv
  <2> QED
    BY <2>4, <2>5, <2>6, <2>7 DEF IInv
<1>3. CASE Succeeds
  <2>1. PICK r : r = ops[Len(ops)].request
    OBVIOUS
  <2>2. r \in Request /\ r.value \in Values
    <3>1. Len(ops) \in 1 .. Len(ops) /\ ops[Len(ops)] \in Record
      BY <1>0, <1>3 DEF Succeeds, Active
    <3>2. r \in Request /\ r.value # None
      BY <1>0, <2>1, <3>1 DEF Recorded, Record
    <3> QED
      BY <3>2 DEF Request
  <2>3. \/ host' = [rev |-> host.rev + 1, value |-> r.value]
        \/ UNCHANGED host
        \/ host' \in [rev : {host.rev + 1}, value : Values]
    BY <1>3, <2>1 DEF Succeeds, CarriedOut
  <2>4. /\ host' \in [rev : Nat, value : Values] /\ host'.rev \in Nat
        /\ host' = host \/ host'.rev > host.rev
    BY <1>h, <2>2, <2>3
  <2>5. PICK n \in Nat : n = host'.rev
    BY <2>4
  <2>6. Settle("succeeded", n) /\ Active /\ n <= host'.rev
    BY <1>3, <2>5 DEF Succeeds
  <2>7. PICK s \in {"succeeded", "failed"} : s = "succeeded"
    OBVIOUS
  <2>8. UNCHANGED <<agentVars, drops, part, known, status, post, form>>
    BY <1>3 DEF Succeeds
  <2> QED
    BY <2>4, <2>6, <2>7, <2>8, Settles
<1>4. CASE Fails
  <2>1. PICK s \in {"succeeded", "failed"} : s = "failed"
    OBVIOUS
  <2>2. PICK r : r = ops[Len(ops)].request
    OBVIOUS
  <2>3. /\ Active /\ Settle(s, 0) /\ 0 \in Nat
        /\ UNCHANGED host \/ CarriedOut(r)
        /\ UNCHANGED <<agentVars, drops, part, known, status, post, form>>
    BY <1>4, <2>1, <2>2 DEF Fails
  <2>4. r \in Request /\ r.value \in Values
    <3>1. Len(ops) \in 1 .. Len(ops) /\ ops[Len(ops)] \in Record
      BY <1>0, <2>3 DEF Active
    <3>2. r \in Request /\ r.value # None
      BY <1>0, <2>2, <3>1 DEF Recorded, Record
    <3> QED
      BY <3>2 DEF Request
  <2>5. \/ host' = [rev |-> host.rev + 1, value |-> r.value]
        \/ UNCHANGED host
        \/ host' \in [rev : {host.rev + 1}, value : Values]
    BY <2>3 DEF CarriedOut
  <2>6. /\ host' \in [rev : Nat, value : Values]
        /\ host' = host \/ host'.rev > host.rev
    BY <1>h, <2>4, <2>5
  <2> QED
    BY <2>1, <2>3, <2>6, Settles
<1> QED
  BY <1>1, <1>2, <1>3, <1>4 DEF Server

\* What the frame itself does, and the mutation that is answered or left.
LEMMA FrameStep ==
  ASSUME IInv, Frame, UNCHANGED <<config, reading>>
  PROVE  IInv'
<1>1. CASE RefreshOperations
  <2>1. UNCHANGED <<agentVars, host, drops, part, ops, status, post, form>> /\ known' \in BOOLEAN
    BY <1>1 DEF RefreshOperations, Active
  <2>2. HostOK'
    BY <2>1 DEF IInv, HostOK, AgentTypeOK, EnrolledIsAgent, agentVars
  <2>3. OpsOK'
    BY <2>1 DEF IInv, OpsOK, ShellTypeOK, Recorded, Reviewed
  <2>4. ReadOK'
    BY <2>1 DEF IInv, ReadOK, Fresh
  <2>5. FormOK'
    BY <2>1, SameForm DEF IInv
  <2> QED
    BY <2>2, <2>3, <2>4, <2>5 DEF IInv
<1>2. CASE QueueLifecycle \/ AddMod \/ ResetWorld
  <2>1. /\ Mutate(Plain("other"))
        /\ UNCHANGED <<agentVars, host, drops, part, ops, known, status, form>>
    BY <1>2 DEF QueueLifecycle, AddMod, ResetWorld
  <2>2. PICK r \in Request : r = Plain("other") /\ Reviewed(r)
    BY PlainRequests DEF Kinds
  <2>3. FormOK'
    BY <2>1, SameForm DEF IInv
  <2> QED
    BY <2>1, <2>2, <2>3, Posted
<1> QED
  BY <1>1, <1>2 DEF Frame

-----------------------------------------------------------------------------
(* The configuration page *)

\* A reading moves on, or the configuration with it.
LEMMA ReadingStep ==
  ASSUME IInv, Reload \/ ReadOnHost \/ ReadArrives \/ ReadFails
  PROVE  IInv'
<1>0. /\ UNCHANGED <<agentVars, host, shellVars>> /\ part = "settings"
      /\ drops' = drops \/ Drop
  BY DEF Reload, ReadOnHost, ReadArrives, ReadFails, IInv, ReadOK
<1>1. HostOK'
  <2>1. drops' \in 0 .. MaxDrops
    BY <1>0, StatusAssumption DEF Drop, IInv, HostOK, AgentTypeOK
  <2> QED
    BY <1>0, <2>1 DEF IInv, HostOK, AgentTypeOK, EnrolledIsAgent, agentVars
<1>2. OpsOK'
  BY <1>0 DEF IInv, OpsOK, ShellTypeOK, Recorded, Reviewed, shellVars
<1>3. /\ part' = part /\ ops' = ops /\ status' = status /\ host' = host
      /\ \A id : Seen(id) => Seen(id)'
  BY <1>0 DEF shellVars, Seen
<1>h. host \in Snapshot /\ host.rev \in Nat
  BY DEF IInv, HostOK, AgentTypeOK, Snapshot
<1>s. /\ SettingsOK /\ form \in SettingsForm /\ form.follow \in 0 .. Len(ops)
  BY <1>0 DEF IInv, FormOK, SettingsOK
<1>o. \A id : Seen(id) => ops[id].result \in Nat /\ ops[id].result <= host.rev
  <2>1. \A i \in 1 .. Len(ops) : Recorded(i) /\ ops[i] \in Record
    BY DEF IInv, OpsOK, ShellTypeOK
  <2> QED
    BY <2>1 DEF Seen, Recorded, Record
<1>4. CASE Reload
  <2>1. reading' = [snapshot |-> None] /\ reading = None /\ config' = config /\ form' = form
    BY <1>4 DEF Reload
  <2>2. reading' # None /\ reading'.snapshot = None /\ reading' \in Fetch
    BY <2>1, PagesAssumption DEF Fetch
  <2>3. ReadOK'
    BY <1>0, <1>3, <2>1, <2>2 DEF IInv, ReadOK, Fresh
  <2>4. SettingsOK'
    BY <1>3, <1>s, <2>1, <2>2 DEF SettingsOK
  <2> QED
    BY <1>0, <1>1, <1>2, <1>3, <2>3, <2>4 DEF IInv, FormOK
<1>5. CASE ReadOnHost
  <2>1. /\ reading' = [snapshot |-> host] /\ reading # None /\ reading.snapshot = None
        /\ config' = config /\ form' = form
    BY <1>5 DEF ReadOnHost
  <2>2. reading' \in Fetch /\ reading' # None /\ reading'.snapshot = host
    BY <1>h, <2>1, PagesAssumption DEF Fetch
  <2>3. Fresh(host)'
    BY <1>h, <1>3 DEF Fresh
  <2>4. config # None => config.rev <= host.rev
    BY DEF IInv, ReadOK, Fresh
  <2>5. ReadOK'
    BY <1>0, <1>3, <2>1, <2>2, <2>3, <2>4 DEF IInv, ReadOK, Fresh
  <2>6. SettingsOK'
    BY <1>3, <1>s, <1>o, <1>h, <2>1, <2>2 DEF SettingsOK
  <2> QED
    BY <1>0, <1>1, <1>2, <1>3, <2>5, <2>6 DEF IInv, FormOK
<1>6. CASE ReadArrives
  <2>1. PICK z : z = reading.snapshot
    OBVIOUS
  <2>2. /\ config' = z /\ reading' = None /\ reading # None /\ z # None /\ z \in Snapshot
        /\ Fresh(z) /\ z.rev \in Nat
        /\ config # None => config.rev <= z.rev /\ config.rev \in Nat
    BY <1>6, <2>1 DEF ReadArrives, IInv, ReadOK, Fetch, Snapshot
  <2>3. ReadOK'
    BY <1>0, <1>3, <2>2 DEF ReadOK, Fresh
  <2>4. SettingsOK'
    <3>1. CASE form.awaits # 0
      <4>1. form' = [form EXCEPT !.awaits = 0, !.saved = form.awaits]
        BY <1>6, <3>1 DEF ReadArrives, Change
      <4>2. /\ form' \in SettingsForm /\ form'.follow = form.follow /\ form'.awaits = 0
            /\ form'.saved = form.awaits /\ form'.review = form.review
        BY <1>s, <4>1 DEF SettingsForm
      <4>3. Seen(form.awaits) /\ z.rev >= ops[form.awaits].result
        BY <1>s, <2>1, <2>2, <3>1 DEF SettingsOK
      <4> QED
        BY <1>3, <1>s, <2>2, <4>2, <4>3 DEF SettingsOK
    <3>2. CASE form.awaits = 0
      <4>1. form' = form
        BY <1>6, <3>2 DEF ReadArrives, Change
      <4>2. form.saved # 0 => Seen(form.saved) /\ z.rev >= ops[form.saved].result
        BY <1>s, <1>o, <2>2 DEF SettingsOK
      <4> QED
        BY <1>3, <1>s, <2>2, <3>2, <4>1, <4>2 DEF SettingsOK
    <3> QED
      BY <3>1, <3>2
  <2> QED
    BY <1>0, <1>1, <1>2, <1>3, <2>3, <2>4 DEF IInv, FormOK
<1>7. CASE ReadFails
  <2>1. reading' = None /\ config' = config /\ form' = [form EXCEPT !.awaits = 0]
    BY <1>7 DEF ReadFails, Change
  <2>2. /\ form' \in SettingsForm /\ form'.follow = form.follow /\ form'.awaits = 0
        /\ form'.saved = form.saved /\ form'.review = form.review
    BY <1>s, <2>1 DEF SettingsForm
  <2>3. ReadOK'
    BY <1>0, <1>3, <2>1 DEF IInv, ReadOK, Fresh
  <2>4. SettingsOK'
    BY <1>3, <1>s, <2>1, <2>2 DEF SettingsOK
  <2> QED
    BY <1>0, <1>1, <1>2, <1>3, <2>3, <2>4 DEF IInv, FormOK
<1> QED
  BY <1>4, <1>5, <1>6, <1>7

\* Edits and reviews, the submission, and what the poll brings.
LEMMA SettingsStep ==
  ASSUME IInv, EditSetting \/ ReviewSettings \/ ApplySettings \/ FollowSettings
  PROVE  IInv'
<1>0. part = "settings"
  BY DEF EditSetting, ReviewSettings, ApplySettings, FollowSettings
<1>s. /\ SettingsOK /\ form \in SettingsForm /\ form.follow \in 0 .. Len(ops)
  BY <1>0 DEF IInv, FormOK, SettingsOK
<1>1. ASSUME UNCHANGED <<shellVars, config>>,
             form' \in SettingsForm, form'.follow = form.follow,
             form'.saved \in {0, form.saved}, form'.awaits = form.awaits, reading' = reading,
             form'.review => form.review \/ config # None
      PROVE  FormOK'
  <2>1. part' = part /\ ops' = ops /\ config' = config /\ \A id : Seen(id) => Seen(id)'
    BY <1>1 DEF shellVars, Seen
  <2>2. SettingsOK'
    BY <1>1, <1>s, <2>1 DEF SettingsOK
  <2> QED
    BY <1>0, <2>1, <2>2 DEF FormOK
<1>2. CASE EditSetting
  <2>1. PICK v \in Shown : form' \in {[form EXCEPT !.draft = v, !.saved = 0], [form EXCEPT !.draft = v]}
    BY <1>2 DEF EditSetting, Only, Change, Shown
  <2>2. UNCHANGED <<agentVars, host, drops, shellVars, config, reading>>
    BY <1>2 DEF EditSetting, Only
  <2>3. /\ form' \in SettingsForm /\ form'.follow = form.follow /\ form'.saved \in {0, form.saved}
        /\ form'.awaits = form.awaits /\ form'.review = form.review
    <3>1. CASE form' = [form EXCEPT !.draft = v, !.saved = 0]
      BY <1>s, <3>1 DEF SettingsForm
    <3>2. CASE form' = [form EXCEPT !.draft = v]
      BY <1>s, <3>2 DEF SettingsForm
    <3> QED
      BY <2>1, <3>1, <3>2
  <2> QED
    BY <1>1, <2>2, <2>3, OnlyForm
<1>3. CASE ReviewSettings
  <2>1. PICK b \in BOOLEAN : form' = [form EXCEPT !.review = b]
    BY <1>3 DEF ReviewSettings, Only, Change
  <2>2. UNCHANGED <<agentVars, host, drops, shellVars, config, reading>>
    BY <1>3 DEF ReviewSettings, Only
  <2>4. config # None
    BY <1>3 DEF ReviewSettings
  <2>3. /\ form' \in SettingsForm /\ form'.follow = form.follow /\ form'.saved \in {0, form.saved}
        /\ form'.awaits = form.awaits
    BY <1>s, <2>1 DEF SettingsForm
  <2> QED
    BY <1>1, <2>2, <2>3, <2>4, OnlyForm
<1>4. CASE ApplySettings
  <2>1. PICK v \in Shown : v = IF changed THEN form.draft ELSE None
    BY <1>s DEF Shown, SettingsForm
  <2>2. /\ Mutate(Update(v, config.rev))
        /\ UNCHANGED <<agentVars, host, drops, part, ops, known, status, form, config, reading>>
    BY <1>4, <2>1 DEF ApplySettings, Unread
  <2>3. config \in Snapshot /\ Fresh(config)
    BY <1>4, <1>s DEF ApplySettings, SettingsOK, IInv, ReadOK
  <2>4. PICK r : r = Update(v, config.rev)
    OBVIOUS
  <2>5. /\ r.kind = "config.update" /\ r.value = v /\ r.rev = config.rev /\ r.shown = config.value
        /\ r \in Request
    BY <2>3, <2>4 DEF Update, Plain, Request, Kinds, Snapshot, Shown
  <2>6. Reviewed(r)
    BY <2>3, <2>5 DEF Reviewed, Fresh
  <2>7. FormOK'
    BY <2>2, SameForm DEF IInv
  <2> QED
    BY <2>2, <2>4, <2>5, <2>6, <2>7, Posted
<1>5. CASE FollowSettings
  <2>1. PICK outcome : outcome = ops[form.follow].status
    OBVIOUS
  <2>2. /\ form.follow \in 1 .. Len(ops) /\ outcome \in Poll
        /\ UNCHANGED <<agentVars, host, drops, shellVars, config>>
    <3>1. form.follow \in 1 .. Len(ops) /\ ops \in Seq(Record)
      BY <1>5, <1>s DEF FollowSettings, IInv, OpsOK, ShellTypeOK
    <3>2. ops[form.follow] \in Record
      BY <3>1
    <3> QED
      BY <1>5, <2>1, <3>1, <3>2 DEF FollowSettings, Record, Poll
  <2>3. CASE outcome = "succeeded"
    <3>1. /\ form' = [form EXCEPT !.poll = outcome, !.draft = None, !.awaits = form.follow]
          /\ reading' = [snapshot |-> None]
      BY <1>5, <2>1, <2>3 DEF FollowSettings, Change
    <3>2. /\ form' \in SettingsForm /\ form'.follow = form.follow /\ form'.awaits = form.follow
          /\ form'.saved = form.saved /\ form'.review = form.review
      BY <1>s, <2>2, <3>1 DEF SettingsForm, Shown
    <3>3. reading' \in Fetch /\ reading' # None /\ reading'.snapshot = None
      BY <3>1, PagesAssumption DEF Fetch
    <3>4. /\ part' = part /\ ops' = ops /\ config' = config /\ host' = host
          /\ \A id : Seen(id) => Seen(id)'
      BY <2>2 DEF shellVars, Seen
    <3>5. SettingsOK'
      BY <1>s, <2>1, <2>2, <2>3, <3>2, <3>3, <3>4 DEF SettingsOK, Seen
    <3>6. ReadOK'
      BY <1>0, <3>3, <3>4 DEF IInv, ReadOK, Fresh
    <3>7. HostOK' /\ OpsOK'
      BY <2>2 DEF IInv, HostOK, AgentTypeOK, EnrolledIsAgent, agentVars, OpsOK, ShellTypeOK,
                  Recorded, Reviewed, shellVars
    <3> QED
      BY <1>0, <3>4, <3>5, <3>6, <3>7 DEF IInv, FormOK
  <2>4. CASE outcome # "succeeded"
    <3>1. form' = [form EXCEPT !.poll = outcome] /\ reading' = reading
      BY <1>5, <2>1, <2>4 DEF FollowSettings, Change
    <3>2. /\ form' \in SettingsForm /\ form'.follow = form.follow /\ form'.saved \in {0, form.saved}
          /\ form'.awaits = form.awaits /\ form'.review = form.review
      BY <1>s, <2>2, <3>1 DEF SettingsForm
    <3> QED
      BY <1>1, <2>2, <3>1, <3>2, OnlyForm
  <2> QED
    BY <2>3, <2>4
<1> QED
  BY <1>2, <1>3, <1>4, <1>5

-----------------------------------------------------------------------------
(* The other pages *)

\* Whether the report of the inventory ends a wait or not.
LEMMA InventoryForm ==
  ASSUME NEW f \in ModsForm, NEW s \in Shown
  PROVE  Inventory(f, s) \in ModsForm /\ Inventory(f, s).follow \in {0, f.follow}
BY DEF Inventory, ModsForm, Poll

\* The load order.
LEMMA ModsStep ==
  ASSUME IInv, Mods
  PROVE  IInv'
<1>0. part = "mods"
  BY DEF Mods, Arrange, DiscardOrReview, SaveMods, FollowMods
<1>s. form \in ModsForm /\ form.follow \in 0 .. Len(ops) /\ status \in Shown
  BY <1>0 DEF IInv, FormOK, OpsOK, ShellTypeOK, Shown
<1>1. ASSUME UNCHANGED shellVars, form' \in ModsForm, form'.follow \in {0, form.follow}
      PROVE  FormOK'
  BY <1>0, <1>1, <1>s DEF FormOK, shellVars
<1>2. CASE Arrange
  <2>1. PICK v \in Values : form' = [form EXCEPT !.list = v, !.dirty = TRUE]
    BY <1>2 DEF Arrange, Only, Change
  <2>2. form' \in ModsForm /\ form'.follow = form.follow
    BY <1>s, <2>1 DEF ModsForm, Shown
  <2> QED
    BY <1>1, <1>2, <2>2, OnlyForm DEF Arrange, Only
<1>3. CASE DiscardOrReview
  <2>1. PICK f : f = [form EXCEPT !.dirty = FALSE]
    OBVIOUS
  <2>2. PICK g : g = [form EXCEPT !.review = ~form.review]
    OBVIOUS
  <2>6. f \in ModsForm /\ f.follow = form.follow
    BY <1>s, <2>1 DEF ModsForm
  <2>7. g \in ModsForm /\ g.follow = form.follow
    BY <1>s, <2>2 DEF ModsForm
  <2>5. form' = Inventory(f, status) \/ form' = g
    BY <1>3, <2>1, <2>2 DEF DiscardOrReview, Only, Change
  <2>3. form' \in ModsForm /\ form'.follow \in {0, form.follow}
    BY <1>s, <2>5, <2>6, <2>7, InventoryForm
  <2>4. UNCHANGED <<agentVars, host, drops, shellVars, config, reading>>
    BY <1>3 DEF DiscardOrReview, Only
  <2> QED
    BY <1>1, <2>3, <2>4, OnlyForm
<1>4. CASE SaveMods
  <2>1. PICK r : r = [Plain("mods.configure") EXCEPT !.value = form.list]
    OBVIOUS
  <2>2. r \in Request /\ r.kind = "mods.configure"
    BY <1>s, <2>1, PlainRequests DEF Request, Kinds, ModsForm, Shown
  <2>3. /\ Mutate(r)
        /\ UNCHANGED <<agentVars, host, drops, part, ops, known, status, form, config, reading>>
    BY <1>4, <2>1 DEF SaveMods, Unread
  <2>4. FormOK'
    BY <2>3, SameForm DEF IInv
  <2>5. Reviewed(r)
    BY <2>2 DEF Reviewed
  <2> QED
    BY <2>2, <2>3, <2>4, <2>5, Posted
<1>5. CASE FollowMods
  <2>1. PICK outcome : outcome = ops[form.follow].status
    OBVIOUS
  <2>2. outcome \in Poll
    <3>1. form.follow \in 1 .. Len(ops) /\ ops \in Seq(Record)
      BY <1>5, <1>s DEF FollowMods, IInv, OpsOK, ShellTypeOK
    <3>2. ops[form.follow] \in Record
      BY <3>1
    <3> QED
      BY <2>1, <3>2 DEF Record, Poll
  <2>3. PICK f : f = [form EXCEPT !.follow = 0, !.poll = "none"]
    OBVIOUS
  <2>9. f \in ModsForm /\ f.follow = 0
    BY <1>s, <2>3 DEF ModsForm, Poll
  <2>4. /\ form' = Inventory(f, status) \/ form' = [form EXCEPT !.poll = outcome]
        /\ drops' = drops \/ Drop
        /\ UNCHANGED <<agentVars, host, shellVars, config, reading>>
    BY <1>5, <2>1, <2>3 DEF FollowMods, Change, Unread
  <2>5. form' \in ModsForm /\ form'.follow \in {0, form.follow}
    <3>1. CASE form' = Inventory(f, status)
      BY <1>s, <2>9, <3>1, InventoryForm
    <3>2. CASE form' = [form EXCEPT !.poll = outcome]
      BY <1>s, <2>2, <3>2 DEF ModsForm
    <3> QED
      BY <2>4, <3>1, <3>2
  <2>6. HostOK'
    <3>1. drops' \in 0 .. MaxDrops
      BY <2>4, StatusAssumption DEF Drop, IInv, HostOK, AgentTypeOK
    <3> QED
      BY <2>4, <3>1 DEF IInv, HostOK, AgentTypeOK, EnrolledIsAgent, agentVars
  <2>7. OpsOK'
    BY <2>4 DEF IInv, OpsOK, ShellTypeOK, Recorded, Reviewed, shellVars
  <2>8. ReadOK'
    BY <2>4 DEF IInv, ReadOK, Fresh, shellVars
  <2> QED
    BY <1>1, <2>4, <2>5, <2>6, <2>7, <2>8 DEF IInv
<1> QED
  BY <1>2, <1>3, <1>4, <1>5 DEF Mods

\* The Workshop card.
LEMMA WorkshopStep ==
  ASSUME IInv, Workshop
  PROVE  IInv'
<1>0. part = "workshop"
  BY DEF Workshop, CheckUpdates, ReviewUpdate, ApplyUpdate, FollowCheck, FollowUpdate
<1>s. /\ form \in WorkshopForm /\ form.follow \in 0 .. Len(ops) /\ form.check \in 0 .. Len(ops)
      /\ ops \in Seq(Record) /\ Len(ops) \in Nat
  BY <1>0 DEF IInv, FormOK, OpsOK, ShellTypeOK
<1>o. \A id \in 0 .. Len(ops) : id # 0 => ops[id].status \in Poll
  <2>1. \A i \in 1 .. Len(ops) : ops[i] \in Record
    BY <1>s
  <2> QED
    BY <1>s, <2>1 DEF Record, Poll
<1>1. ASSUME UNCHANGED <<part, ops>>, form' \in WorkshopForm,
             form'.follow \in {0, form.follow}, form'.check \in {0, form.check}
      PROVE  FormOK'
  BY <1>0, <1>1, <1>s DEF FormOK
<1>2. CASE CheckUpdates
  <2>1. /\ Mutate(Plain("mods.update.check")) /\ form' = [form EXCEPT !.follow = 0, !.poll = "none"]
        /\ UNCHANGED <<agentVars, host, drops, part, ops, known, status, config, reading>>
    BY <1>2 DEF CheckUpdates, Change, Unread
  <2>2. form' \in WorkshopForm /\ form'.follow = 0 /\ form'.check = form.check
    BY <1>s, <2>1 DEF WorkshopForm, Poll
  <2>3. PICK r \in Request : r = Plain("mods.update.check") /\ Reviewed(r)
    BY PlainRequests DEF Kinds
  <2> QED
    BY <1>1, <2>1, <2>2, <2>3, Posted
<1>3. CASE ReviewUpdate
  <2>1. form' = [form EXCEPT !.review = ~form.review]
    BY <1>3 DEF ReviewUpdate, Only, Change
  <2>2. form' \in WorkshopForm /\ form'.follow = form.follow /\ form'.check = form.check
    BY <1>s, <2>1 DEF WorkshopForm
  <2>3. UNCHANGED <<agentVars, host, drops, shellVars, config, reading>>
    BY <1>3 DEF ReviewUpdate, Only
  <2> QED
    BY <1>1, <2>2, <2>3, OnlyForm DEF shellVars
<1>4. CASE ApplyUpdate
  <2>1. /\ Mutate(Plain("mods.update.apply"))
        /\ UNCHANGED <<agentVars, host, drops, part, ops, known, status, form, config, reading>>
    BY <1>4 DEF ApplyUpdate, Unread
  <2>2. PICK r \in Request : r = Plain("mods.update.apply") /\ Reviewed(r)
    BY PlainRequests DEF Kinds
  <2>3. FormOK'
    BY <2>1, SameForm DEF IInv
  <2> QED
    BY <2>1, <2>2, <2>3, Posted
<1>5. CASE FollowCheck
  <2>1. PICK outcome : outcome = ops[form.check].status
    OBVIOUS
  <2>4. PICK found \in IF outcome = "succeeded" THEN BOOLEAN ELSE {FALSE} :
          form' = [form EXCEPT !.checked = outcome, !.offer = found]
    BY <1>5, <2>1 DEF FollowCheck, Only, Change
  <2>5. found \in BOOLEAN /\ outcome \in Poll
    BY <1>5, <1>s, <1>o, <2>1, <2>4 DEF FollowCheck
  <2>2. form' \in WorkshopForm /\ form'.follow = form.follow /\ form'.check = form.check
    BY <1>s, <2>4, <2>5 DEF WorkshopForm
  <2>3. UNCHANGED <<agentVars, host, drops, shellVars, config, reading>>
    BY <1>5 DEF FollowCheck, Only
  <2> QED
    BY <1>1, <2>2, <2>3, OnlyForm DEF shellVars
<1>6. CASE FollowUpdate
  <2>1. PICK outcome : outcome = ops[form.follow].status
    OBVIOUS
  <2>2. outcome \in Poll
    BY <1>6, <1>s, <1>o, <2>1 DEF FollowUpdate
  <2>3. \/ form' = [form EXCEPT !.poll = outcome]
        \/ form' = [form EXCEPT !.poll = outcome, !.check = 0, !.checked = "none",
                                !.offer = FALSE, !.review = FALSE]
    <3>1. CASE outcome = "succeeded"
      BY <1>6, <2>1, <3>1 DEF FollowUpdate, Only, Change
    <3>2. CASE outcome # "succeeded"
      BY <1>6, <2>1, <3>2 DEF FollowUpdate, Only, Change
    <3> QED
      BY <3>1, <3>2
  <2>4. /\ form' \in WorkshopForm /\ form'.follow = form.follow
        /\ form'.check \in {0, form.check}
    <3>1. CASE form' = [form EXCEPT !.poll = outcome]
      BY <1>s, <2>2, <3>1 DEF WorkshopForm
    <3>2. CASE form' = [form EXCEPT !.poll = outcome, !.check = 0, !.checked = "none",
                                    !.offer = FALSE, !.review = FALSE]
      BY <1>s, <2>2, <3>2 DEF WorkshopForm, Poll
    <3> QED
      BY <2>3, <3>1, <3>2
  <2>5. UNCHANGED <<agentVars, host, drops, shellVars, config, reading>>
    BY <1>6 DEF FollowUpdate, Only
  <2> QED
    BY <1>1, <2>4, <2>5, OnlyForm DEF shellVars
<1> QED
  BY <1>2, <1>3, <1>4, <1>5, <1>6 DEF Workshop

\* The access editor: what it sends is what it was opened with, or typed.
LEMMA AccessStep ==
  ASSUME IInv, Access
  PROVE  IInv'
<1>0. part = "access" /\ status \in Shown
  BY DEF Access, OpenEditor, Type, SaveAccess, OtherSetting, IInv, OpsOK, ShellTypeOK, Shown
<1>s. form \in AccessForm /\ ((form.open /\ ~form.typed) => form.value = status)
  BY <1>0 DEF IInv, FormOK
<1>1. ASSUME UNCHANGED shellVars, form' \in AccessForm,
             (form'.open /\ ~form'.typed) => form'.value = status
      PROVE  FormOK'
  BY <1>0, <1>1 DEF FormOK, shellVars
<1>2. CASE OpenEditor
  <2>1. /\ \/ form' = [form EXCEPT !.open = TRUE, !.value = status, !.typed = FALSE]
           \/ form' = [form EXCEPT !.open = FALSE]
        /\ UNCHANGED <<agentVars, host, drops, shellVars, config, reading>>
    BY <1>2 DEF OpenEditor, Only, Change
  <2>2. form' \in AccessForm /\ ((form'.open /\ ~form'.typed) => form'.value = status)
    <3>1. CASE form' = [form EXCEPT !.open = TRUE, !.value = status, !.typed = FALSE]
      BY <1>0, <1>s, <3>1 DEF AccessForm
    <3>2. CASE form' = [form EXCEPT !.open = FALSE]
      BY <1>s, <3>2 DEF AccessForm
    <3> QED
      BY <2>1, <3>1, <3>2
  <2> QED
    BY <1>1, <2>1, <2>2, OnlyForm
<1>3. CASE Type
  <2>1. PICK v \in Values : form' = [form EXCEPT !.value = v, !.typed = TRUE]
    BY <1>3 DEF Type, Only, Change
  <2>2. UNCHANGED <<agentVars, host, drops, shellVars, config, reading>>
    BY <1>3 DEF Type, Only
  <2>3. form' \in AccessForm /\ form'.typed
    BY <1>s, <2>1 DEF AccessForm, Shown
  <2> QED
    BY <1>1, <2>2, <2>3, OnlyForm
<1>4. CASE SaveAccess
  <2>1. PICK r : r = [Plain("settings.update") EXCEPT !.value = form.value,
                                                  !.shown = IF form.typed THEN None ELSE status]
    OBVIOUS
  <2>2. /\ Mutate(r) /\ form.open
        /\ UNCHANGED <<agentVars, host, drops, part, ops, known, status, form, config, reading>>
    BY <1>4, <2>1 DEF SaveAccess, Unread
  <2>3. /\ r.kind = "settings.update" /\ r.value = form.value
        /\ r.shown = IF form.typed THEN None ELSE status
        /\ r \in Request
    BY <1>0, <1>s, <2>1 DEF Plain, Request, Kinds, Shown, AccessForm
  <2>4. Reviewed(r)
    BY <1>s, <2>2, <2>3 DEF Reviewed, AccessForm
  <2>5. FormOK'
    BY <2>2, SameForm DEF IInv
  <2> QED
    BY <2>2, <2>3, <2>4, <2>5, Posted
<1>5. CASE OtherSetting
  <2>1. /\ form' = [form EXCEPT !.value = status, !.typed = FALSE]
        /\ UNCHANGED <<agentVars, host, drops, shellVars, config, reading>>
    BY <1>5 DEF OtherSetting, Only, Change
  <2>2. form' \in AccessForm /\ form'.value = status
    BY <1>0, <1>s, <2>1 DEF AccessForm
  <2>3. status' = status
    BY <2>1 DEF shellVars
  <2> QED
    BY <1>1, <2>1, <2>2, <2>3, OnlyForm
<1> QED
  BY <1>2, <1>3, <1>4, <1>5 DEF Access

\* The console: an answer is shown under the capability that has been run.
LEMMA ConsoleStep ==
  ASSUME IInv, Console
  PROVE  IInv'
<1>0. part = "console"
  BY DEF Console, Select, RunNow, Output
<1>s. /\ form \in ConsoleForm
      /\ form.output # None => form.output = form.selected
      /\ form.running # None => form.running = form.selected
  BY <1>0 DEF IInv, FormOK
<1>1. UNCHANGED <<agentVars, host, drops, shellVars, config, reading>>
  BY DEF Console, Select, RunNow, Output, Only
<1>2. /\ form' \in ConsoleForm
      /\ form'.output # None => form'.output = form'.selected
      /\ form'.running # None => form'.running = form'.selected
  <2>1. CASE Select
    BY <2>1 DEF Select, Only, Change, ConsoleForm, Choices
  <2>2. CASE RunNow
    BY <1>s, <2>2 DEF RunNow, Only, Change, ConsoleForm, Choices
  <2>3. CASE Output
    BY <1>s, <2>3 DEF Output, Only, Change, ConsoleForm, Choices
  <2> QED
    BY <2>1, <2>2, <2>3 DEF Console
<1>3. FormOK'
  BY <1>0, <1>1, <1>2 DEF FormOK, shellVars
<1> QED
  BY <1>1, <1>3, OnlyForm

-----------------------------------------------------------------------------
(* What reaches all of them *)

\* A page that is opened again has nothing to report.
LEMMA LeaveStep ==
  ASSUME IInv, Leave
  PROVE  IInv'
<1>0. /\ Drop /\ form' = Blank /\ part # "console"
      /\ post' = IF post = None THEN None ELSE [post EXCEPT !.attached = FALSE]
      /\ UNCHANGED <<agentVars, host, part, ops, known, status, config, reading>>
  BY DEF Leave, Change
<1>1. HostOK'
  <2>1. drops' \in 0 .. MaxDrops
    BY <1>0, StatusAssumption DEF Drop, IInv, HostOK, AgentTypeOK
  <2> QED
    BY <1>0, <2>1 DEF IInv, HostOK, AgentTypeOK, EnrolledIsAgent, agentVars
<1>2. OpsOK'
  <2>1. CASE post = None
    BY <1>0, <2>1 DEF IInv, OpsOK, ShellTypeOK, Recorded, Reviewed
  <2>2. CASE post # None
    <3>1. post' = [post EXCEPT !.attached = FALSE] /\ post \in Posts
      BY <1>0, <2>2 DEF IInv, OpsOK
    <3>2. /\ post' \in Posts /\ post'.request = post.request /\ post'.state = post.state
          /\ post'.id = post.id
      BY <3>1 DEF Posts
    <3> QED
      BY <1>0, <2>2, <3>2 DEF IInv, OpsOK, ShellTypeOK, Recorded, Reviewed
  <2> QED
    BY <2>1, <2>2
<1>3. ReadOK'
  BY <1>0 DEF IInv, ReadOK, Fresh
<1>4. FormOK'
  <2>1. part \in {"settings", "mods", "workshop", "access"} /\ status \in Shown /\ Len(ops) \in Nat
    BY <1>0 DEF IInv, OpsOK, ShellTypeOK, Shown
  <2>2. part' = part /\ ops' = ops /\ status' = status
    BY <1>0
  <2>3. CASE part = "settings"
    BY <1>0, <2>1, <2>2, <2>3 DEF Blank, FormOK, SettingsOK, SettingsForm, Poll, Shown
  <2>4. CASE part = "mods"
    BY <1>0, <2>1, <2>2, <2>4 DEF Blank, FormOK, ModsForm, Poll
  <2>5. CASE part = "workshop"
    BY <1>0, <2>1, <2>2, <2>5 DEF Blank, FormOK, WorkshopForm, Poll
  <2>6. CASE part = "access"
    BY <1>0, <2>1, <2>2, <2>6 DEF Blank, FormOK, AccessForm, Shown
  <2> QED
    BY <2>1, <2>3, <2>4, <2>5, <2>6
<1> QED
  BY <1>1, <1>2, <1>3, <1>4 DEF IInv

\* A status: the access editor that is open starts over from it.
LEMMA RefreshStep ==
  ASSUME IInv, RefreshStatus
  PROVE  IInv'
<1>0. /\ status' = GetStatus /\ status' \in Shown /\ form' = Refreshed(status')
      /\ UNCHANGED <<agentVars, host, drops, part, ops, known, post, config, reading>>
  BY DEF RefreshStatus, Change, Unread, GetStatus, IInv, HostOK, AgentTypeOK, Shown
<1>1. HostOK'
  BY <1>0 DEF IInv, HostOK, AgentTypeOK, EnrolledIsAgent, agentVars
<1>2. OpsOK'
  BY <1>0 DEF IInv, OpsOK, ShellTypeOK, Recorded, Reviewed, Shown
<1>3. ReadOK'
  BY <1>0 DEF IInv, ReadOK, Fresh
<1>4. FormOK'
  <2>1. part \in {"settings", "mods", "workshop", "access", "console"} /\ FormOK
        /\ Len(ops) \in Nat
    BY DEF IInv, OpsOK, ShellTypeOK
  <2>2. CASE part \in {"settings", "workshop", "console"}
    <3>1. form' = form
      BY <1>0, <2>2 DEF Refreshed
    <3> QED
      BY <1>0, <2>1, <2>2, <3>1 DEF FormOK, SettingsOK, Seen
  <2>3. CASE part = "mods"
    <3>1. form' = Inventory(form, status') /\ form \in ModsForm /\ form.follow \in 0 .. Len(ops)
      BY <1>0, <2>1, <2>3 DEF Refreshed, FormOK
    <3>2. PICK s \in Shown : s = status'
      BY <1>0
    <3>3. form' \in ModsForm /\ form'.follow \in {0, form.follow}
      BY <3>1, <3>2, InventoryForm
    <3> QED
      BY <1>0, <2>1, <2>3, <3>1, <3>3 DEF FormOK
  <2>4. CASE part = "access"
    <3>1. form \in AccessForm
      BY <2>1, <2>4 DEF FormOK
    <3>2. form' \in AccessForm /\ ((form'.open /\ ~form'.typed) => form'.value = status')
      <4>1. CASE form.open
        <5>1. form' = [form EXCEPT !.value = status', !.typed = FALSE]
          BY <1>0, <2>4, <4>1 DEF Refreshed
        <5> QED
          BY <1>0, <3>1, <5>1 DEF AccessForm
      <4>2. CASE ~form.open
        BY <1>0, <2>4, <3>1, <4>2 DEF Refreshed
      <4> QED
        BY <4>1, <4>2
    <3> QED
      BY <1>0, <2>4, <3>2 DEF FormOK
  <2> QED
    BY <2>1, <2>2, <2>3, <2>4
<1> QED
  BY <1>1, <1>2, <1>3, <1>4 DEF IInv

\* The page goes on with the operation it has queued.
LEMMA AnswerStep ==
  ASSUME IInv, PostAnswered
  PROVE  IInv'
<1>0. /\ post \in Posts /\ post # None /\ post' = None
      /\ \/ form' = form
         \/ post.id \in 1 .. Len(ops) /\ form' = Continue(post.request, post.id)
      /\ UNCHANGED <<agentVars, host, drops, part, ops, known, status, config, reading>>
  BY DEF PostAnswered, Change, Unread, IInv, OpsOK, Posts
<1>1. HostOK'
  BY <1>0 DEF IInv, HostOK, AgentTypeOK, EnrolledIsAgent, agentVars
<1>2. OpsOK'
  BY <1>0 DEF IInv, OpsOK, ShellTypeOK, Recorded, Reviewed
<1>3. ReadOK'
  BY <1>0 DEF IInv, ReadOK, Fresh
<1>4. CASE form' = form
  <2>1. FormOK'
    BY <1>0, <1>4, SameForm DEF IInv
  <2> QED
    BY <1>1, <1>2, <1>3, <2>1 DEF IInv
<1>5. CASE post.id \in 1 .. Len(ops) /\ form' = Continue(post.request, post.id)
  <2> SUFFICES FormOK'
    BY <1>1, <1>2, <1>3 DEF IInv
  <2>1. PICK r, id : r = post.request /\ id = post.id
    OBVIOUS
  <2>2. /\ id \in 1 .. Len(ops) /\ id \in Nat /\ Len(ops) \in Nat /\ form' = Continue(r, id)
        /\ part \in {"settings", "mods", "workshop", "access", "console"} /\ FormOK
        /\ status \in Shown
    BY <1>5, <2>1 DEF IInv, OpsOK, ShellTypeOK, Shown
  <2>3. CASE part = "settings"
    <3>1. form' = [form EXCEPT !.review = FALSE, !.follow = id, !.poll = "none"] /\ SettingsOK
      BY <2>2, <2>3 DEF Continue, FormOK
    <3>2. /\ form' \in SettingsForm /\ form'.follow = id /\ ~form'.review
          /\ form'.saved = form.saved /\ form'.awaits = form.awaits
      BY <2>2, <3>1 DEF SettingsForm, SettingsOK, Poll
    <3>3. SettingsOK'
      BY <1>0, <2>2, <3>1, <3>2 DEF SettingsOK, Seen
    <3> QED
      BY <1>0, <2>3, <3>3 DEF FormOK
  <2>4. CASE part = "mods"
    <3>0. form \in ModsForm /\ form.follow \in 0 .. Len(ops)
      BY <2>2, <2>4 DEF FormOK
    <3>1. PICK f : f = [form EXCEPT !.review = FALSE, !.follow = id, !.poll = "none"]
      OBVIOUS
    <3>2. f \in ModsForm /\ f.follow = id
      BY <2>2, <3>0, <3>1 DEF ModsForm, Poll
    <3>3. form' = form \/ form' = Inventory(f, status)
      BY <2>2, <2>4, <3>1 DEF Continue
    <3>4. form' \in ModsForm /\ form'.follow \in {0, id, form.follow}
      BY <2>2, <3>0, <3>2, <3>3, InventoryForm
    <3> QED
      BY <1>0, <2>2, <2>4, <3>0, <3>4 DEF FormOK
  <2>5. CASE part = "workshop"
    <3>0. /\ form \in WorkshopForm
          /\ form.follow \in 0 .. Len(ops) /\ form.check \in 0 .. Len(ops)
      BY <2>2, <2>5 DEF FormOK
    <3>1. CASE r.kind = "mods.update.check"
      <4>1. form' = [form EXCEPT !.check = id, !.checked = "none", !.offer = FALSE]
        BY <2>2, <2>5, <3>1 DEF Continue
      <4>2. form' \in WorkshopForm /\ form'.check = id /\ form'.follow = form.follow
        BY <2>2, <3>0, <4>1 DEF WorkshopForm, Poll
      <4> QED
        BY <1>0, <2>2, <2>5, <3>0, <4>2 DEF FormOK
    <3>2. CASE r.kind = "mods.update.apply"
      <4>1. form' = [form EXCEPT !.follow = id, !.poll = "none", !.review = FALSE]
        BY <2>2, <2>5, <3>2 DEF Continue
      <4>2. form' \in WorkshopForm /\ form'.check = form.check /\ form'.follow = id
        BY <2>2, <3>0, <4>1 DEF WorkshopForm, Poll
      <4> QED
        BY <1>0, <2>2, <2>5, <3>0, <4>2 DEF FormOK
    <3>3. CASE r.kind \notin {"mods.update.check", "mods.update.apply"}
      <4>1. form' = form
        BY <2>2, <2>5, <3>3 DEF Continue
      <4> QED
        BY <1>0, <2>5, <3>0, <4>1 DEF FormOK
    <3> QED
      BY <3>1, <3>2, <3>3
  <2>6. CASE part = "access"
    <3>1. form' = [form EXCEPT !.open = FALSE] /\ form \in AccessForm
      BY <2>2, <2>6 DEF Continue, FormOK
    <3>2. form' \in AccessForm /\ ~form'.open
      BY <3>1 DEF AccessForm
    <3> QED
      BY <1>0, <2>6, <3>2 DEF FormOK
  <2>7. CASE part = "console"
    <3>1. form' = form
      BY <2>2, <2>7 DEF Continue
    <3> QED
      BY <1>0, <2>2, <2>7, <3>1 DEF FormOK
  <2> QED
    BY <2>2, <2>3, <2>4, <2>5, <2>6, <2>7
<1> QED
  BY <1>0, <1>4, <1>5

-----------------------------------------------------------------------------
(* The theorems *)

LEMMA Next1 == IInv /\ [Next]_vars => IInv'
<1> SUFFICES ASSUME IInv, [Next]_vars PROVE IInv'
  OBVIOUS
<1>1. CASE UNCHANGED vars
  <2>1. UNCHANGED <<agentVars, host, drops, shellVars, form, config, reading>>
    BY <1>1 DEF vars
  <2>2. FormOK'
    BY <2>1, SameForm DEF IInv, shellVars
  <2> QED
    BY <2>1, <2>2, OnlyForm
<1>2. CASE Beats(Agent)
  BY <1>2, AgentStep
<1>3. CASE part # "console" /\ (Server \/ Frame) /\ Unread
  BY <1>3, ServerStep, FrameStep DEF Unread
<1>4. CASE Settings
  BY <1>4, ReadingStep, SettingsStep DEF Settings
<1>5. CASE Mods \/ Workshop \/ Access \/ Console
  BY <1>5, ModsStep, WorkshopStep, AccessStep, ConsoleStep
<1>6. CASE Leave \/ RefreshStatus \/ PostAnswered
  BY <1>6, LeaveStep, RefreshStep, AnswerStep
<1> QED
  BY <1>1, <1>2, <1>3, <1>4, <1>5, <1>6 DEF Next

\* The invariant that every theorem below is drawn from.
LEMMA AlwaysIInv == Spec => []IInv
BY Init1, Next1, PTL DEF Spec

\* Type correctness of the agent's row, the API's operations and the pages.
THEOREM TypeCorrect == Spec => []TypeOK
BY AlwaysIInv, InvTypes, PTL

\* EnrolledIsAgent: of any number of hosts that enroll under one name, the one that is
\* told so is the agent of the server (POST /agent/v1/enroll and its unique index).
THEOREM ToldIsAgent == Spec => []EnrolledIsAgent
<1>1. IInv => EnrolledIsAgent
  BY DEF IInv, HostOK
<1> QED
  BY <1>1, AlwaysIInv, PTL

\* ReportedIsSo: "saved and re-read from the host" is shown with a configuration that is
\* at least as new as the update it speaks of (ServerConfiguration.tsx), and the console
\* shows the answer of the capability it names (RconConsole.tsx).
THEOREM ReportIsTrue == Spec => []ReportedIsSo
<1>1. IInv => ReportedIsSo
  BY DEF IInv, FormOK, SettingsOK, ReportedIsSo
<1> QED
  BY <1>1, AlwaysIInv, PTL

\* Only the operation that is carried out is done by a step.
LEMMA DoneIsLast ==
  ASSUME IInv, [Next]_vars, NEW k, Done(k)
  PROVE  Succeeds /\ ops[Len(ops)].request.kind = k /\ Len(ops) \in 1 .. Len(ops)
<1>0. ops \in Seq(Record) /\ Len(ops) \in Nat
  BY DEF IInv, OpsOK, ShellTypeOK
<1>1. PICK i \in 1 .. Len(ops) : /\ ops[i].request.kind = k /\ ops[i].status = "active"
                                 /\ ops'[i].status = "succeeded"
  BY DEF Done
<1>2. ops' # ops
  BY <1>1
<1>3. Server
  <2>1. ~UNCHANGED vars
    BY <1>2 DEF vars, shellVars
  <2>2. ~Beats(Agent)
    BY <1>2 DEF Beats, shellVars
  <2>3. ~Frame
    BY <1>2 DEF Frame, RefreshOperations, QueueLifecycle, AddMod, ResetWorld
  <2>4. ~Settings
    BY <1>2 DEF Settings, Reload, ReadOnHost, ReadArrives, ReadFails, EditSetting, ReviewSettings,
                ApplySettings, FollowSettings, Only, shellVars
  <2>5. ~Mods
    BY <1>2 DEF Mods, Arrange, DiscardOrReview, SaveMods, FollowMods, Only, shellVars
  <2>6. ~Workshop
    BY <1>2 DEF Workshop, CheckUpdates, ReviewUpdate, ApplyUpdate, FollowCheck, FollowUpdate, Only,
                shellVars
  <2>7. ~Access /\ ~Console
    BY <1>2 DEF Access, OpenEditor, Type, SaveAccess, OtherSetting, Console, Select, RunNow, Output, Only,
                shellVars
  <2>8. ~Leave /\ ~RefreshStatus /\ ~PostAnswered
    BY <1>2 DEF Leave, RefreshStatus, PostAnswered
  <2> QED
    BY <2>1, <2>2, <2>3, <2>4, <2>5, <2>6, <2>7, <2>8 DEF Next
<1>4. ASSUME NEW r, Queue(r) PROVE FALSE
  <2>1. ops'[i] = ops[i]
    BY <1>0, <1>4 DEF Queue
  <2> QED
    BY <1>1, <2>1
<1>5. ~PostArrives /\ ~Elsewhere
  BY <1>2, <1>4 DEF PostArrives, Elsewhere
<1>6. ~Fails
  <2>1. ASSUME Fails PROVE FALSE
    <3>1. ops' = [ops EXCEPT ![Len(ops)].status = "failed", ![Len(ops)].result = 0]
      BY <2>1 DEF Fails, Settle
    <3>2. CASE i = Len(ops)
      <4>1. ops[i] \in Record
        BY <1>0
      <4>2. ops'[i].status = "failed"
        BY <1>0, <3>1, <3>2, <4>1 DEF Record
      <4> QED
        BY <1>1, <4>2
    <3>3. CASE i # Len(ops)
      BY <1>0, <1>1, <3>1, <3>3
    <3> QED
      BY <3>2, <3>3
  <2> QED
    BY <2>1
<1>7. Succeeds
  BY <1>3, <1>5, <1>6 DEF Server
<1>8. i = Len(ops)
  <2>1. PICK n : n = host'.rev
    OBVIOUS
  <2>2. ops' = [ops EXCEPT ![Len(ops)].status = "succeeded", ![Len(ops)].result = n]
    BY <1>7, <2>1 DEF Succeeds, Settle
  <2> QED
    BY <1>0, <1>1, <2>2
<1> QED
  BY <1>1, <1>7, <1>8

\* AppliedAsReviewed: an update replaces the configuration its user saw as the current
\* one, and an access update keeps what its user left alone, whatever was reloaded, queued
\* by others, reported late or written meanwhile (the revision check of config.update, and
\* the editor that follows the status).
THEOREM AppliedIsReviewed == Spec => AppliedAsReviewed
<1>1. ASSUME IInv, [Next]_vars
      PROVE  [/\ Done("config.update") => host.value = ops[Len(ops)].request.shown
              /\ Done("settings.update") =>
                   LET r == ops[Len(ops)].request IN r.shown # None => r.value = r.shown]_vars
  <2>0. \A i \in 1 .. Len(ops) : Reviewed(ops[i].request)
    BY <1>1 DEF IInv, OpsOK, Recorded
  <2>1. ASSUME Done("config.update") PROVE host.value = ops[Len(ops)].request.shown
    <3>1. /\ Succeeds /\ ops[Len(ops)].request.kind = "config.update"
          /\ Len(ops) \in 1 .. Len(ops)
      BY <1>1, <2>1, DoneIsLast
    <3>2. ops[Len(ops)].request.rev = host.rev
      BY <3>1 DEF Succeeds, CarriedOut
    <3> QED
      BY <2>0, <3>1, <3>2 DEF Reviewed
  <2>2. ASSUME Done("settings.update"), ops[Len(ops)].request.shown # None
        PROVE  ops[Len(ops)].request.value = ops[Len(ops)].request.shown
    <3>1. ops[Len(ops)].request.kind = "settings.update" /\ Len(ops) \in 1 .. Len(ops)
      BY <1>1, <2>2, DoneIsLast
    <3> QED
      BY <2>0, <2>2, <3>1 DEF Reviewed
  <2> QED
    BY <2>1, <2>2
<1> QED
  BY <1>1, AlwaysIInv, PTL DEF Spec, AppliedAsReviewed
=============================================================================
