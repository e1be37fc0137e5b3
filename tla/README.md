# A TLA+ model of ZomboidServer-arm

ZomboidServer-arm runs a Project Zomboid server on an ARM host and operates it
from a web panel. The panel's API (the *control plane*, TypeScript on
PostgreSQL) queues operations; a *host agent* (bash) on the game host polls for
them, runs privileged scripts and reports back; a second agent (Go) keeps a
WebSocket open for direct commands; the panel itself (React) polls and follows
streams. This directory holds TLA+ modules for the protocol parts of that
system, configurations that model-check them with TLC, and theorems checked
with TLAPS. `PROJECT.json` maps every definition to the source lines it models.

## 1. Inventory

| Component | State | Operations | What is hard | What makes it correct |
|---|---|---|---|---|
| Operation queue, `panel/apps/api/src/agent-service.ts` | tables `operations`, `operation_events` | enqueue, claim, progress, logs, complete, recover, trim | handlers interleave at every await; leases expire; queries fail between steps | one active operation per server; each operation has one life and one verdict; the event feed tells it in order |
| Read waiters, same file | maps of promises and cached results | readSettings, readConfig, completeJob | the result may precede the promise; timers; restarts | every reader is answered, none is answered twice |
| Poll agent, `scripts/pz-agent.sh` | shell variables, dead letters, `active-job` | claim, execute, post, retry, reconcile | lost and late requests, restarts, a worker that outlives an iteration | an operation runs at most once, one at a time, and its verdict reaches the panel |
| Long-job worker, same file | its process, `active-job`, result file | persist, run, renew, flush, complete, clean up | dies at any step; disk errors | keeps its lease; its verdict is not lost |
| Console stream, `pz-agent.sh` and `appendConsoleLogs` | file position, event cursor, fingerprint, resync id; `console_log_cursor` | delta, resync, save state, append | log rotation, repeats, a state file that is not saved | lines are stored once, in order and without a gap |
| SSE streams, `index.ts`, and the console page | the tables' ids, a cursor per response, the page's window | list, poll, send, receive, resume, clear | ids drawn before commits, trimming behind a slow client, reconnects | the page has no hole and gets the last line |
| Enrollment, heartbeat, status, `agent-service.ts` | `agents`, `last_status` | enroll, heartbeat, getStatus | two hosts of one name, lost answers, late heartbeats | who was told it is enrolled is the agent |
| Web panel, `panel/apps/web/src` | query cache, one mutation, local state of each page | read, draft, review, submit, follow, reload | answers and polls arrive in any order; others change the same things | what is sent is what was seen; what is said is so; nothing waits for ever |
| Sessions and login limit, `auth.ts`, `App.tsx` | sessions, attempts per account and client; the browser's cookie and view | login, logout, currentUser, prune; sign in and out | a check before and a record after awaits; late answers of old sessions | the limit holds; a sign-out holds; an expired session is noticed |
| Realtime broker, `realtime-broker.ts`, and the WebSocket handler of `index.ts` | connections, pending commands | connect, disconnect, receive, execute, time out | reconnects, late answers, authentication that is awaited | every command ends once; an old socket changes nothing |
| Realtime client, `host-agent/internal/realtime` | connection, semaphore of 4, write mutex | dial, hello, execute, write, ping, reconnect | goroutines share a connection | commands end before the broker's timer, or their result is dropped |
| Direct commands and audit, `index.ts`, `audit.ts` | `audit_events` | request, complete, fail | a failing audit write after the command | every executed command has a request row |
| Configuration update, `scripts/pz-config.py` | two files, journal, two originals, backups, lock | read, update, recover | crashes and power loss between any two file operations; editors that take no lock | both files change or neither; recovery always possible |
| Build update, `scripts/pz-build-update.sh` | install tree, rollback directory | swap, restore, commit | an error or a kill in the middle of the swap | the old build or the new one, never a mixture |
| Mod update, `scripts/pz-modupdate.sh` | LAST_CHECK, PENDING, EMPTY_SINCE | check, apply, auto | a timer against players who come and go | no restart after a sighting of players, installed items are loaded |
| Boot retry and watchdog, `boot-retry.sh`, `zomboid-watchdog.sh` | the unit, six attempts | restart, poll, give up | two restarters of one unit | a stop holds, nobody is left down |
| The rest: privileged dispatcher, executor, `pzctl`, installer, telemetry hook, admin bootstrap, activity page, contracts, migrations | files, or none | sequential | little | - |

Interactions. The panel calls the API; the API writes rows; the poll agent
calls `jobs/claim`, `jobs/:id/progress`, `jobs/:id/logs`, `jobs/:id/complete`,
`console` and `heartbeat`; browsers poll the rows, by queries and through SSE.
`settings.read` and `config.read` are operations whose result travels through
memory, not through the table. Direct commands go from the API through the
broker to the Go agent. On the host, the agent runs the configuration, build
and mod updates through the privileged dispatcher; the watchdog, the mod update
timer and `pzctl` touch the same service unit and files without going through
the queue.

## 2. The modules

```
OperationStore            the rows, and the conditional statements run on them
  OperationQueue          the API's handlers, one action per round trip   --implements--> OperationLifecycle
    MCOperationQueue      instances for TLC
    OperationQueueProofs  theorems for TLAPS
  HostAgent               the poll loop and its worker against the same rows
    MCHostAgent, HostAgentProofs
  ConfigTransaction       the configuration files on a disk that may lose power
    MCConfigTransaction, ConfigTransactionProofs
  ServiceUnit             the game server's unit: stop, boot retry, watchdog, systemd
    BuildUpdate           the swap of a server build, and its rollback
    ModUpdate             Workshop updates, by a job and by the timer
      HostMaintenance     both, with start, stop and restart jobs, on one unit
        MCHostMaintenance, HostMaintenanceProofs
  RealtimeChannel         broker, WebSocket and host client of direct commands  --implements--> DirectCommand
    MCRealtimeChannel, RealtimeChannelProofs
  EventStream             a table of rows, and a page that follows it by SSE
    ConsoleFeed           the console on its way to such a table
      MCConsoleFeed, ConsoleFeedProofs
  AgentStatus             enrollment, heartbeats and the status that is served
    ControlPanel          the frame of the panel: status, operations, one mutation
      PanelPages          the local state of each page
        MCPanelPages, PanelPagesProofs
  LoginLimiter            logins and their two limits
    PanelSession          one browser and its session
      MCPanelSession, PanelSessionProofs
```

**OperationStore** keeps, for each operation, its `status` ("absent" before the
insert) and `ttl`, what is left of its lease in ticks. Its operators are the
conditional statements of the transactions: `InsertRow` (guarded by the partial
unique index), `ClaimRow`, `RenewRow`, `FinishRow`, `RecoverRow`, and `Elapse`
for the passing of time. Both components use it, so that the agent is checked
against the very statements the queue is proved correct with. One server is
enough: enrollment creates one agent per server and every statement filters by
either.

**OperationQueue** gives each request handler a frame: `pc` (the await it
stands at), the operation it addresses, the row its recovery selected, a log
cursor, a verdict, and the cut its trim has computed. An action is what runs
between two awaits, or one transaction: `RecoverSelect`/`RecoverCommit`,
`ConflictCheck`/`EnqueueCommit`/`EnqueueConflict`,
`BusyCheck`/`PickCandidate`/`ClaimCommit`/`ClaimLost`,
`Begin...`/`ProgressCommit`/`LogCommit`/`CompleteCommit`/`CommitMissed`,
`TrimSelect`/`TrimDelete`, `Register`/`ReaderTimeout`. PostgreSQL's READ
COMMITTED makes a transaction of conditional updates on one row atomic as far
as other handlers can tell: the row lock is taken by the first update, whose
condition is evaluated again after the wait. The two selects of the conflict
check are a step of their own, since nothing locks what they read. `events` is
every event ever inserted and `floor` how many of the oldest are deleted.
`HandlerFails` stops a handler at any await (a rejected query), `ApiRestart`
stops all and forgets waiters and cached results.

**OperationLifecycle** is what the queue promises: operations live one at a
time from absent over queued and running to one verdict, and each transition is
announced in the feed in the same step.

**HostAgent** models `pz-agent.sh --poll`. `main.pc` is the place in the
iteration: dead letters, pending completion, fallback, the active-job file,
liveness of its process, reconciliation, claim, dispatch, execution of the
kinds the loop runs itself, completion, sleep. `worker.pc` is the place of the
background subshell. `active` is the active-job file, `letters` are the
dead-letter files, `pending` the shell variables of a retained completion,
`excusing` the workers that could not persist their file and say so. A request
is answered in one step, or the agent gives up after its attempts and a copy
may be in `net` and arrive at any later time, or never. `Refused` holds the
operations whose successful result the API's schema rejects, `Unwritable` those
whose state files the disk may refuse. `outcome` is what really happened on the
host. Exit of the agent for 401 and 403 is `AgentRestart`: systemd restarts the
unit, and kills its control group with the worker and its command.

**ConfigTransaction** models `pz-config.py`. `disk` is the directory as
processes see it: two files, the journal, two originals. `images` are the
directories a power loss may leave: `Change` adds one, `fsync_directory`
(`Flush`) leaves only the present one. An original also remembers whether its
data were synced. That is the contract of a journalling file system with
ordered metadata (ext4, xfs): entries reach the disk in the order of the calls,
and the latest of them may be missing. `client[c].pc` is the place of a
process: lock, recovery (`Discard`, or `Recover`, `Restore`, `Unlink`),
snapshot (`Parse`, then the hash), `Check`, `Recheck`, `Backup`,
`CopyOriginals`, `SyncCopies`, `Publish`, `Replace`, the same `Unlink`,
`Answer`. `mode` tells the initial recovery, the commit, and the recovery of a
commit that failed apart. A content is the set of changes it contains, so that
a lost, a half applied and a blind update look different. `EditBegins` and
`EditEnds` are `ini_set` of `common.sh`: it reads the server's file, and moves
its version over it later, without the lock.

**ServiceUnit** is the unit of the game server, and what the scripts share to
stop and start it. `server` is the unit's state; `call[p]` is where a script
(the agent's job, the timer) is in `graceful_stop_service` (`halt`) or in
`pz-boot-retry` (`start`, `watch`, `sample`), or how that has ended, which the
script then reads (`Returns`). `dog` is a watchdog between its two samples of
the CPU. The other variables are history: `halt` and `early` remember a stop by
a job and who was already about to start the unit then, `owed` the items
installed for a server that has not loaded them, `failed` those failures that a
property excuses. A failure it does not record may happen any number of times.

**BuildUpdate** models `pz-build-update.sh`. An entry of the install directory
(`Root`) or of `steamapps` (`Meta`) holds a build number, is absent, or is
torn. `pc` is the place in `update_build`, `install_downloaded_build` (`Move`,
`Copy`, `NextPart`) and `restore_build_rollback` (`Delete`, `Restore`); it
waits in `stop`, `boot` and `resume` for the helpers of `ServiceUnit`.

**ModUpdate** models `pz-modupdate.sh`. `apply` is the one run of `do_apply` that
holds the lock, for a job or for the timer, and `rows` what it has yet to
install; `tick` is the place of `do_auto`. `listed` are the items whose manifest
row is older than the Workshop, which is all that `check` computes. `pending`
and `emptyFor` are the state file, the latter as the age of `EMPTY_SINCE` in
ticks of the 30-minute timer. Whether a check is due at a tick is left open.
The players are what a count says, so they are not a variable; `quiet` remembers
how long ago a tick has counted some.

**HostMaintenance** puts the two updates next to each other: the agent runs one
job at a time (`job`, or the build update's `pc`), the timer runs in parallel.
`wanted` remembers what the last start, stop or restart job did.

**RealtimeChannel** models a direct command from the panel's request to the
process on the host and back. Connections are numbered as the host dials them.
The API's end of one is in `open` until its close handler runs, in `opening`
and `awaited` while it is authenticated, in `authenticated` afterwards;
`connection` is the broker's entry of the server with the registry announced
on it. `request[c].at` is the await at which the handler of a request stands: the
audit row before it (`audit`), the broker (`execute`, `pending`), the row after
it (`record`), the answer. `client` is the loop of `client.go`, `jobs` its
goroutines, `host` what became of the process. `wire` holds the messages
between the two; the host may long have dialed again when the API learns that a
connection has ended, and the other way round. A close handler runs at any time
after `ws.close`, at once being one of them. The buffer for messages that
arrive before the authentication is left out: the client sends nothing before
`control.ready`. What the registry says of a command is reduced to whether it
takes an administrator, and `HostRestart` may change that, as an update of the
program does.

**DirectCommand** is what the panel is promised: a command runs at most once,
and only with its row in the audit trail; a read (the configuration, the access
settings) may run without one but is only answered with one; success is
reported only of what has succeeded; what is refused never runs. A command
whose timer has fired may still run, and be answered as unavailable.

**EventStream** is a table with serial ids and the console page that follows
it. The operation events have the same table and stream, with other limits; their
page (`App.tsx:215-276`) is another one, which starts its stream at 0 and merges
what comes into the query cache. `lastId`, `open` and `rows` are the sequence, the ids of the open
transaction, and the committed rows that trims have left. A row lock taken
before the first insert is why `open` holds one transaction's ids at a time;
without it, an id could become visible after a larger one had been sent
(`InsertUnlocked` is the mutant). `history` is the query of the newest rows: where
it is, what it was answered, and `isFetched`, which opens the stream, also after a
query that failed. That one is sent again (`AskAgain`), by the window's focus or
a page opened again, and its answer replaces what the page shows; when the stream
was opened before, `history.state` is then "late". `Remembered` is what the query
cache has when the page is opened again. `stream` is the `EventSource` and
the response of `pollingSseResponse`, with its cursor and the events under way: it
connects again by itself after `Drop`, and never after `Refuse`, an answer other
than 200. `resume` is what it reconnects with; `view`, `cursor` and `boundary` are
the state of `ServerConsole.tsx`.

**ConsoleFeed** adds the way of the console there. A line is
`<<file, number>>`. `file` is the game's console file, `pump` the position of
the loop in `pz-agent.sh`, `saved` and `pending` its two state files, `sent`
the request it waits for, `wire` all requests the API has not served yet (those
given up too), `txns` those it is serving, `stored` the lines ever committed,
whose number is `console_log_cursor`, and `rebases` the table
`console_log_resyncs`. `excused` records three moments the protocol does
not survive, described below.

**AgentStatus** follows one value of the host, and its revision. `enrolling[h]`
is the place of the enrollment of host `h` between its two queries, `owner` the
host whose token the row has; `beats` are heartbeats under way, `seen` is
`last_status` while it is young enough to be served.

**ControlPanel** is `App.tsx` with the handlers behind it: the operations, the
`known` active one, the `status` query and `post`, the one mutation through
which everything is queued, with `attached` false once the page that called
`mutate` is gone. `CarriedOut` is what a request does to the host, also one whose
operation is failed while its worker goes on. The queue is reduced to what `OperationQueue` proves of it.

**PanelPages** has the local state of the open page in `form`: the draft,
review dialog and followed operation of the configuration; the arranged lists
of the load order; the check, offer and update of the Workshop card; the access
editor; the selected capability and the output of the realtime console. One
page is open at a time, as in the panel. An effect of React runs in the step
that changes what it depends on; a query has its answer (`config`, `status`,
`form.poll`) and, where the order of answers matters, its fetch (`reading`).

**LoginLimiter** is `login` of `auth.ts`. `clients` and `account` are the two
maps of attempts, `logins[s].at.stage` the await a login stands at: the query
of the user, the comparison of the hash, the insertion of the session. Pruning,
the check and the first await are one action, as are the comparison's end and
the record of a failure: nothing runs in between.

**PanelSession** is one browser: its `cookie`, its `view`, and three requests
(`me`, a dashboard's `poll`, the sign-out) that remember the cookie they were
sent with. `Others` are logins from elsewhere; `Rotate` is `bootstrap-admin`.

## 3. The runs

| Run | Bounds | Question |
|---|---|---|
| `queue` | 2 panel requests, 1 agent request, an operation and a read, 4 calls begun, 3 events kept, 1 fault | is one operation active at a time? does each transaction keep the promised life cycle? does the queue move, is every reader answered once? |
| `queue_claims` | 1 panel request, 2 agent requests, 2 log cursors, no fault, otherwise the same | do overlapping claims hand an operation out once, with its events in order? are chunks of logs published once, in the order of their cursors, when their requests overlap, are repeated or come late? |
| `agent` | 2 long jobs and 1 blocking operation, 2 results rejected, files of 2 unwritable, 2 faults, leases of 2 ticks, 2 retries | does the host run one command, each once? are verdicts true, finished jobs accounted for, leases kept? is everything settled, every acceptable letter delivered? |
| `agent_lease` | 1 long job, 1 blocking operation, no fault | the README on leases, which the code does not keep to |
| `config` | 2 clients, 1 edit by a shell tool, 2 failures, kills or power losses, backups kept: 1 | is an update all or nothing, durable once reported, made against all others, and recoverable? which edits may it overwrite? |
| `config_backups` | 3 clients, backups kept: 2 instead of 10, no fault | the design document on backups, which the code violates |
| `maintenance` | 2 root entries, 1 of metadata, 1 build update, 1 item, 2 boot attempts, 2 ticks of emptiness; any failure any number of times, but 1 kind of those that properties excuse | does a server that listens run one build, all of it after an update? has it loaded what was installed? is it left down, or started after a stop? does the timer restart what it has seen busy? |
| `build_restored` | 2 root entries, 1 of metadata, a copy fails | the comment on the rollback, which the code violates |
| `realtime` | a command and an administrator's read, 3 connections, 1 fault, at most 1 pending and 1 running | is the broker's connection a live one? do commands keep the promise of `DirectCommand`? is every request answered, and the broker connected in the end? |
| `console` | 2 files of 2 lines, pages and windows of 2 rows, a retention of 3, 6 ids, batches of 2, an initial tail of 1, 1 fault of agent or API and 1 failure of the page, or 3 of the page: failed or refused requests, dropped streams, pages opened again | are lines stored once, in order, without a gap? does the page show them without a hole, and the last one in the end? |
| `panel` | 2 hosts, 2 values, 2 capabilities, 2 operations, 1 lost or late message | is what is sent what was seen? is what is said so? does a page wait for ever? is who was told it is enrolled the agent? |
| `sessions` | 2 clients, 2 logins under way, limits of 2 and 3, lockout and sessions of 2, 3 ticks, 2 passwords, 2 sessions, 1 fault | do the limits hold for logins that overlap? does a sign-out hold? is an expired session noticed? |

All runs but the three marked as violated pass. Each property has a mutant of a
definition, listed in `PROJECT.json`, that stands for a plausible bug in the
lines of that definition and that the run refutes.

Why these bounds. In `queue` two panel handlers and one of the agent meet at
every await: enqueue against enqueue, enqueue and claim against recovery, a
reader against the completion of its read. What needs two handlers of the agent
at once, a claim whose connection broke and the next poll, or two chunks of logs, is
`queue_claims`;
the fairness properties would not fit there, and its safety for any number of
handlers is proved. `MaxEvents` bounds the calls begun, so that all events of a
bounded run exceed the retention of 3 and trims happen while rows are still
written. `NeverHalfApplied` does not hold once an edit has been under way and
says so; the runs in which nobody edits are among those of `config`. Two
faults are a crash in the middle of a commit, and another one or a power loss
in the middle of its recovery; a third was checked once and adds nothing. In
`agent`, two long jobs are what it takes for the second to start while the
completion of the first is retried, and two faults for a lost answer that is
followed by a restart, or a late copy by a second one. Three connections are
one that is replaced, its successor, and one that takes over from both; limits
of 1 instead of 32 pending and 4 running commands make two commands reach them.
A window and page of 2 and a retention of 3 with 4 lines make the console's table
trim behind a slow page, leave a row behind a page, and let a page overflow in one
poll. Three failures of the page are a query that fails, its repetition that fails
or is late, and a lost connection or a page opened again; next to a fault of the
agent or the API one is enough to meet it (`FewFailures`, a constraint of the run:
no fair action needs a failure, so it cuts off nothing that liveness counts on). In `maintenance` the
jobs and ticks are not bounded; one build update takes part in every race with
the timer, the watchdog and systemd, two root entries can be of two builds, two
attempts of six let a boot retry fail and be interrupted, and two ticks leave
room for a sighting between the first and the last one of an empty period. In
`panel` the second
operation is somebody else's or a second one of the same page. Limits of 2 and
3 with 2 logins under way let both maps lock, and a lockout end.

Fairness.
* Queue: handlers go on (Node's event loop, and queries end), timers fire, time
  passes, and the agent's polls reach the claim (`SF`, since a poll may find
  itself behind another). Requests of the panel are not assumed to come.
* Agent: loop and worker go on and requests are answered or given up. Time
  passes (`SF`): the loop sleeps in every iteration, so it cannot run ahead of
  the clock. Recovery is assumed only where the loop is about to claim, as the
  claim's handler runs it.
* Configuration and maintenance: none is stated; only safety is checked.
* Realtime: handlers and messages go on, timers fire, an end which the other
  has closed is found closed (the client's pings, the API's idle timeout), and
  the client dials again. It is not assumed that a command on the host ends, nor
  that failures stop; the bound does the latter.
* Console: the agent's loop, the API's handlers and the browser's request,
  connection, polls and events. Nobody has to write a line, nobody to clear, and a
  query that has failed need not be sent again: no timer does that. A connection
  that is refused stays closed.
* Panel: heartbeats, polls, answers, the host and its operations. Users do
  nothing they need not do: a page that would settle only if its user clicked
  does not settle.
* Sessions: the dashboard polls while it is shown and is answered. Nobody needs
  to sign in or out, and the window to be focused again.

Deadlock.
`queue`, `queue_claims`, `config`, `config_backups` and `maintenance` check it: something can
always happen there, or every process has ended in a state that stutters. The
others end when the operations, updates, connections, lines or time of their
bounds are used up, and do not check it. That a process waits for ever for
another is what their liveness properties exclude.

### What the code does otherwise than its documents

* `agent_lease`: `panel/README.md:34` says that the lease of a backup or reset is
  renewed while it is active. Nothing renews the lease of a kind that the poll
  loop runs itself: a backup of more than 90 s is failed by the next recovery
  while it runs, its verdict is then ignored, and another operation may be
  queued.
* `config_backups`: `docs/config-panel-design.md:103` promises a recovery backup
  before every replacement. `create_backup` keeps the ten backups with the
  latest modification times, but each update gives the new file, and the
  backup, the time of the old file. The times tie, the order of the directory
  decides, and rotation may delete the backup just made.
* `build_restored`: the comment at `scripts/pz-build-update.sh:255` promises that a
  failed copy restores the previous build. The rollback deletes the Steam
  metadata before they have been saved, and, when a move fails, the root
  entries that had not been moved.

What the models show besides, in the order of the modules:

* An `ini_set` that overlaps an update may remove the update from the server's
  file, and leave it in the sandbox file. Recovery without a journal does not
  fsync: when the process was killed between unlinking the journal and the
  fsync, a client may read an update which a power loss then undoes (`Durable`
  counts what the commit itself has reported, and that follows the fsync).
* `docs/deployment-coolify.md:71` says of the console that "later requests publish
  only new lines". Three moments are exceptions, and `excused` in `ConsoleFeed`:
  an agent restarted after its first rebase was acknowledged and before the
  state file was written begins with another rebase; one whose state file could
  not be written for more than a request's lines begins with a request that the
  API takes for a repeated one and answers with its own, higher cursor
  (`agent-service.ts:940`), which the loop takes together with the end of what it
  has just sent (`pz-agent.sh:1052-1054`), so that the lines in between are
  published again under new numbers; and the first lines of a file that replaces
  another while a request is unacknowledged are numbered as if that request had
  not been served, so that they pass for repeated ones. The proof found the
  second moment: it takes two faults, and the run allows one.
* A console page whose history query has failed starts its stream at 0, with the
  newest rows. The query is sent again when the window is focused or the network
  returns; its answer replaces what the stream has brought since, and sets the
  cursor back (`ServerConsole.tsx:80-85`). The stream does not bring those rows
  again: the page has a hole until it is opened again. `NoHoles` and `Shown` except
  such a page (`history.state = "late"`).
* `panel/README.md:35-36` says that the browser consumes its SSE events "with
  `Last-Event-ID` reconnection". A reconnection that is answered 401, 404, 500 or
  503 (`index.ts:1052-1090`), as while the database restarts, closes the
  `EventSource` for good (`Refuse`); the page says "reconnecting"
  (`ServerConsole.tsx:98`) and shows no line any more until it is opened again.
  `Shown` excepts such a page.
* The load order stays locked when somebody else changes the mods before the
  submitted lists are reported (`ModManager.tsx:131-139`): `PageSettles` therefore
  excludes a later operation of another's.
* A draft edited between the answer to the POST and the first poll of its
  operation is dropped without a word when it succeeds
  (`ServerConfiguration.tsx:253-255`); an error of the submission is shown in a
  footer that goes away with the draft (`ServerConfiguration.tsx:602-633`).
* The Workshop card forgets the update it follows when a check is requested,
  also if that request is refused (`ModsPage.tsx:199-201`).
* The access editor sends all fields, those the user has not touched as an old
  status had them (`OverviewPage.tsx:142-146`): `AppliedAsReviewed` says only
  that they are what was shown. "Hide password" reads the password again
  (`OverviewPage.tsx:239-242`).
* The build update and the mod update hold different locks, and each asks at its
  beginning whether the unit is active. A build update that begins while
  systemd (RestartSec) or the timer's update is about to start the unit swaps
  the files under it, or stops it and does not start it again
  (`pz-build-update.sh:204`); `RunsOneBuild` and `NotLeftDown` name these cases.
* A new build that does not listen in time is not stopped before it is deleted
  (`pz-build-update.sh:266`); it is restarted afterwards.
* The watchdog and boot-retry do not look again after their sample of 8 s, and a
  stopped unit uses no CPU: a unit that was stopped meanwhile is started again
  (`zomboid-watchdog.sh:25-28`, `boot-retry.sh:131-134`). `StopHolds` allows for it
  (`early`). A stop job does nothing to a unit in RestartSec, which is not
  active, and systemd starts it (`common.sh:785`).
* When the timer's restart is refused after its items are installed, "keep
  PENDING, retry next tick" (`pz-modupdate.sh:358`) does not retry the restart:
  the next apply has nothing to update, clears PENDING, and the running server
  keeps its old mods. The same holds for a server that is started while a
  tick that found it stopped installs. `UpdatesLoaded` speaks of applies that are
  to restart, and of those whose stop was not refused.
* `docs/design.md:136-138` lets the timer act once the server has been
  "continuously empty". A tick with nothing pending, or without a count, does not
  look, and EMPTY_SINCE stays: what `QuietEnough` promises is the sentence's
  other half, that any sighting resets the clock. Nobody counts again after the
  backup and the downloads, which may take long.
* A late 401 of a session that has been replaced signs the new one out
  (`App.tsx:234-238`); `SignOutHolds` has no converse.
* A host whose answer to its enrollment is lost gets 409 from then on
  (`agent-service.ts:474-479`), and a late heartbeat overwrites a newer one
  (`agent-service.ts:528-531`).
* A restart of the API forgets the failed logins, and its limit with them.

## 4. The theorems

`OperationQueueProofs` proves, for any sets of operations, handlers and cursors
and any bounds: `AtMostOneActive`, `EventsInOrder`, `LogsPublishedOnce`,
`NewestEventsRetained`, `ReadersAreServed`, `TypeCorrect`,
and `QueueImplementsLifecycle`, the refinement. Assumed are `QueueAssumption` and
`LeaseTicksAssumption`: read operations are operations, `NoOp` is none, cursors
are positive, retention and leases are at least one.

The inductive invariant `IInv` has six parts. Two of them are the reason why
none of the properties is inductive on its own:

* `CallOK`: where each handler may stand and what its frame then refers to -
  a handler about to commit addresses an operation, only panel handlers insert.
* `CutsOK`: the cut of a trim that has selected but not deleted is at most
  `Len(events) - KeepEvents`. The feed only grows, so a stale cut deletes
  too little, never too much. This gives `NewestRetained`.
* `TableInv`: the table and the feed agree. `OneActive`, `EventOrder` and
  `LogsOnce` are in it, with `EventsFollowRows`: no event of an operation is of
  a later phase than its row's status has reached (nothing for an absent row,
  "queued" for a queued one, no terminal event for a running one), and the
  row's log cursor is at least every cursor published. It says which events
  can be there from the status a transaction's condition finds.
* the types of the frames, of the table and of the memory.

The proof first shows that every step is one of seven *transactions* on table
and feed, or leaves both alone (`StepsAreTransactions`), so `TableInv` is
proved per transaction and not per action, and the frames per action. The
refinement reuses the same case split: each transaction is a life cycle step
because the conditional update finds the status that step leaves.

`ReadersAreServed`, in the same module, adds what the memory holds of a read
(`ReadersInv`): a value that was delivered or is kept belongs to an operation an
agent has claimed, and nothing is kept for a reader that waits. Of all steps
only two touch it, the registration of a reader and a successful completion.

`HostAgentProofs` proves, for any operations, long-running or not, any retry
limit, lease and number of faults, and any set of operations whose files the
disk may refuse: `HostIsExclusive`, `ExecutedAtMostOnce`, `VerdictsAreTrue`,
`ResultsAreKept`, `LeaseIsKept` and `TypeCorrect`. Assumed are
`LeaseTicksAssumption` and `AgentAssumption`, which has a lease outlast one tick:
90 s against a worker that posts every 2 s (`pz-agent.sh:870-878`). None of the
properties is inductive; the invariants add

* `Places`: where the loop and the worker may stand at the same time. A
  worker beyond `starting` is the one the active-job file names, and the loop
  claims only without that file; a worker starts only while the loop sleeps,
  and the loop does not wake up before the file is written (in the code, the
  sleep of at least 5 s against one `mv`: the one place where the argument
  rests on time). So the loop executes, posts its own result or reconciles only
  when there is no worker.
* `Unexecuted`: what has an outcome on the host has a row that was claimed, and
  what is about to be executed has no outcome yet. Rows never become unclaimed
  (`Calls`), so a late claim or a recovery cannot bring an operation back.
* `Proven`: whatever holds or carries a success - a row, a letter, a late
  request, the pending completion, the loop, the worker - got it from a command
  that has succeeded.
* `Kept`: where the active-job file and the worker may be missing, and that a
  worker cleans up only once its verdict has arrived, lies in a letter, or
  could not be written down.
* `Smooth`: until something fails, the row of what the agent has in hand is
  running, with as much of its lease as the worker's place says, and nobody but
  the worker reports on it.

Requests are treated once: whatever the API answers, and however often a client
gives up, `Calls` holds of the step (`Rows` and `Even` for the verdicts). What
remains of most steps is covered by three lemmas: the loop moves between places
without an operation (`Idles`), the worker goes on with its operation or is gone
(`Works`), and neither moves (`Asides`).

`ConfigTransactionProofs` proves, for any clients and any bounds on edits and
failures: `AlwaysRecoverable`, `Atomic`, `ReportedIsDurable`, `UpdatesInformed`,
`EditsSurvive` and `TypeCorrect`. Assumed is `ConfigAssumption`: `None` and `Torn`
are contents of no file, and clients are not edits. The invariant says of every
directory that a power loss may leave what the properties say of the present one
(`ImageOK`; with `JournalOK`, of one that has a journal: both originals are
there with their data, and hold what they must). `DiskOK` orders these
directories: once its journal is gone, the present one has every update that
another has. `PlaceOK`, `BaseOK`, `CopiesOK` and `FilesOK` say, for each place of
the process that has the lock, how far the directory is, and `Agreed` is
`Informed` of every content that recovery may bring back.

`RealtimeChannelProofs` proves, for any commands, connections, capacities and
failures: `AlwaysOnLiveConnection`, `CommandsAreDirect` (the refinement of
`DirectCommand`) and `TypeCorrect`. Assumed is `ChannelAssumption`. `BrokerOK`: the
broker's connection is open, and so is one that awaits its authentication.
`CommandOK(c)`: a command is on the wire of at most one connection, only until
the host has seen it and only with its audit row, unless it is a read; a success
on the wire or in the hands of the request is of a command that has succeeded;
what is refused never got onto the wire. Each step is then one of
`DirectCommand`, or a stutter.

`PanelPagesProofs` proves, for any hosts, values, capabilities, operations and
losses: `AppliedIsReviewed`, `ReportIsTrue`, `ToldIsAgent` and `TypeCorrect`.
Assumed are `StatusAssumption` and `PagesAssumption`: `None` is none of the things
it stands in for. The invariant is about the order of revisions. `Fresh`: a
snapshot is of no later revision than the host's, and of the host's value if it
is of the same. `Reviewed(r)`: the same of every request that is posted or
queued, so that the comparison of revisions on the host finds what the user
saw. `ReadOK`: a fetch that was answered is no older than the snapshot it will
replace. `SettingsOK`: what the page says is saved is in the snapshot, and what it
waits for is in the answer of the fetch under way.

`HostMaintenanceProofs` proves, for any entries, items, attempts and failures:
`StopsHold`, `ItemsAreLoaded`, `OneBuildRuns`, `NotForgotten`, `PlayersAreSpared`
and `TypeCorrect`. Assumed are `UnitAssumption`, `BuildAssumption` and
`ModAssumption`. `TimerOK` and `JobOK` say which script is in a helper of the unit
at which place of its own. `HoldOK`: whoever may start a unit that a job has
stopped was about to do so before the stop. `SwapOK`: while files are exchanged
the stop before it holds, or somebody has broken it. `InstallOK` says for each
place of the swap which entries are of the old build, of the new one, or absent,
and what the rollback directory has; it is given up with a failed move or a
kill. `OwedOK`: a server that runs on old items is one the apply is about to
stop. `DownOK`: a server that is to run and is down is started by whoever stands
at the place that starts it.

`ConsoleFeedProofs` proves, for any files, lines, batches, tails, faults, windows,
pages and retention: `LinesAreNew`, `PassedAreStored`, `PagesHaveNoHoles` and
`TypeCorrect`. Assumed are `StreamAssumption`, `FeedAssumption` and
`NoneAssumption`: sizes are positive, bounds are numbers, and `None` is no request.

* The page (`ReaderInv`). What is drawn and not committed comes after all that
  anybody has seen (`NothingAhead`; this is the row lock). What is on its way
  lies between the page's cursor and the stream's (`WayOK`). There is no hole in
  what is shown, in the list the page may start over from, and behind what is on
  its way (`ViewOK`, `HistoryOK`, `SentOK`). While the page's
  history is one that came late only `NothingAhead` and `HistoryOK` hold; the others
  hold again once the page is opened again.
* The table (`OrderInv`). Until the first rebase is acknowledged it alone is
  under way, and its lines are the last of the table, or not there (`Rebasing`,
  `RebaseStored`). From then on lines are numbered (`Settled`): there are a file
  `g` and an offset `b` such that line `n` of `g` is row `b + n`, behind rows of older
  files. Every position that the loop has, or that a restart would find, agrees
  with these numbers or is one of an older file, not beyond them
  (`PositionOK`). So does every request that may still be served, and none is
  more than a batch ahead of the loop (`UnderwayOK`). Hence what the API takes
  for repeated is repeated, and what it leaves out of an overlap is there.
  `Passed` carries `PassedIsStored` over to positions in older files.

The three moments are where the proof needs them: `Publish`, `NothingNew` and
`AgentRestart` are the steps that may set `excused`.

`PanelSessionProofs` proves, for any clients, any finite set of logins under
way, any limits, lockout and life of a session, and any bounds:
`WrongPasswordsBounded`, `SignOutIsFinal` and `TypeCorrect`. Assumed are
`LimiterAssumption` and `PageAssumption`.

* The limit. `Recent`: a remembered failure is younger than the lockout and no
  later than the last one its client's entry has. `Counted(c)`: the entry counts
  at least the failures remembered of its client, and once it has counted enough
  it is locked for the lockout from the last one on; so pruning an entry never
  forgets a failure that still matters. `Room(c)`: failures and logins past the
  check are together at most the limit less one plus the number of slots. A
  check adds a login only while the entry is not locked, so below the limit; a
  failure turns a login into a failure, and the sum stays.
* The sign-out. `CookieInv`: a `me` query that was answered with a user was sent
  with a cookie, and one that is under way or answered so finds the browser with
  a cookie: the answer to the sign-out, which clears it, cancels the query.

Only model-checked:
liveness under fairness (`QueueMoves`, `ReadersAnswered`, `Settles`,
`LettersDelivered`, `Answered`, `Reconnects`, `Shown`, `PageSettles`,
`ExpiredIsNoticed`), which is out of the prover's reach, and the three runs that
expect a violation. Every safety property of a passing run - invariant, action
property or refinement - is a theorem above. The inductive invariants were
checked with TLC, on the bounds of the runs and on others, before they were
proved.

## 5. Not modelled, and why

* Of the mod update: the order in which an item's mods are copied, the lists
  of mods and maps, and that an update published between a download and the row
  of the manifest is recorded as installed (`common.sh:705-710`). Of boot-retry:
  the opt-in mode `required` for Steam telemetry. A reboot of the host.
* `common.sh` beyond `ini_set`'s race with an update; map, mod and ini scripts;
  `pzctl`, installer, uninstaller; the privileged dispatcher: sequential, one
  command at a time, without state of their own.
* The page of the operation events, which merges what its stream brings into the
  query cache, and invalidates other queries; `EventStream` is its table and stream.
* World telemetry and the game's Lua hook: a file that is replaced as a whole.
* Pages that show what a query returns and keep nothing (activity, players,
  backups), and the button that saves the world.
* The argument forms of operations and commands, payloads, schemas and
  sanitizing: reduced to accepted or rejected (`Refused`).
* More than one server: every statement is filtered by the server or its agent.
* The 24 hours after which a console rebase is forgotten, longer than any
  request lives. The status `cancelled`, which nothing sets. Clocks: the API's
  and the database's are one, the agent's is not read by the protocol.
* Limits on bytes (console chunks, WebSocket frames, output of a command), which
  reject a message as any other error does.

## 6. What is left

1. Abstract specifications for components that have none: a feed of which a
   reader misses nothing, for `EventStream`, and a pair of files that change
   together, for `ConfigTransaction`. Their properties are proved one by one; a
   refinement would say that these are all.
2. What still holds after the events that `NeverHalfApplied` and `RunsOneBuild`
   excuse: what an edit under way can mix, and what the rollback keeps when a move
   has failed.
3. Console lines after one of the three moments: how many of them may be stored
   twice, or taken for repeated ones.
