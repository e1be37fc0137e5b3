----------------------------- MODULE ConsoleFeed -----------------------------
(***************************************************************************)
(* The server's console on its way to the panel: the file the game writes  *)
(* and replaces at a restart, the loop of pz-agent that publishes what it  *)
(* has not published yet, appendConsoleLogs, which tells new lines from    *)
(* repeated ones by a cursor, and the rows EventStream shows.              *)
(*                                                                         *)
(* A line is <<file, number>>; a line cut in the middle, encodings and the *)
(* limits on bytes are left out.  The first request after an install is a  *)
(* rebase: it adds the tail of the file to whatever the API has, and is    *)
(* recognised by its resyncId when it is repeated (for 24 hours, longer    *)
(* than any request here takes).  Files are told apart by inode and        *)
(* fingerprint, so a truncated file is a new one.                          *)
(***************************************************************************)
EXTENDS EventStream, Sequences

CONSTANTS
  MaxFiles, MaxLines,  \* bounds on the files and on the lines of each
  TailLines,                \* PZ_AGENT_CONSOLE_INITIAL_LINES
  Batch,               \* MAX_LINES of read_console_delta
  None,
  MaxFaults            \* bound on given-up requests, restarts and rollbacks

ASSUME FeedAssumption ==
  /\ {MaxLines, MaxFaults} \subseteq Nat
  /\ {MaxFiles, TailLines, Batch} \subseteq Nat \ {0}

VARIABLES
  file,      \* the console file: its number and how many lines it has
  pump,      \* the loop's position: file, line, API cursor, rebase or not
  saved,     \* the console-cursor file, or None
  pending,   \* console-pending.json, or None
  pc,        \* the loop: "idle", "post" or "save"
  sent,      \* the request it waits for
  wire,      \* requests not yet served, those given up too: <<request, attempt>>
  txns,      \* requests being served: the ids and lines they add, the answer
  stored,    \* all lines ever committed, in order: its length is console_log_cursor
  rebases,   \* console_log_resyncs: [request, cursor]
  excused,   \* history: a restart or a new file came at a moment the protocol does not survive
  faults

feedVars == <<file, pump, saved, pending, pc, sent, wire, txns, stored, rebases, excused, faults>>
vars == <<tableVars, readerVars, feedVars>>

AtMost(a, b) == IF a < b THEN a ELSE b
AtLeast(a, b) == IF a > b THEN a ELSE b

Position == [file : 1 .. MaxFiles, at : 0 .. MaxLines, cursor : 0 .. MaxRows, rebase : BOOLEAN]
Request == [file : 1 .. MaxFiles, from : 0 .. MaxLines, to : 0 .. MaxLines,
            cursor : 0 .. MaxRows + MaxLines, rebase : BOOLEAN]
Attempt == Request \X (0 .. MaxFaults)

ASSUME NoneAssumption == None \notin Request \cup Attempt

TypeOK ==
  /\ StreamTypeOK
  /\ file \in [no : 1 .. MaxFiles, length : 0 .. MaxLines]
  /\ pump \in Position /\ saved \in Position \cup {None}
  /\ pending \in Request \cup {None} /\ sent \in Attempt \cup {None}
  /\ pc \in {"idle", "post", "save"} /\ wire \subseteq Attempt
  /\ stored \in Seq((1 .. MaxFiles) \X (1 .. MaxLines))

\* initial_console_position: the tail of the file, to be added by a rebase.
FirstPosition ==
  [file |-> file.no, at |-> AtLeast(0, file.length - TailLines), cursor |-> 0, rebase |-> TRUE]

Init ==
  /\ StreamInit
  /\ file \in {[no |-> 1, length |-> n] : n \in 0 .. MaxLines}
  /\ pump = FirstPosition /\ saved = None /\ pending = None
  /\ pc = "idle" /\ sent = None /\ wire = {} /\ txns = {}
  /\ stored = <<>> /\ rebases = {} /\ excused = FALSE /\ faults = 0

Lines(r) == [k \in 1 .. (r.to - r.from) |-> <<r.file, r.from + k>>]
Count(r) == r.to - r.from

-----------------------------------------------------------------------------
(* The game *)

Write ==
  /\ file.length < MaxLines
  /\ file' = [file EXCEPT !.length = @ + 1]
  /\ UNCHANGED <<tableVars, readerVars, pump, saved, pending, pc, sent, wire, txns, stored,
                 rebases, excused, faults>>

\* The game restarts with a new console file.
Rotate ==
  /\ file.no < MaxFiles
  /\ file' = [no |-> file.no + 1, length |-> 0]
  /\ UNCHANGED <<tableVars, readerVars, pump, saved, pending, pc, sent, wire, txns, stored,
                 rebases, excused, faults>>

-----------------------------------------------------------------------------
(* send_live_console_delta and the loop around it *)

\* read_console_delta: what follows the position, from the start of a new file.
From == IF pump.file = file.no THEN pump.at ELSE 0
Delta ==
  LET to == AtMost(From + Batch, file.length)
  IN  [file |-> file.no, from |-> From, to |-> to, cursor |-> pump.cursor + to - From,
       rebase |-> pump.rebase]

\* A pending rebase of a file that was replaced is forgotten.
StillPending == pending # None /\ pending.file = file.no

Post(r) ==
  /\ sent' = <<r, faults>>
  /\ wire' = wire \cup {sent'}
  /\ pc' = "post"

Republish ==
  /\ pc = "idle"
  /\ StillPending
  /\ Post(pending)
  /\ UNCHANGED <<tableVars, readerVars, file, pump, saved, pending, txns, stored, rebases,
                 excused, faults>>

\* History: the lines of a new file are numbered as if the API had received no
\* more than it acknowledged, or a request about the old file is still under way.
Misnumbered ==
  \/ \E m \in wire \cup {t.for : t \in txns} : m[1].file # file.no
  \/ pump.file # file.no /\ ~pump.rebase /\ pump.cursor # Len(stored)

\* Mutant of Publish: a rebase is not kept for a repetition.
PublishUnkept ==
  /\ pc = "idle"
  /\ ~StillPending
  /\ Count(Delta) > 0
  /\ pending' = None
  /\ Post(Delta)
  /\ excused' = (excused \/ Misnumbered)
  /\ UNCHANGED <<tableVars, readerVars, file, pump, saved, txns, stored, rebases, faults>>

Publish ==
  /\ pc = "idle"
  /\ ~StillPending
  /\ Count(Delta) > 0
  /\ pending' = IF pump.rebase THEN Delta ELSE None
  /\ Post(Delta)
  /\ excused' = (excused \/ Misnumbered)
  /\ UNCHANGED <<tableVars, readerVars, file, pump, saved, txns, stored, rebases, faults>>

NothingNew ==
  /\ pc = "idle"
  /\ ~StillPending
  /\ Count(Delta) = 0
  /\ pump' = [pump EXCEPT !.file = file.no, !.at = From]
  /\ pc' = IF pump' = saved THEN "idle" ELSE "save"
  /\ pending' = None
  /\ excused' = (excused \/ Misnumbered)
  /\ UNCHANGED <<tableVars, readerVars, file, saved, sent, wire, txns, stored, rebases, faults>>

\* The state file is written after the pending file is removed, or cannot be.
Save ==
  /\ pc = "save"
  /\ \/ saved' = pump /\ UNCHANGED faults
     \/ faults < MaxFaults /\ faults' = faults + 1 /\ UNCHANGED saved
  /\ pc' = "idle"
  /\ UNCHANGED <<tableVars, readerVars, file, pump, pending, sent, wire, txns, stored, rebases, excused>>

\* curl gives up; the request may still be served.
GiveUp ==
  /\ pc = "post"
  /\ faults < MaxFaults
  /\ faults' = faults + 1
  /\ pc' = "idle"
  /\ sent' = None
  /\ UNCHANGED <<tableVars, readerVars, file, pump, saved, pending, wire, txns, stored, rebases, excused>>

\* History: more lines than one request takes follow the position that a restart would
\* find, as the state file could not be written for a while.
Behind ==
  /\ saved # None /\ ~saved.rebase
  /\ \/ Len(stored) > saved.cursor + Batch
     \/ \E m \in wire \cup {t.for : t \in txns} : m[1].cursor > saved.cursor + Batch

AgentRestart ==
  /\ faults < MaxFaults
  /\ faults' = faults + 1
  /\ pump' = IF saved = None THEN FirstPosition ELSE saved
  /\ pc' = "idle"
  /\ sent' = None
  /\ excused' = (excused \/ (pump'.rebase /\ ~pump.rebase) \/ Behind)
  /\ UNCHANGED <<tableVars, readerVars, file, saved, pending, wire, txns, stored, rebases>>

-----------------------------------------------------------------------------
(* appendConsoleLogs *)

\* Mutant of Reply: the position is where the file ends by now.
ReplyFurther(m, accepted) ==
  IF sent # m THEN UNCHANGED <<pump, pending, pc, sent>>
  ELSE /\ sent' = None
       /\ IF accepted >= m[1].cursor
            THEN /\ pump' = [file |-> file.no, at |-> file.length, cursor |-> accepted, rebase |-> FALSE]
                 /\ pending' = None
                 /\ pc' = "save"
            ELSE pc' = "idle" /\ UNCHANGED <<pump, pending>>

\* The loop takes the API's cursor for its own, if it still waits for the answer.
Reply(m, accepted) ==
  IF sent # m THEN UNCHANGED <<pump, pending, pc, sent>>
  ELSE /\ sent' = None
       /\ IF accepted >= m[1].cursor
            THEN /\ pump' = [file |-> m[1].file, at |-> m[1].to, cursor |-> accepted, rebase |-> FALSE]
                 /\ pending' = None
                 /\ pc' = "save"
            ELSE pc' = "idle" /\ UNCHANGED <<pump, pending>>

\* A repetition: its lines, or its rebase, are there.
Repeated(m) ==
  LET r == m[1]
      before == {x \in rebases : x.request = r}
  IN  /\ m \in wire /\ open = {}
      /\ IF r.rebase THEN before # {} ELSE r.cursor <= Len(stored)
      /\ wire' = wire \ {m}
      /\ Reply(m, IF r.rebase THEN (CHOOSE x \in before : TRUE).cursor ELSE Len(stored))
      /\ UNCHANGED <<tableVars, readerVars, file, saved, txns, stored, rebases, excused, faults>>

\* How many of the request's lines the API has.
Overlap(r) == AtLeast(0, Len(stored) - (r.cursor - Count(r)))

\* Mutant of AppendNew: the lines that overlap are not left out.
AppendAll(m) ==
  LET r == m[1]
  IN  /\ m \in wire
      /\ IF r.rebase THEN \A x \in rebases : x.request # r
         ELSE r.cursor > Len(stored) /\ r.cursor - Count(r) <= Len(stored)
      /\ wire' = wire \ {m}
      /\ Insert(Count(r))
      /\ txns' = txns \cup {[for |-> m, ids |-> open', add |-> Lines(r), answer |-> 0]}
      /\ UNCHANGED <<readerVars, file, pump, saved, pending, pc, sent, stored, rebases, excused, faults>>

\* New lines: the server's row is locked, and what overlaps is left out.
AppendNew(m) ==
  LET r == m[1]
      first == IF r.rebase THEN 0 ELSE Overlap(r)
  IN  /\ m \in wire
      /\ IF r.rebase THEN \A x \in rebases : x.request # r
         ELSE r.cursor > Len(stored) /\ r.cursor - Count(r) <= Len(stored)
      /\ wire' = wire \ {m}
      /\ Insert(Count(r) - first)
      /\ txns' = txns \cup {[for |-> m, ids |-> open',
                            add |-> SubSeq(Lines(r), first + 1, Count(r)), answer |-> 0]}
      /\ UNCHANGED <<readerVars, file, pump, saved, pending, pc, sent, stored, rebases, excused, faults>>

AppendCommits(t) ==
  LET next == Len(stored) + Len(t.add)
  IN  /\ t \in txns /\ t.answer = 0
      /\ Commit(t.ids)
      /\ stored' = stored \o t.add
      /\ rebases' = IF t.for[1].rebase THEN rebases \cup {[request |-> t.for[1], cursor |-> next]} ELSE rebases
      /\ txns' = (txns \ {t}) \cup {[t EXCEPT !.answer = next]}
      /\ UNCHANGED <<readerVars, file, pump, saved, pending, pc, sent, wire, excused, faults>>

\* The trims follow the transaction, then the answer.
AppendEnds(t) ==
  /\ t \in txns /\ t.answer # 0
  /\ Trim
  /\ Reply(t.for, t.answer)
  /\ txns' = txns \ {t}
  /\ UNCHANGED <<readerVars, file, saved, wire, stored, rebases, excused, faults>>

\* The handler fails, before or after its transaction has committed.
AppendFails(t) ==
  /\ t \in txns /\ faults < MaxFaults
  /\ faults' = faults + 1
  /\ Rollback(t.ids)
  /\ txns' = txns \ {t}
  /\ IF sent = t.for THEN pc' = "idle" /\ sent' = None ELSE UNCHANGED <<pc, sent>>
  /\ UNCHANGED <<readerVars, file, pump, saved, pending, wire, stored, rebases, excused>>

-----------------------------------------------------------------------------

Loop == Republish \/ Publish \/ NothingNew \/ Save
Serve ==
  \/ \E m \in wire : Repeated(m) \/ AppendNew(m)
  \/ \E t \in txns : AppendCommits(t) \/ AppendEnds(t)

Next ==
  \/ Write \/ Rotate
  \/ Loop \/ GiveUp \/ AgentRestart
  \/ Serve \/ \E t \in txns : AppendFails(t)
  \/ Browser /\ UNCHANGED <<tableVars, feedVars>>

Spec == Init /\ [][Next]_vars

FairSpec ==
  /\ Spec
  /\ WF_vars(Loop) /\ WF_vars(Serve)
  /\ BrowserFairness

-----------------------------------------------------------------------------
(* Properties *)

Precedes(l, k) == l[1] < k[1] \/ (l[1] = k[1] /\ l[2] < k[2])

\* "Later requests publish only new lines" (docs/deployment-coolify.md): the
\* table has every line once and in the order the game wrote it, whatever
\* requests are repeated, answered late or rolled back.
OnlyNewLines ==
  \A i \in 1 .. Len(stored) : \A j \in 1 .. i - 1 : Precedes(stored[j], stored[i])

\* The same, but for the three moments the protocol does not survive: a restart
\* between the acknowledgement of the first rebase and the write of the state
\* file, one that finds a state file older than one request, as it could not be
\* written since, and a console file replaced while a request is unacknowledged.
OnlyNewUnlessExcused == excused \/ OnlyNewLines

\* A line the loop has passed is in the table, from the first line of its file
\* there on, and, while no restart has moved that start, from the first line of
\* a new file: nothing is skipped by an overlap, a repetition or a rollback.
PassedIsStored ==
  \A n \in 1 .. pump.at :
    ( /\ ~excused /\ ~pump.rebase
      /\ \E k \in 1 .. Len(stored) :
           Precedes(stored[k], <<pump.file, n>>) /\ (stored[k][1] = pump.file \/ faults = 0) )
      => \E k \in 1 .. Len(stored) : stored[k] = <<pump.file, n>>

\* The console's last line has reached the table and the page, unless the user
\* cleared it there, the server refused the stream, or the history came late.
LastLineShown ==
  /\ file.length > 0 =>
       \E k \in 1 .. Len(stored) : stored[k] = <<file.no, file.length>>
  /\ \/ Last(rows, 0) \in view \cup 0 .. boundary
     \/ stream.state = "closed" \/ history.state = "late"

\* Once nobody writes to the console any more, its last line is shown in the end,
\* after lost requests, restarts and lost connections, but for those moments.
Shown == <>[][FALSE]_file => []<>(excused \/ LastLineShown)
=============================================================================
