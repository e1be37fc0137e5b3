----------------------------- MODULE EventStream -----------------------------
(***************************************************************************)
(* A table of rows with serial ids (console entries, operation events),    *)
(* trimmed to its newest rows, and one browser that follows it: a first    *)
(* GET for the newest page, then an SSE stream resumed by Last-Event-ID.   *)
(*                                                                         *)
(* An id is drawn when a row is inserted, but the row is seen only after   *)
(* its transaction commits.  A row lock (the server's for the console, the *)
(* operation's and the index of active operations for events) is taken     *)
(* before the first insert: a server has one open transaction at a time.   *)
(***************************************************************************)
EXTENDS Integers, FiniteSets, FiniteSetsExt

CONSTANTS
  Page,      \* the 500 rows one query returns
  Keep,      \* the 2000 (events: 5000) rows a trim leaves
  Window,    \* the 2000 (events: 500) rows the browser keeps
  MaxRows,   \* bound on ids
  MaxDrops   \* bound on lost connections and failed requests of the browser

ASSUME StreamAssumption == {Page, Keep, Window} \subseteq Nat \ {0} /\ {MaxRows, MaxDrops} \subseteq Nat

VARIABLES
  lastId,    \* the last id drawn from the sequence
  open,      \* ids inserted by the transaction that has not committed
  rows,      \* ids of the rows that are committed and not trimmed
  history,   \* the history query: its state, the ids it answers with, isFetched
  view,      \* ids the browser shows
  cursor,    \* cursorRef: the newest id the page has received
  boundary,  \* clearBoundary: the user cleared the ids up to this one
  stream,    \* the EventSource's state, the response's cursor, the ids sent and not received
  resume,    \* the EventSource's `after` parameter, or its last event id
  drops

tableVars == <<lastId, open, rows>>
readerVars == <<history, view, cursor, boundary, stream, resume, drops>>

\* An answer that comes after the stream has been opened makes the page "late".
HistoryStates == {"idle", "asked", "answered", "failed", "done", "late"}
StreamStates == {"connecting", "open", "closed"}

NotAsked == [state |-> "idle", ids |-> {}, fetched |-> FALSE]
Connecting == [state |-> "connecting", after |-> 0, sent |-> {}]

StreamInit ==
  /\ lastId = 0 /\ open = {} /\ rows = {}
  /\ history = NotAsked
  /\ view = {} /\ cursor = 0 /\ boundary = 0
  /\ stream = Connecting /\ resume = 0 /\ drops = 0

StreamTypeOK ==
  /\ lastId \in Nat /\ open \subseteq 1 .. lastId /\ rows \subseteq 1 .. lastId
  /\ history \in [state : HistoryStates, ids : SUBSET (1 .. lastId), fetched : BOOLEAN]
  /\ view \subseteq 1 .. lastId /\ {cursor, boundary, resume} \subseteq 0 .. lastId
  /\ stream \in [state : StreamStates, after : 0 .. lastId, sent : SUBSET (1 .. lastId)]
  /\ drops \in 0 .. MaxDrops

Newest(n, ids) == {i \in ids : Cardinality({j \in ids : j > i}) < n}
Oldest(n, ids) == {i \in ids : Cardinality({j \in ids : j < i}) < n}
Last(ids, otherwise) == IF ids = {} THEN otherwise ELSE Max(ids)

-----------------------------------------------------------------------------
(* The table *)

\* Mutant of Insert: the lock is not waited for.
InsertUnlocked(n) ==
  /\ lastId + n <= MaxRows
  /\ open' = open \cup (lastId + 1) .. (lastId + n)
  /\ lastId' = lastId + n
  /\ UNCHANGED rows

Insert(n) ==
  /\ open = {}
  /\ lastId + n <= MaxRows
  /\ open' = (lastId + 1) .. (lastId + n)
  /\ lastId' = lastId + n
  /\ UNCHANGED rows

Commit(ids) == rows' = rows \cup ids /\ open' = open \ ids /\ UNCHANGED lastId
Rollback(ids) == open' = open \ ids /\ UNCHANGED <<rows, lastId>>

\* Trims that overlap select among fewer rows and so delete less.
Trim == rows' = Newest(Keep, rows) /\ UNCHANGED <<open, lastId>>

\* The query behind the lists and the streams.
List(after) ==
  IF after = 0 THEN Newest(Page, rows) ELSE Oldest(Page, {i \in rows : i > after})

-----------------------------------------------------------------------------
(* The browser *)

\* The page mounts: its history query is sent.
Ask ==
  /\ history.state = "idle"
  /\ history' = [history EXCEPT !.state = "asked"]
  /\ UNCHANGED <<view, cursor, boundary, stream, resume, drops>>

\* A query without data is stale for ever: the window's focus or a reconnection
\* sends it again, while the stream runs on.
AskAgain ==
  /\ history.state = "failed"
  /\ history' = [history EXCEPT !.state = "asked"]
  /\ UNCHANGED <<view, cursor, boundary, stream, resume, drops>>

Answer ==
  /\ history.state = "asked"
  /\ history' = [history EXCEPT !.state = "answered", !.ids = List(0)]
  /\ UNCHANGED <<view, cursor, boundary, stream, resume, drops>>

\* Mutant of Received: the cursor is that of the stream, not of the answer.
ReceivedAll ==
  /\ history.state = "answered"
  /\ history' = [history EXCEPT !.state = IF history.fetched THEN "late" ELSE "done",
                               !.fetched = TRUE]
  /\ view' = history.ids
  /\ cursor' = lastId
  /\ resume' = IF history.fetched THEN resume ELSE cursor'
  /\ UNCHANGED <<boundary, stream, drops>>

\* The first data replaces what the page shows, and its cursor.  Only an effect
\* that waits for isFetched opens the EventSource: one that is there stays.
Received ==
  /\ history.state = "answered"
  /\ history' = [history EXCEPT !.state = IF history.fetched THEN "late" ELSE "done",
                               !.fetched = TRUE]
  /\ view' = history.ids
  /\ cursor' = Last(history.ids, 0)
  /\ resume' = IF history.fetched THEN resume ELSE cursor'
  /\ UNCHANGED <<boundary, stream, drops>>

\* After its retries the query is fetched without data: the stream starts at 0.
AskFails ==
  /\ history.state \in {"asked", "answered"}
  /\ drops < MaxDrops
  /\ drops' = drops + 1
  /\ history' = [state |-> "failed", ids |-> {}, fetched |-> TRUE]
  /\ UNCHANGED <<view, cursor, boundary, stream, resume>>

\* The EventSource connects, or reconnects by itself with its last event id.
Connect ==
  /\ history.fetched
  /\ stream.state = "connecting"
  /\ stream' = [state |-> "open", after |-> resume, sent |-> {}]
  /\ UNCHANGED <<history, view, cursor, boundary, resume, drops>>

\* An answer other than 200 (401, 404, 500, 503) closes it for good.
Refuse ==
  /\ history.fetched
  /\ stream.state = "connecting"
  /\ drops < MaxDrops
  /\ drops' = drops + 1
  /\ stream' = [stream EXCEPT !.state = "closed"]
  /\ UNCHANGED <<history, view, cursor, boundary, resume>>

\* Mutant of Poll: the cursor is that of the sequence, not of the rows found.
PollAhead ==
  LET found == List(stream.after) IN
  /\ stream.state = "open"
  /\ found # {}
  /\ stream' = [stream EXCEPT !.after = lastId, !.sent = @ \cup found]
  /\ UNCHANGED <<history, view, cursor, boundary, resume, drops>>

\* One round of pollingSseResponse.
Poll ==
  LET found == List(stream.after) IN
  /\ stream.state = "open"
  /\ found # {}
  /\ stream' = [stream EXCEPT !.after = Last(found, @), !.sent = @ \cup found]
  /\ UNCHANGED <<history, view, cursor, boundary, resume, drops>>

\* An event arrives, in the order they were sent in: that of their ids.
Receive ==
  /\ stream.sent # {}
  /\ LET id == Min(stream.sent) IN
     /\ stream' = [stream EXCEPT !.sent = @ \ {id}]
     /\ cursor' = IF id > cursor THEN id ELSE cursor
     /\ resume' = id
     /\ view' = IF id > boundary THEN Newest(Window, view \cup {id}) ELSE view
  /\ UNCHANGED <<history, boundary, drops>>

\* The connection ends; what was under way is lost.
Drop ==
  /\ stream.state = "open"
  /\ drops < MaxDrops
  /\ stream' = Connecting
  /\ drops' = drops + 1
  /\ UNCHANGED <<history, view, cursor, boundary, resume>>

Clear ==
  /\ history.fetched
  /\ view # {}
  /\ boundary' = cursor
  /\ view' = {}
  /\ UNCHANGED <<history, cursor, stream, resume, drops>>

\* What the query cache has when the page is opened again: the answer, which may
\* be old by now, a query still under way, a failed one, which is sent again at
\* once, or, after five minutes, nothing.
Remembered ==
  \/ /\ history.state \in {"done", "late"}
     /\ history' = [history EXCEPT !.state = "done"]
  \/ /\ history.state = "failed"
     /\ history' = [history EXCEPT !.state = "asked"]
  \/ /\ history.state \in {"asked", "answered"}
     /\ UNCHANGED history
  \/ /\ history.state \in {"done", "late", "failed"}
     /\ history' = NotAsked

\* The page is left and opened again: its own state starts over.
Reopen ==
  /\ drops < MaxDrops
  /\ drops' = drops + 1
  /\ Remembered
  /\ view' = IF history'.state = "done" THEN history.ids ELSE {}
  /\ cursor' = IF history'.state = "done" THEN Last(history.ids, 0) ELSE 0
  /\ resume' = cursor'
  /\ boundary' = 0
  /\ stream' = Connecting

Browser ==
  \/ Ask \/ AskAgain \/ Answer \/ Received \/ AskFails
  \/ Connect \/ Refuse \/ Poll \/ Receive \/ Drop
  \/ Clear \/ Reopen

\* The steps of the first two excluding one another, each of them is fair.
BrowserFairness ==
  /\ WF_readerVars(Ask \/ Answer \/ Received)
  /\ WF_readerVars(Connect \/ Poll)
  /\ WF_readerVars(Receive)

-----------------------------------------------------------------------------

\* What the page shows has no hole: every retained row between the oldest it
\* shows and the newest it has received is there, whatever was committed,
\* trimmed, dropped and resumed meanwhile.  The exception is a page whose history
\* came late: it replaced rows that the stream had brought, and the stream does
\* not bring them again.
NoHoles ==
  history.state # "late" =>
    \A i \in rows : (view # {} /\ Min(view) < i /\ i <= cursor) => i \in view
=============================================================================
