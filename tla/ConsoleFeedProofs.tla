-------------------------- MODULE ConsoleFeedProofs --------------------------
(***************************************************************************)
(* Safety of the console's way to the panel, for any files, batches, pages *)
(* and losses: the table has each line once and in order, and a page shows *)
(* the table without a hole, unless its history came late.                 *)
(***************************************************************************)
EXTENDS ConsoleFeed, FiniteSetTheorems, SequenceTheorems, WellFoundedInduction, TLAPS

-----------------------------------------------------------------------------
(* Sets of ids *)

LEMMA MinExists ==
  ASSUME NEW S, S \subseteq Nat, S # {}
  PROVE  \E x \in S : \A y \in S : x <= y
<1> DEFINE Less == {p \in Nat \X Nat : p[1] < p[2]}
<1>1. IsWellFoundedOn(Less, Nat)
  BY NatLessThanWellFounded DEF OpToRel
<1>2. PICK x \in S : \A y \in S : ~ (<<y, x>> \in Less)
  <2> HIDE DEF Less
  <2> QED
    BY <1>1, WFMin
<1>3. ASSUME NEW y \in S PROVE x <= y
  <2>1. <<y, x>> \in Nat \X Nat /\ ~ (<<y, x>> \in Less)
    BY <1>2
  <2>2. ~ (y < x)
    BY <2>1
  <2> QED
    BY <2>1, <2>2
<1> QED
  BY <1>3

LEMMA MaxExists ==
  ASSUME NEW n \in Nat, NEW S, S \subseteq 1 .. n, S # {}
  PROVE  \E x \in S : \A y \in S : y <= x
<1> DEFINE T == {n - y : y \in S}
<1>1. T \subseteq Nat /\ T # {}
  <2>1. ASSUME NEW y \in S PROVE n - y \in Nat
    <3>1. y \in 1 .. n
      OBVIOUS
    <3> QED
      BY <3>1
  <2> QED
    BY <2>1
<1>2. PICK t \in T : \A u \in T : t <= u
  BY <1>1, MinExists
<1>3. PICK x \in S : t = n - x
  BY <1>2
<1>4. ASSUME NEW y \in S PROVE y <= x
  <2>1. n - y \in T
    OBVIOUS
  <2>2. n - x <= n - y
    BY <1>2, <1>3, <2>1
  <2>3. x \in 1 .. n /\ y \in 1 .. n
    OBVIOUS
  <2> QED
    BY <2>2, <2>3
<1> QED
  BY <1>4

LEMMA MaxFacts ==
  ASSUME NEW n \in Nat, NEW S, S \subseteq 1 .. n, S # {}
  PROVE  Max(S) \in S /\ \A y \in S : y <= Max(S)
<1>1. \E x \in S : \A y \in S : x >= y
  BY MaxExists
<1> QED
  BY <1>1 DEF Max

LEMMA MinFacts ==
  ASSUME NEW n \in Nat, NEW S, S \subseteq 1 .. n, S # {}
  PROVE  Min(S) \in S /\ \A y \in S : Min(S) <= y
<1>1. S \subseteq Nat
  OBVIOUS
<1>2. \E x \in S : \A y \in S : x =< y
  BY <1>1, MinExists
<1> QED
  BY <1>2 DEF Min

\* Fewer ids follow a later one.
LEMMA FewerFollow ==
  ASSUME NEW n \in Nat, NEW S, S \subseteq 1 .. n, NEW i \in S, NEW j \in S, j < i
  PROVE  /\ Cardinality({k \in S : k > i}) <= Cardinality({k \in S : k > j})
         /\ Cardinality({k \in S : k < j}) <= Cardinality({k \in S : k < i})
         /\ \A x \in S : /\ Cardinality({k \in S : k > x}) \in Nat
                         /\ Cardinality({k \in S : k < x}) \in Nat
<1>1. IsFiniteSet(S)
  <2>1. IsFiniteSet(1 .. n)
    BY FS_Interval
  <2> QED
    BY <2>1, FS_Subset
<1>2. ASSUME NEW x \in S
      PROVE  /\ IsFiniteSet({k \in S : k > x}) /\ IsFiniteSet({k \in S : k < x})
             /\ Cardinality({k \in S : k > x}) \in Nat
             /\ Cardinality({k \in S : k < x}) \in Nat
  <2>1. {k \in S : k > x} \in SUBSET S /\ {k \in S : k < x} \in SUBSET S
    OBVIOUS
  <2>2. IsFiniteSet({k \in S : k > x}) /\ IsFiniteSet({k \in S : k < x})
    BY <1>1, <2>1, FS_Subset
  <2> QED
    BY <2>2, FS_CardinalityType
<1>3. S \subseteq Int
  OBVIOUS
<1>4. {k \in S : k > i} \in SUBSET {k \in S : k > j}
  <2>1. ASSUME NEW k \in S, k > i PROVE k > j
    BY <1>3, <2>1
  <2> QED
    BY <2>1
<1>5. {k \in S : k < j} \in SUBSET {k \in S : k < i}
  <2>1. ASSUME NEW k \in S, k < j PROVE k < i
    BY <1>3, <2>1
  <2> QED
    BY <2>1
<1> QED
  BY <1>2, <1>4, <1>5, FS_Subset

\* The newest ids are followed by newest ones only, and the last is one of them.
LEMMA NewestFacts ==
  ASSUME NEW n \in Nat, NEW S, S \subseteq 1 .. n, NEW m \in Nat \ {0}
  PROVE  /\ Newest(m, S) \subseteq S
         /\ \A i \in S, j \in Newest(m, S) : j < i => i \in Newest(m, S)
         /\ \A i \in S : (\A j \in S : j <= i) => i \in Newest(m, S)
<1>1. Newest(m, S) \subseteq S
  BY DEF Newest
<1>2. ASSUME NEW i \in S, NEW j \in Newest(m, S), j < i
      PROVE  i \in Newest(m, S)
  <2>1. j \in S /\ Cardinality({k \in S : k > j}) < m
    BY DEF Newest
  <2>2. /\ Cardinality({k \in S : k > i}) <= Cardinality({k \in S : k > j})
        /\ Cardinality({k \in S : k > i}) \in Nat /\ Cardinality({k \in S : k > j}) \in Nat
    BY <1>2, <2>1, FewerFollow
  <2>3. Cardinality({k \in S : k > i}) < m
    BY <2>1, <2>2
  <2> QED
    BY <2>3 DEF Newest
<1>3. ASSUME NEW i \in S, \A j \in S : j <= i
      PROVE  i \in Newest(m, S)
  <2>1. {k \in S : k > i} = {}
    <3>1. S \subseteq Int
      OBVIOUS
    <3>2. \A k \in S : ~ (k > i)
      BY <1>3, <3>1
    <3> QED
      BY <3>2
  <2>2. Cardinality({k \in S : k > i}) = 0
    BY <2>1, FS_EmptySet
  <2> QED
    BY <2>2 DEF Newest
<1> QED
  BY <1>1, <1>2, <1>3

LEMMA OldestFacts ==
  ASSUME NEW n \in Nat, NEW S, S \subseteq 1 .. n, NEW m \in Nat \ {0}
  PROVE  /\ Oldest(m, S) \subseteq S
         /\ \A i \in S, j \in Oldest(m, S) : i < j => i \in Oldest(m, S)
<1>1. Oldest(m, S) \subseteq S
  BY DEF Oldest
<1>2. ASSUME NEW i \in S, NEW j \in Oldest(m, S), i < j
      PROVE  i \in Oldest(m, S)
  <2>1. j \in S /\ Cardinality({k \in S : k < j}) < m
    BY DEF Oldest
  <2>2. /\ Cardinality({k \in S : k < i}) <= Cardinality({k \in S : k < j})
        /\ Cardinality({k \in S : k < i}) \in Nat /\ Cardinality({k \in S : k < j}) \in Nat
    BY <1>2, <2>1, FewerFollow
  <2>3. Cardinality({k \in S : k < i}) < m
    BY <2>1, <2>2
  <2> QED
    BY <2>3 DEF Oldest
<1> QED
  BY <1>1, <1>2

LEMMA LastFacts ==
  ASSUME NEW n \in Nat, NEW S, S \subseteq 1 .. n
  PROVE  /\ Last(S, 0) \in 0 .. n
         /\ \A i \in S : i <= Last(S, 0)
         /\ S # {} => Last(S, 0) \in S
<1>1. CASE S = {}
  BY <1>1 DEF Last
<1>2. CASE S # {}
  <2>1. Max(S) \in S /\ \A y \in S : y <= Max(S)
    BY <1>2, MaxFacts
  <2>2. Last(S, 0) = Max(S) /\ Max(S) \in 1 .. n
    BY <1>2, <2>1 DEF Last
  <2> QED
    BY <2>1, <2>2
<1> QED
  BY <1>1, <1>2

-----------------------------------------------------------------------------
(* The table and its reader *)

\* What is drawn and not committed comes after all that was ever seen.
NothingAhead ==
  \A o \in open :
    /\ cursor < o /\ resume < o /\ stream.after < o
    /\ \A i \in rows : i < o
    /\ \A i \in history.ids \cup stream.sent : i < o

\* The page knows nothing newer than its cursor, and nothing at all before its
\* first answer or failure.
PageOK ==
  /\ resume = cursor /\ boundary <= cursor
  /\ \A i \in view : i <= cursor
  /\ ~history.fetched => (view = {} /\ cursor = 0 /\ stream.state # "open")

\* What is on its way to the page lies between the page's cursor and the stream's.
WayOK ==
  /\ stream.state # "open" => stream.sent = {}
  /\ stream.state = "open" => cursor <= stream.after
  /\ \A i \in stream.sent : cursor < i /\ i <= stream.after

\* No hole in what the page shows, in the answer it may start over from, and
\* behind what is on its way.
ViewOK == \A i \in rows : \A j \in view : (j < i /\ i <= cursor) => i \in view
HistoryOK ==
  /\ \A i \in rows : \A j, k \in history.ids : (j < i /\ i < k) => i \in history.ids
  /\ history.state \in {"done", "late"} => history.fetched
SentOK ==
  \A i \in rows :
    ( /\ stream.state = "open" /\ cursor < i /\ i <= stream.after
      /\ cursor > 0 \/ \E j \in stream.sent : j <= i ) => i \in stream.sent

\* All that, but for a page whose history came late, until it starts over.
InStep == PageOK /\ WayOK /\ ViewOK /\ SentOK

ReaderInv ==
  /\ StreamTypeOK
  /\ NothingAhead /\ HistoryOK
  /\ history.state # "late" => InStep

LEMMA ReaderInit == StreamInit => ReaderInv
<1> SUFFICES ASSUME StreamInit PROVE ReaderInv
  OBVIOUS
<1>1. /\ history = [state |-> "idle", ids |-> {}, fetched |-> FALSE]
      /\ stream = [state |-> "connecting", after |-> 0, sent |-> {}]
      /\ lastId = 0 /\ open = {} /\ rows = {} /\ view = {} /\ cursor = 0
      /\ boundary = 0 /\ resume = 0 /\ drops = 0
  BY DEF StreamInit, NotAsked, Connecting
<1>2. StreamTypeOK
  BY <1>1, StreamAssumption DEF StreamTypeOK, HistoryStates, StreamStates
<1>3. NothingAhead /\ HistoryOK
  BY <1>1 DEF NothingAhead, HistoryOK
<1>4. InStep
  BY <1>1 DEF InStep, PageOK, WayOK, ViewOK, SentOK
<1> QED
  BY <1>2, <1>3, <1>4 DEF ReaderInv

\* What a writer does to the table.
TableStep ==
  \/ \E n \in Nat : Insert(n)
  \/ Commit(open)
  \/ \E ids : Rollback(ids)
  \/ Trim
  \/ UNCHANGED tableVars

\* A reader that does nothing is not disturbed by a writer.
LEMMA TableStepReader ==
  ASSUME ReaderInv, TableStep, UNCHANGED readerVars
  PROVE  ReaderInv'
<1>0. /\ UNCHANGED <<history, view, cursor, boundary, stream, resume, drops>>
      /\ lastId \in Nat /\ open \subseteq 1 .. lastId /\ rows \subseteq 1 .. lastId
      /\ StreamTypeOK /\ NothingAhead /\ HistoryOK
  BY DEF readerVars, StreamTypeOK, ReaderInv
<1>1. /\ lastId' \in Nat /\ lastId' >= lastId
      /\ open' \subseteq 1 .. lastId' /\ rows' \subseteq 1 .. lastId'
      /\ \A i \in rows' : i \in rows \/ i \in open
      /\ \A o \in open' : o \in open \/ o > lastId
      /\ open' # {} => rows' \subseteq rows
  <2>1. CASE \E n \in Nat : Insert(n)
    <3>1. PICK n \in Nat : Insert(n)
      BY <2>1
    <3>2. lastId' = lastId + n /\ open' = (lastId + 1) .. (lastId + n) /\ rows' = rows
      BY <3>1 DEF Insert
    <3> QED
      BY <3>2, <1>0
  <2>2. CASE Commit(open)
    <3>1. lastId' = lastId /\ open' = {} /\ rows' = rows \cup open
      BY <2>2 DEF Commit
    <3> QED
      BY <3>1, <1>0
  <2>3. CASE \E ids : Rollback(ids)
    <3>1. lastId' = lastId /\ open' \subseteq open /\ rows' = rows
      BY <2>3 DEF Rollback
    <3> QED
      BY <3>1, <1>0
  <2>4. CASE Trim
    <3>1. lastId' = lastId /\ open' = open /\ rows' \subseteq rows
      BY <2>4 DEF Trim, Newest
    <3> QED
      BY <3>1, <1>0
  <2>5. CASE UNCHANGED tableVars
    <3>1. lastId' = lastId /\ open' = open /\ rows' = rows
      BY <2>5 DEF tableVars
    <3> QED
      BY <3>1, <1>0
  <2> QED
    BY <2>1, <2>2, <2>3, <2>4, <2>5 DEF TableStep
<1>2. 1 .. lastId \subseteq 1 .. lastId' /\ 0 .. lastId \subseteq 0 .. lastId'
  BY <1>0, <1>1
<1>3. /\ history.ids \subseteq 1 .. lastId /\ view \subseteq 1 .. lastId
      /\ cursor \in 0 .. lastId /\ resume \in 0 .. lastId
      /\ stream.after \in 0 .. lastId /\ stream.sent \subseteq 1 .. lastId
  BY <1>0 DEF StreamTypeOK
<1>4. StreamTypeOK'
  BY <1>0, <1>1, <1>2 DEF StreamTypeOK
<1>5. NothingAhead'
  <2> SUFFICES ASSUME NEW o \in open'
               PROVE  /\ cursor < o /\ resume < o /\ stream.after < o
                      /\ \A i \in rows' : i < o
                      /\ \A i \in history.ids \cup stream.sent : i < o
    BY <1>0 DEF NothingAhead
  <2>1. rows' \subseteq rows
    BY <1>1
  <2>2. CASE o \in open
    BY <1>0, <2>1, <2>2 DEF NothingAhead
  <2>3. CASE o > lastId
    BY <1>0, <1>1, <1>3, <2>1, <2>3
  <2> QED
    BY <1>1, <2>2, <2>3
<1>6. HistoryOK'
  <2> SUFFICES ASSUME NEW i \in rows', NEW j \in history.ids, NEW k \in history.ids, j < i, i < k
               PROVE  i \in history.ids
    BY <1>0 DEF HistoryOK
  <2>1. i \notin open
    BY <1>0, <1>3, <1>1 DEF NothingAhead
  <2> QED
    BY <2>1, <1>0, <1>1 DEF HistoryOK
<1>7. ASSUME InStep PROVE InStep'
  <2>1. PageOK /\ WayOK /\ ViewOK /\ SentOK
    BY <1>7 DEF InStep
  <2>2. PageOK' /\ WayOK'
    BY <1>0, <2>1 DEF PageOK, WayOK
  <2>3. ViewOK'
    <3> SUFFICES ASSUME NEW i \in rows', NEW j \in view, j < i, i <= cursor
                 PROVE  i \in view
      BY <1>0 DEF ViewOK
    <3>1. i \notin open
      BY <1>0, <1>3, <1>1 DEF NothingAhead
    <3> QED
      BY <3>1, <2>1, <1>1 DEF ViewOK
  <2>4. SentOK'
    <3> SUFFICES ASSUME NEW i \in rows', stream.state = "open", cursor < i, i <= stream.after,
                        cursor > 0 \/ \E j \in stream.sent : j <= i
                 PROVE  i \in stream.sent
      BY <1>0 DEF SentOK
    <3>1. i \notin open
      BY <1>0, <1>3, <1>1 DEF NothingAhead
    <3> QED
      BY <3>1, <2>1, <1>1 DEF SentOK
  <2> QED
    BY <2>2, <2>3, <2>4 DEF InStep
<1>8. history' = history
  BY <1>0
<1> QED
  BY <1>4, <1>5, <1>6, <1>7, <1>8 DEF ReaderInv

\* What one query of the stream finds: rows that follow its cursor, without a gap,
\* and up to the next cursor.
LEMMA PollFinds ==
  ASSUME StreamTypeOK, NEW found, found = List(stream.after), found # {},
         NEW next, next = Last(found, stream.after)
  PROVE  /\ found \subseteq rows
         /\ \A i \in found : stream.after < i
         /\ \A i \in rows, j \in found, k \in found :
              (stream.after < i /\ j <= i /\ i <= k) => i \in found
         /\ \A i \in rows, k \in found :
              (stream.after > 0 /\ stream.after < i /\ i <= k) => i \in found
         /\ next \in found /\ next \in 1 .. lastId /\ stream.after < next
         /\ \A i \in found : i <= next
<1>0. /\ lastId \in Nat /\ rows \subseteq 1 .. lastId /\ stream.after \in 0 .. lastId
      /\ Page \in Nat \ {0}
  BY StreamAssumption DEF StreamTypeOK
<1>1. /\ found \subseteq rows
      /\ \A i \in found : stream.after < i
      /\ \A i \in rows, j \in found, k \in found :
           (stream.after < i /\ j <= i /\ i <= k) => i \in found
      /\ \A i \in rows, k \in found :
           (stream.after > 0 /\ stream.after < i /\ i <= k) => i \in found
  <2>1. CASE stream.after = 0
    <3>1. found = Newest(Page, rows)
      BY <2>1 DEF List
    <3>2. /\ found \subseteq rows
          /\ \A i \in rows, j \in found : j < i => i \in found
      BY <3>1, <1>0, NewestFacts
    <3>3. \A i \in rows, j \in found : j <= i => i \in found
      <4> SUFFICES ASSUME NEW i \in rows, NEW j \in found, j <= i PROVE i \in found
        OBVIOUS
      <4>1. j = i \/ j < i
        BY <3>2, <1>0
      <4> QED
        BY <4>1, <3>2
    <3> QED
      BY <2>1, <3>2, <3>3, <1>0
  <2>2. CASE stream.after # 0
    <3> DEFINE later == {i \in rows : i > stream.after}
    <3>1. found = Oldest(Page, later)
      BY <2>2 DEF List
    <3>2. later \subseteq 1 .. lastId
      BY <1>0
    <3>3. /\ found \subseteq later
          /\ \A i \in later, j \in found : i < j => i \in found
      BY <3>1, <3>2, <1>0, OldestFacts
    <3>4. \A i \in later, j \in found : i <= j => i \in found
      <4> SUFFICES ASSUME NEW i \in later, NEW j \in found, i <= j PROVE i \in found
        OBVIOUS
      <4>1. j = i \/ i < j
        BY <3>3, <1>0
      <4> QED
        BY <4>1, <3>3
    <3>5. \A i \in rows : stream.after < i => i \in later
      BY <1>0
    <3> QED
      BY <3>3, <3>4, <3>5, <1>0
  <2> QED
    BY <2>1, <2>2
<1>2. next = Max(found)
  BY DEF Last
<1>3. found \subseteq 1 .. lastId
  BY <1>0, <1>1
<1>4. next \in found /\ \A i \in found : i <= next
  BY <1>0, <1>2, <1>3, MaxFacts
<1> QED
  BY <1>0, <1>1, <1>3, <1>4

\* The first event on its way.
LEMMA FirstSent ==
  ASSUME StreamTypeOK, stream.sent # {}, NEW id, id = Min(stream.sent)
  PROVE  id \in stream.sent /\ id \in 1 .. lastId /\ \A j \in stream.sent : id <= j
<1>1. lastId \in Nat /\ stream.sent \subseteq 1 .. lastId
  BY DEF StreamTypeOK
<1> QED
  BY <1>1, MinFacts

\* Whatever the page does, it is ahead of nothing that is still to be committed.
LEMMA BrowserBounds ==
  ASSUME ReaderInv, Browser, UNCHANGED tableVars
  PROVE  StreamTypeOK' /\ NothingAhead' /\ HistoryOK'
<1>0. /\ lastId' = lastId /\ open' = open /\ rows' = rows
      /\ StreamTypeOK /\ NothingAhead /\ HistoryOK
      /\ lastId \in Nat /\ open \subseteq 1 .. lastId /\ rows \subseteq 1 .. lastId
      /\ history.ids \subseteq 1 .. lastId /\ history.state \in HistoryStates
      /\ history.fetched \in BOOLEAN /\ view \subseteq 1 .. lastId
      /\ cursor \in 0 .. lastId /\ boundary \in 0 .. lastId /\ resume \in 0 .. lastId
      /\ stream.after \in 0 .. lastId /\ stream.sent \subseteq 1 .. lastId
      /\ stream.state \in StreamStates
      /\ drops \in 0 .. MaxDrops /\ MaxDrops \in Nat
      /\ Page \in Nat \ {0} /\ Window \in Nat \ {0}
  BY StreamAssumption DEF tableVars, ReaderInv, StreamTypeOK
<1>1. /\ history = [state |-> history.state, ids |-> history.ids, fetched |-> history.fetched]
      /\ stream = [state |-> stream.state, after |-> stream.after, sent |-> stream.sent]
  BY <1>0 DEF StreamTypeOK
<1>2. \A o \in open : 0 < o
  BY <1>0
<1> DEFINE top == Last(history.ids, 0)
<1>3. top \in 0 .. lastId /\ \A o \in open : top < o
  <2>1. top \in 0 .. lastId /\ (history.ids # {} => top \in history.ids)
    BY <1>0, LastFacts
  <2>2. history.ids = {} => top = 0
    BY DEF Last
  <2> QED
    BY <2>1, <2>2, <1>0, <1>2 DEF NothingAhead
<1> HIDE DEF top
<1>4. ASSUME history'.ids = history.ids, history'.state = "asked", history'.fetched \in BOOLEAN,
             history' = [state |-> history'.state, ids |-> history'.ids, fetched |-> history'.fetched],
             UNCHANGED <<view, cursor, boundary, stream, resume, drops>>
      PROVE  StreamTypeOK' /\ NothingAhead' /\ HistoryOK'
  <2>1. StreamTypeOK'
    <3>1. history' \in [state : HistoryStates, ids : SUBSET (1 .. lastId), fetched : BOOLEAN]
      BY <1>0, <1>4 DEF HistoryStates
    <3> QED
      BY <1>0, <1>4, <3>1 DEF StreamTypeOK
  <2>2. NothingAhead' /\ HistoryOK'
    BY <1>0, <1>4 DEF NothingAhead, HistoryOK
  <2> QED
    BY <2>1, <2>2
<1>5. ASSUME NEW st \in StreamStates, NEW n \in 0 .. lastId, NEW ids \in SUBSET (1 .. lastId),
             stream' = [state |-> st, after |-> n, sent |-> ids],
             \A o \in open : n < o /\ \A i \in ids : i < o,
             history' = history, view' \subseteq 1 .. lastId, drops' \in 0 .. MaxDrops,
             cursor' \in 0 .. lastId, boundary' \in 0 .. lastId, resume' \in 0 .. lastId,
             \A o \in open : cursor' < o /\ resume' < o
      PROVE  StreamTypeOK' /\ NothingAhead' /\ HistoryOK'
  <2>1. StreamTypeOK'
    BY <1>0, <1>5 DEF StreamTypeOK
  <2>2. NothingAhead' /\ HistoryOK'
    BY <1>0, <1>5 DEF NothingAhead, HistoryOK
  <2> QED
    BY <2>1, <2>2
<1>6. CASE Ask \/ AskAgain
  <2>1. /\ history' = [state |-> "asked", ids |-> history.ids, fetched |-> history.fetched]
        /\ UNCHANGED <<view, cursor, boundary, stream, resume, drops>>
    BY <1>1, <1>6 DEF Ask, AskAgain
  <2> QED
    BY <1>0, <1>4, <2>1 DEF HistoryStates
<1>7. CASE Answer
  <2>1. /\ history' = [state |-> "answered", ids |-> Newest(Page, rows), fetched |-> history.fetched]
        /\ UNCHANGED <<view, cursor, boundary, stream, resume, drops>>
    BY <1>1, <1>7 DEF Answer, List
  <2>2. /\ history'.ids \subseteq rows
        /\ \A i \in rows, j \in history'.ids : j < i => i \in history'.ids
    BY <1>0, <2>1, NewestFacts
  <2>3. StreamTypeOK'
    BY <1>0, <2>1, <2>2 DEF StreamTypeOK, HistoryStates
  <2>4. NothingAhead' /\ HistoryOK'
    BY <1>0, <2>1, <2>2 DEF NothingAhead, HistoryOK
  <2> QED
    BY <2>3, <2>4
<1>8. CASE Received
  <2>1. /\ history'.state \in {"late", "done"} /\ history'.ids = history.ids /\ history'.fetched = TRUE
        /\ history' = [state |-> history'.state, ids |-> history'.ids, fetched |-> history'.fetched]
        /\ view' = history.ids /\ cursor' = top /\ resume' \in {resume, top}
        /\ UNCHANGED <<boundary, stream, drops>>
    BY <1>1, <1>8 DEF Received, top
  <2>2. StreamTypeOK'
    <3>1. history' \in [state : HistoryStates, ids : SUBSET (1 .. lastId), fetched : BOOLEAN]
      BY <1>0, <2>1 DEF HistoryStates
    <3> QED
      BY <1>0, <1>3, <2>1, <3>1 DEF StreamTypeOK
  <2>3. NothingAhead' /\ HistoryOK'
    BY <1>0, <1>3, <2>1 DEF NothingAhead, HistoryOK
  <2> QED
    BY <2>2, <2>3
<1>9. CASE AskFails
  <2>1. /\ history' = [state |-> "failed", ids |-> {}, fetched |-> TRUE]
        /\ drops' = drops + 1 /\ drops < MaxDrops
        /\ UNCHANGED <<view, cursor, boundary, stream, resume>>
    BY <1>9 DEF AskFails
  <2>2. StreamTypeOK'
    BY <1>0, <2>1 DEF StreamTypeOK, HistoryStates
  <2> QED
    BY <1>0, <2>1, <2>2 DEF NothingAhead, HistoryOK
<1>10. CASE Connect
  <2>1. /\ stream' = [state |-> "open", after |-> resume, sent |-> {}]
        /\ UNCHANGED <<history, view, cursor, boundary, resume, drops>>
    BY <1>10 DEF Connect
  <2>2. \A o \in open : (resume < o /\ cursor < o) /\ \A i \in {} : i < o
    BY <1>0 DEF NothingAhead
  <2>3. /\ "open" \in StreamStates /\ {} \in SUBSET (1 .. lastId)
        /\ history' = history /\ view' = view /\ drops' = drops
        /\ cursor' = cursor /\ boundary' = boundary /\ resume' = resume
    BY <2>1 DEF StreamStates
  <2> QED
    BY <1>0, <1>5, <2>1, <2>2, <2>3
<1>11. CASE Refuse
  <2>1. /\ stream' = [state |-> "closed", after |-> stream.after, sent |-> stream.sent]
        /\ drops' = drops + 1 /\ drops < MaxDrops
        /\ UNCHANGED <<history, view, cursor, boundary, resume>>
    BY <1>1, <1>11 DEF Refuse
  <2>2. drops' \in 0 .. MaxDrops
    BY <1>0, <2>1
  <2> QED
    BY <1>0, <1>5, <2>1, <2>2 DEF NothingAhead, StreamStates
<1>12. CASE Poll
  <2>1. PICK found : found = List(stream.after)
    OBVIOUS
  <2>2. PICK next : next = Last(found, stream.after)
    OBVIOUS
  <2>3. /\ found # {}
        /\ stream' = [state |-> stream.state, after |-> next, sent |-> stream.sent \cup found]
        /\ UNCHANGED <<history, view, cursor, boundary, resume, drops>>
    BY <1>1, <1>12, <2>1, <2>2 DEF Poll
  <2>4. found \subseteq rows /\ next \in found
    BY <1>0, <2>1, <2>2, <2>3, PollFinds
  <2>5. /\ stream.sent \cup found \in SUBSET (1 .. lastId) /\ next \in 0 .. lastId
        /\ \A o \in open : next < o /\ \A i \in stream.sent \cup found : i < o
    <3>1. next \in rows
      BY <2>4
    <3>2. next \in 0 .. lastId
      BY <1>0, <3>1
    <3>3. ASSUME NEW o \in open PROVE next < o /\ \A i \in stream.sent \cup found : i < o
      BY <1>0, <2>4, <3>1 DEF NothingAhead
    <3>4. stream.sent \cup found \subseteq 1 .. lastId
      BY <1>0, <2>4
    <3> QED
      BY <3>2, <3>3, <3>4
  <2> QED
    BY <1>0, <1>5, <2>3, <2>5 DEF NothingAhead
<1>13. CASE Receive
  <2>1. PICK id : id = Min(stream.sent)
    OBVIOUS
  <2>2. PICK rest : rest = stream.sent \ {id}
    OBVIOUS
  <2>3. id \in stream.sent /\ id \in 1 .. lastId
    BY <1>0, <1>13, <2>1, FirstSent DEF Receive
  <2>4. /\ stream' = [state |-> stream.state, after |-> stream.after, sent |-> rest]
        /\ cursor' \in {id, cursor} /\ resume' = id
        /\ view' \in {Newest(Window, view \cup {id}), view}
        /\ UNCHANGED <<history, boundary, drops>>
    BY <1>1, <1>13, <2>1, <2>2 DEF Receive
  <2>5. view' \subseteq 1 .. lastId
    BY <1>0, <2>3, <2>4 DEF Newest
  <2>6. /\ rest \in SUBSET (1 .. lastId)
        /\ \A o \in open : id < o /\ cursor < o /\ stream.after < o /\ \A i \in rest : i < o
    BY <1>0, <2>2, <2>3 DEF NothingAhead
  <2> QED
    BY <1>0, <1>5, <2>3, <2>4, <2>5, <2>6
<1>14. CASE Drop
  <2>1. /\ stream' = [state |-> "connecting", after |-> 0, sent |-> {}]
        /\ drops' = drops + 1 /\ drops < MaxDrops
        /\ UNCHANGED <<history, view, cursor, boundary, resume>>
    BY <1>14 DEF Drop, Connecting
  <2>2. drops' \in 0 .. MaxDrops /\ 0 \in 0 .. lastId
    BY <1>0, <2>1
  <2>3. \A o \in open : (0 < o /\ resume < o /\ cursor < o) /\ \A i \in {} : i < o
    BY <1>0, <1>2 DEF NothingAhead
  <2>4. /\ "connecting" \in StreamStates /\ {} \in SUBSET (1 .. lastId)
        /\ history' = history /\ view' = view
        /\ cursor' = cursor /\ boundary' = boundary /\ resume' = resume
    BY <2>1 DEF StreamStates
  <2> QED
    BY <1>0, <1>5, <2>1, <2>2, <2>3, <2>4
<1>15. CASE Clear
  <2>1. /\ boundary' = cursor /\ view' = {}
        /\ UNCHANGED <<history, cursor, stream, resume, drops>>
    BY <1>15 DEF Clear
  <2> QED
    BY <1>0, <1>1, <1>5, <2>1 DEF NothingAhead
<1>16. CASE Reopen
  <2>1. /\ history' = [state |-> history'.state, ids |-> history'.ids, fetched |-> history'.fetched]
        /\ history'.state \in HistoryStates /\ history'.fetched \in BOOLEAN
        /\ history'.ids \in {history.ids, {}}
        /\ history'.state \in {"done", "late"} => history'.fetched
    <3>1. Remembered
      BY <1>16 DEF Reopen
    <3>2. CASE history.state \in {"done", "late"} /\ history' = [history EXCEPT !.state = "done"]
      <4>1. history' = [state |-> "done", ids |-> history.ids, fetched |-> history.fetched]
        BY <1>1, <3>2
      <4>2. history.fetched
        BY <1>0, <3>2 DEF HistoryOK
      <4> QED
        BY <1>0, <4>1, <4>2 DEF HistoryStates
    <3>3. CASE history' = [history EXCEPT !.state = "asked"]
      <4>1. history' = [state |-> "asked", ids |-> history.ids, fetched |-> history.fetched]
        BY <1>1, <3>3
      <4> QED
        BY <1>0, <4>1 DEF HistoryStates
    <3>4. CASE history.state \in {"asked", "answered"} /\ history' = history
      <4>1. history' = [state |-> history.state, ids |-> history.ids, fetched |-> history.fetched]
        BY <1>1, <3>4
      <4> QED
        BY <1>0, <3>4, <4>1 DEF HistoryStates
    <3>5. CASE history' = [state |-> "idle", ids |-> {}, fetched |-> FALSE]
      BY <3>5 DEF HistoryStates
    <3> QED
      BY <3>1, <3>2, <3>3, <3>4, <3>5 DEF Remembered, NotAsked
  <2>2. /\ view' \in {history.ids, {}} /\ cursor' \in {top, 0} /\ resume' = cursor' /\ boundary' = 0
        /\ stream' = [state |-> "connecting", after |-> 0, sent |-> {}]
        /\ drops' = drops + 1 /\ drops < MaxDrops
    BY <1>16 DEF Reopen, Connecting, top
  <2>3. StreamTypeOK'
    <3>1. history' \in [state : HistoryStates, ids : SUBSET (1 .. lastId), fetched : BOOLEAN]
      BY <1>0, <2>1
    <3>2. stream' \in [state : StreamStates, after : 0 .. lastId, sent : SUBSET (1 .. lastId)]
      BY <1>0, <2>2 DEF StreamStates
    <3>3. view' \subseteq 1 .. lastId /\ {cursor', boundary', resume'} \subseteq 0 .. lastId
          /\ drops' \in 0 .. MaxDrops
      BY <1>0, <1>3, <2>2
    <3> QED
      BY <1>0, <3>1, <3>2, <3>3 DEF StreamTypeOK
  <2>4. NothingAhead'
    <3> SUFFICES ASSUME NEW o \in open
                 PROVE  /\ cursor' < o /\ resume' < o /\ stream'.after < o
                        /\ \A i \in rows : i < o
                        /\ \A i \in history'.ids \cup stream'.sent : i < o
      BY <1>0 DEF NothingAhead
    <3>1. cursor' < o
      BY <1>2, <1>3, <2>2
    <3> QED
      BY <1>0, <1>2, <2>1, <2>2, <3>1 DEF NothingAhead
  <2>5. HistoryOK'
    BY <1>0, <2>1 DEF HistoryOK
  <2> QED
    BY <2>3, <2>4, <2>5
<1> QED
  BY <1>6, <1>7, <1>8, <1>9, <1>10, <1>11, <1>12, <1>13, <1>14, <1>15, <1>16 DEF Browser

\* The page starts over from an answer, received now or cached.
LEMMA StartsOver ==
  ASSUME StreamTypeOK, HistoryOK, rows' = rows, history'.fetched = TRUE,
         view' = history.ids, cursor' = Last(history.ids, 0), resume' = cursor', boundary' = 0,
         stream'.state # "open", stream'.sent = {}
  PROVE  InStep'
<1> DEFINE top == Last(history.ids, 0)
<1>0. lastId \in Nat /\ rows \subseteq 1 .. lastId /\ history.ids \subseteq 1 .. lastId
  BY DEF StreamTypeOK
<1>1. /\ top \in 0 .. lastId /\ \A i \in history.ids : i <= top
      /\ history.ids # {} => top \in history.ids
  BY <1>0, LastFacts
<1>2. cursor' = top /\ resume' = top
  OBVIOUS
<1> HIDE DEF top
<1>3. PageOK' /\ WayOK' /\ SentOK'
  <2>1. boundary' <= top
    BY <1>1
  <2> QED
    BY <2>1, <1>1, <1>2 DEF PageOK, WayOK, SentOK
<1>4. ViewOK'
  <2> SUFFICES ASSUME NEW i \in rows, NEW j \in history.ids, j < i, i <= top
               PROVE  i \in history.ids
    BY <1>2 DEF ViewOK
  <2>1. top \in history.ids
    BY <1>1
  <2>2. CASE i = top
    BY <2>1, <2>2
  <2>3. CASE i # top
    <3>1. i < top
      BY <2>3, <1>0, <1>1
    <3> QED
      BY <3>1, <2>1 DEF HistoryOK
  <2> QED
    BY <2>2, <2>3
<1> QED
  BY <1>3, <1>4 DEF InStep

LEMMA BrowserStepReader ==
  ASSUME ReaderInv, Browser, UNCHANGED tableVars
  PROVE  ReaderInv'
<1>0. /\ lastId' = lastId /\ open' = open /\ rows' = rows
      /\ StreamTypeOK /\ NothingAhead /\ HistoryOK
      /\ lastId \in Nat /\ rows \subseteq 1 .. lastId
      /\ history.ids \subseteq 1 .. lastId /\ view \subseteq 1 .. lastId
      /\ cursor \in 0 .. lastId /\ boundary \in 0 .. lastId /\ resume \in 0 .. lastId
      /\ stream.after \in 0 .. lastId /\ stream.sent \subseteq 1 .. lastId
      /\ stream = [state |-> stream.state, after |-> stream.after, sent |-> stream.sent]
      /\ history = [state |-> history.state, ids |-> history.ids, fetched |-> history.fetched]
      /\ history.fetched \in BOOLEAN /\ Window \in Nat \ {0}
  BY StreamAssumption DEF tableVars, ReaderInv, StreamTypeOK
<1> SUFFICES ASSUME history'.state # "late" PROVE InStep'
  BY BrowserBounds DEF ReaderInv
<1>1. CASE Reopen
  <2>1. /\ view' = (IF history'.state = "done" THEN history.ids ELSE {})
        /\ cursor' = (IF history'.state = "done" THEN Last(history.ids, 0) ELSE 0)
        /\ resume' = cursor' /\ boundary' = 0 /\ Remembered
        /\ stream'.state = "connecting" /\ stream'.sent = {}
    BY <1>1 DEF Reopen, Connecting
  <2>2. CASE history'.state = "done"
    <3>1. history'.fetched = TRUE
      <4>1. history.state \in {"done", "late"} /\ history'.fetched = history.fetched
        BY <1>0, <2>1, <2>2 DEF Remembered, NotAsked
      <4> QED
        BY <1>0, <4>1 DEF HistoryOK
    <3> QED
      BY <1>0, <2>1, <2>2, <3>1, StartsOver
  <2>3. CASE history'.state # "done"
    <3>1. view' = {} /\ cursor' = 0
      BY <2>1, <2>3
    <3> QED
      BY <2>1, <3>1 DEF InStep, PageOK, WayOK, ViewOK, SentOK
  <2> QED
    BY <2>2, <2>3
<1>2. CASE ~Reopen
  <2>0. history.state # "late"
    BY <1>0, <1>2 DEF Browser, Ask, AskAgain, Answer, Received, AskFails, Connect, Refuse, Poll,
                      Receive, Drop, Clear
  <2>a. PageOK /\ WayOK /\ ViewOK /\ SentOK
    BY <2>0 DEF ReaderInv, InStep
  <2>1. CASE Ask \/ AskAgain \/ Answer
    <3>1. history'.fetched = history.fetched /\ UNCHANGED <<view, cursor, boundary, stream, resume>>
      BY <1>0, <2>1 DEF Ask, AskAgain, Answer
    <3> QED
      BY <1>0, <2>a, <3>1 DEF InStep, PageOK, WayOK, ViewOK, SentOK
  <2>2. CASE Received
    <3>1. ~history.fetched
      BY <1>0, <2>2 DEF Received
    <3>2. cursor = 0 /\ stream.state # "open"
      BY <2>a, <3>1 DEF PageOK
    <3>3. boundary = 0 /\ stream.sent = {}
      BY <1>0, <2>a, <3>2 DEF PageOK, WayOK
    <3>4. /\ history'.fetched = TRUE /\ view' = history.ids /\ cursor' = Last(history.ids, 0)
          /\ resume' = cursor' /\ UNCHANGED <<boundary, stream>>
      BY <1>0, <2>2, <3>1 DEF Received
    <3> QED
      BY <1>0, <3>2, <3>3, <3>4, StartsOver
  <2>3. CASE AskFails
    <3>1. history'.fetched = TRUE /\ UNCHANGED <<view, cursor, boundary, stream, resume>>
      BY <2>3 DEF AskFails
    <3> QED
      BY <1>0, <2>a, <3>1 DEF InStep, PageOK, WayOK, ViewOK, SentOK
  <2>4. CASE Connect
    <3>1. /\ stream' = [state |-> "open", after |-> resume, sent |-> {}] /\ history.fetched
          /\ UNCHANGED <<history, view, cursor, boundary, resume>>
      BY <2>4 DEF Connect
    <3>2. resume = cursor
      BY <2>a DEF PageOK
    <3> QED
      BY <1>0, <2>a, <3>1, <3>2 DEF InStep, PageOK, WayOK, ViewOK, SentOK
  <2>5. CASE Refuse \/ Drop
    <3>1. /\ stream'.state # "open" /\ stream'.sent = {}
          /\ UNCHANGED <<history, view, cursor, boundary, resume>>
      BY <1>0, <2>5, <2>a DEF Refuse, Drop, Connecting, WayOK
    <3> QED
      BY <1>0, <2>a, <3>1 DEF InStep, PageOK, WayOK, ViewOK, SentOK
  <2>6. CASE Clear
    <3>1. /\ boundary' = cursor /\ view' = {} /\ UNCHANGED <<history, cursor, stream, resume>>
      BY <2>6 DEF Clear
    <3> QED
      BY <1>0, <2>a, <3>1 DEF InStep, PageOK, WayOK, ViewOK, SentOK
  <2>7. CASE Poll
    <3>1. PICK found : found = List(stream.after)
      OBVIOUS
    <3>2. PICK next : next = Last(found, stream.after)
      OBVIOUS
    <3>3. /\ stream.state = "open" /\ found # {}
          /\ stream' = [state |-> "open", after |-> next, sent |-> stream.sent \cup found]
          /\ UNCHANGED <<history, view, cursor, boundary, resume>>
      BY <1>0, <2>7, <3>1, <3>2 DEF Poll
    <3>4. /\ found \subseteq rows
          /\ \A i \in found : stream.after < i
          /\ \A i \in rows, j \in found, k \in found :
               (stream.after < i /\ j <= i /\ i <= k) => i \in found
          /\ \A i \in rows, k \in found :
               (stream.after > 0 /\ stream.after < i /\ i <= k) => i \in found
          /\ next \in found /\ next \in 1 .. lastId /\ stream.after < next
          /\ \A i \in found : i <= next
      BY <1>0, <3>1, <3>2, <3>3, PollFinds
    <3>5. cursor <= stream.after
      BY <2>a, <3>3 DEF WayOK
    <3>6. PageOK' /\ ViewOK'
      <4>1. history.fetched
        BY <2>a, <3>3, <1>0 DEF PageOK
      <4> QED
        BY <1>0, <2>a, <3>3, <4>1 DEF PageOK, ViewOK
    <3>7. WayOK'
      <4>1. cursor <= next
        BY <1>0, <3>4, <3>5
      <4>2. ASSUME NEW i \in stream.sent PROVE cursor < i /\ i <= next
        <5>1. cursor < i /\ i <= stream.after
          BY <2>a DEF WayOK
        <5> QED
          BY <5>1, <1>0, <3>4
      <4>3. ASSUME NEW i \in found PROVE cursor < i /\ i <= next
        BY <1>0, <3>4, <3>5
      <4> QED
        BY <3>3, <4>1, <4>2, <4>3 DEF WayOK
    <3>8. SentOK'
      <4> SUFFICES ASSUME NEW i \in rows, cursor < i, i <= next,
                          cursor > 0 \/ \E j \in stream.sent \cup found : j <= i
                   PROVE  i \in stream.sent \cup found
        BY <1>0, <3>3 DEF SentOK
      <4>1. CASE i <= stream.after
        <5>1. cursor > 0 \/ \E j \in stream.sent : j <= i
          BY <1>0, <3>4, <4>1
        <5> QED
          BY <5>1, <4>1, <2>a, <3>3 DEF SentOK
      <4>2. CASE i > stream.after
        <5>1. CASE stream.after > 0
          BY <5>1, <4>2, <3>4, <1>0
        <5>2. CASE stream.after = 0
          <6>1. cursor = 0 /\ stream.sent = {}
            BY <5>2, <3>5, <1>0, <2>a DEF WayOK
          <6>2. PICK j \in found : j <= i
            BY <6>1
          <6> QED
            BY <6>2, <4>2, <3>4, <1>0
        <5> QED
          BY <5>1, <5>2, <1>0
      <4> QED
        BY <4>1, <4>2, <1>0
    <3> QED
      BY <3>6, <3>7, <3>8 DEF InStep
  <2>8. CASE Receive
    <3>0. PICK id : id = Min(stream.sent)
      OBVIOUS
    <3>a. PICK shown : shown = view \cup {id}
      OBVIOUS
    <3>b. PICK rest : rest = stream.sent \ {id}
      OBVIOUS
    <3>1. /\ id \in stream.sent /\ \A j \in stream.sent : id <= j
          /\ id \in 1 .. lastId /\ cursor < id /\ id <= stream.after /\ stream.state = "open"
      <4>1. stream.sent # {}
        BY <2>8 DEF Receive
      <4>2. id \in stream.sent /\ id \in 1 .. lastId /\ \A j \in stream.sent : id <= j
        BY <4>1, <3>0, <1>0, FirstSent
      <4> QED
        BY <4>1, <4>2, <2>a DEF WayOK
    <3>2. boundary < id
      BY <1>0, <2>a, <3>1 DEF PageOK
    <3>3. /\ stream' = [state |-> "open", after |-> stream.after, sent |-> rest]
          /\ cursor' = id /\ resume' = id /\ view' = Newest(Window, shown)
          /\ UNCHANGED <<history, boundary>>
      <4>1. /\ stream' = [stream EXCEPT !.sent = stream.sent \ {Min(stream.sent)}]
            /\ cursor' = (IF Min(stream.sent) > cursor THEN Min(stream.sent) ELSE cursor)
            /\ resume' = Min(stream.sent) /\ UNCHANGED <<history, boundary>>
            /\ view' = (IF Min(stream.sent) > boundary
                         THEN Newest(Window, view \cup {Min(stream.sent)}) ELSE view)
        BY <2>8 DEF Receive
      <4>2. id > cursor /\ id > boundary
        BY <1>0, <3>1, <3>2
      <4> QED
        BY <1>0, <3>0, <3>a, <3>b, <3>1, <4>1, <4>2
    <3>4. /\ shown \subseteq 1 .. lastId
          /\ \A i \in shown : i <= id
      <4>1. \A i \in view : i <= cursor
        BY <2>a DEF PageOK
      <4> QED
        BY <4>1, <1>0, <3>1, <3>a
    <3>5. /\ view' \subseteq shown
          /\ \A i \in shown, j \in view' : j < i => i \in view'
      BY <1>0, <3>3, <3>4, NewestFacts
    <3>6. rest \subseteq stream.sent /\ \A i \in rest : id < i
      <4>1. \A i \in rest : id <= i /\ i # id
        BY <3>1, <3>b
      <4> QED
        BY <4>1, <1>0, <3>1, <3>b
    <3>7. PageOK'
      <4>1. history.fetched
        BY <1>0, <2>a, <3>1 DEF PageOK
      <4>2. \A i \in view' : i <= id
        BY <3>4, <3>5
      <4>3. boundary <= id
        BY <3>1, <3>2, <1>0
      <4> QED
        BY <3>3, <4>1, <4>2, <4>3 DEF PageOK
    <3>8. WayOK'
      <4>1. \A i \in rest : i <= stream.after
        BY <2>a, <3>6 DEF WayOK
      <4> QED
        BY <3>1, <3>3, <3>6, <4>1 DEF WayOK
    <3>9. ViewOK'
      <4> SUFFICES ASSUME NEW i \in rows, NEW j \in view', j < i, i <= id
                   PROVE  i \in view'
        BY <1>0, <3>3 DEF ViewOK
      <4>1. i \in shown
        <5>1. CASE i = id
          BY <5>1, <3>a
        <5>2. CASE i # id
          <6>1. i < id /\ j # id
            BY <5>2, <1>0, <3>1
          <6>2. j \in view
            BY <6>1, <3>5, <3>a
          <6>3. CASE i <= cursor
            BY <6>2, <6>3, <2>a, <3>a DEF ViewOK
          <6>4. CASE cursor < i
            <7>1. cursor > 0
              <8>1. j <= cursor
                BY <6>2, <2>a DEF PageOK
              <8> QED
                BY <8>1, <6>2, <1>0
            <7>2. i <= stream.after
              BY <6>1, <3>1, <1>0
            <7>3. i \in stream.sent
              BY <7>1, <7>2, <6>4, <3>1, <2>a DEF SentOK
            <7>4. id <= i
              BY <7>3, <3>1
            <7> QED
              BY <7>4, <6>1, <1>0, <3>1
          <6> QED
            BY <6>3, <6>4, <1>0
        <5> QED
          BY <5>1, <5>2
      <4> QED
        BY <4>1, <3>5
    <3>10. SentOK'
      <4> SUFFICES ASSUME NEW i \in rows, id < i, i <= stream.after
                   PROVE  i \in rest
        BY <1>0, <3>3 DEF SentOK
      <4>1. id <= i /\ cursor < i
        BY <1>0, <3>1
      <4>2. i \in stream.sent
        BY <2>a, <3>1, <4>1 DEF SentOK
      <4> QED
        BY <4>2, <1>0, <3>1, <3>b
    <3> QED
      BY <3>7, <3>8, <3>9, <3>10 DEF InStep
  <2> QED
    BY <1>2, <2>1, <2>2, <2>3, <2>4, <2>5, <2>6, <2>7, <2>8 DEF Browser
<1> QED
  BY <1>1, <1>2

LEMMA ReaderSeesAll == ReaderInv => NoHoles
<1> SUFFICES ASSUME ReaderInv, history.state # "late",
                    NEW i \in rows, view # {}, Min(view) < i, i <= cursor
             PROVE  i \in view
  BY DEF NoHoles
<1>1. lastId \in Nat /\ view \subseteq 1 .. lastId
  BY DEF ReaderInv, StreamTypeOK
<1>2. Min(view) \in view
  BY <1>1, MinFacts
<1> QED
  BY <1>2 DEF ReaderInv, InStep, ViewOK

-----------------------------------------------------------------------------
(* Requests and transactions *)

Line == (1 .. MaxFiles) \X (1 .. MaxLines)
Txn == [for : Attempt, ids : SUBSET Nat, add : Seq(Line), answer : 0 .. MaxRows]

FeedTypes ==
  /\ file \in [no : 1 .. MaxFiles, length : 0 .. MaxLines]
  /\ pump \in Position /\ saved \in Position \cup {None}
  /\ pending \in Request \cup {None} /\ sent \in Attempt \cup {None}
  /\ pc \in {"idle", "post", "save"} /\ wire \subseteq Attempt
  /\ stored \in Seq(Line) /\ lastId \in 0 .. MaxRows /\ faults \in 0 .. MaxFaults
  /\ txns \subseteq Txn
  /\ rebases \subseteq [request : Request, cursor : 0 .. MaxRows]

\* No request is empty.
RequestsOK ==
  /\ \A m \in wire : m[1].from < m[1].to
  /\ pending # None => pending.from < pending.to

\* The open transaction is the one that has not been answered: it holds the ids
\* drawn last, and there is room for its lines.
TxnsOK ==
  /\ Len(stored) <= lastId
  /\ \A t \in txns :
       /\ t.ids \subseteq 1 .. lastId
       /\ t.answer = 0 =>
            t.ids = open /\ open # {} /\ t.add # <<>> /\ Len(stored) + Len(t.add) <= lastId
       /\ t.answer # 0 => t.ids \cap open = {}
  /\ \A t, u \in txns : (t.answer = 0 /\ u.answer = 0) => t = u

FeedInv == FeedTypes /\ RequestsOK /\ TxnsOK

LEMMA DeltaFacts ==
  ASSUME FeedTypes, Count(Delta) > 0
  PROVE  /\ Delta \in Request /\ Delta.from < Delta.to
         /\ Delta.file = file.no /\ Delta.from = From /\ Delta.to <= file.length
         /\ Delta.to = From + Batch \/ Delta.to = file.length
         /\ Delta.cursor = pump.cursor + Count(Delta) /\ Delta.rebase = pump.rebase
<1>1. /\ From \in 0 .. MaxLines /\ Batch \in Nat /\ file.length \in 0 .. MaxLines
      /\ file.no \in 1 .. MaxFiles /\ pump.cursor \in 0 .. MaxRows /\ pump.rebase \in BOOLEAN
  BY FeedAssumption DEF FeedTypes, Position, From
<1> DEFINE to == AtMost(From + Batch, file.length)
<1>2. /\ to \in Int /\ to <= file.length
      /\ to = From + Batch \/ to = file.length
  BY <1>1 DEF AtMost
<1>3. Delta = [file |-> file.no, from |-> From, to |-> to,
               cursor |-> pump.cursor + to - From, rebase |-> pump.rebase]
  BY DEF Delta
<1> HIDE DEF to
<1>4. to - From > 0
  BY <1>3 DEF Count
<1>5. /\ to \in 0 .. MaxLines
      /\ pump.cursor + to - From \in 0 .. MaxRows + MaxLines
      /\ pump.cursor + to - From = pump.cursor + (to - From)
  BY <1>1, <1>2, <1>4, FeedAssumption, StreamAssumption
<1>6. Delta \in Request
  BY <1>1, <1>3, <1>5 DEF Request
<1> QED
  BY <1>1, <1>2, <1>3, <1>4, <1>5, <1>6 DEF Count

LEMMA LinesFacts ==
  ASSUME NEW r \in Request, r.from < r.to, NEW first \in 0 .. Count(r) - 1
  PROVE  /\ Count(r) \in 1 .. MaxLines
         /\ SubSeq(Lines(r), first + 1, Count(r)) \in Seq(Line)
         /\ Len(SubSeq(Lines(r), first + 1, Count(r))) = Count(r) - first
         /\ \A k \in 1 .. Count(r) - first :
              SubSeq(Lines(r), first + 1, Count(r))[k] = <<r.file, r.from + first + k>>
<1>1. /\ r.from \in 0 .. MaxLines /\ r.to \in 0 .. MaxLines /\ r.file \in 1 .. MaxFiles
      /\ Count(r) = r.to - r.from
  BY DEF Request, Count
<1>2. Count(r) \in 1 .. MaxLines
  BY <1>1, FeedAssumption
<1>3. /\ Lines(r) = [k \in 1 .. Count(r) |-> <<r.file, r.from + k>>]
  BY <1>1 DEF Lines
<1>4. \A k \in 1 .. Count(r) : <<r.file, r.from + k>> \in Line
  BY <1>1, <1>2, FeedAssumption DEF Line
<1>5. Lines(r) \in [1 .. Count(r) -> Line]
  BY <1>3, <1>4
<1>6. Lines(r) \in Seq(Line) /\ Len(Lines(r)) = Count(r)
  BY <1>2, <1>5, LenProperties, SeqDef
<1>7. /\ first + 1 \in 1 .. Len(Lines(r)) + 1 /\ Count(r) \in first .. Len(Lines(r))
      /\ Count(r) - (first + 1) + 1 = Count(r) - first
  BY <1>2, <1>6
<1>8. \A k \in 1 .. Count(r) - first : (first + 1) + k - 1 \in 1 .. Count(r) /\ (first + 1) + k - 1 = first + k
  BY <1>2
<1> DEFINE part == SubSeq(Lines(r), first + 1, Count(r))
<1>9. /\ part \in Seq(Line) /\ Len(part) = Count(r) - first
      /\ \A k \in 1 .. Count(r) - first : part[k] = Lines(r)[(first + 1) + k - 1]
  BY <1>6, <1>7, <1>2, SubSeqProperties
<1>10. ASSUME NEW k \in 1 .. Count(r) - first
       PROVE  part[k] = <<r.file, r.from + first + k>>
  <2>1. part[k] = Lines(r)[first + k] /\ first + k \in 1 .. Count(r)
    BY <1>8, <1>9
  <2>2. Lines(r)[first + k] = <<r.file, r.from + (first + k)>>
    BY <1>3, <2>1
  <2> QED
    BY <1>1, <1>2, <2>1, <2>2
<1> QED
  BY <1>2, <1>9, <1>10

LEMMA FeedInit == Init => FeedInv
<1> SUFFICES ASSUME Init PROVE FeedInv
  OBVIOUS
<1>1. /\ MaxLines \in Nat /\ MaxFaults \in Nat /\ MaxRows \in Nat /\ TailLines \in Nat
      /\ 1 \in 1 .. MaxFiles
  BY FeedAssumption, StreamAssumption
<1>2. PICK n \in 0 .. MaxLines : file = [no |-> 1, length |-> n]
  BY DEF Init
<1>3. AtLeast(0, n - TailLines) \in 0 .. MaxLines
  BY <1>1 DEF AtLeast
<1>4. pump \in Position
  BY <1>1, <1>2, <1>3 DEF Init, FirstPosition, Position
<1>5. FeedTypes
  BY <1>1, <1>2, <1>4, EmptySeq DEF Init, StreamInit, FeedTypes
<1>6. RequestsOK /\ TxnsOK
  BY <1>1, EmptySeq DEF Init, StreamInit, RequestsOK, TxnsOK
<1> QED
  BY <1>5, <1>6 DEF FeedInv

\* What an answer does to the loop.
LEMMA ReplyTypes ==
  ASSUME FeedTypes, RequestsOK, NEW m \in Attempt, NEW accepted \in 0 .. MaxRows,
         Reply(m, accepted)
  PROVE  /\ pump' \in Position /\ pc' \in {"idle", "post", "save"}
         /\ sent' \in Attempt \cup {None}
         /\ pending' \in Request \cup {None}
         /\ pending' # None => pending'.from < pending'.to
<1>1. CASE sent # m
  BY <1>1 DEF Reply, FeedTypes, RequestsOK
<1>2. CASE sent = m /\ accepted >= m[1].cursor
  <2>1. /\ pump' = [file |-> m[1].file, at |-> m[1].to, cursor |-> accepted, rebase |-> FALSE]
        /\ pending' = None /\ pc' = "save" /\ sent' = None
    BY <1>2 DEF Reply
  <2>2. m[1].file \in 1 .. MaxFiles /\ m[1].to \in 0 .. MaxLines
    BY DEF Attempt, Request
  <2> QED
    BY <2>1, <2>2 DEF Position
<1>3. CASE sent = m /\ ~ (accepted >= m[1].cursor)
  BY <1>3 DEF Reply, FeedTypes, RequestsOK
<1> QED
  BY <1>1, <1>2, <1>3

\* Posting a request that is not empty.
LEMMA PostTypes ==
  ASSUME FeedTypes, RequestsOK, NEW r \in Request, r.from < r.to, Post(r)
  PROVE  /\ sent' \in Attempt \cup {None} /\ wire' \subseteq Attempt
         /\ pc' \in {"idle", "post", "save"}
         /\ \A m \in wire' : m[1].from < m[1].to
<1>1. <<r, faults>> \in Attempt
  BY DEF FeedTypes, Attempt
<1>2. sent' = <<r, faults>> /\ wire' = wire \cup {<<r, faults>>} /\ pc' = "post"
  BY DEF Post
<1> QED
  BY <1>1, <1>2 DEF FeedTypes, RequestsOK

LEMMA FeedStep ==
  ASSUME FeedInv, StreamTypeOK, [Next]_vars
  PROVE  /\ FeedInv'
         /\ \/ TableStep /\ UNCHANGED readerVars
            \/ Browser /\ UNCHANGED tableVars
<1>0. /\ FeedTypes /\ RequestsOK /\ TxnsOK
      /\ file \in [no : 1 .. MaxFiles, length : 0 .. MaxLines] /\ pump \in Position
      /\ wire \subseteq Attempt /\ txns \subseteq Txn /\ faults \in 0 .. MaxFaults
      /\ stored \in Seq(Line) /\ Len(stored) \in Nat /\ lastId \in 0 .. MaxRows
      /\ MaxRows \in Nat /\ MaxFaults \in Nat /\ MaxLines \in Nat /\ TailLines \in Nat
      /\ Len(stored) \in 0 .. MaxRows
  <2>1. FeedTypes /\ RequestsOK /\ TxnsOK
    BY DEF FeedInv
  <2>2. /\ file \in [no : 1 .. MaxFiles, length : 0 .. MaxLines] /\ pump \in Position
        /\ wire \subseteq Attempt /\ txns \subseteq Txn /\ faults \in 0 .. MaxFaults
        /\ stored \in Seq(Line) /\ lastId \in 0 .. MaxRows
    BY <2>1 DEF FeedTypes
  <2>3. MaxRows \in Nat /\ MaxFaults \in Nat /\ MaxLines \in Nat /\ TailLines \in Nat
    BY StreamAssumption, FeedAssumption
  <2>4. Len(stored) \in Nat
    BY <2>2, LenProperties
  <2>5. Len(stored) \in 0 .. MaxRows
    <3>1. Len(stored) <= lastId
      BY <2>1 DEF TxnsOK
    <3> QED
      BY <2>2, <2>3, <2>4, <3>1
  <2> QED
    BY <2>1, <2>2, <2>3, <2>4, <2>5
<1>1. CASE Write
  <2>1. /\ file.length < MaxLines /\ file' = [no |-> file.no, length |-> file.length + 1]
        /\ UNCHANGED <<tableVars, readerVars, pump, saved, pending, pc, sent, wire, txns, stored,
                       rebases, faults>>
    BY <1>0, <1>1 DEF Write
  <2>2. file' \in [no : 1 .. MaxFiles, length : 0 .. MaxLines]
    BY <1>0, <2>1
  <2>3. UNCHANGED <<lastId, open>>
    BY <2>1 DEF tableVars
  <2> QED
    BY <1>0, <2>1, <2>2, <2>3 DEF FeedInv, FeedTypes, RequestsOK, TxnsOK, TableStep
<1>2. CASE Rotate
  <2>1. /\ file.no < MaxFiles /\ file' = [no |-> file.no + 1, length |-> 0]
        /\ UNCHANGED <<tableVars, readerVars, pump, saved, pending, pc, sent, wire, txns, stored,
                       rebases, faults>>
    BY <1>2 DEF Rotate
  <2>2. file' \in [no : 1 .. MaxFiles, length : 0 .. MaxLines]
    BY <1>0, <2>1, FeedAssumption
  <2>3. UNCHANGED <<lastId, open>>
    BY <2>1 DEF tableVars
  <2> QED
    BY <1>0, <2>1, <2>2, <2>3 DEF FeedInv, FeedTypes, RequestsOK, TxnsOK, TableStep
<1>3. CASE Republish
  <2>1. /\ pending # None /\ pending \in Request /\ pending.from < pending.to /\ Post(pending)
        /\ UNCHANGED <<tableVars, readerVars, file, pump, saved, pending, txns, stored, rebases, faults>>
    BY <1>0, <1>3 DEF Republish, StillPending, FeedTypes, RequestsOK
  <2>2. /\ sent' \in Attempt \cup {None} /\ wire' \subseteq Attempt
        /\ pc' \in {"idle", "post", "save"}
        /\ \A m \in wire' : m[1].from < m[1].to
    BY <1>0, <2>1, PostTypes
  <2>3. UNCHANGED <<lastId, open>>
    BY <2>1 DEF tableVars
  <2> QED
    BY <1>0, <2>1, <2>2, <2>3 DEF FeedInv, FeedTypes, RequestsOK, TxnsOK, TableStep
<1>4. CASE Publish
  <2>1. /\ Count(Delta) > 0 /\ Post(Delta)
        /\ pending' = IF pump.rebase THEN Delta ELSE None
        /\ UNCHANGED <<tableVars, readerVars, file, pump, saved, txns, stored, rebases, faults>>
    BY <1>4 DEF Publish
  <2>2. Delta \in Request /\ Delta.from < Delta.to
    BY <1>0, <2>1, DeltaFacts
  <2>3. /\ sent' \in Attempt \cup {None} /\ wire' \subseteq Attempt
        /\ pc' \in {"idle", "post", "save"}
        /\ \A m \in wire' : m[1].from < m[1].to
    BY <1>0, <2>1, <2>2, PostTypes
  <2>4. pending' \in Request \cup {None} /\ (pending' # None => pending'.from < pending'.to)
    BY <2>1, <2>2
  <2>5. UNCHANGED <<lastId, open>>
    BY <2>1 DEF tableVars
  <2> QED
    BY <1>0, <2>1, <2>3, <2>4, <2>5 DEF FeedInv, FeedTypes, RequestsOK, TxnsOK, TableStep
<1>5. CASE NothingNew
  <2>1. /\ pump' = [pump EXCEPT !.file = file.no, !.at = From]
        /\ pc' \in {"idle", "save"} /\ pending' = None
        /\ UNCHANGED <<tableVars, readerVars, file, saved, sent, wire, txns, stored, rebases, faults>>
    BY <1>5 DEF NothingNew
  <2>2. From \in 0 .. MaxLines /\ file.no \in 1 .. MaxFiles
    BY <1>0 DEF From, Position
  <2>3. pump' \in Position
    BY <1>0, <2>1, <2>2 DEF Position
  <2>4. UNCHANGED <<lastId, open>>
    BY <2>1 DEF tableVars
  <2> QED
    BY <1>0, <2>1, <2>3, <2>4 DEF FeedInv, FeedTypes, RequestsOK, TxnsOK, TableStep
<1>6. CASE Save
  <2>1. /\ saved' = pump \/ saved' = saved
        /\ faults' = faults \/ (faults < MaxFaults /\ faults' = faults + 1)
        /\ pc' = "idle"
        /\ UNCHANGED <<tableVars, readerVars, file, pump, pending, sent, wire, txns, stored, rebases>>
    BY <1>6 DEF Save
  <2>2. saved' \in Position \cup {None} /\ faults' \in 0 .. MaxFaults
    BY <1>0, <2>1 DEF FeedTypes
  <2>3. UNCHANGED <<lastId, open>>
    BY <2>1 DEF tableVars
  <2> QED
    BY <1>0, <2>1, <2>2, <2>3 DEF FeedInv, FeedTypes, RequestsOK, TxnsOK, TableStep
<1>7. CASE GiveUp
  <2>1. /\ faults < MaxFaults /\ faults' = faults + 1 /\ pc' = "idle" /\ sent' = None
        /\ UNCHANGED <<tableVars, readerVars, file, pump, saved, pending, wire, txns, stored, rebases>>
    BY <1>7 DEF GiveUp
  <2>2. faults' \in 0 .. MaxFaults
    BY <1>0, <2>1
  <2>3. UNCHANGED <<lastId, open>>
    BY <2>1 DEF tableVars
  <2> QED
    BY <1>0, <2>1, <2>2, <2>3 DEF FeedInv, FeedTypes, RequestsOK, TxnsOK, TableStep
<1>8. CASE AgentRestart
  <2>1. /\ faults < MaxFaults /\ faults' = faults + 1 /\ pc' = "idle" /\ sent' = None
        /\ pump' = IF saved = None THEN FirstPosition ELSE saved
        /\ UNCHANGED <<tableVars, readerVars, file, saved, pending, wire, txns, stored, rebases>>
    BY <1>8 DEF AgentRestart
  <2>2. faults' \in 0 .. MaxFaults
    BY <1>0, <2>1
  <2>3. FirstPosition \in Position
    <3>1. AtLeast(0, file.length - TailLines) \in 0 .. MaxLines
      BY <1>0 DEF AtLeast
    <3> QED
      BY <1>0, <3>1 DEF FirstPosition, Position
  <2>4. pump' \in Position
    BY <1>0, <2>1, <2>3 DEF FeedTypes
  <2>5. UNCHANGED <<lastId, open>>
    BY <2>1 DEF tableVars
  <2> QED
    BY <1>0, <2>1, <2>2, <2>4, <2>5 DEF FeedInv, FeedTypes, RequestsOK, TxnsOK, TableStep
<1>9. ASSUME NEW m \in wire, Repeated(m)
      PROVE  FeedInv' /\ TableStep /\ UNCHANGED readerVars
  <2> DEFINE before == {x \in rebases : x.request = m[1]}
  <2> DEFINE accepted == IF m[1].rebase THEN (CHOOSE x \in before : TRUE).cursor ELSE Len(stored)
  <2>1. /\ m[1].rebase => before # {}
        /\ wire' = wire \ {m} /\ Reply(m, accepted)
        /\ UNCHANGED <<tableVars, readerVars, file, saved, txns, stored, rebases, faults>>
    BY <1>9 DEF Repeated
  <2>2. accepted \in 0 .. MaxRows
    <3>1. ASSUME m[1].rebase PROVE (CHOOSE x \in before : TRUE) \in rebases
      BY <2>1, <3>1
    <3> QED
      BY <1>0, <3>1 DEF FeedTypes
  <2> HIDE DEF accepted
  <2>3. /\ pump' \in Position /\ pc' \in {"idle", "post", "save"}
        /\ sent' \in Attempt \cup {None}
        /\ pending' \in Request \cup {None}
        /\ pending' # None => pending'.from < pending'.to
    BY <1>0, <2>1, <2>2, ReplyTypes
  <2>4. UNCHANGED <<lastId, open>>
    BY <2>1 DEF tableVars
  <2> QED
    BY <1>0, <2>1, <2>3, <2>4 DEF FeedInv, FeedTypes, RequestsOK, TxnsOK, TableStep
<1>10. ASSUME NEW m \in wire, AppendNew(m)
       PROVE  FeedInv' /\ TableStep /\ UNCHANGED readerVars
  <2> DEFINE r == m[1]
             first == IF r.rebase THEN 0 ELSE Overlap(r)
             part == SubSeq(Lines(r), first + 1, Count(r))
             n == Count(r) - first
             t0 == [for |-> m, ids |-> open', add |-> part, answer |-> 0]
  <2>1. /\ ~ r.rebase => r.cursor > Len(stored)
        /\ wire' = wire \ {m} /\ Insert(n)
        /\ txns' = txns \cup {t0}
        /\ UNCHANGED <<readerVars, file, pump, saved, pending, pc, sent, stored, rebases, faults>>
    BY <1>10 DEF AppendNew
  <2>2. r \in Request /\ r.from < r.to
    BY <1>0 DEF Attempt, RequestsOK
  <2>3. Count(r) \in Nat \ {0} /\ r.cursor \in Nat /\ r.rebase \in BOOLEAN
    <3>1. /\ r.from \in Nat /\ r.to \in Nat /\ r.cursor \in 0 .. MaxRows + MaxLines
          /\ r.rebase \in BOOLEAN
      BY <2>2, <1>0 DEF Request
    <3>2. Count(r) = r.to - r.from
      BY DEF Count
    <3> QED
      BY <1>0, <2>2, <3>1, <3>2
  <2>4. first \in 0 .. Count(r) - 1
    <3>1. CASE r.rebase
      BY <2>3, <3>1
    <3>2. CASE ~ r.rebase
      BY <1>0, <2>1, <2>3, <3>2 DEF Overlap, AtLeast
    <3> QED
      BY <3>1, <3>2
  <2>5. part \in Seq(Line) /\ Len(part) = n
    <3> HIDE DEF first
    <3> QED
      BY <2>2, <2>4, LinesFacts
  <2>6. n \in Nat /\ n > 0
    <3> HIDE DEF first
    <3> QED
      BY <2>3, <2>4
  <2> HIDE DEF first, part, n
  <2>7. /\ open = {} /\ lastId + n <= MaxRows /\ lastId' = lastId + n
        /\ open' = (lastId + 1) .. (lastId + n)
    BY <2>1 DEF Insert
  <2>8. lastId' \in 0 .. MaxRows /\ open' # {} /\ open' \subseteq 1 .. lastId' /\ open' \in SUBSET Nat
    <3>1. lastId' \in 0 .. MaxRows /\ lastId + 1 \in (lastId + 1) .. (lastId + n)
      BY <1>0, <2>6, <2>7
    <3>2. (lastId + 1) .. (lastId + n) \subseteq 1 .. (lastId + n)
      BY <1>0, <2>6
    <3> QED
      BY <2>7, <3>1, <3>2
  <2>9. t0 \in Txn
    BY <1>0, <2>5, <2>8 DEF Txn
  <2>10. FeedTypes'
    BY <1>0, <2>1, <2>8, <2>9 DEF FeedTypes
  <2>11. TxnsOK'
    <3>1. \A t \in txns : t.answer # 0
      BY <1>0, <2>7 DEF TxnsOK
    <3>2. \A t \in txns : t.ids \subseteq 1 .. lastId' /\ t.ids \cap open' = {}
      BY <1>0, <2>6, <2>7 DEF TxnsOK
    <3>3. t0.answer = 0 /\ t0.ids = open' /\ t0.add = part
      OBVIOUS
    <3>4. part # <<>>
      BY <2>5, <2>6, EmptySeq
    <3>5. Len(stored) + Len(part) <= lastId'
      BY <1>0, <2>5, <2>6, <2>7 DEF TxnsOK
    <3>6. Len(stored') <= lastId'
      BY <1>0, <2>1, <2>6, <2>7 DEF TxnsOK
    <3> HIDE DEF t0
    <3> QED
      BY <2>1, <2>8, <3>1, <3>2, <3>3, <3>4, <3>5, <3>6 DEF TxnsOK
  <2>12. RequestsOK'
    BY <1>0, <2>1 DEF RequestsOK
  <2> QED
    BY <2>1, <2>6, <2>10, <2>11, <2>12 DEF FeedInv, TableStep
<1>11. ASSUME NEW t \in txns, AppendCommits(t)
       PROVE  FeedInv' /\ TableStep /\ UNCHANGED readerVars
  <2> DEFINE next == Len(stored) + Len(t.add)
             t1 == [t EXCEPT !.answer = next]
             x == [request |-> t.for[1], cursor |-> next]
  <2>1. /\ t.answer = 0 /\ Commit(t.ids)
        /\ stored' = stored \o t.add
        /\ rebases' = rebases \/ rebases' = rebases \cup {x}
        /\ txns' = (txns \ {t}) \cup {t1}
        /\ UNCHANGED <<readerVars, file, pump, saved, pending, pc, sent, wire, faults>>
    BY <1>11 DEF AppendCommits
  <2>2. /\ t.ids = open /\ t.add # <<>> /\ next <= lastId /\ t \in Txn /\ t.ids \subseteq 1 .. lastId
        /\ \A u \in txns : u.answer = 0 => u = t
    BY <1>0, <2>1 DEF TxnsOK
  <2>3. /\ t.add \in Seq(Line) /\ t.for \in Attempt /\ t.for[1] \in Request
    BY <2>2 DEF Txn, Attempt
  <2>4. Len(t.add) \in Nat \ {0}
    BY <2>2, <2>3, EmptySeq
  <2>5. next \in 1 .. MaxRows /\ next \in 0 .. MaxRows
    BY <1>0, <2>2, <2>4
  <2>6. stored' \in Seq(Line) /\ Len(stored') = next
    BY <1>0, <2>1, <2>3, ConcatProperties
  <2>7. lastId' = lastId /\ open' = {} /\ Commit(open)
    BY <2>1, <2>2 DEF Commit
  <2>8. t1 \in Txn /\ t1.answer = next /\ t1.ids = t.ids
    BY <2>2, <2>5 DEF Txn
  <2>9. x \in [request : Request, cursor : 0 .. MaxRows]
    BY <2>3, <2>5
  <2> HIDE DEF next, t1, x
  <2>10. FeedTypes'
    BY <1>0, <2>1, <2>6, <2>7, <2>8, <2>9 DEF FeedTypes
  <2>11. \A u \in txns' : u.answer # 0 /\ u.ids \subseteq 1 .. lastId
    <3>1. next # 0
      BY <2>5
    <3> QED
      BY <1>0, <2>1, <2>2, <2>8, <3>1 DEF TxnsOK
  <2>12. TxnsOK'
    <3>1. Len(stored') <= lastId'
      BY <2>2, <2>6, <2>7
    <3>2. \A u \in txns' : u.answer # 0 /\ u.ids \subseteq 1 .. lastId' /\ u.ids \cap open' = {}
      BY <2>7, <2>11
    <3> QED
      BY <3>1, <3>2 DEF TxnsOK
  <2>13. RequestsOK'
    BY <1>0, <2>1 DEF RequestsOK
  <2> QED
    BY <2>1, <2>7, <2>10, <2>12, <2>13 DEF FeedInv, TableStep
<1>12. ASSUME NEW t \in txns, AppendEnds(t)
       PROVE  FeedInv' /\ TableStep /\ UNCHANGED readerVars
  <2>1. /\ Trim /\ Reply(t.for, t.answer) /\ txns' = txns \ {t}
        /\ UNCHANGED <<readerVars, file, saved, wire, stored, rebases, faults>>
    BY <1>12 DEF AppendEnds
  <2>2. t.for \in Attempt /\ t.answer \in 0 .. MaxRows
    BY <1>0 DEF Txn
  <2>3. /\ pump' \in Position /\ pc' \in {"idle", "post", "save"}
        /\ sent' \in Attempt \cup {None}
        /\ pending' \in Request \cup {None}
        /\ pending' # None => pending'.from < pending'.to
    BY <1>0, <2>1, <2>2, ReplyTypes
  <2>4. UNCHANGED <<lastId, open>>
    BY <2>1 DEF Trim
  <2> QED
    BY <1>0, <2>1, <2>3, <2>4 DEF FeedInv, FeedTypes, RequestsOK, TxnsOK, TableStep
<1>13. ASSUME NEW t \in txns, AppendFails(t)
       PROVE  FeedInv' /\ TableStep /\ UNCHANGED readerVars
  <2>1. /\ faults < MaxFaults /\ faults' = faults + 1
        /\ Rollback(t.ids) /\ txns' = txns \ {t}
        /\ UNCHANGED <<readerVars, file, pump, saved, pending, wire, stored, rebases>>
    BY <1>13 DEF AppendFails
  <2>2. sent' \in Attempt \cup {None} /\ pc' \in {"idle", "post", "save"}
    BY <1>0, <1>13 DEF AppendFails, FeedTypes
  <2>3. open' = open \ t.ids /\ lastId' = lastId
    BY <2>1 DEF Rollback
  <2>4. FeedTypes'
    BY <1>0, <2>1, <2>2, <2>3 DEF FeedTypes
  <2>5. TxnsOK'
    <3>1. ASSUME NEW u \in txns, u # t, u.answer = 0
          PROVE  open' = open
      BY <1>0, <2>3, <3>1 DEF TxnsOK
    <3> QED
      BY <1>0, <2>1, <2>3, <3>1 DEF TxnsOK
  <2>6. RequestsOK'
    BY <1>0, <2>1 DEF RequestsOK
  <2> QED
    BY <2>1, <2>4, <2>5, <2>6 DEF FeedInv, TableStep
<1>14. CASE Browser /\ UNCHANGED <<tableVars, feedVars>>
  <2>1. UNCHANGED <<file, pump, saved, pending, pc, sent, wire, txns, stored, rebases, faults>>
    BY <1>14 DEF feedVars
  <2>2. UNCHANGED <<lastId, open>>
    BY <1>14 DEF tableVars
  <2> QED
    BY <1>0, <1>14, <2>1, <2>2 DEF FeedInv, FeedTypes, RequestsOK, TxnsOK
<1>15. CASE UNCHANGED vars
  <2>1. UNCHANGED <<tableVars, readerVars, feedVars>>
    BY <1>15 DEF vars
  <2>2. UNCHANGED <<file, pump, saved, pending, pc, sent, wire, txns, stored, rebases, faults>>
    BY <2>1 DEF feedVars
  <2>3. UNCHANGED <<lastId, open>>
    BY <2>1 DEF tableVars
  <2> QED
    BY <1>0, <2>1, <2>2, <2>3 DEF FeedInv, FeedTypes, RequestsOK, TxnsOK, TableStep
<1> QED
  BY <1>1, <1>2, <1>3, <1>4, <1>5, <1>6, <1>7, <1>8, <1>9, <1>10, <1>11, <1>12, <1>13, <1>14,
     <1>15 DEF Next, Loop, Serve

-----------------------------------------------------------------------------
(* The order of the table *)

\* The requests under way, and those whose rebase is in the table.
Underway == {m[1] : m \in wire} \cup {t.for[1] : t \in txns}
Rebased(r) == \E x \in rebases : x.request = r

\* Until the first rebase is acknowledged, it alone is under way, and kept; all
\* that is stored are rebases of older files, and its own lines if it is done.
Rebasing ==
  /\ saved = None \/ (saved.rebase /\ saved.cursor = 0)
  /\ pump.cursor = 0
  /\ \A r \in Underway : pending # None /\ r = pending
  /\ sent # None => (pending # None /\ sent[1] = pending)
  /\ pending # None =>
       /\ pending.rebase /\ pending.cursor = Count(pending)
       /\ pending.file <= file.no
       /\ pending.file = file.no => pending.to <= file.length

OlderFiles(f, n) == \A k \in 1 .. n : stored[k][1] < f

RebaseStored ==
  /\ pending = None =>
       /\ OlderFiles(file.no, Len(stored))
       /\ \A x \in rebases : x.request.file < file.no
  /\ pending # None =>
       /\ ~Rebased(pending) => OlderFiles(pending.file, Len(stored))
       /\ Rebased(pending) =>
            /\ Len(stored) >= Count(pending)
            /\ OlderFiles(pending.file, Len(stored) - Count(pending))
            /\ \A k \in 1 .. Len(stored) : k > Len(stored) - Count(pending) =>
                 stored[k] = <<pending.file, k - (Len(stored) - pending.to)>>
       /\ \A x \in rebases :
            IF x.request = pending THEN x.cursor = Len(stored) ELSE x.request.file < pending.file
  /\ \A t \in txns :
       IF t.answer = 0
         THEN /\ ~Rebased(pending) /\ Len(t.add) = Count(pending)
              /\ \A k \in 1 .. Len(t.add) : t.add[k] = <<pending.file, pending.from + k>>
         ELSE Rebased(pending) /\ t.answer = Len(stored)
  /\ faults = 0 =>
       /\ pending = None => stored = <<>>
       /\ pending # None =>
            /\ pc = "post"
            /\ IF Rebased(pending) THEN Len(stored) = Count(pending) ELSE stored = <<>>

\* A line the position p has passed is in the table, if one before it is.
Passed(p) ==
  \A n \in 1 .. p.at :
    (\E k \in 1 .. Len(stored) :
       Precedes(stored[k], <<p.file, n>>) /\ (stored[k][1] = p.file \/ faults = 0))
      => \E k \in 1 .. Len(stored) : stored[k] = <<p.file, n>>

\* Afterwards lines are numbered: line n of file g, the newest one known, is row
\* b + n, and comes after the first z rows, which are of older files.
Numbered(g, b, z) ==
  /\ g <= file.no
  /\ OlderFiles(g, z)
  /\ \A k \in 1 .. Len(stored) : k > z => stored[k] = <<g, k - b>>
  /\ file.no = g => Len(stored) <= b + file.length
  /\ faults = 0 => z = b \/ z = 0

PositionOK(p, g, b) ==
  /\ p.file <= g /\ p.cursor <= Len(stored)
  /\ p.file = g => p.cursor = b + p.at
  /\ p.file # g => (p.cursor = b \/ p.cursor < Len(stored)) /\ Passed(p)

PositionsOK(g, b) ==
  /\ PositionOK(pump, g, b)
  /\ saved # None => saved.rebase \/ PositionOK(saved, g, b)
  /\ Len(stored) <= pump.cursor + Batch
  /\ pending = None

UnderwayOK(g, b) ==
  /\ \A r \in Underway :
       IF r.rebase THEN Rebased(r)
       ELSE /\ r.file = g /\ r.cursor = b + r.to
            /\ r.cursor <= pump.cursor + Batch
            /\ file.no = g => r.to <= file.length
  /\ sent # None =>
       /\ ~sent[1].rebase /\ sent[1].file = g /\ sent[1].cursor = b + sent[1].to
       /\ Len(stored) <= sent[1].cursor
       /\ \A r \in Underway : r.rebase \/ r.cursor <= sent[1].cursor

AddsOK(g, b) ==
  \A t \in txns :
    /\ t.answer = 0 =>
         /\ ~t.for[1].rebase /\ Len(stored) + Len(t.add) = t.for[1].cursor
         /\ \A k \in 1 .. Len(t.add) : t.add[k] = <<g, Len(stored) - b + k>>
    /\ t.answer # 0 => t.for[1].rebase \/ (t.answer = t.for[1].cursor /\ t.answer <= Len(stored))

Settled(g, b, z) == Numbered(g, b, z) /\ PositionsOK(g, b) /\ UnderwayOK(g, b) /\ AddsOK(g, b)

OrderInv ==
  /\ pc # "post" => sent = None
  /\ excused \/
       /\ OnlyNewLines
       /\ pump.rebase => Rebasing /\ RebaseStored
       /\ ~pump.rebase =>
            \E g \in 1 .. MaxFiles, b \in Int, z \in 0 .. Len(stored) : Settled(g, b, z)

LEMMA UnderwayTypes ==
  ASSUME FeedInv
  PROVE  /\ Underway \subseteq Request
         /\ \A k \in 1 .. Len(stored) : stored[k] \in Line
         /\ Len(stored) \in Nat
<1>1. \A m \in Attempt : m[1] \in Request
  BY DEF Attempt
<1>2. \A t \in txns : t.for \in Attempt
  BY DEF FeedInv, FeedTypes, Txn
<1>3. Underway \subseteq Request
  BY <1>1, <1>2 DEF FeedInv, FeedTypes, Underway
<1>4. stored \in Seq(Line)
  BY DEF FeedInv, FeedTypes
<1> QED
  BY <1>3, <1>4, LenProperties, ElementOfSeq

\* What was passed stays passed while the table stays as it is.
LEMMA PositionStable ==
  ASSUME FeedInv, FeedInv', stored' = stored, faults' = 0 => faults = 0,
         NEW p, NEW g, NEW b
  PROVE  PositionOK(p, g, b) => PositionOK(p, g, b)'
BY DEF PositionOK, Passed

\* A position that is numbered as the table is has passed only what is there.
LEMMA SettledPassed ==
  ASSUME FeedInv, NEW g \in 1 .. MaxFiles, NEW b \in Int, NEW z \in 0 .. Len(stored),
         Numbered(g, b, z), NEW p \in Position, PositionOK(p, g, b)
  PROVE  Passed(p)
<1>0. /\ \A k \in 1 .. Len(stored) : stored[k] \in Line
      /\ Len(stored) \in Nat /\ p.at \in Nat /\ p.cursor \in Nat
  BY UnderwayTypes, FeedAssumption, StreamAssumption DEF Position
<1>1. CASE p.file # g
  BY <1>1 DEF PositionOK
<1>2. CASE p.file = g
  <2>1. p.cursor = b + p.at /\ p.cursor <= Len(stored)
    BY <1>2 DEF PositionOK
  <2> SUFFICES ASSUME NEW n \in 1 .. p.at, NEW k \in 1 .. Len(stored),
                      Precedes(stored[k], <<g, n>>), stored[k][1] = g \/ faults = 0
               PROVE  \E j \in 1 .. Len(stored) : stored[j] = <<g, n>>
    BY <1>2 DEF Passed
  <2>2. b + n > z
    <3>1. CASE k > z
      <4>1. stored[k] = <<g, k - b>>
        BY <3>1 DEF Numbered
      <4>2. k - b < n
        BY <4>1, <1>0 DEF Precedes
      <4> QED
        BY <3>1, <4>2, <1>0
    <3>2. CASE k <= z
      <4>1. stored[k][1] < g
        BY <3>2, <1>0 DEF Numbered, OlderFiles
      <4>2. stored[k][1] \in Nat
        BY <1>0 DEF Line
      <4>3. faults = 0
        BY <4>1, <4>2
      <4>4. z = b
        BY <4>3, <3>2 DEF Numbered
      <4> QED
        BY <4>4
    <3> QED
      BY <3>1, <3>2
  <2>3. b + n \in 1 .. Len(stored)
    BY <2>1, <2>2, <1>0
  <2>4. stored[b + n] = <<g, (b + n) - b>> /\ (b + n) - b = n
    BY <2>2, <2>3 DEF Numbered
  <2> QED
    BY <2>3, <2>4
<1> QED
  BY <1>1, <1>2

\* The numbering is kept by every step that adds no request and no row, if the
\* positions stay in order.
LEMMA KeepsSettled ==
  ASSUME FeedInv, FeedInv', NEW g \in 1 .. MaxFiles, NEW b \in Int, NEW z \in 0 .. Len(stored),
         Settled(g, b, z),
         stored' = stored, rebases' = rebases, faults' = 0 => faults = 0,
         g <= file'.no, file'.no = g => (file.no = g /\ file.length <= file'.length),
         txns' \subseteq txns, Underway' \subseteq Underway,
         sent' = None \/ sent' = sent,
         PositionsOK(g, b)',
         \A r \in Underway' : r.rebase \/ r.cursor <= pump'.cursor + Batch
  PROVE  Settled(g, b, z)'
<1>0. /\ file.length \in Nat /\ file'.length \in Nat /\ Len(stored) \in Nat
      /\ Underway \subseteq Request
      /\ Numbered(g, b, z) /\ PositionsOK(g, b) /\ UnderwayOK(g, b) /\ AddsOK(g, b)
  <2>1. file.length \in 0 .. MaxLines /\ file'.length \in 0 .. MaxLines
    BY DEF FeedInv, FeedTypes
  <2>2. file.length \in Nat /\ file'.length \in Nat
    BY <2>1, FeedAssumption
  <2>3. Len(stored) \in Nat /\ Underway \subseteq Request
    BY UnderwayTypes
  <2>4. Numbered(g, b, z) /\ PositionsOK(g, b) /\ UnderwayOK(g, b) /\ AddsOK(g, b)
    BY DEF Settled
  <2> QED
    BY <2>2, <2>3, <2>4
<1>1. Numbered(g, b, z)'
  <2>1. file'.no = g => Len(stored) <= b + file'.length
    BY <1>0 DEF Numbered
  <2> QED
    BY <1>0, <2>1 DEF Numbered, OlderFiles
<1>2. UnderwayOK(g, b)'
  <2>1. ASSUME NEW r \in Underway'
        PROVE  IF r.rebase THEN Rebased(r)
               ELSE /\ r.file = g /\ r.cursor = b + r.to
                    /\ r.cursor <= pump'.cursor + Batch
                    /\ file'.no = g => r.to <= file'.length
    <3>1. r \in Underway /\ r.to \in Nat
      BY <1>0, FeedAssumption DEF Request
    <3> QED
      BY <1>0, <3>1 DEF UnderwayOK
  <2>2. \A r : Rebased(r) => Rebased(r)'
    BY DEF Rebased
  <2>3. sent' # None =>
          /\ ~sent'[1].rebase /\ sent'[1].file = g /\ sent'[1].cursor = b + sent'[1].to
          /\ Len(stored) <= sent'[1].cursor
          /\ \A r \in Underway' : r.rebase \/ r.cursor <= sent'[1].cursor
    BY <1>0 DEF UnderwayOK
  <2> QED
    BY <2>1, <2>2, <2>3 DEF UnderwayOK
<1>3. AddsOK(g, b)'
  BY <1>0 DEF AddsOK
<1> QED
  BY <1>1, <1>2, <1>3 DEF Settled

\* The same before the first rebase is acknowledged.
LEMMA KeepsRebasing ==
  ASSUME FeedInv, FeedInv', Rebasing, RebaseStored,
         stored' = stored, rebases' = rebases, pending' = pending,
         faults' = 0 => (faults = 0 /\ (pending # None => pc' = "post")),
         file.no <= file'.no, file'.no = file.no => file.length <= file'.length,
         txns' \subseteq txns, Underway' \subseteq Underway,
         sent' = None \/ sent' = sent,
         pump'.cursor = 0, saved' = None \/ (saved'.rebase /\ saved'.cursor = 0)
  PROVE  (Rebasing /\ RebaseStored)'
<1>0. /\ file.length \in Nat /\ file'.length \in Nat /\ file.no \in Nat /\ file'.no \in Nat
      /\ \A k \in 1 .. Len(stored) : stored[k] \in Line
      /\ pending # None => pending \in Request
      /\ rebases \subseteq [request : Request, cursor : 0 .. MaxRows]
  BY UnderwayTypes, FeedAssumption DEF FeedInv, FeedTypes
<1>1. Rebasing'
  <2>1. pending # None => pending.file <= file'.no
    BY <1>0, FeedAssumption DEF Rebasing, Request
  <2>2. pending # None => (pending.file = file'.no => pending.to <= file'.length)
    BY <1>0, FeedAssumption DEF Rebasing, Request
  <2> QED
    BY <2>1, <2>2 DEF Rebasing
<1>2. RebaseStored'
  <2>1. \A r : Rebased(r)' <=> Rebased(r)
    BY DEF Rebased
  <2>2. \A f \in Nat : \A n : OlderFiles(f, n)' <=> OlderFiles(f, n)
    BY DEF OlderFiles
  <2>3. pending = None =>
          /\ \A k \in 1 .. Len(stored) : stored[k][1] < file'.no
          /\ \A x \in rebases : x.request.file < file'.no
    <3>1. \A k \in 1 .. Len(stored) : stored[k][1] \in Nat
      BY <1>0 DEF Line
    <3>2. \A x \in rebases : x.request.file \in Nat
      BY <1>0 DEF Request
    <3> QED
      BY <1>0, <3>1, <3>2 DEF RebaseStored, OlderFiles
  <2> QED
    BY <2>1, <2>3 DEF RebaseStored, OlderFiles
<1> QED
  BY <1>1, <1>2

\* Steps that leave the table, the pending file and the loop's position alone and add no
\* request.
LEMMA QuietOrdered ==
  ASSUME FeedInv, FeedInv', OrderInv, excused => excused',
         stored' = stored, rebases' = rebases, pending' = pending, pump' = pump,
         saved' = saved \/ saved' = pump,
         faults' = 0 => (faults = 0 /\ (pc = "post" => pc' = "post")),
         file.no <= file'.no, file'.no = file.no => file.length <= file'.length,
         txns' \subseteq txns, Underway' \subseteq Underway,
         sent' = None \/ sent' = sent, pc' # "post" => sent' = None
  PROVE  OrderInv'
<1>0. /\ file.no \in Nat /\ file'.no \in Nat /\ pump \in Position /\ pump.file \in Nat
      /\ pump.cursor \in Nat /\ pump.rebase \in BOOLEAN /\ Len(stored) \in Nat
  <2>1. /\ file \in [no : 1 .. MaxFiles, length : 0 .. MaxLines]
        /\ file' \in [no : 1 .. MaxFiles, length : 0 .. MaxLines]
        /\ pump \in Position /\ Len(stored) \in Nat
    BY UnderwayTypes DEF FeedInv, FeedTypes
  <2>2. \A p \in Position : p.file \in Nat /\ p.cursor \in Nat /\ p.rebase \in BOOLEAN
    BY FeedAssumption, StreamAssumption DEF Position
  <2> QED
    BY <2>1, <2>2, FeedAssumption
<1> SUFFICES ASSUME ~excused'
             PROVE  /\ OnlyNewLines'
                    /\ pump'.rebase => (Rebasing /\ RebaseStored)'
                    /\ ~pump'.rebase =>
                         \E g \in 1 .. MaxFiles, b \in Int, z \in 0 .. Len(stored') : Settled(g, b, z)'
  BY DEF OrderInv
<1>2. /\ OnlyNewLines
      /\ pump.rebase => Rebasing /\ RebaseStored
      /\ ~pump.rebase =>
           \E g \in 1 .. MaxFiles, b \in Int, z \in 0 .. Len(stored) : Settled(g, b, z)
  BY DEF OrderInv
<1>3. OnlyNewLines'
  BY <1>2 DEF OnlyNewLines, Precedes
<1>4. ASSUME pump.rebase PROVE (Rebasing /\ RebaseStored)'
  <2>1. Rebasing /\ RebaseStored
    BY <1>2, <1>4
  <2>2. pump'.cursor = 0 /\ (saved' = None \/ (saved'.rebase /\ saved'.cursor = 0))
    BY <1>4, <2>1 DEF Rebasing
  <2>3. faults' = 0 => (faults = 0 /\ (pending # None => pc' = "post"))
    BY <2>1 DEF RebaseStored
  <2> QED
    BY <2>1, <2>2, <2>3, KeepsRebasing
<1>5. ASSUME ~pump.rebase
      PROVE  \E g \in 1 .. MaxFiles, b \in Int, z \in 0 .. Len(stored') : Settled(g, b, z)'
  <2>1. PICK g \in 1 .. MaxFiles, b \in Int, z \in 0 .. Len(stored) : Settled(g, b, z)
    BY <1>2, <1>5
  <2>2. Numbered(g, b, z) /\ PositionsOK(g, b) /\ UnderwayOK(g, b)
    BY <2>1 DEF Settled
  <2>3. /\ g <= file'.no
        /\ file'.no = g => (file.no = g /\ file.length <= file'.length)
    BY <1>0, <2>2 DEF Numbered
  <2>4. PositionsOK(g, b)'
    <3>1. PositionOK(pump, g, b)'
      <4>1. PositionOK(pump, g, b)
        BY <2>2 DEF PositionsOK
      <4> QED
        BY <4>1 DEF PositionOK, Passed
    <3>2. ASSUME saved' # None, ~saved'.rebase PROVE PositionOK(saved, g, b)'
      <4>1. CASE saved' = pump
        BY <3>1, <4>1 DEF PositionOK, Passed
      <4>2. CASE saved' = saved
        <5>1. PositionOK(saved, g, b)
          BY <2>2, <3>2, <4>2 DEF PositionsOK
        <5> QED
          BY <5>1, <4>2 DEF PositionOK, Passed
      <4> QED
        BY <4>1, <4>2
    <3> QED
      BY <2>2, <3>1, <3>2 DEF PositionsOK
  <2>5. \A r \in Underway' : r.rebase \/ r.cursor <= pump'.cursor + Batch
    BY <2>2 DEF UnderwayOK
  <2>6. Settled(g, b, z)'
    BY <2>1, <2>3, <2>4, <2>5, KeepsSettled
  <2> QED
    BY <2>6
<1> QED
  BY <1>3, <1>4, <1>5

LEMMA RestartOrdered ==
  ASSUME FeedInv, FeedInv', OrderInv, AgentRestart
  PROVE  OrderInv'
<1>0. /\ pump' = IF saved = None THEN FirstPosition ELSE saved
      /\ excused' = (excused \/ (pump'.rebase /\ ~pump.rebase) \/ Behind)
      /\ pc' = "idle" /\ sent' = None /\ faults' = faults + 1
      /\ UNCHANGED <<file, saved, pending, wire, txns, stored, rebases>>
  BY DEF AgentRestart
<1>1. /\ file.no \in Nat /\ file.length \in Nat /\ faults \in Nat /\ Len(stored) \in Nat
      /\ faults' # 0 /\ Underway' = Underway /\ Underway \subseteq Request
      /\ saved # None => saved \in Position
  BY <1>0, UnderwayTypes, FeedAssumption DEF FeedInv, FeedTypes, Underway
<1> SUFFICES ASSUME ~excused'
             PROVE  /\ OnlyNewLines'
                    /\ pump'.rebase => (Rebasing /\ RebaseStored)'
                    /\ ~pump'.rebase =>
                         \E g \in 1 .. MaxFiles, b \in Int, z \in 0 .. Len(stored') : Settled(g, b, z)'
  BY <1>0 DEF OrderInv
<1>3. /\ OnlyNewLines
      /\ pump.rebase => Rebasing /\ RebaseStored
      /\ ~pump.rebase =>
           \E g \in 1 .. MaxFiles, b \in Int, z \in 0 .. Len(stored) : Settled(g, b, z)
  BY <1>0 DEF OrderInv
<1>4. OnlyNewLines'
  <2>1. stored' = stored
    BY <1>0
  <2> QED
    BY <1>3, <2>1 DEF OnlyNewLines, Precedes
<1>5. ASSUME pump'.rebase PROVE (Rebasing /\ RebaseStored)'
  <2>1. pump.rebase
    BY <1>0, <1>5
  <2>2. Rebasing /\ RebaseStored
    BY <1>3, <2>1
  <2>3. pump'.cursor = 0 /\ (saved' = None \/ (saved'.rebase /\ saved'.cursor = 0))
    BY <1>0, <2>2 DEF Rebasing, FirstPosition
  <2> QED
    BY <1>0, <1>1, <2>2, <2>3, KeepsRebasing
<1>6. ASSUME ~pump'.rebase
      PROVE  \E g \in 1 .. MaxFiles, b \in Int, z \in 0 .. Len(stored') : Settled(g, b, z)'
  <2>1. saved # None /\ ~saved.rebase /\ pump' = saved
    BY <1>0, <1>6 DEF FirstPosition
  <2>2. ~pump.rebase
    BY <1>3, <2>1 DEF Rebasing
  <2>3. PICK g \in 1 .. MaxFiles, b \in Int, z \in 0 .. Len(stored) : Settled(g, b, z)
    BY <1>3, <2>2
  <2>4. Numbered(g, b, z) /\ PositionsOK(g, b)
    BY <2>3 DEF Settled
  <2>5. /\ Len(stored) <= saved.cursor + Batch
        /\ \A r \in Underway : r.cursor <= saved.cursor + Batch
    <3>1. saved.cursor \in Nat /\ Batch \in Nat /\ \A r \in Underway : r.cursor \in Nat
      BY <1>1, <2>1, FeedAssumption, StreamAssumption DEF Position, Request
    <3>2. ~ (Len(stored) > saved.cursor + Batch)
      BY <1>0, <2>1 DEF Behind
    <3>3. ASSUME NEW r \in Underway PROVE ~ (r.cursor > saved.cursor + Batch)
      BY <1>0, <2>1 DEF Behind, Underway
    <3> QED
      BY <3>1, <3>2, <3>3, <1>1
  <2>6. PositionsOK(g, b)'
    <3>1. PositionOK(saved, g, b)
      BY <2>1, <2>4 DEF PositionsOK
    <3>2. PositionOK(pump, g, b)' /\ PositionOK(saved, g, b)'
      BY <3>1, <1>0, <1>1, <2>1 DEF PositionOK, Passed
    <3> QED
      BY <3>2, <1>0, <2>1, <2>4, <2>5 DEF PositionsOK
  <2>7. g <= file'.no /\ (file'.no = g => (file.no = g /\ file.length <= file'.length))
    BY <1>0, <1>1, <2>4 DEF Numbered
  <2>8. Settled(g, b, z)'
    BY <1>0, <1>1, <2>1, <2>3, <2>5, <2>6, <2>7, KeepsSettled
  <2> QED
    BY <1>0, <2>8
<1> QED
  BY <1>4, <1>5, <1>6

\* When the loop looks at the file and the protocol survives what it finds, the lines of
\* the present file are numbered from the loop's position.
LEMMA AtFront ==
  ASSUME FeedInv, NEW g \in 1 .. MaxFiles, NEW b \in Int, NEW z \in 0 .. Len(stored),
         Settled(g, b, z), sent = None, ~pump.rebase, ~Misnumbered
  PROVE  \E a \in Int, y \in 0 .. Len(stored) :
           Settled(file.no, a, y) /\ pump.cursor = a + From
<1>0. /\ pump \in Position /\ file.no \in 1 .. MaxFiles /\ file.length \in Nat
      /\ pump.cursor \in Nat /\ pump.at \in Nat /\ pump.file \in Nat
      /\ Len(stored) \in Nat /\ \A k \in 1 .. Len(stored) : stored[k] \in Line
      /\ Underway \subseteq Request
      /\ saved # None => saved \in Position
  <2>1. pump \in Position /\ file \in [no : 1 .. MaxFiles, length : 0 .. MaxLines]
    BY DEF FeedInv, FeedTypes
  <2>2. saved # None => saved \in Position
    BY DEF FeedInv, FeedTypes
  <2>4. \A p \in Position : p.cursor \in Nat /\ p.at \in Nat /\ p.file \in Nat
    BY FeedAssumption, StreamAssumption DEF Position
  <2>3. pump.cursor \in Nat /\ pump.at \in Nat /\ pump.file \in Nat
    BY <2>1, <2>4
  <2> QED
    BY <2>1, <2>2, <2>3, UnderwayTypes, FeedAssumption
<1>1. /\ Numbered(g, b, z) /\ PositionsOK(g, b) /\ UnderwayOK(g, b) /\ AddsOK(g, b)
      /\ g <= file.no /\ PositionOK(pump, g, b)
  BY DEF Settled, Numbered, PositionsOK
<1>2. CASE pump.file = file.no
  <2>1. g = file.no
    BY <1>0, <1>1, <1>2 DEF PositionOK
  <2>2. pump.cursor = b + pump.at
    BY <1>1, <1>2, <2>1 DEF PositionOK
  <2> QED
    BY <1>2, <2>1, <2>2 DEF From
<1>3. CASE pump.file # file.no
  <2>1. /\ From = 0 /\ pump.cursor = Len(stored)
        /\ \A r \in Underway : r.file = file.no
    BY <1>3 DEF From, Misnumbered, Underway
  <2>2. CASE g = file.no
    <3>1. pump.cursor = b
      BY <1>0, <1>1, <1>3, <2>1, <2>2 DEF PositionOK
    <3> QED
      BY <1>0, <2>1, <2>2, <3>1
  <2>3. CASE g # file.no
    <3> DEFINE L == Len(stored)
    <3>0. g < file.no /\ ~ (file.no <= g)
      BY <1>0, <1>1, <2>3
    <3>1. \A r \in Underway : r.rebase
      BY <1>1, <2>1, <2>3 DEF UnderwayOK
    <3>2. OlderFiles(file.no, L)
      <4> SUFFICES ASSUME NEW k \in 1 .. L PROVE stored[k][1] < file.no
        BY DEF OlderFiles
      <4>1. CASE k <= z
        <5>1. stored[k][1] < g /\ stored[k][1] \in Nat
          BY <4>1, <1>0, <1>1 DEF Numbered, OlderFiles, Line
        <5> QED
          BY <5>1, <3>0, <1>0
      <4>2. CASE k > z
        <5>1. stored[k] = <<g, k - b>>
          BY <4>2, <1>1 DEF Numbered
        <5>2. stored[k][1] = g
          BY <5>1
        <5> QED
          BY <5>2, <3>0
      <4> QED
        BY <4>1, <4>2
    <3>3. Numbered(file.no, L, L)
      BY <1>0, <3>2 DEF Numbered
    <3>4. ASSUME NEW p \in Position, PositionOK(p, g, b) PROVE PositionOK(p, file.no, L)
      <4>1. Passed(p)
        BY <1>1, <3>4, SettledPassed
      <4>2. p.file < file.no /\ p.file # file.no /\ p.cursor <= L
        BY <1>0, <3>0, <3>4, FeedAssumption DEF PositionOK, Position
      <4>3. p.cursor = L \/ p.cursor < L
        BY <1>0, <4>2, StreamAssumption DEF Position
      <4> QED
        BY <1>0, <4>1, <4>2, <4>3, FeedAssumption DEF PositionOK, Position
    <3>5. PositionsOK(file.no, L)
      BY <1>0, <1>1, <3>4 DEF PositionsOK
    <3>6. UnderwayOK(file.no, L)
      BY <1>1, <3>1 DEF UnderwayOK
    <3>7. AddsOK(file.no, L)
      <4>1. \A t \in txns : t.for[1].rebase
        BY <3>1 DEF Underway
      <4> QED
        BY <1>1, <4>1 DEF AddsOK
    <3>8. Settled(file.no, L, L)
      BY <3>3, <3>5, <3>6, <3>7 DEF Settled
    <3> QED
      BY <1>0, <2>1, <3>8
  <2> QED
    BY <2>2, <2>3
<1> QED
  BY <1>2, <1>3

\* Before the first rebase is acknowledged, nothing is under way when the loop turns to
\* another file, and all that is stored is older.
LEMMA FrontRebase ==
  ASSUME FeedInv, Rebasing, RebaseStored, ~StillPending, ~Misnumbered
  PROVE  /\ Underway = {} /\ OlderFiles(file.no, Len(stored))
         /\ \A x \in rebases : x.request.file < file.no
<1>1. Len(stored) \in Nat /\ \A k \in 1 .. Len(stored) : stored[k] \in Line
  BY UnderwayTypes
<1>2. /\ file.no \in Nat /\ \A x \in rebases : x.request.file \in Nat
      /\ pending # None => (pending.file \in Nat /\ pending.file < file.no)
  <2>1. /\ file.no \in Nat /\ \A r \in Request : r.file \in Nat
    BY FeedAssumption DEF FeedInv, FeedTypes, Request
  <2>2. pending # None => (pending \in Request /\ pending.file # file.no /\ pending.file <= file.no)
    BY DEF StillPending, Rebasing, FeedInv, FeedTypes
  <2> QED
    BY <2>1, <2>2 DEF FeedInv, FeedTypes
<1>3. Underway = {}
  <2>1. ASSUME NEW r \in Underway PROVE FALSE
    <3>1. r = pending /\ pending # None
      BY <1>1 DEF Rebasing
    <3>2. r.file = file.no
      BY DEF Misnumbered, Underway
    <3> QED
      BY <3>1, <3>2, <1>2
  <2> QED
    BY <2>1
<1>4. OlderFiles(file.no, Len(stored))
  <2> SUFFICES ASSUME NEW k \in 1 .. Len(stored) PROVE stored[k][1] < file.no
    BY DEF OlderFiles
  <2>0. stored[k][1] \in Nat
    BY <1>1 DEF Line
  <2>1. CASE pending = None
    BY <1>1, <2>1 DEF RebaseStored, OlderFiles
  <2>2. CASE pending # None
    <3> DEFINE n == Len(stored) - Count(pending)
    <3>0. n \in Int
      <4>1. pending \in Request
        BY <2>2 DEF FeedInv, FeedTypes
      <4>2. Count(pending) \in Int
        BY <4>1, FeedAssumption DEF Count, Request
      <4> QED
        BY <1>1, <4>2
    <3>1. stored[k][1] <= pending.file
      <4>1. CASE ~Rebased(pending)
        BY <1>1, <1>2, <2>0, <2>2, <4>1 DEF RebaseStored, OlderFiles
      <4>2. CASE Rebased(pending) /\ k <= n
        <5>1. k \in 1 .. n
          BY <3>0, <4>2
        <5>2. OlderFiles(pending.file, n)
          BY <1>1, <2>2, <4>2 DEF RebaseStored
        <5> HIDE DEF n
        <5> QED
          BY <1>2, <2>0, <2>2, <5>1, <5>2 DEF OlderFiles
      <4>3. CASE Rebased(pending) /\ ~ (k <= n)
        <5>1. stored[k] = <<pending.file, k - (Len(stored) - pending.to)>>
          BY <1>1, <2>2, <3>0, <4>3 DEF RebaseStored
        <5> QED
          BY <5>1, <1>2, <2>2
      <4> QED
        BY <4>1, <4>2, <4>3
    <3> QED
      BY <3>1, <1>2, <2>0, <2>2
  <2> QED
    BY <2>1, <2>2
<1>5. \A x \in rebases : x.request.file < file.no
  BY <1>1, <1>2 DEF RebaseStored
<1> QED
  BY <1>3, <1>4, <1>5

LEMMA PublishOrdered ==
  ASSUME FeedInv, FeedInv', OrderInv, Publish
  PROVE  OrderInv'
<1> PICK d : d = Delta
  OBVIOUS
<1>0. /\ pc = "idle" /\ ~StillPending
      /\ sent' = <<d, faults>> /\ wire' = wire \cup {<<d, faults>>} /\ pc' = "post"
      /\ pending' = IF pump.rebase THEN d ELSE None
      /\ excused' = (excused \/ Misnumbered)
      /\ UNCHANGED <<file, pump, saved, txns, stored, rebases, faults>>
  BY DEF Publish, Post
<1>1. /\ d \in Request /\ d.from < d.to /\ Count(d) > 0
      /\ d.file = file.no /\ d.from = From /\ d.to <= file.length
      /\ d.to = From + Batch \/ d.to = file.length
      /\ d.cursor = pump.cursor + Count(d) /\ d.rebase = pump.rebase
  BY DeltaFacts DEF Publish, FeedInv
<1>2. /\ Underway' = Underway \cup {d} /\ Underway \subseteq Request
      /\ Len(stored) \in Nat /\ \A k \in 1 .. Len(stored) : stored[k] \in Line
      /\ d # None /\ sent'[1] = d /\ Count(d) = d.to - d.from
  BY <1>0, <1>1, UnderwayTypes, NoneAssumption DEF Underway, Count
<1> SUFFICES ASSUME ~excused'
             PROVE  /\ OnlyNewLines'
                    /\ pump'.rebase => (Rebasing /\ RebaseStored)'
                    /\ ~pump'.rebase =>
                         \E g \in 1 .. MaxFiles, b \in Int, z \in 0 .. Len(stored') : Settled(g, b, z)'
  BY <1>0 DEF OrderInv
<1>3. /\ OnlyNewLines /\ sent = None /\ ~Misnumbered
      /\ pump.rebase => Rebasing /\ RebaseStored
      /\ ~pump.rebase =>
           \E g \in 1 .. MaxFiles, b \in Int, z \in 0 .. Len(stored) : Settled(g, b, z)
  BY <1>0 DEF OrderInv
<1>4. OnlyNewLines'
  <2>1. stored' = stored
    BY <1>0
  <2> QED
    BY <1>3, <2>1 DEF OnlyNewLines, Precedes
<1>5. ASSUME pump.rebase PROVE (Rebasing /\ RebaseStored)'
  <2>1. Rebasing /\ RebaseStored /\ pending' = d
    BY <1>0, <1>3, <1>5
  <2>2. file.no \in Nat /\ \A x \in rebases : x.request.file \in Nat
    <3>1. /\ file \in [no : 1 .. MaxFiles, length : 0 .. MaxLines]
          /\ \A x \in rebases : x.request \in Request
      BY DEF FeedInv, FeedTypes
    <3>2. \A q \in Request : q.file \in Nat
      BY FeedAssumption DEF Request
    <3> QED
      BY <3>1, <3>2, FeedAssumption
  <2>3. /\ Underway = {} /\ OlderFiles(file.no, Len(stored))
        /\ \A x \in rebases : x.request.file < file.no
    BY <1>0, <1>3, <2>1, FrontRebase
  <2>4. OlderFiles(file.no, Len(stored))
    BY <2>3
  <2>5. \A x \in rebases : x.request.file < file.no
    BY <2>3
  <2>6. \A x \in rebases : x.request # d
    BY <1>1, <2>2, <2>5
  <2>7. txns = {}
    BY <2>3 DEF Underway
  <2>8. faults = 0 => stored = <<>>
    BY <1>0, <2>1 DEF RebaseStored
  <2>9. Rebasing'
    <3>1. d.cursor = Count(d) /\ d.file <= file.no
      BY <1>1, <1>2, <2>1, <2>2 DEF Rebasing, Count, Request
    <3>2. saved' = None \/ (saved'.rebase /\ saved'.cursor = 0)
      BY <1>0, <2>1 DEF Rebasing
    <3>3. pump'.cursor = 0 /\ \A r \in Underway' : r = d
      BY <1>0, <1>2, <2>1, <2>3 DEF Rebasing
    <3>4. d.rebase
      BY <1>1, <1>5
    <3> QED
      BY <1>0, <1>1, <1>2, <2>1, <3>1, <3>2, <3>3, <3>4 DEF Rebasing, Count
  <2>10. RebaseStored'
    <3>1. ~Rebased(d)
      BY <2>6 DEF Rebased
    <3> QED
      BY <1>0, <1>1, <1>2, <2>1, <2>4, <2>5, <2>6, <2>7, <2>8, <3>1
         DEF RebaseStored, OlderFiles, Rebased
  <2> QED
    BY <2>9, <2>10
<1>6. ASSUME ~pump.rebase
      PROVE  \E g \in 1 .. MaxFiles, b \in Int, z \in 0 .. Len(stored) : Settled(g, b, z)'
  <2>1. PICK b \in Int, z \in 0 .. Len(stored) :
          Settled(file.no, b, z) /\ pump.cursor = b + From
    BY <1>3, <1>6, AtFront
  <2>2. /\ Numbered(file.no, b, z) /\ PositionsOK(file.no, b) /\ UnderwayOK(file.no, b)
        /\ AddsOK(file.no, b)
    BY <2>1 DEF Settled
  <2>3. /\ pump.cursor \in Nat /\ From \in Nat /\ d.to \in Nat /\ file.length \in Nat
        /\ Batch \in Nat /\ d.cursor \in Nat /\ file.no \in 1 .. MaxFiles
        /\ \A r \in Underway : r.to \in Nat /\ r.cursor \in Nat
    <3>1. pump \in Position /\ file \in [no : 1 .. MaxFiles, length : 0 .. MaxLines]
      BY DEF FeedInv, FeedTypes
    <3>2. \A r \in Request : r.to \in Nat /\ r.cursor \in Nat
      BY FeedAssumption, StreamAssumption DEF Request
    <3>3. pump.cursor \in Nat /\ pump.at \in Nat
      BY <3>1, FeedAssumption, StreamAssumption DEF Position
    <3> QED
      BY <1>1, <1>2, <3>1, <3>2, <3>3, FeedAssumption DEF From
  <2>4. /\ d.cursor = b + d.to /\ d.cursor <= pump.cursor + Batch
        /\ d.cursor = pump.cursor + Batch \/ d.cursor = b + file.length
    <3>1. d.cursor = pump.cursor + (d.to - From)
      BY <1>1, <1>2
    <3>2. d.to <= From + Batch
      <4>1. CASE d.to = From + Batch
        BY <4>1, <2>3
      <4>2. CASE d.to = file.length
        <5>1. d.to = AtMost(From + Batch, file.length)
          BY DEF Delta
        <5> QED
          BY <5>1, <2>3 DEF AtMost
      <4> QED
        BY <1>1, <4>1, <4>2
    <3> QED
      BY <1>1, <2>1, <2>3, <3>1, <3>2
  <2>5. Numbered(file.no, b, z)'
    BY <1>0, <2>2 DEF Numbered, OlderFiles
  <2>6. PositionsOK(file.no, b)'
    BY <1>0, <1>6, <2>2 DEF PositionsOK, PositionOK, Passed
  <2>7. UnderwayOK(file.no, b)'
    <3>1. ~d.rebase
      BY <1>1, <1>6
    <3>2. Len(stored) <= d.cursor
      BY <1>2, <2>2, <2>3, <2>4 DEF PositionsOK, Numbered
    <3>3. ASSUME NEW r \in Underway, ~r.rebase PROVE r.cursor <= d.cursor
      <4>1. r.cursor = b + r.to /\ r.cursor <= pump.cursor + Batch /\ r.to <= file.length
        BY <2>2, <3>3 DEF UnderwayOK
      <4> QED
        BY <4>1, <2>3, <2>4
    <3>4. \A r \in Underway' : r.rebase \/ r.cursor <= d.cursor
      BY <1>2, <2>3, <3>3
    <3>5. \A r : Rebased(r) => Rebased(r)'
      BY <1>0 DEF Rebased
    <3>6. \A r \in Underway' :
            IF r.rebase THEN Rebased(r)
            ELSE /\ r.file = file.no /\ r.cursor = b + r.to
                 /\ r.cursor <= pump.cursor + Batch /\ r.to <= file.length
      BY <1>1, <1>2, <2>2, <2>4, <3>1 DEF UnderwayOK
    <3> QED
      BY <1>0, <1>1, <1>2, <2>4, <3>1, <3>2, <3>4, <3>5, <3>6 DEF UnderwayOK
  <2>8. AddsOK(file.no, b)'
    BY <1>0, <2>2 DEF AddsOK
  <2>9. PICK g \in 1 .. MaxFiles : g = file.no
    BY <2>3
  <2>10. Settled(g, b, z)'
    BY <1>0, <2>5, <2>6, <2>7, <2>8, <2>9 DEF Settled, Numbered, PositionsOK, PositionOK, UnderwayOK, AddsOK,
       OlderFiles, Passed
  <2> QED
    BY <2>10
<1> QED
  BY <1>0, <1>4, <1>5, <1>6

LEMMA NothingNewOrdered ==
  ASSUME FeedInv, FeedInv', OrderInv, NothingNew
  PROVE  OrderInv'
<1> PICK at : at = From
  OBVIOUS
<1>0. /\ pc = "idle" /\ ~StillPending
      /\ pump' = [pump EXCEPT !.file = file.no, !.at = at]
      /\ pc' \in {"idle", "save"} /\ pending' = None
      /\ excused' = (excused \/ Misnumbered)
      /\ UNCHANGED <<file, saved, sent, wire, txns, stored, rebases, faults>>
  BY DEF NothingNew
<1>1. /\ pump \in Position /\ file.no \in 1 .. MaxFiles /\ file.no \in Nat /\ file.length \in Nat
      /\ Len(stored) \in Nat /\ Underway' = Underway /\ Underway \subseteq Request
      /\ pump' = [file |-> file.no, at |-> at, cursor |-> pump.cursor, rebase |-> pump.rebase]
      /\ pump.rebase \in BOOLEAN
  <2>1. pump \in Position /\ file \in [no : 1 .. MaxFiles, length : 0 .. MaxLines]
    BY DEF FeedInv, FeedTypes
  <2>2. Underway' = Underway
    BY <1>0 DEF Underway
  <2>3. pump' = [file |-> file.no, at |-> at, cursor |-> pump.cursor, rebase |-> pump.rebase]
    BY <1>0, <2>1 DEF Position
  <2>4. pump.rebase \in BOOLEAN
    BY <2>1 DEF Position
  <2>5. file.no \in 1 .. MaxFiles /\ file.no \in Nat /\ file.length \in Nat
    BY <2>1, FeedAssumption
  <2> QED
    BY <2>1, <2>2, <2>3, <2>4, <2>5, UnderwayTypes
<1> SUFFICES ASSUME ~excused'
             PROVE  /\ OnlyNewLines'
                    /\ pump'.rebase => (Rebasing /\ RebaseStored)'
                    /\ ~pump'.rebase =>
                         \E g \in 1 .. MaxFiles, b \in Int, z \in 0 .. Len(stored') : Settled(g, b, z)'
  BY <1>0, <1>1 DEF OrderInv
<1>3. /\ OnlyNewLines /\ sent = None /\ ~Misnumbered
      /\ pump.rebase => Rebasing /\ RebaseStored
      /\ ~pump.rebase =>
           \E g \in 1 .. MaxFiles, b \in Int, z \in 0 .. Len(stored) : Settled(g, b, z)
  BY <1>0 DEF OrderInv
<1>4. OnlyNewLines'
  <2>1. stored' = stored
    BY <1>0
  <2> QED
    BY <1>3, <2>1 DEF OnlyNewLines, Precedes
<1>5. ASSUME pump.rebase PROVE (Rebasing /\ RebaseStored)'
  <2>1. Rebasing /\ RebaseStored
    BY <1>3, <1>5
  <2>2. /\ Underway = {} /\ OlderFiles(file.no, Len(stored))
        /\ \A x \in rebases : x.request.file < file.no
    BY <1>0, <1>3, <2>1, FrontRebase
  <2>3. txns = {}
    BY <2>2 DEF Underway
  <2>4. faults = 0 => stored = <<>>
    BY <1>0, <2>1 DEF RebaseStored
  <2>5. Rebasing'
    BY <1>0, <1>1, <1>3, <1>5, <2>1, <2>2 DEF Rebasing
  <2>6. RebaseStored'
    BY <1>0, <2>2, <2>3, <2>4 DEF RebaseStored, OlderFiles
  <2> QED
    BY <2>5, <2>6
<1>6. ASSUME ~pump.rebase
      PROVE  \E g \in 1 .. MaxFiles, b \in Int, z \in 0 .. Len(stored) : Settled(g, b, z)'
  <2>1. PICK b \in Int, z \in 0 .. Len(stored) :
          Settled(file.no, b, z) /\ pump.cursor = b + From
    BY <1>3, <1>6, AtFront
  <2>2. PICK g \in 1 .. MaxFiles : g = file.no
    BY <1>1
  <2>3. Settled(g, b, z) /\ pump.cursor = b + at
    BY <2>1, <2>2
  <2>4. PositionsOK(g, b) /\ UnderwayOK(g, b)
    BY <2>3 DEF Settled
  <2>5. PositionOK(pump, g, b)'
    BY <1>0, <1>1, <2>2, <2>3, <2>4 DEF PositionsOK, PositionOK
  <2>6. PositionsOK(g, b)'
    <3>1. saved # None => saved.rebase \/ PositionOK(saved, g, b)
      BY <2>4 DEF PositionsOK
    <3>2. PositionOK(saved, g, b) => PositionOK(saved, g, b)'
      BY <1>0 DEF PositionOK, Passed
    <3> QED
      BY <1>0, <1>1, <2>4, <2>5, <3>1, <3>2 DEF PositionsOK
  <2>7. \A r \in Underway' : r.rebase \/ r.cursor <= pump'.cursor + Batch
    BY <1>1, <2>4 DEF UnderwayOK
  <2>8. Settled(g, b, z)'
    BY <1>0, <1>1, <2>2, <2>3, <2>6, <2>7, KeepsSettled
  <2> QED
    BY <2>8
<1> QED
  BY <1>0, <1>1, <1>4, <1>5, <1>6

\* Once the first rebase is acknowledged, nothing is pending.
LEMMA RepublishOrdered ==
  ASSUME FeedInv, FeedInv', OrderInv, Republish
  PROVE  OrderInv'
<1>0. /\ pending # None /\ sent' = <<pending, faults>> /\ wire' = wire \cup {<<pending, faults>>}
      /\ pc' = "post"
      /\ UNCHANGED <<file, pump, saved, pending, txns, stored, rebases, excused, faults>>
  BY DEF Republish, StillPending, Post
<1> SUFFICES ASSUME ~excused
             PROVE  /\ OnlyNewLines'
                    /\ pump.rebase /\ (Rebasing /\ RebaseStored)'
  BY <1>0 DEF OrderInv
<1>1. /\ OnlyNewLines
      /\ pump.rebase => Rebasing /\ RebaseStored
      /\ ~pump.rebase =>
           \E g \in 1 .. MaxFiles, b \in Int, z \in 0 .. Len(stored) : Settled(g, b, z)
  BY DEF OrderInv
<1>2. pump.rebase /\ Rebasing /\ RebaseStored
  BY <1>0, <1>1 DEF Settled, PositionsOK
<1>3. OnlyNewLines'
  <2>1. stored' = stored
    BY <1>0
  <2> QED
    BY <1>1, <2>1 DEF OnlyNewLines, Precedes
<1>4. Underway' = Underway \cup {pending} /\ sent'[1] = pending
  BY <1>0 DEF Underway
<1>5. Rebasing'
  BY <1>0, <1>2, <1>4 DEF Rebasing
<1>6. RebaseStored'
  BY <1>0, <1>2 DEF RebaseStored, OlderFiles, Rebased
<1> QED
  BY <1>2, <1>3, <1>5, <1>6

\* The acknowledgement of the first rebase fixes how lines are numbered.
LEMMA RebaseAcknowledged ==
  ASSUME FeedInv, FeedInv', Rebasing, RebaseStored, pending # None, Rebased(pending),
         pump' = [file |-> pending.file, at |-> pending.to, cursor |-> Len(stored), rebase |-> FALSE],
         pending' = None, sent' = None, txns' \subseteq txns, Underway' \subseteq Underway,
         UNCHANGED <<file, saved, stored, rebases, faults>>
  PROVE  \E g \in 1 .. MaxFiles, b \in Int, z \in 0 .. Len(stored') : Settled(g, b, z)'
<1>0. /\ pending \in Request /\ Len(stored) \in Nat /\ Batch \in Nat
      /\ stored' = stored /\ rebases' = rebases /\ file' = file /\ saved' = saved /\ faults' = faults
  BY UnderwayTypes, FeedAssumption DEF FeedInv, FeedTypes
<1> PICK L \in Nat, g \in 1 .. MaxFiles, to \in Nat, n \in Int :
          L = Len(stored) /\ g = pending.file /\ to = pending.to /\ n = Count(pending)
  BY <1>0, FeedAssumption DEF Request, Count
<1>1. /\ n <= L /\ OlderFiles(g, L - n)
      /\ \A k \in 1 .. L : k > L - n => stored[k] = <<g, k - (L - to)>>
  BY DEF RebaseStored
<1>2. n \in Nat
  <2>1. pending.from < pending.to
    BY DEF FeedInv, RequestsOK
  <2> QED
    BY <1>0, <2>1, FeedAssumption DEF Request, Count
<1>b. PICK b \in Int, z \in 0 .. L : b = L - to /\ z = L - n
  BY <1>1, <1>2
<1>3. Numbered(g, b, z)'
  <2>1. g <= file.no /\ (file.no = g => to <= file.length)
    BY <1>b DEF Rebasing
  <2>2. file.no = g => L <= b + file.length
    <3>1. file.length \in 0 .. MaxLines
      BY <1>b DEF FeedInv, FeedTypes
    <3>2. PICK length \in Nat : length = file.length
      BY <1>b, <3>1, FeedAssumption
    <3>3. to <= length => L <= b + length
      BY <1>b
    <3> QED
      BY <1>b, <2>1, <3>2, <3>3
  <2>3. faults = 0 => z = 0
    BY <1>b DEF RebaseStored
  <2>4. \A k \in 1 .. L : k > z => stored[k] = <<g, k - b>>
    BY <1>b, <1>1
  <2>5. \A k \in 1 .. z : stored[k][1] < g
    BY <1>b, <1>1 DEF OlderFiles
  <2> QED
    BY <1>b, <1>0, <2>1, <2>2, <2>3, <2>4, <2>5 DEF Numbered, OlderFiles
<1>4. PositionsOK(g, b)'
  <2>1. PositionOK(pump, g, b)'
    <3>1. pump'.file = g /\ pump'.cursor = L /\ pump'.at = to /\ Len(stored') = L
      BY <1>b, <1>0
    <3>2. L = b + to
      BY <1>b
    <3>3. L \in Int /\ g \in Int
      BY <1>b
    <3>4. g <= g /\ L <= L
      BY <1>b, <3>3
    <3> QED
      BY <1>b, <3>1, <3>2, <3>4 DEF PositionOK
  <2>2. saved' # None => saved'.rebase
    BY <1>b, <1>0 DEF Rebasing
  <2>3. Len(stored') <= pump'.cursor + Batch
    BY <1>b, <1>0
  <2> QED
    BY <1>b, <2>1, <2>2, <2>3 DEF PositionsOK
<1>5. UnderwayOK(g, b)'
  <2>1. \A r \in Underway' : r.rebase /\ r = pending
    BY <1>b DEF Rebasing
  <2>2. ASSUME NEW r \in Underway' PROVE r.rebase /\ \E x \in rebases' : x.request = r
    BY <1>b, <1>0, <2>1 DEF Rebased
  <2> QED
    BY <1>b, <2>2 DEF UnderwayOK, Rebased
<1>6. AddsOK(g, b)'
  <2>1. \A t \in txns : t.answer # 0 /\ t.for[1].rebase
    <3>1. \A t \in txns : t.for[1] \in Underway
      BY <1>b DEF Underway
    <3>2. \A r \in Underway : r.rebase
      BY <1>b DEF Rebasing
    <3> QED
      BY <1>b, <3>1, <3>2 DEF RebaseStored
  <2> QED
    BY <1>b, <2>1 DEF AddsOK
<1> QED
  BY <1>b, <1>0, <1>3, <1>4, <1>5, <1>6 DEF Settled

\* An acknowledgement advances the position to the end of the request, which is where the
\* table ends.
LEMMA NewAcknowledged ==
  ASSUME FeedInv, FeedInv', NEW g \in 1 .. MaxFiles, NEW b \in Int, NEW z \in 0 .. Len(stored),
         Settled(g, b, z), sent # None, NEW r \in Underway, sent[1] = r, r.cursor <= Len(stored),
         pump' = [file |-> r.file, at |-> r.to, cursor |-> r.cursor, rebase |-> FALSE],
         pending' = None, sent' = None, txns' \subseteq txns, Underway' \subseteq Underway,
         UNCHANGED <<file, saved, stored, rebases, faults>>
  PROVE  Settled(g, b, z)'
<1>0. /\ Numbered(g, b, z) /\ PositionsOK(g, b) /\ UnderwayOK(g, b)
      /\ Underway \subseteq Request /\ Len(stored) \in Nat /\ Batch \in Nat
      /\ stored' = stored /\ rebases' = rebases /\ file' = file /\ saved' = saved /\ faults' = faults
  BY UnderwayTypes, FeedAssumption DEF Settled
<1>1. /\ r.file = g /\ r.cursor = b + r.to /\ Len(stored) <= r.cursor
      /\ \A q \in Underway : q.rebase \/ q.cursor <= r.cursor
  BY <1>0 DEF UnderwayOK
<1>2. /\ r.cursor \in Nat /\ \A q \in Underway : q.cursor \in Nat
      /\ file.length \in Nat /\ file.length <= file.length
  <2>1. \A q \in Request : q.cursor \in Nat
    BY FeedAssumption, StreamAssumption DEF Request
  <2> QED
    BY <1>0, <2>1, FeedAssumption DEF FeedInv, FeedTypes
<1>3. PositionOK(pump, g, b)'
  <2>1. pump'.file = g /\ pump'.cursor = r.cursor /\ pump'.at = r.to
    BY <1>1
  <2>2. g <= g
    OBVIOUS
  <2> QED
    BY <1>0, <1>1, <2>1, <2>2 DEF PositionOK
<1>4. PositionsOK(g, b)'
  <2>1. saved' # None => saved'.rebase \/ PositionOK(saved, g, b)'
    BY <1>0 DEF PositionsOK, PositionOK, Passed
  <2>2. Len(stored') <= pump'.cursor + Batch
    BY <1>0, <1>1, <1>2
  <2> QED
    BY <1>3, <2>1, <2>2 DEF PositionsOK
<1>5. \A q \in Underway' : q.rebase \/ q.cursor <= pump'.cursor + Batch
  BY <1>0, <1>1, <1>2
<1>6. g <= file'.no /\ (file'.no = g => (file.no = g /\ file.length <= file'.length))
  BY <1>0, <1>2 DEF Numbered
<1> QED
  BY <1>0, <1>4, <1>5, <1>6, KeepsSettled

LEMMA ReplyOrdered ==
  ASSUME FeedInv, FeedInv', OrderInv, NEW m \in Attempt, m[1] \in Underway, NEW accepted \in Nat,
         Reply(m, accepted),
         UNCHANGED <<file, saved, stored, rebases, excused, faults>>,
         txns' \subseteq txns, Underway' \subseteq Underway,
         (~excused /\ pump.rebase) => (Rebased(m[1]) /\ accepted = Len(stored)),
         (~excused /\ ~pump.rebase /\ sent = m) =>
           (~m[1].rebase /\ accepted = m[1].cursor /\ accepted <= Len(stored))
  PROVE  OrderInv'
<1> PICK r \in Request : r = m[1]
  BY DEF Attempt
<1>0. /\ m # None /\ Len(stored) \in Nat /\ r.cursor \in Nat
      /\ file.no \in Nat /\ file.length \in Nat /\ file.no <= file.no /\ file.length <= file.length
      /\ file' = file /\ saved' = saved /\ stored' = stored /\ rebases' = rebases
      /\ excused' = excused /\ faults' = faults
  <2>1. file \in [no : 1 .. MaxFiles, length : 0 .. MaxLines]
    BY DEF FeedInv, FeedTypes
  <2>2. /\ file.no \in Nat /\ file.length \in Nat /\ file.no <= file.no
        /\ file.length <= file.length
    BY <2>1, FeedAssumption
  <2>3. r.cursor \in Nat
    BY FeedAssumption, StreamAssumption DEF Request
  <2> QED
    BY <2>2, <2>3, UnderwayTypes, NoneAssumption
<1>1. CASE sent # m
  <2>1. UNCHANGED <<pump, pending, pc, sent>>
    BY <1>1 DEF Reply
  <2>2. pc' # "post" => sent' = None
    BY <2>1 DEF OrderInv
  <2> QED
    BY <1>0, <2>1, <2>2, QuietOrdered
<1>2. CASE sent = m
  <2>1. /\ sent' = None
        /\ IF accepted >= r.cursor
             THEN /\ pump' = [file |-> r.file, at |-> r.to, cursor |-> accepted, rebase |-> FALSE]
                  /\ pending' = None
             ELSE UNCHANGED <<pump, pending>>
    BY <1>2 DEF Reply
  <2> SUFFICES ASSUME ~excused
               PROVE  /\ OnlyNewLines'
                      /\ ~pump'.rebase
                      /\ \E g \in 1 .. MaxFiles, b \in Int, z \in 0 .. Len(stored') : Settled(g, b, z)'
    BY <1>0, <2>1 DEF OrderInv
  <2>2. /\ OnlyNewLines
        /\ pump.rebase => Rebasing /\ RebaseStored
        /\ ~pump.rebase =>
             \E g \in 1 .. MaxFiles, b \in Int, z \in 0 .. Len(stored) : Settled(g, b, z)
    BY DEF OrderInv
  <2>3. OnlyNewLines'
    BY <1>0, <2>2 DEF OnlyNewLines, Precedes
  <2>4. CASE pump.rebase
    <3>1. Rebasing /\ RebaseStored /\ Rebased(r) /\ accepted = Len(stored)
      BY <2>2, <2>4
    <3>2. pending # None /\ r = pending
      BY <3>1 DEF Rebasing
    <3>3. pending.cursor = Count(pending) /\ Len(stored) >= Count(pending)
      BY <3>1, <3>2 DEF Rebasing, RebaseStored
    <3>4. accepted >= r.cursor
      BY <3>1, <3>2, <3>3
    <3>5. /\ pump' = [file |-> pending.file, at |-> pending.to, cursor |-> Len(stored), rebase |-> FALSE]
          /\ pending' = None
      BY <2>1, <3>1, <3>2, <3>4
    <3>6. \E g \in 1 .. MaxFiles, b \in Int, z \in 0 .. Len(stored') : Settled(g, b, z)'
      BY <1>0, <2>1, <3>1, <3>2, <3>5, RebaseAcknowledged
    <3> QED
      BY <2>3, <3>5, <3>6
  <2>5. CASE ~pump.rebase
    <3>1. PICK g \in 1 .. MaxFiles, b \in Int, z \in 0 .. Len(stored) : Settled(g, b, z)
      BY <2>2, <2>5
    <3>2. accepted = r.cursor /\ r.cursor <= Len(stored)
      BY <1>2, <2>5
    <3>3. /\ pump' = [file |-> r.file, at |-> r.to, cursor |-> r.cursor, rebase |-> FALSE]
          /\ pending' = None
      BY <1>0, <2>1, <3>2
    <3>4. Settled(g, b, z)'
      BY <1>0, <1>2, <2>1, <3>1, <3>2, <3>3, NewAcknowledged
    <3> QED
      BY <1>0, <2>3, <3>3, <3>4
  <2> QED
    BY <2>4, <2>5
<1> QED
  BY <1>1, <1>2

LEMMA RepeatedOrdered ==
  ASSUME FeedInv, FeedInv', OrderInv, NEW m \in wire, Repeated(m)
  PROVE  OrderInv'
<1> PICK r \in Request : r = m[1]
  BY DEF FeedInv, FeedTypes, Attempt
<1> DEFINE before == {x \in rebases : x.request = m[1]}
           accepted == IF m[1].rebase THEN (CHOOSE x \in before : TRUE).cursor ELSE Len(stored)
<1>0. /\ IF r.rebase THEN before # {} ELSE r.cursor <= Len(stored)
      /\ wire' = wire \ {m} /\ Reply(m, accepted)
      /\ UNCHANGED <<file, saved, txns, stored, rebases, excused, faults>>
  BY DEF Repeated
<1>1. /\ m \in Attempt /\ r \in Underway /\ txns' \subseteq txns /\ Underway' \subseteq Underway
      /\ Len(stored) \in Nat /\ r.cursor \in Nat
  <2>1. r.cursor \in Nat
    BY FeedAssumption, StreamAssumption DEF Request
  <2>2. r \in Underway /\ txns' \subseteq txns /\ Underway' \subseteq Underway
    BY <1>0 DEF Underway
  <2>3. m \in Attempt
    BY DEF FeedInv, FeedTypes
  <2> QED
    BY <2>1, <2>2, <2>3, UnderwayTypes
<1>2. /\ r.rebase => \E x \in rebases : x.request = r /\ accepted = x.cursor
      /\ ~r.rebase => accepted = Len(stored)
  <2> DEFINE c == CHOOSE x \in before : TRUE
  <2>1. r.rebase => c \in before
    BY <1>0
  <2>2. accepted = IF r.rebase THEN c.cursor ELSE Len(stored)
    OBVIOUS
  <2> HIDE DEF accepted, c
  <2> QED
    BY <2>1, <2>2
<1> HIDE DEF accepted, before
<1>3. accepted \in Nat
  BY <1>1, <1>2, StreamAssumption DEF FeedInv, FeedTypes
<1>4. (~excused /\ pump.rebase) => (Rebased(r) /\ accepted = Len(stored))
  <2> SUFFICES ASSUME ~excused, pump.rebase PROVE Rebased(r) /\ accepted = Len(stored)
    OBVIOUS
  <2>1. Rebasing /\ RebaseStored
    BY DEF OrderInv
  <2>2. pending # None /\ r = pending /\ r.rebase
    BY <1>1, <2>1 DEF Rebasing
  <2>3. PICK x \in rebases : x.request = r /\ accepted = x.cursor
    BY <1>2, <2>2
  <2>4. x.cursor = Len(stored)
    BY <2>1, <2>2, <2>3 DEF RebaseStored
  <2> QED
    BY <2>3, <2>4 DEF Rebased
<1>5. (~excused /\ ~pump.rebase /\ sent = m) =>
        (~r.rebase /\ accepted = r.cursor /\ accepted <= Len(stored))
  <2> SUFFICES ASSUME ~excused, ~pump.rebase, sent = m
               PROVE  ~r.rebase /\ accepted = r.cursor /\ accepted <= Len(stored)
    OBVIOUS
  <2>1. PICK g \in 1 .. MaxFiles, b \in Int, z \in 0 .. Len(stored) : Settled(g, b, z)
    BY DEF OrderInv
  <2>2. ~r.rebase /\ Len(stored) <= r.cursor
    BY <1>1, <2>1, NoneAssumption DEF Settled, UnderwayOK
  <2> QED
    BY <1>0, <1>1, <1>2, <2>2
<1> QED
  BY <1>0, <1>1, <1>3, <1>4, <1>5, ReplyOrdered

LEMMA EndsOrdered ==
  ASSUME FeedInv, FeedInv', OrderInv, NEW t \in txns, AppendEnds(t)
  PROVE  OrderInv'
<1> PICK m \in Attempt : m = t.for
  BY DEF FeedInv, FeedTypes, Txn
<1> PICK r \in Request : r = m[1]
  BY DEF Attempt
<1>0. /\ t.answer # 0 /\ Reply(m, t.answer) /\ txns' = txns \ {t}
      /\ UNCHANGED <<file, saved, wire, stored, rebases, excused, faults>>
  BY DEF AppendEnds
<1>1. /\ r \in Underway /\ txns' \subseteq txns /\ Underway' \subseteq Underway
      /\ t.answer \in Nat
  BY <1>0, StreamAssumption DEF Underway, FeedInv, FeedTypes, Txn
<1>2. (~excused /\ pump.rebase) => (Rebased(r) /\ t.answer = Len(stored))
  <2> SUFFICES ASSUME ~excused, pump.rebase PROVE Rebased(r) /\ t.answer = Len(stored)
    OBVIOUS
  <2>1. Rebasing /\ RebaseStored
    BY DEF OrderInv
  <2>2. r = pending
    BY <1>1, <2>1 DEF Rebasing
  <2> QED
    BY <1>0, <2>1, <2>2 DEF RebaseStored
<1>3. (~excused /\ ~pump.rebase /\ sent = m) =>
        (~r.rebase /\ t.answer = r.cursor /\ t.answer <= Len(stored))
  <2> SUFFICES ASSUME ~excused, ~pump.rebase, sent = m
               PROVE  ~r.rebase /\ t.answer = r.cursor /\ t.answer <= Len(stored)
    OBVIOUS
  <2>1. PICK g \in 1 .. MaxFiles, b \in Int, z \in 0 .. Len(stored) : Settled(g, b, z)
    BY DEF OrderInv
  <2>2. ~r.rebase
    BY <2>1, NoneAssumption DEF Settled, UnderwayOK
  <2> QED
    BY <1>0, <2>1, <2>2 DEF Settled, AddsOK
<1> QED
  BY <1>0, <1>1, <1>2, <1>3, ReplyOrdered

\* A request that is taken to be new is the part of its lines that follows the table.
LEMMA NewOrdered ==
  ASSUME FeedInv, FeedInv', OrderInv, NEW m \in wire, AppendNew(m)
  PROVE  OrderInv'
<1>a. PICK r \in Request : r = m[1]
  BY DEF FeedInv, FeedTypes, Attempt
<1>b. PICK first : first = IF r.rebase THEN 0 ELSE Overlap(r)
  OBVIOUS
<1>c. PICK part : part = SubSeq(Lines(r), first + 1, Count(r))
  OBVIOUS
<1>d. PICK t0 : t0 = [for |-> m, ids |-> open', add |-> part, answer |-> 0]
  OBVIOUS
<1>0. /\ IF r.rebase THEN \A x \in rebases : x.request # r
         ELSE r.cursor > Len(stored) /\ r.cursor - Count(r) <= Len(stored)
      /\ wire' = wire \ {m} /\ txns' = txns \cup {t0}
      /\ UNCHANGED <<file, pump, saved, pending, pc, sent, stored, rebases, excused, faults>>
  BY <1>a, <1>b, <1>c, <1>d DEF AppendNew
<1>1. /\ r \in Underway /\ Underway' \subseteq Underway
      /\ t0.for = m /\ t0.answer = 0 /\ t0.add = part
  <2>1. t0.for = m /\ t0.answer = 0 /\ t0.add = part
    BY <1>d
  <2>2. r \in Underway
    BY <1>a DEF Underway
  <2>3. ASSUME NEW x \in Underway' PROVE x \in Underway
    <3>1. CASE \E u \in wire' : x = u[1]
      BY <1>0, <3>1 DEF Underway
    <3>2. CASE \E u \in txns' : x = u.for[1]
      <4>1. PICK u \in txns' : x = u.for[1]
        BY <3>2
      <4>2. u \in txns \/ u = t0
        BY <1>0
      <4>3. CASE u \in txns
        BY <4>1, <4>3 DEF Underway
      <4> QED
        BY <1>a, <2>1, <2>2, <4>1, <4>2, <4>3
    <3> QED
      BY <3>1, <3>2 DEF Underway
  <2> QED
    BY <2>1, <2>2, <2>3
<1>2. /\ r.from < r.to /\ Len(stored) \in Nat
      /\ Count(r) = r.to - r.from /\ r.from \in Nat /\ r.to \in Nat /\ r.cursor \in Nat
      /\ r.rebase \in BOOLEAN
  <2>1. r.from < r.to
    BY <1>a DEF FeedInv, RequestsOK
  <2>2. r.from \in Nat /\ r.to \in Nat /\ r.cursor \in Nat /\ r.rebase \in BOOLEAN
    BY FeedAssumption, StreamAssumption DEF Request
  <2> QED
    BY <2>1, <2>2, UnderwayTypes DEF Count
<1> SUFFICES ASSUME ~excused
             PROVE  /\ OnlyNewLines'
                    /\ pump.rebase => (Rebasing /\ RebaseStored)'
                    /\ ~pump.rebase =>
                         \E g \in 1 .. MaxFiles, b \in Int, z \in 0 .. Len(stored') : Settled(g, b, z)'
  BY <1>0 DEF OrderInv
<1>3. /\ OnlyNewLines
      /\ pump.rebase => Rebasing /\ RebaseStored
      /\ ~pump.rebase =>
           \E g \in 1 .. MaxFiles, b \in Int, z \in 0 .. Len(stored) : Settled(g, b, z)
  BY DEF OrderInv
<1>4. OnlyNewLines'
  <2>1. stored' = stored
    BY <1>0
  <2> QED
    BY <1>3, <2>1 DEF OnlyNewLines, Precedes
<1>5. ASSUME pump.rebase PROVE (Rebasing /\ RebaseStored)'
  <2>1. Rebasing /\ RebaseStored /\ pending # None /\ r = pending /\ r.rebase
    BY <1>1, <1>3, <1>5 DEF Rebasing
  <2>2. first = 0 /\ first \in 0 .. Count(r) - 1 /\ Count(r) - first = Count(r)
    BY <1>b, <1>2, <2>1
  <2>3. /\ Len(part) = Count(r)
        /\ \A k \in 1 .. Count(r) : part[k] = <<r.file, r.from + first + k>>
    BY <1>c, <1>2, <2>2, LinesFacts
  <2>4. ASSUME NEW k \in 1 .. Len(part) PROVE part[k] = <<r.file, r.from + k>>
    <3>1. k \in 1 .. Count(r)
      BY <2>3
    <3>2. part[k] = <<r.file, r.from + first + k>>
      BY <2>3, <3>1
    <3>3. r.from + first + k = r.from + k
      BY <1>2, <2>2, <3>1
    <3> QED
      BY <3>2, <3>3
  <2>5. ~Rebased(pending)
    BY <1>0, <2>1 DEF Rebased
  <2>6. Rebasing'
    BY <1>0, <1>1, <2>1 DEF Rebasing
  <2>7. \A t \in txns' :
          IF t.answer = 0
            THEN /\ ~Rebased(pending) /\ Len(t.add) = Count(pending)
                 /\ \A k \in 1 .. Len(t.add) : t.add[k] = <<pending.file, pending.from + k>>
            ELSE Rebased(pending) /\ t.answer = Len(stored)
    <3> SUFFICES ASSUME NEW t \in txns'
                 PROVE  IF t.answer = 0
                          THEN /\ ~Rebased(pending) /\ Len(t.add) = Count(pending)
                               /\ \A k \in 1 .. Len(t.add) :
                                    t.add[k] = <<pending.file, pending.from + k>>
                          ELSE Rebased(pending) /\ t.answer = Len(stored)
      OBVIOUS
    <3>1. CASE t \in txns
      BY <2>1, <3>1 DEF RebaseStored
    <3>2. CASE t = t0
      <4>1. t.answer = 0 /\ t.add = part
        BY <1>1, <3>2
      <4>2. Len(t.add) = Count(pending)
        BY <2>1, <2>3, <4>1
      <4>3. \A k \in 1 .. Len(t.add) : t.add[k] = <<pending.file, pending.from + k>>
        BY <2>1, <2>4, <4>1
      <4> QED
        BY <2>5, <4>1, <4>2, <4>3
    <3> QED
      BY <1>0, <3>1, <3>2
  <2>8. RebaseStored'
    BY <1>0, <2>1, <2>7 DEF RebaseStored, OlderFiles, Rebased
  <2> QED
    BY <2>6, <2>8
<1>6. ASSUME ~pump.rebase
      PROVE  \E g \in 1 .. MaxFiles, b \in Int, z \in 0 .. Len(stored) : Settled(g, b, z)'
  <2>1. PICK g \in 1 .. MaxFiles, b \in Int, z \in 0 .. Len(stored) : Settled(g, b, z)
    BY <1>3, <1>6
  <2>2. Numbered(g, b, z) /\ PositionsOK(g, b) /\ UnderwayOK(g, b) /\ AddsOK(g, b)
    BY <2>1 DEF Settled
  <2>3. ~r.rebase /\ r.file = g /\ r.cursor = b + r.to
    BY <1>0, <1>1, <2>2 DEF UnderwayOK, Rebased
  <2>4. first = Len(stored) - (r.cursor - Count(r)) /\ first \in 0 .. Count(r) - 1
    <3>1. r.cursor > Len(stored) /\ r.cursor - Count(r) <= Len(stored) /\ first = Overlap(r)
      BY <1>b, <1>0, <2>3
    <3>2. r.to - r.from \in Int
      BY <1>2
    <3> PICK c \in Int : c = Count(r)
      BY <1>2, <3>2
    <3> PICK d \in Int : d = Len(stored) - (r.cursor - c)
      BY <1>2
    <3>3. d \in 0 .. c - 1
      BY <1>2, <3>1
    <3>4. Overlap(r) = AtLeast(0, d)
      BY DEF Overlap
    <3>5. AtLeast(0, d) = d
      BY <3>3 DEF AtLeast
    <3> QED
      BY <3>1, <3>3, <3>4, <3>5
  <2>5. /\ Len(part) = Count(r) - first
        /\ \A k \in 1 .. Count(r) - first : part[k] = <<r.file, r.from + first + k>>
    <3>1. first \in 0 .. Count(r) - 1 /\ r.from < r.to
      BY <1>2, <2>4
    <3> QED
      BY <1>c, <3>1, LinesFacts
  <2>6. Len(stored) + Len(part) = r.cursor
    BY <1>2, <2>4, <2>5
  <2>7. ASSUME NEW k \in 1 .. Len(part) PROVE part[k] = <<g, Len(stored) - b + k>>
    <3>1. k \in 1 .. Count(r) - first
      BY <2>5
    <3>2. part[k] = <<r.file, r.from + first + k>>
      BY <2>5, <3>1
    <3>3. first = Len(stored) - (r.cursor - Count(r)) /\ Count(r) = r.to - r.from
      BY <1>2, <2>4
    <3>4. /\ r.from \in Nat /\ r.to \in Nat /\ r.cursor \in Nat /\ Len(stored) \in Nat
          /\ r.cursor = b + r.to /\ k \in Int
      BY <1>2, <2>3, <3>1
    <3> PICK c \in Int : c = Count(r)
      BY <3>3, <3>4
    <3>6. c = r.to - r.from /\ first = Len(stored) - (b + r.to - c)
      BY <3>3, <3>4
    <3>7. PICK from \in Nat, to \in Nat, l \in Nat : from = r.from /\ to = r.to /\ l = Len(stored)
      BY <3>4
    <3>8. first = l - (b + to - (to - from))
      BY <3>6, <3>7
    <3>9. first = l - b - from
      BY <3>8
    <3>10. k \in Int
      BY <3>4
    <3>5. from + first + k = l - b + k
      BY <3>9, <3>10
    <3> QED
      BY <2>3, <3>2, <3>5, <3>7
  <2>8. AddsOK(g, b)'
    <3>1. \A t \in txns :
            /\ t.answer = 0 =>
                 /\ ~t.for[1].rebase /\ Len(stored) + Len(t.add) = t.for[1].cursor
                 /\ \A k \in 1 .. Len(t.add) : t.add[k] = <<g, Len(stored) - b + k>>
            /\ t.answer # 0 =>
                 t.for[1].rebase \/ (t.answer = t.for[1].cursor /\ t.answer <= Len(stored))
      BY <2>2 DEF AddsOK
    <3>2. /\ t0.answer = 0 /\ ~t0.for[1].rebase
          /\ Len(stored) + Len(t0.add) = t0.for[1].cursor
          /\ \A k \in 1 .. Len(t0.add) : t0.add[k] = <<g, Len(stored) - b + k>>
      BY <1>a, <1>1, <2>3, <2>6, <2>7
    <3>3. \A t \in txns' : t \in txns \/ t = t0
      BY <1>0
    <3>4. stored' = stored
      BY <1>0
    <3> QED
      BY <3>1, <3>2, <3>3, <3>4 DEF AddsOK
  <2>9. Numbered(g, b, z)' /\ PositionsOK(g, b)'
    BY <1>0, <2>2 DEF Numbered, OlderFiles, PositionsOK, PositionOK, Passed
  <2>10. UnderwayOK(g, b)'
    BY <1>0, <1>1, <2>2 DEF UnderwayOK, Rebased
  <2> QED
    BY <2>8, <2>9, <2>10 DEF Settled
<1> QED
  BY <1>0, <1>4, <1>5, <1>6

LEMMA NumberedNext ==
  ASSUME NEW g, NEW b, NEW z, OlderFiles(g, z)',
         \A k \in 1 .. Len(stored') : k > z => stored'[k] = <<g, k - b>>,
         file'.no = g => Len(stored') <= b + file'.length,
         g <= file'.no /\ (faults' = 0 => z = b \/ z = 0)
  PROVE  Numbered(g, b, z)'
BY DEF Numbered

LEMMA CommitsOrdered ==
  ASSUME FeedInv, FeedInv', OrderInv, NEW t \in txns, AppendCommits(t)
  PROVE  OrderInv'
<1> PICK m \in Attempt : m = t.for
  BY DEF FeedInv, FeedTypes, Txn
<1> PICK r \in Request : r = m[1]
  BY DEF Attempt
<1>a. PICK L \in Nat, n \in Nat, add \in Seq(Line) : L = Len(stored) /\ add = t.add /\ n = Len(add)
  <2>1. t.add \in Seq(Line)
    BY DEF FeedInv, FeedTypes, Txn
  <2> QED
    BY <2>1, UnderwayTypes, LenProperties
<1>d. PICK t1 : t1 = [t EXCEPT !.answer = L + n]
  OBVIOUS
<1>0. /\ t.answer = 0 /\ stored' = stored \o add
      /\ rebases' = IF r.rebase THEN rebases \cup {[request |-> r, cursor |-> L + n]} ELSE rebases
      /\ txns' = (txns \ {t}) \cup {t1}
      /\ UNCHANGED <<file, pump, saved, pending, pc, sent, wire, excused, faults>>
  BY <1>a, <1>d DEF AppendCommits
<1>1. /\ Len(stored') = L + n
      /\ \A k \in 1 .. L : stored'[k] = stored[k]
      /\ \A k \in 1 .. L + n : k > L => stored'[k] = add[k - L]
      /\ \A k \in 1 .. L + n : k > L => k - L \in 1 .. n
      /\ \A k \in 1 .. L + n : stored'[k] \in Line
  <2>1. stored \in Seq(Line)
    BY <1>a DEF FeedInv, FeedTypes
  <2>2. /\ Len(stored \o add) = L + n
        /\ \A k \in 1 .. L + n : (stored \o add)[k] = IF k <= L THEN stored[k] ELSE add[k - L]
    BY <1>a, <2>1, ConcatProperties
  <2>3. \A k \in 1 .. Len(stored') : stored'[k] \in Line
    <3>1. stored' \in Seq(Line)
      BY <1>a DEF FeedInv, FeedTypes
    <3> QED
      BY <1>a, <3>1, ElementOfSeq
  <2> QED
    BY <1>a, <1>0, <2>2, <2>3
<1>2. /\ t1.for = m /\ t1.answer = L + n /\ t1.add = add
      /\ r \in Underway /\ Underway' = Underway
      /\ \A u \in txns : u.answer = 0 => u = t
      /\ n > 0
  <2>1. t1.for = m /\ t1.answer = L + n /\ t1.add = add
    BY <1>a, <1>d DEF FeedInv, FeedTypes, Txn
  <2>2. r \in Underway /\ r \in Underway'
    BY <1>a, <1>0, <2>1 DEF Underway
  <2>4. ASSUME NEW x \in Underway' PROVE x \in Underway
    <3>1. CASE \E u \in wire : x = u[1]
      BY <1>a, <3>1 DEF Underway
    <3>2. CASE \E u \in txns' : x = u.for[1]
      <4>1. PICK u \in txns' : x = u.for[1]
        BY <1>a, <3>2
      <4>2. CASE u \in txns
        BY <1>a, <4>1, <4>2 DEF Underway
      <4>3. CASE u = t1
        BY <1>a, <2>1, <2>2, <4>1, <4>3
      <4> QED
        BY <1>a, <1>0, <4>2, <4>3
    <3> QED
      BY <1>a, <1>0, <3>1, <3>2 DEF Underway
  <2>5. ASSUME NEW x \in Underway PROVE x \in Underway'
    <3>1. CASE \E u \in wire : x = u[1]
      BY <1>a, <1>0, <3>1 DEF Underway
    <3>2. CASE \E u \in txns : x = u.for[1]
      <4>1. PICK u \in txns : x = u.for[1]
        BY <1>a, <3>2
      <4>2. CASE u = t
        BY <1>a, <2>2, <4>1, <4>2
      <4>3. CASE u # t
        <5>1. u \in txns'
          BY <1>a, <1>0, <4>3
        <5> QED
          BY <1>a, <4>1, <5>1 DEF Underway
      <4> QED
        BY <1>a, <4>2, <4>3
    <3> QED
      BY <1>a, <3>1, <3>2 DEF Underway
  <2>6. Underway' = Underway
    BY <1>a, <2>4, <2>5
  <2>3. t.add # <<>> /\ \A u \in txns : u.answer = 0 => u = t
    BY <1>a, <1>0 DEF FeedInv, TxnsOK
  <2> QED
    BY <1>a, <2>1, <2>2, <2>3, <2>6, EmptySeq
<1> SUFFICES ASSUME ~excused
             PROVE  /\ OnlyNewLines'
                    /\ pump.rebase => (Rebasing /\ RebaseStored)'
                    /\ ~pump.rebase =>
                         \E g \in 1 .. MaxFiles, b \in Int, z \in 0 .. Len(stored') : Settled(g, b, z)'
  BY <1>a, <1>0 DEF OrderInv
<1>3. /\ OnlyNewLines
      /\ pump.rebase => Rebasing /\ RebaseStored
      /\ ~pump.rebase =>
           \E g \in 1 .. MaxFiles, b \in Int, z \in 0 .. Len(stored) : Settled(g, b, z)
  BY <1>a DEF OrderInv
\* Lines of one file, in order, after lines of older files.
<1>4. ASSUME NEW f \in Nat, NEW z \in 0 .. L, NEW b \in Int,
             \A k \in 1 .. z : stored'[k][1] < f,
             \A k \in 1 .. L + n : k > z => stored'[k] = <<f, k - b>>
      PROVE  OnlyNewLines'
  <2> SUFFICES ASSUME NEW i \in 1 .. L + n, NEW j \in 1 .. i - 1, ~ (i <= L)
               PROVE  Precedes(stored'[j], stored'[i])
    <3> SUFFICES ASSUME NEW i \in 1 .. L + n, NEW j \in 1 .. i - 1
                 PROVE  Precedes(stored'[j], stored'[i])
      BY <1>a, <1>1 DEF OnlyNewLines, Precedes
    <3>1. CASE i <= L
      <4>1. i \in 1 .. L /\ j \in 1 .. L
        BY <1>a, <3>1
      <4>2. Precedes(stored[j], stored[i])
        BY <1>a, <1>3, <4>1 DEF OnlyNewLines
      <4> QED
        BY <1>a, <1>1, <4>1, <4>2
    <3> QED
      BY <1>a, <3>1
  <2>1. i > z /\ j \in 1 .. L + n /\ j < i
    OBVIOUS
  <2>2. stored'[i] = <<f, i - b>>
    BY <1>a, <1>4, <2>1
  <2>3. CASE j <= z
    <3>1. stored'[j][1] < f
      BY <1>a, <1>4, <2>3
    <3> QED
      BY <1>a, <2>2, <3>1 DEF Precedes
  <2>4. CASE ~ (j <= z)
    <3>1. stored'[j] = <<f, j - b>>
      BY <1>a, <1>4, <2>1, <2>4
    <3>2. j - b < i - b
      BY <1>a, <2>1
    <3> QED
      BY <1>a, <2>2, <3>1, <3>2 DEF Precedes
  <2> QED
    BY <1>a, <2>3, <2>4
<1>5. CASE pump.rebase
  <2>1. Rebasing /\ RebaseStored /\ pending # None /\ r = pending /\ r.rebase
    BY <1>a, <1>2, <1>3, <1>5 DEF Rebasing
  <2>2. /\ ~Rebased(pending) /\ n = Count(r)
        /\ \A k \in 1 .. n : add[k] = <<r.file, r.from + k>>
        /\ OlderFiles(r.file, L)
    BY <1>a, <1>0, <2>1 DEF RebaseStored
  <2>3. /\ r.file \in Nat /\ r.from \in Nat /\ r.to \in Nat /\ r.to - r.from = n
    BY <1>a, <2>2, FeedAssumption DEF Request, Count
  <2>b. PICK b \in Int : b = L + n - r.to
    BY <1>a, <2>3
  <2>4. ASSUME NEW k \in 1 .. L + n, k > L PROVE stored'[k] = <<r.file, k - b>>
    <3>1. stored'[k] = add[k - L] /\ k - L \in 1 .. n
      BY <1>a, <1>1, <2>4
    <3>2. PICK j \in 1 .. n : j = k - L
      BY <1>a, <3>1
    <3>3. add[j] = <<r.file, r.from + j>>
      BY <1>a, <2>2
    <3>4. PICK from \in Nat, to \in Nat : from = r.from /\ to = r.to
      BY <1>a, <2>3
    <3>5. to - from = n /\ b = L + n - to
      BY <1>a, <2>b, <2>3, <3>4
    <3>6. from + j = k - b
      <4>1. from = to - n
        BY <3>5
      <4>2. b = L + n - to /\ j = k - L
        BY <3>2, <3>5
      <4> QED
        BY <4>1, <4>2
    <3> QED
      BY <1>a, <3>1, <3>2, <3>3, <3>4, <3>6
  <2>5. \A k \in 1 .. L : stored'[k][1] < r.file
    BY <1>a, <1>1, <2>2 DEF OlderFiles
  <2>6. OnlyNewLines'
    <3>1. L \in 0 .. L
      OBVIOUS
    <3> QED
      BY <1>a, <1>4, <2>3, <2>4, <2>5, <3>1
  <2>7. Rebasing'
    BY <1>a, <1>0, <1>2, <2>1 DEF Rebasing
  <2>8. /\ \E x \in rebases' : x.request = r
        /\ \A x \in rebases' : IF x.request = r THEN x.cursor = L + n ELSE x.request.file < r.file
    <3>1. \A x \in rebases : x.request # r
      BY <1>a, <2>1, <2>2 DEF Rebased
    <3>2. \A x \in rebases : x.request.file < r.file
      BY <1>a, <2>1, <3>1 DEF RebaseStored
    <3> PICK x0 : x0 = [request |-> r, cursor |-> L + n]
      OBVIOUS
    <3>3. rebases' = rebases \cup {x0} /\ x0.request = r /\ x0.cursor = L + n
      BY <1>a, <1>0, <2>1
    <3>4. x0 \in rebases'
      BY <1>a, <3>3
    <3>5. \A x \in rebases' : x \in rebases \/ x = x0
      BY <1>a, <3>3
    <3> QED
      BY <1>a, <3>1, <3>2, <3>3, <3>4, <3>5
  <2>9. \A u \in txns' : u.answer = L + n /\ u.answer # 0
    <3>1. \A u \in txns : u.answer = 0
      BY <1>a, <2>1, <2>2 DEF RebaseStored
    <3>2. \A u \in txns' : u = t1
      BY <1>a, <1>0, <1>2, <3>1
    <3>3. L + n # 0
      BY <1>a, <1>2
    <3> QED
      BY <1>a, <1>2, <3>2, <3>3
  <2>10. faults = 0 => (pc = "post" /\ L + n = Count(r))
    <3>1. faults = 0 => (pc = "post" /\ stored = <<>>)
      BY <1>a, <2>1, <2>2 DEF RebaseStored
    <3> QED
      BY <1>a, <2>2, <3>1, EmptySeq
  <2>11. RebaseStored'
    <3>1. pending' = r /\ pending' # None /\ Len(stored') = L + n
      BY <1>a, <1>0, <1>1, <2>1
    <3>2. Rebased(pending)'
      BY <1>a, <2>8, <3>1 DEF Rebased
    <3>3. Count(pending)' = n /\ L + n - n = L /\ L + n >= n
      BY <1>a, <2>2, <3>1 DEF Count
    <3>4. OlderFiles(pending.file, Len(stored) - Count(pending))'
      <4>1. Len(stored') - Count(pending)' = L
        BY <1>a, <3>1, <3>3
      <4>2. \A k \in 1 .. (Len(stored') - Count(pending)') : stored'[k][1] < pending'.file
        BY <1>a, <2>5, <3>1, <4>1
      <4> QED
        BY <1>a, <4>2 DEF OlderFiles
    <3>5. \A k \in 1 .. Len(stored') : k > Len(stored') - Count(pending)' =>
            stored'[k] = <<pending'.file, k - (Len(stored') - pending'.to)>>
      <4>1. /\ Len(stored') = L + n /\ Len(stored') - Count(pending)' = L
            /\ Len(stored') - pending'.to = b /\ pending'.file = r.file
        <5>1. Len(stored') - Count(pending)' = L
          BY <1>a, <3>1, <3>3
        <5>2. Len(stored') - pending'.to = b
          BY <2>b, <2>3, <3>1
        <5> QED
          BY <1>a, <3>1, <5>1, <5>2
      <4> QED
        BY <1>a, <2>4, <4>1
    <3>6. faults' = 0 => (pc' = "post" /\ Len(stored') = Count(pending)')
      BY <1>a, <1>0, <2>2, <2>10, <3>1, <3>3
    <3> QED
      BY <1>a, <2>8, <2>9, <3>1, <3>2, <3>3, <3>4, <3>5, <3>6 DEF RebaseStored
  <2> QED
    BY <1>a, <1>5, <2>6, <2>7, <2>11
<1>6. CASE ~pump.rebase
  <2>1. PICK g \in 1 .. MaxFiles, b \in Int, z \in 0 .. L : Settled(g, b, z)
    BY <1>a, <1>3, <1>6
  <2>2. Numbered(g, b, z) /\ PositionsOK(g, b) /\ UnderwayOK(g, b) /\ AddsOK(g, b) /\ g \in Nat
    BY <1>a, <2>1 DEF Settled
  <2>3. /\ ~r.rebase /\ L + n = r.cursor
        /\ \A k \in 1 .. n : add[k] = <<g, L - b + k>>
    BY <1>a, <1>0, <2>2 DEF AddsOK
  <2>4. /\ rebases' = rebases
        /\ r.cursor = b + r.to /\ r.cursor <= pump.cursor + Batch
        /\ file.no = g => r.to <= file.length
    BY <1>a, <1>0, <1>2, <2>2, <2>3 DEF UnderwayOK
  <2>5. \A k \in 1 .. L + n : k > z => stored'[k] = <<g, k - b>>
    <3> SUFFICES ASSUME NEW k \in 1 .. L + n, k > z PROVE stored'[k] = <<g, k - b>>
      OBVIOUS
    <3>1. CASE k <= L
      <4>1. k \in 1 .. L
        BY <1>a, <3>1
      <4> QED
        BY <1>a, <1>1, <2>2, <4>1 DEF Numbered
    <3>2. CASE ~ (k <= L)
      <4>1. stored'[k] = add[k - L] /\ k - L \in 1 .. n
        BY <1>a, <1>1, <3>2
      <4>2. add[k - L] = <<g, L - b + (k - L)>>
        BY <1>a, <2>3, <4>1
      <4>3. L - b + (k - L) = k - b
        OBVIOUS
      <4> QED
        BY <1>a, <4>1, <4>2, <4>3
    <3> QED
      BY <1>a, <3>1, <3>2
  <2>6. \A k \in 1 .. z : stored'[k][1] < g
    BY <1>a, <1>1, <2>2 DEF Numbered, OlderFiles
  <2>7. OnlyNewLines'
    BY <1>a, <1>4, <2>2, <2>5, <2>6
  <2>8. Numbered(g, b, z)'
    <3>1. file.no = g => L + n <= b + file.length
      <4>1. r.to \in Nat
        BY <1>a, FeedAssumption DEF Request
      <4>2. file.length \in 0 .. MaxLines
        BY <1>a DEF FeedInv, FeedTypes
      <4>3. file.length \in Nat
        BY <1>a, <4>2, FeedAssumption
      <4>4. L + n = b + r.to
        BY <2>3, <2>4
      <4> QED
        BY <2>4, <4>1, <4>3, <4>4
    <3>2. /\ g <= file.no /\ (faults = 0 => z = b \/ z = 0)
          /\ file' = file /\ faults' = faults
      BY <1>0, <2>2 DEF Numbered
    <3>3. OlderFiles(g, z)'
      BY <2>6 DEF OlderFiles
    <3>4. \A k \in 1 .. Len(stored') : k > z => stored'[k] = <<g, k - b>>
      BY <1>1, <2>5
    <3>5. file'.no = g => Len(stored') <= b + file'.length
      BY <1>1, <3>1, <3>2
    <3>6. g <= file'.no /\ (faults' = 0 => z = b \/ z = 0)
      BY <3>2
    <3> QED
      BY <3>3, <3>4, <3>5, <3>6, NumberedNext
  <2>9. ASSUME NEW p \in Position, PositionOK(p, g, b) PROVE PositionOK(p, g, b)'
    <3>0. p.cursor \in Nat /\ p.file \in Nat
      BY FeedAssumption, StreamAssumption DEF Position
    <3>1. /\ p.file <= g /\ p.cursor <= L + n
          /\ p.file = g => p.cursor = b + p.at
          /\ p.file # g => (p.cursor = b \/ p.cursor < L + n)
      BY <1>a, <2>9, <3>0 DEF PositionOK
    <3>2. ASSUME p.file # g PROVE Passed(p)'
      <4>0. Passed(p) /\ p.file < g
        BY <1>a, <2>2, <2>9, <3>0, <3>2 DEF PositionOK
      <4> SUFFICES ASSUME NEW i \in 1 .. p.at, NEW k \in 1 .. L + n,
                          Precedes(stored'[k], <<p.file, i>>),
                          stored'[k][1] = p.file \/ faults' = 0
                   PROVE  \E j \in 1 .. L + n : stored'[j] = <<p.file, i>>
        BY <1>a, <1>1 DEF Passed
      <4>1. CASE k <= L
        <5>1. k \in 1 .. L /\ stored'[k] = stored[k]
          BY <1>a, <1>1, <4>1
        <5>2. PICK j \in 1 .. L : stored[j] = <<p.file, i>>
          BY <1>a, <1>0, <4>0, <5>1 DEF Passed
        <5> QED
          BY <1>a, <1>1, <5>2
      <4>2. CASE ~ (k <= L)
        <5>1. k > z
          BY <1>a, <4>2
        <5>2. stored'[k] = <<g, k - b>>
          BY <1>a, <2>5, <5>1
        <5> QED
          BY <1>a, <2>2, <3>0, <4>0, <5>2 DEF Precedes
      <4> QED
        BY <1>a, <4>1, <4>2
    <3> QED
      BY <1>a, <1>1, <3>1, <3>2 DEF PositionOK
  <2>10. PositionsOK(g, b)'
    <3>1. PICK p \in Position : p = pump
      BY <1>a DEF FeedInv, FeedTypes
    <3>2. PositionOK(p, g, b)'
      BY <1>a, <2>2, <2>9, <3>1 DEF PositionsOK
    <3>3. PositionOK(pump, g, b)'
      BY <1>a, <1>0, <3>1, <3>2 DEF PositionOK, Passed
    <3>4. ASSUME saved' # None, ~saved'.rebase PROVE PositionOK(saved, g, b)'
      <4>1. PICK q \in Position : q = saved /\ q = saved'
        BY <1>a, <1>0, <3>4 DEF FeedInv, FeedTypes
      <4>2. PositionOK(q, g, b)'
        BY <1>a, <2>2, <2>9, <3>4, <4>1 DEF PositionsOK
      <4> QED
        BY <1>a, <4>1, <4>2 DEF PositionOK, Passed
    <3> QED
      BY <1>a, <1>0, <1>1, <2>2, <2>3, <2>4, <3>3, <3>4 DEF PositionsOK
  <2>11. UnderwayOK(g, b)'
    <3>1. sent # None => L + n <= sent[1].cursor
      BY <1>a, <1>2, <2>2, <2>3 DEF UnderwayOK
    <3> QED
      BY <1>a, <1>0, <1>1, <1>2, <2>2, <2>4, <3>1 DEF UnderwayOK, Rebased
  <2>12. AddsOK(g, b)'
    <3>1. ASSUME NEW u \in txns'
          PROVE  /\ u.answer # 0
                 /\ u.for[1].rebase \/ (u.answer = u.for[1].cursor /\ u.answer <= L + n)
      <4>1. CASE u = t1
        BY <1>2, <2>3, <4>1
      <4>2. CASE u # t1
        <5>1. u \in txns /\ u # t
          BY <1>0, <4>2
        <5>2. u.answer # 0
          BY <1>2, <5>1
        <5>3. u.for[1].rebase \/ (u.answer = u.for[1].cursor /\ u.answer <= Len(stored))
          BY <2>2, <5>1, <5>2 DEF AddsOK
        <5>4. u.answer \in Nat
          BY <5>1, StreamAssumption DEF FeedInv, FeedTypes, Txn
        <5> QED
          BY <1>a, <5>2, <5>3, <5>4
      <4> QED
        BY <1>a, <4>1, <4>2
    <3> QED
      BY <1>a, <1>1, <3>1 DEF AddsOK
  <2>13. z \in 0 .. Len(stored')
    BY <1>a, <1>1
  <2> QED
    BY <1>a, <1>6, <2>7, <2>8, <2>10, <2>11, <2>12, <2>13 DEF Settled
<1> QED
  BY <1>a, <1>5, <1>6 DEF FeedInv, FeedTypes, Position

LEMMA OrderInit == Init => OrderInv
<1> SUFFICES ASSUME Init PROVE OrderInv
  OBVIOUS
<1>1. /\ pump.rebase /\ pump.cursor = 0 /\ saved = None /\ pending = None /\ sent = None
      /\ stored = <<>> /\ txns = {} /\ wire = {} /\ rebases = {}
  BY DEF Init, FirstPosition
<1>2. Len(stored) = 0 /\ \A k \in 1 .. Len(stored) : FALSE
  BY <1>1, EmptySeq
<1>3. OnlyNewLines
  BY <1>2 DEF OnlyNewLines
<1>4. Rebasing
  BY <1>1 DEF Rebasing, Underway
<1>5. OlderFiles(file.no, Len(stored))
  BY <1>2 DEF OlderFiles
<1>6. RebaseStored
  BY <1>1, <1>5 DEF RebaseStored
<1> QED
  BY <1>1, <1>3, <1>4, <1>6 DEF OrderInv

\* Every step keeps the order.
LEMMA OrderStep ==
  ASSUME FeedInv, FeedInv', OrderInv, [Next]_vars
  PROVE  OrderInv'
<1>0. /\ file.no \in Nat /\ file.length \in Nat /\ faults \in Nat
      /\ \A t \in txns : t.for \in Attempt
  <2>1. /\ file \in [no : 1 .. MaxFiles, length : 0 .. MaxLines] /\ faults \in 0 .. MaxFaults
        /\ \A t \in txns : t.for \in Attempt
    BY DEF FeedInv, FeedTypes, Txn
  <2> QED
    BY <2>1, FeedAssumption
<1>1. pc # "post" => sent = None
  BY DEF OrderInv
\* Steps that only write to the file, give something up or are the page's.
<1>2. ASSUME excused' = excused, stored' = stored, rebases' = rebases, pending' = pending,
             pump' = pump, saved' = saved \/ saved' = pump,
             faults' # 0 \/ (faults' = faults /\ (pc = "post" => pc' = "post")),
             file.no <= file'.no, file'.no = file.no => file.length <= file'.length,
             wire' = wire, txns' \subseteq txns,
             sent' = None \/ sent' = sent, pc' # "post" => sent' = None
      PROVE  OrderInv'
  <2>1. Underway' \subseteq Underway
    BY <1>2 DEF Underway
  <2> QED
    BY <1>2, <2>1, QuietOrdered
<1>3. CASE Write
  <2>1. /\ file'.no = file.no /\ file'.length = file.length + 1
        /\ UNCHANGED <<pump, saved, pending, pc, sent, wire, txns, stored, rebases, excused, faults>>
    <3>1. file' = [file EXCEPT !.length = @ + 1] /\ file \in [no : 1 .. MaxFiles, length : 0 .. MaxLines]
      BY <1>3 DEF Write, FeedInv, FeedTypes
    <3>2. file'.no = file.no /\ file'.length = file.length + 1
      BY <3>1
    <3> QED
      BY <1>3, <3>2 DEF Write
  <2>2. file.length <= file'.length /\ file.no <= file'.no
    BY <1>0, <2>1
  <2> QED
    BY <1>1, <1>2, <2>1, <2>2
<1>4. CASE Rotate
  <2>1. /\ file'.no = file.no + 1
        /\ UNCHANGED <<pump, saved, pending, pc, sent, wire, txns, stored, rebases, excused, faults>>
    BY <1>4 DEF Rotate
  <2>2. file'.no # file.no /\ file.no <= file'.no
    BY <1>0, <2>1
  <2> QED
    BY <1>1, <1>2, <2>1, <2>2
<1>5. CASE Save
  <2>1. /\ pc = "save" /\ pc' = "idle"
        /\ (saved' = pump /\ faults' = faults) \/ (saved' = saved /\ faults' = faults + 1)
        /\ UNCHANGED <<file, pump, pending, sent, wire, txns, stored, rebases, excused>>
    BY <1>5 DEF Save
  <2>2. faults' # 0 \/ faults' = faults
    BY <1>0, <2>1
  <2>3. file.length <= file'.length /\ file.no <= file'.no
    BY <1>0, <2>1
  <2>4. sent' = None /\ pc # "post"
    BY <1>1, <2>1
  <2>5. saved' = saved \/ saved' = pump
    BY <2>1
  <2> QED
    BY <1>2, <2>1, <2>2, <2>3, <2>4, <2>5
<1>6. CASE GiveUp
  <2>1. /\ sent' = None /\ faults' = faults + 1
        /\ UNCHANGED <<file, pump, saved, pending, wire, txns, stored, rebases, excused>>
    BY <1>6 DEF GiveUp
  <2>2. faults' # 0 /\ file.length <= file'.length /\ file.no <= file'.no
    BY <1>0, <2>1
  <2> QED
    BY <1>2, <2>1, <2>2
<1>7. CASE \E t \in txns : AppendFails(t)
  <2>1. PICK t \in txns : AppendFails(t)
    BY <1>7
  <2>2. /\ faults' = faults + 1 /\ txns' \subseteq txns
        /\ (pc' = "idle" /\ sent' = None) \/ (pc' = pc /\ sent' = sent)
        /\ UNCHANGED <<file, pump, saved, pending, wire, stored, rebases, excused>>
    BY <2>1 DEF AppendFails
  <2>3. faults' # 0 /\ file.length <= file'.length /\ file.no <= file'.no
    BY <1>0, <2>2
  <2>4. (sent' = None \/ sent' = sent) /\ (pc' # "post" => sent' = None)
    BY <1>1, <2>2
  <2> QED
    BY <1>2, <2>2, <2>3, <2>4
<1>8. CASE UNCHANGED feedVars
  <2>1. UNCHANGED <<file, pump, saved, pending, pc, sent, wire, txns, stored, rebases, excused, faults>>
    BY <1>8 DEF feedVars
  <2>2. file.length <= file'.length /\ file.no <= file'.no
    BY <1>0, <2>1
  <2> QED
    BY <1>1, <1>2, <2>1, <2>2
<1>9. CASE Serve
  <2>1. CASE \E m \in wire : Repeated(m) \/ AppendNew(m)
    BY <2>1, RepeatedOrdered, NewOrdered
  <2>2. CASE \E t \in txns : AppendCommits(t) \/ AppendEnds(t)
    BY <2>2, CommitsOrdered, EndsOrdered
  <2> QED
    BY <1>9, <2>1, <2>2 DEF Serve
<1>10. CASE Republish \/ Publish \/ NothingNew \/ AgentRestart
  BY <1>10, RepublishOrdered, PublishOrdered, NothingNewOrdered, RestartOrdered
<1> QED
  BY <1>3, <1>4, <1>5, <1>6, <1>7, <1>8, <1>9, <1>10 DEF Next, Loop, vars

-----------------------------------------------------------------------------
(* Theorems *)

LEMMA AlwaysTyped == Spec => [](ReaderInv /\ FeedInv)
<1>1. Init => ReaderInv /\ FeedInv
  BY ReaderInit, FeedInit DEF Init
<1>2. ASSUME ReaderInv /\ FeedInv, [Next]_vars PROVE (ReaderInv /\ FeedInv)'
  <2>1. StreamTypeOK
    BY <1>2 DEF ReaderInv
  <2>2. /\ FeedInv'
        /\ \/ TableStep /\ UNCHANGED readerVars
           \/ Browser /\ UNCHANGED tableVars
    BY <1>2, <2>1, FeedStep
  <2>3. ReaderInv'
    BY <1>2, <2>2, TableStepReader, BrowserStepReader
  <2> QED
    BY <2>2, <2>3
<1> QED
  BY <1>1, <1>2, PTL DEF Spec

LEMMA AlwaysOrdered == Spec => [](FeedInv /\ OrderInv)
<1>1. Init => OrderInv
  BY OrderInit
<1>2. FeedInv /\ FeedInv' /\ OrderInv /\ [Next]_vars => OrderInv'
  BY OrderStep
<1>3. Spec => []FeedInv
  BY AlwaysTyped, PTL
<1> QED
  BY <1>1, <1>2, <1>3, PTL DEF Spec

\* Every variable keeps its type: in particular no cursor of the loop, and no answer of
\* the API, exceeds the rows that were drawn.
THEOREM TypeCorrect == Spec => []TypeOK
<1>1. ReaderInv /\ FeedInv => TypeOK
  BY DEF ReaderInv, FeedInv, FeedTypes, TypeOK, Line
<1> QED
  BY <1>1, AlwaysTyped, PTL

\* NoHoles: between the oldest and the newest row a page has received it shows every
\* row that is retained, for any commits, rollbacks, trims, clears, losses, failed
\* queries and reconnections (the list, the stream and the page's cursors): only a
\* history that comes after the stream was opened can make a hole.
THEOREM PagesHaveNoHoles == Spec => []NoHoles
<1>1. ReaderInv /\ FeedInv => NoHoles
  BY ReaderSeesAll
<1> QED
  BY <1>1, AlwaysTyped, PTL

\* OnlyNewUnlessExcused: the table has every line once, in the order the game wrote it,
\* but for the three moments named there, for any files, batches, faults and answers that
\* come late or never (appendConsoleLogs and send_live_console_delta).
THEOREM LinesAreNew == Spec => []OnlyNewUnlessExcused
<1>1. FeedInv /\ OrderInv => OnlyNewUnlessExcused
  BY DEF OrderInv, OnlyNewUnlessExcused
<1> QED
  BY <1>1, AlwaysOrdered, PTL

\* PassedIsStored: once the first rebase is acknowledged, what the loop's position has
\* passed is in the table, from the first line of its file there on, and from a file's
\* first line while nothing has failed (read_console_delta and the overlap the API skips).
THEOREM PassedAreStored == Spec => []PassedIsStored
<1>1. ASSUME FeedInv, OrderInv PROVE PassedIsStored
  <2> SUFFICES ASSUME ~excused, ~pump.rebase PROVE Passed(pump)
    BY DEF PassedIsStored, Passed
  <2>1. PICK g \in 1 .. MaxFiles, b \in Int, z \in 0 .. Len(stored) : Settled(g, b, z)
    BY <1>1 DEF OrderInv
  <2>2. Numbered(g, b, z) /\ PositionOK(pump, g, b)
    BY <2>1 DEF Settled, PositionsOK
  <2>3. PICK p \in Position : p = pump
    BY <1>1 DEF FeedInv, FeedTypes
  <2>4. PositionOK(p, g, b)
    BY <2>2, <2>3
  <2>5. Passed(p)
    BY <1>1, <2>2, <2>4, SettledPassed
  <2> QED
    BY <2>3, <2>5
<1> QED
  BY <1>1, AlwaysOrdered, PTL
=============================================================================
