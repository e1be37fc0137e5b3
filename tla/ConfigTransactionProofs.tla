----------------------- MODULE ConfigTransactionProofs -----------------------
(***************************************************************************)
(* Proofs about ConfigTransaction: for any clients, and any bounds on      *)
(* edits and failures, whatever the disk keeps of an interrupted update    *)
(* can be recovered, is whole, and has every update that was reported.     *)
(***************************************************************************)
EXTENDS ConfigTransaction, FiniteSetTheorems, TLAPS

-----------------------------------------------------------------------------
(* The inductive invariant *)

\* The changes there are so far; and the edits that no update may have overwritten.
Past == Clients \cup (1 .. edits)
Kept == (1 .. edits) \ exposed

\* Informed, of any content.
Agreed(content) ==
  \A c, e \in content \cap Clients : c # e => c \in known[e] \/ e \in known[c]

\* A copy with its data, as long as the power stays or also without it.
Copies == [data : Content, synced : BOOLEAN]
Safe == [data : Content, synced : {TRUE}]

\* A published transaction: its originals can be restored, and hold what they must.
JournalOK(d) ==
  /\ d.iniOriginal \in Safe /\ d.sandboxOriginal \in Safe
  /\ d.iniOriginal.data \subseteq Past
  /\ Agreed(d.sandboxOriginal.data)
  /\ Kept \cap d.ini \subseteq d.iniOriginal.data

\* Each directory that a power loss may leave.
ImageOK(d) ==
  /\ d \in Directory
  /\ d.ini \subseteq Past
  /\ reported \subseteq Committed(d).sandbox
  /\ edits = 0 => Whole(Committed(d))
  /\ Agreed(d.sandbox)
  /\ d.journal => JournalOK(d)

\* The directory in memory: it has every update that another image has, once its own
\* journal is gone.
DiskOK ==
  /\ disk \in images
  /\ Kept \subseteq disk.ini
  /\ ~disk.journal =>
       \A d \in images : /\ d.sandbox \subseteq disk.sandbox
                         /\ d.journal => d.sandboxOriginal.data \subseteq disk.sandbox

EditorOK ==
  editor # None => editor \subseteq Past /\ Kept \subseteq editor /\ edits < MaxEdits

\* The places of a process, by what it is doing.
Restoring == {"restoreIni", "syncRestoredIni", "restoreSandbox", "syncRestoredSandbox"}
Copied == {"copySandbox", "syncCopies", "syncOriginals", "journal"}
Replacing == {"syncJournal", "replaceIni", "syncIni", "replaceSandbox", "syncSandbox"}
Unlinking == {"unlinkIni", "unlinkSandbox", "syncUnlinked"}
Preparing == {"backup", "copyIni"} \cup Copied

\* Who is beyond the lock has it, and its place says how far the directory is.
PlaceOK(c) ==
  LET pc == client[c].pc IN
  /\ pc \in {"idle", "lock"} <=> lock # c
  /\ pc \in {"idle", "lock", "parse", "check"} => client[c].mode = "begin"
  /\ pc \in {"recover", "discard"} \cup Restoring => client[c].mode # "commit"
  /\ pc \in {"recheck"} \cup Preparing \cup Replacing => client[c].mode = "commit"
  /\ pc \in {"discard", "parse", "check", "recheck", "answer"} \cup Preparing \cup Unlinking => ~disk.journal
  /\ pc \in Restoring \cup Replacing \cup {"unlinkJournal"} => disk.journal

\* What a process works on is what the directory holds.
BaseOK(c) ==
  LET pc == client[c].pc  base == client[c].base IN
  /\ client[c].seen # None => client[c].seen.ini \subseteq Past
  /\ pc \in {"check", "recheck"} \cup Preparing \cup Replacing =>
       base.ini \subseteq Past /\ (edits = 0 => Whole(base))
  /\ pc \in {"check", "recheck"} \cup Preparing \cup (Replacing \ {"syncSandbox"}) =>
       base.sandbox = disk.sandbox
  /\ pc \in {"check", "recheck"} /\ client[c].seen = Read(disk) => base = Read(disk)
  /\ pc \in {"recheck"} \cup Preparing \cup Replacing => known[c] = base.sandbox \cap Clients
  /\ pc \in Preparing \cup {"syncJournal", "replaceIni"} => Kept \subseteq base.ini

\* The originals while they are made.
CopiesOK(c) ==
  LET pc == client[c].pc IN
  /\ pc \in Copied =>
       /\ disk.iniOriginal \in Copies /\ disk.iniOriginal.data \subseteq Past
       /\ Kept \subseteq disk.iniOriginal.data
       /\ edits = 0 => disk.iniOriginal.data = disk.ini
  /\ pc \in Copied \ {"copySandbox"} =>
       disk.sandboxOriginal \in Copies /\ disk.sandboxOriginal.data = disk.sandbox
  /\ pc \in {"syncOriginals", "journal"} => disk.iniOriginal.synced /\ disk.sandboxOriginal.synced

\* The files while they are replaced, or restored, and afterwards.
FilesOK(c) ==
  LET pc == client[c].pc  base == client[c].base IN
  /\ pc \in Replacing => disk.sandboxOriginal.data = base.sandbox
  /\ pc \in {"syncIni", "replaceSandbox", "syncSandbox"} /\ edits = 0 => disk.ini = base.ini \cup {c}
  /\ pc = "syncSandbox" => disk.sandbox = base.sandbox \cup {c}
  /\ pc \in Restoring \ {"restoreIni"} /\ edits = 0 => disk.ini = disk.iniOriginal.data
  /\ pc = "syncRestoredSandbox" => disk.sandbox = disk.sandboxOriginal.data
  /\ pc = "unlinkJournal" =>
       /\ edits = 0 => Whole(disk)
       /\ disk.sandboxOriginal.data \subseteq disk.sandbox
       /\ \A d \in images : d.sandbox = disk.sandbox /\ d.sandboxOriginal = disk.sandboxOriginal
  /\ pc \in {"unlinkJournal", "answer"} \cup Unlinking /\ client[c].mode = "commit" => c \in disk.sandbox
  /\ pc = "answer" /\ client[c].mode = "commit" =>
       \A d \in images : ~d.journal /\ d.sandbox = disk.sandbox

ClientOK(c) == PlaceOK(c) /\ BaseOK(c) /\ CopiesOK(c) /\ FilesOK(c)

DirectoryOK ==
  /\ edits \in 0 .. MaxEdits /\ exposed \subseteq 1 .. edits
  /\ \A d \in images : ImageOK(d)
  /\ DiskOK
  /\ EditorOK

IInv == TypeOK /\ DirectoryOK /\ \A c \in Clients : ClientOK(c)

LEMMA InitIInv == Init => IInv
<1> SUFFICES ASSUME Init PROVE IInv
  OBVIOUS
<1>1. disk = Fresh /\ images = {Fresh} /\ lock = None /\ edits = 0 /\ exposed = {} /\ reported = {}
      /\ editor = None /\ backups = {} /\ faults = 0 /\ known = [c \in Clients |-> {}]
      /\ client = [c \in Clients |->
           [pc |-> "idle", mode |-> "begin", goal |-> "read", seen |-> None, base |-> Unread]]
  BY DEF Init
<1>2. Fresh \in Directory /\ ~Fresh.journal /\ Fresh.ini = {} /\ Fresh.sandbox = {}
  BY DEF Fresh, Directory, Original, Content
<1>3. TypeOK
  <2>1. client \in [Clients -> Process]
    BY <1>1 DEF Process, Place, Unread, Contents, Content
  <2> QED
    BY <1>1, <1>2, <2>1, ConfigAssumption DEF TypeOK
<1>4. ImageOK(Fresh)
  BY <1>1, <1>2 DEF ImageOK, Committed, Read, Whole, Agreed, Past
<1>5. DirectoryOK
  BY <1>1, <1>2, <1>4, ConfigAssumption DEF DirectoryOK, DiskOK, EditorOK, Kept
<1>6. ASSUME NEW c \in Clients PROVE ClientOK(c)
  <2>1. lock # c
    BY <1>1, ConfigAssumption
  <2>2. client[c].pc = "idle" /\ client[c].mode = "begin" /\ client[c].seen = None
    BY <1>1
  <2> QED
    BY <2>1, <2>2 DEF ClientOK, PlaceOK, BaseOK, CopiesOK, FilesOK, Restoring, Copied, Replacing,
                      Unlinking, Preparing
<1> QED
  BY <1>3, <1>5, <1>6 DEF IInv

-----------------------------------------------------------------------------
(* The directory *)

\* What is true of an image stays so while updates, edits and reports stay.
LEMMA ImageKept ==
  ASSUME NEW d, ImageOK(d), UNCHANGED <<reported, edits, exposed, known>>
  PROVE  ImageOK(d)'
BY DEF ImageOK, JournalOK, Agreed, Past, Kept

LEMMA SameDirectory ==
  ASSUME DirectoryOK, UNCHANGED <<disk, images, reported, edits, exposed, known, editor>>
  PROVE  DirectoryOK'
<1>1. ASSUME NEW d \in images' PROVE ImageOK(d)'
  BY ImageKept DEF DirectoryOK
<1> QED
  BY <1>1 DEF DirectoryOK, DiskOK, EditorOK, Past, Kept

LEMMA FlushDirectory ==
  ASSUME DirectoryOK, Flush, UNCHANGED <<reported, edits, exposed, known, editor>>
  PROVE  DirectoryOK'
<1>1. disk' = disk /\ images' = {disk} /\ disk \in images
  BY DEF Flush, DirectoryOK, DiskOK
<1>2. ASSUME NEW d \in images' PROVE ImageOK(d)'
  BY <1>1, ImageKept DEF DirectoryOK
<1> QED
  BY <1>1, <1>2 DEF DirectoryOK, DiskOK, EditorOK, Past, Kept

\* A change of the directory: the new one is well formed, and has every update that an
\* image has unless a journal protects it.
LEMMA ChangeDirectory ==
  ASSUME DirectoryOK, UNCHANGED <<reported, edits, exposed, known, editor>>,
         NEW d, Change(d), ImageOK(d), Kept \subseteq d.ini,
         \/ d.journal
         \/ ~disk.journal /\ d.sandbox = disk.sandbox
         \/ \A x \in images : /\ x.sandbox \subseteq d.sandbox
                              /\ x.journal => x.sandboxOriginal.data \subseteq d.sandbox
  PROVE  DirectoryOK'
<1>1. disk' = d /\ images' = images \cup {d}
  BY DEF Change
<1>2. ASSUME NEW x \in images' PROVE ImageOK(x)'
  BY <1>1, ImageKept DEF DirectoryOK
<1>3. DiskOK'
  <2>1. disk' \in images' /\ Kept' \subseteq disk'.ini
    BY <1>1 DEF Kept
  <2>2. ASSUME ~disk'.journal, NEW x \in images'
        PROVE  /\ x.sandbox \subseteq disk'.sandbox
               /\ x.journal => x.sandboxOriginal.data \subseteq disk'.sandbox
    BY <1>1, <2>2 DEF DirectoryOK, DiskOK
  <2> QED
    BY <2>1, <2>2 DEF DiskOK
<1> QED
  BY <1>2, <1>3 DEF DirectoryOK, EditorOK, Past, Kept

-----------------------------------------------------------------------------
(* The clients *)

\* Whoever is not where it could only be with the lock does not change with the steps
\* of its holder.
LEMMA OthersKept ==
  ASSUME NEW e \in Clients, ClientOK(e), lock # e, lock' # e, client'[e] = client[e],
         edits \in Nat, edits' \in Nat, edits <= edits'
  PROVE  ClientOK(e)'
<1>1. client[e].pc \in {"idle", "lock"} /\ client[e].mode = "begin"
  BY DEF ClientOK, PlaceOK
<1>2. Past \subseteq Past'
  BY DEF Past
<1> QED
  BY <1>1, <1>2 DEF ClientOK, PlaceOK, BaseOK, CopiesOK, FilesOK, Restoring, Copied, Replacing,
                    Unlinking, Preparing

\* The holder of the lock is the only one beyond it.
LEMMA Holder ==
  ASSUME NEW c \in Clients, ClientOK(c), client[c].pc \notin {"idle", "lock"}
  PROVE  lock = c
BY DEF ClientOK, PlaceOK

LEMMA GotoFacts ==
  ASSUME TypeOK, NEW c \in Clients, NEW there \in Place, Goto(c, there)
  PROVE  /\ client' \in [Clients -> Process]
         /\ client'[c].pc = there /\ client'[c].mode = client[c].mode
         /\ client'[c].goal = client[c].goal /\ client'[c].seen = client[c].seen
         /\ client'[c].base = client[c].base
         /\ \A e \in Clients : e # c => client'[e] = client[e]
BY DEF TypeOK, Goto, Process

LEMMA ExitFacts ==
  ASSUME TypeOK, NEW c \in Clients, NEW seen \in Contents \cup {None}, Exit(c, seen)
  PROVE  /\ client' \in [Clients -> Process]
         /\ client'[c].pc = "idle" /\ client'[c].mode = "begin" /\ client'[c].seen = seen
         /\ \A e \in Clients : e # c => client'[e] = client[e]
         /\ lock' \in Clients \cup {None} /\ lock' # c
         /\ lock' = lock \/ lock' = None
<1>1. Unread \in Contents
  BY DEF Unread, Contents, Content
<1>2. client' \in [Clients -> Process]
  <2> DEFINE q == [client[c] EXCEPT !.pc = "idle", !.mode = "begin", !.seen = seen, !.base = Unread]
  <2>0. client[c] \in Process /\ "idle" \in Place
    BY DEF TypeOK, Place
  <2>1. client[c] \in Process /\ q \in Process
    BY <1>1, <2>0 DEF Process
  <2>2. client' = [client EXCEPT ![c] = q]
    BY DEF TypeOK, Exit, Process
  <2> HIDE DEF q
  <2> QED
    BY <2>1, <2>2 DEF TypeOK
<1>3. /\ client'[c].pc = "idle" /\ client'[c].mode = "begin" /\ client'[c].seen = seen
      /\ \A e \in Clients : e # c => client'[e] = client[e]
  BY DEF TypeOK, Exit, Process
<1> QED
  BY <1>2, <1>3, ConfigAssumption DEF TypeOK, Exit

\* A process that has ended keeps nothing but the revision it was told.
LEMMA EndedOK ==
  ASSUME NEW c \in Clients, client'[c].pc = "idle", client'[c].mode = "begin", lock' # c,
         client'[c].seen # None => client'[c].seen.ini \subseteq Past'
  PROVE  ClientOK(c)'
BY DEF ClientOK, PlaceOK, BaseOK, CopiesOK, FilesOK, Restoring, Copied, Replacing, Unlinking, Preparing

\* What remains to be shown of a step of the holder of the lock.
LEMMA HolderStep ==
  ASSUME IInv, NEW c \in Clients, lock = c \/ lock = None, lock' = c \/ lock' = None,
         \A e \in Clients : e # c => client'[e] = client[e],
         client' \in [Clients -> Process], DirectoryOK', ClientOK(c)',
         known' \in [Clients -> SUBSET Clients], reported' \subseteq Clients,
         backups' \subseteq [by : Clients, content : Content], UNCHANGED <<editor, edits>>,
         faults' \in 0 .. MaxFaults
  PROVE  IInv'
<1>1. disk' \in Directory /\ images' \subseteq Directory
  BY DEF DirectoryOK, ImageOK, DiskOK
<1>2. exposed' \subseteq Edits /\ lock' \in Clients \cup {None}
  BY ConfigAssumption DEF DirectoryOK, Edits
<1>3. TypeOK'
  BY <1>1, <1>2 DEF IInv, TypeOK
<1>4. ASSUME NEW e \in Clients PROVE ClientOK(e)'
  <2>1. CASE e = c
    BY <2>1
  <2>2. CASE e # c
    <3>1. lock # e /\ lock' # e
      BY <2>2, ConfigAssumption
    <3>2. edits \in Nat /\ edits' = edits
      BY DEF IInv, DirectoryOK
    <3> QED
      BY <2>2, <3>1, <3>2, OthersKept DEF IInv
  <2> QED
    BY <2>1, <2>2
<1> QED
  BY <1>3, <1>4 DEF IInv

\* Those for whom nothing changes stay as they are, whoever has the lock.
LEMMA ApartKept ==
  ASSUME NEW e \in Clients, ClientOK(e), lock' = e <=> lock = e, client'[e] = client[e],
         UNCHANGED <<disk, images, known, edits, exposed>>
  PROVE  ClientOK(e)'
BY DEF ClientOK, PlaceOK, BaseOK, CopiesOK, FilesOK, Past, Kept

\* A step of a process that touches no file, and may give up the lock.
LEMMA OwnStep ==
  ASSUME IInv, NEW c \in Clients, UnchangedDirectory, lock' = lock \/ (lock = c /\ lock' = None),
         \A e \in Clients : e # c => client'[e] = client[e],
         client' \in [Clients -> Process], ClientOK(c)',
         UNCHANGED <<known, reported, editor, edits, exposed>>,
         backups' \subseteq [by : Clients, content : Content], faults' \in 0 .. MaxFaults
  PROVE  IInv'
<1>1. DirectoryOK'
  BY SameDirectory DEF IInv, UnchangedDirectory
<1>2. TypeOK'
  BY DEF IInv, TypeOK, UnchangedDirectory
<1>3. ASSUME NEW e \in Clients, e # c PROVE ClientOK(e)'
  BY <1>3, ApartKept, ConfigAssumption DEF IInv, UnchangedDirectory
<1> QED
  BY <1>1, <1>2, <1>3 DEF IInv

\* A step that ends a process that touches no file.
LEMMA EndStep ==
  ASSUME IInv, NEW c \in Clients, UnchangedDirectory, NEW seen \in Contents \cup {None},
         Exit(c, seen), seen # None => seen.ini \subseteq Past,
         UNCHANGED <<known, reported, editor, edits, exposed>>,
         backups' \subseteq [by : Clients, content : Content], faults' \in 0 .. MaxFaults
  PROVE  IInv'
<1>1. /\ client' \in [Clients -> Process]
      /\ client'[c].pc = "idle" /\ client'[c].mode = "begin" /\ client'[c].seen = seen
      /\ \A e \in Clients : e # c => client'[e] = client[e]
      /\ lock' # c
  BY ExitFacts DEF IInv
<1>2. Past' = Past
  BY DEF Past
<1>3. ClientOK(c)'
  BY <1>1, <1>2, EndedOK
<1>4. lock' = lock \/ (lock = c /\ lock' = None)
  BY DEF Exit
<1> QED
  BY <1>1, <1>3, <1>4, OwnStep

-----------------------------------------------------------------------------
(* Requests, the lock and recovery *)

LEMMA AskStep ==
  ASSUME IInv, NEW c \in Clients, Ask(c), UnchangedOthers
  PROVE  IInv'
<1>1. client[c] \in Process /\ client[c].pc = "idle" /\ client[c].mode = "begin" /\ lock # c
  BY DEF IInv, TypeOK, Ask, At, ClientOK, PlaceOK
<1>2. PICK goal \in {"read", "update"} : client' = [client EXCEPT ![c].pc = "lock", ![c].goal = goal]
  BY DEF Ask
<1>3. /\ client'[c].pc = "lock" /\ client'[c].mode = "begin" /\ client'[c].seen = client[c].seen
      /\ \A e \in Clients : e # c => client'[e] = client[e]
  BY <1>1, <1>2 DEF IInv, TypeOK, Process
<1>4. client' \in [Clients -> Process]
  <2> DEFINE q == [client[c] EXCEPT !.pc = "lock", !.goal = goal]
  <2>1. q \in Process
    BY <1>1, <1>2 DEF Process, Place
  <2>2. client' = [client EXCEPT ![c] = q]
    BY <1>2 DEF IInv, TypeOK, Process
  <2> HIDE DEF q
  <2> QED
    BY <2>1, <2>2 DEF IInv, TypeOK
<1>5. ClientOK(c)'
  BY <1>1, <1>3 DEF IInv, Ask, UnchangedOthers, ClientOK, PlaceOK, BaseOK, CopiesOK, FilesOK, Past,
     Restoring, Copied, Replacing, Unlinking, Preparing
<1> QED
  BY <1>3, <1>4, <1>5, OwnStep DEF Ask, UnchangedOthers, IInv, TypeOK

LEMMA AcquireStep ==
  ASSUME IInv, NEW c \in Clients, Acquire(c), UnchangedOthers
  PROVE  IInv'
<1>1. "recover" \in Place
  BY DEF Place
<1>2. /\ client' \in [Clients -> Process]
      /\ client'[c].pc = "recover" /\ client'[c].mode = client[c].mode
      /\ client'[c].seen = client[c].seen
      /\ \A e \in Clients : e # c => client'[e] = client[e]
  BY <1>1, GotoFacts DEF IInv, Acquire
<1>3. DirectoryOK'
  BY SameDirectory DEF IInv, Acquire, UnchangedDirectory, UnchangedOthers
<1>4. client[c].mode = "begin"
  BY DEF IInv, Acquire, At, ClientOK, PlaceOK
<1>5. ClientOK(c)'
  BY <1>2, <1>4 DEF IInv, Acquire, UnchangedOthers, ClientOK, PlaceOK, BaseOK, CopiesOK, FilesOK, Past,
     Restoring, Copied, Replacing, Unlinking, Preparing
<1> QED
  BY <1>2, <1>3, <1>5, HolderStep DEF Acquire, UnchangedOthers, IInv, TypeOK

\* A recovery ends: with the request, or with the error of the commit.
LEMMA RecoveredOK ==
  ASSUME IInv, NEW c \in Clients, Recovered(c), lock = c, client[c].mode # "commit",
         ~disk'.journal, UNCHANGED <<edits, exposed, known>>
  PROVE  /\ client' \in [Clients -> Process]
         /\ \A e \in Clients : e # c => client'[e] = client[e]
         /\ lock' = c \/ lock' = None
         /\ ClientOK(c)'
<1>1. CASE client[c].mode = "undo"
  <2>1. Exit(c, None)
    BY <1>1 DEF Recovered
  <2>2. /\ client' \in [Clients -> Process]
        /\ client'[c].pc = "idle" /\ client'[c].mode = "begin" /\ client'[c].seen = None
        /\ \A e \in Clients : e # c => client'[e] = client[e]
        /\ lock' # c
    BY <2>1, ExitFacts DEF IInv
  <2>3. lock' = None
    BY <2>1 DEF Exit
  <2> QED
    BY <2>2, <2>3, EndedOK
<1>2. CASE client[c].mode # "undo"
  <2>1. Goto(c, "parse") /\ lock' = lock
    BY <1>2 DEF Recovered
  <2>2. "parse" \in Place /\ client[c] \in Process
    BY DEF Place, IInv, TypeOK
  <2>3. /\ client' \in [Clients -> Process]
        /\ client'[c].pc = "parse" /\ client'[c].mode = client[c].mode
        /\ client'[c].seen = client[c].seen
        /\ \A e \in Clients : e # c => client'[e] = client[e]
    BY <2>1, <2>2, GotoFacts DEF IInv
  <2>4. client[c].mode = "begin"
    BY <1>2, <2>2 DEF Process
  <2>5. ClientOK(c)'
    BY <2>1, <2>3, <2>4 DEF IInv, ClientOK, PlaceOK, BaseOK, CopiesOK, FilesOK, Past,
       Restoring, Copied, Replacing, Unlinking, Preparing
  <2> QED
    BY <2>1, <2>3, <2>5
<1> QED
  BY <1>1, <1>2

\* An image that differs in originals that no journal protects.
LEMMA OriginalsFree ==
  ASSUME NEW d, ImageOK(d), ~d.journal, NEW i \in Original, NEW s \in Original
  PROVE  ImageOK([d EXCEPT !.iniOriginal = i, !.sandboxOriginal = s])
<1> DEFINE x == [d EXCEPT !.iniOriginal = i, !.sandboxOriginal = s]
<1>1. x \in Directory /\ x.ini = d.ini /\ x.sandbox = d.sandbox /\ ~x.journal
  BY DEF ImageOK, Directory
<1>2. Committed(x) = Committed(d)
  BY <1>1 DEF Committed, Read
<1>3. ImageOK(x)
  <2> HIDE DEF x
  <2> QED
    BY <1>1, <1>2 DEF ImageOK
<1> QED
  BY <1>3

LEMMA DiscardStep ==
  ASSUME IInv, NEW c \in Clients, Discard(c), UnchangedOthers
  PROVE  IInv'
<1>1. lock = c /\ client[c].mode # "commit" /\ disk \in images /\ ImageOK(disk) /\ ~disk.journal
  BY DEF IInv, Discard, At, ClientOK, PlaceOK, DirectoryOK, DiskOK
<1>2. PICK i, s \in Original : Change([disk EXCEPT !.iniOriginal = i, !.sandboxOriginal = s])
  <2>1. disk \in Directory /\ None \in Original
    BY <1>1 DEF ImageOK, Original
  <2>2. \/ Change([disk EXCEPT !.iniOriginal = None, !.sandboxOriginal = disk.sandboxOriginal])
        \/ Change([disk EXCEPT !.iniOriginal = disk.iniOriginal, !.sandboxOriginal = None])
    BY <2>1 DEF Discard, Directory
  <2> QED
    BY <2>1, <2>2 DEF Directory
<1> DEFINE d == [disk EXCEPT !.iniOriginal = i, !.sandboxOriginal = s]
<1>3. ImageOK(d)
  BY <1>1, <1>2, OriginalsFree
<1>4. d.ini = disk.ini /\ d.sandbox = disk.sandbox /\ ~d.journal
  BY <1>1 DEF ImageOK, Directory
<1>5. disk' = d /\ Kept \subseteq disk.ini
  BY <1>2 DEF Change, IInv, DirectoryOK, DiskOK
<1>6. DirectoryOK'
  BY <1>1, <1>2, <1>3, <1>4, <1>5, ChangeDirectory DEF IInv, Discard, UnchangedOthers
<1> HIDE DEF d
<1>7. CASE At(c, "recover") /\ Goto(c, "discard") /\ lock' = lock
  <2>1. "discard" \in Place
    BY DEF Place
  <2>2. /\ client' \in [Clients -> Process]
        /\ client'[c].pc = "discard" /\ client'[c].mode = client[c].mode
        /\ client'[c].seen = client[c].seen
        /\ \A e \in Clients : e # c => client'[e] = client[e]
    BY <1>7, <2>1, GotoFacts DEF IInv
  <2>3. ClientOK(c)'
    BY <1>1, <1>4, <1>5, <1>7, <2>2 DEF IInv, UnchangedOthers, ClientOK, PlaceOK, BaseOK, CopiesOK,
       FilesOK, Past, Restoring, Copied, Replacing, Unlinking, Preparing
  <2> QED
    BY <1>1, <1>6, <1>7, <2>2, <2>3, HolderStep DEF Discard, UnchangedOthers, IInv, TypeOK
<1>8. CASE Recovered(c)
  <2>1. /\ client' \in [Clients -> Process]
        /\ \A e \in Clients : e # c => client'[e] = client[e]
        /\ lock' = c \/ lock' = None
        /\ ClientOK(c)'
    BY <1>1, <1>4, <1>5, <1>8, RecoveredOK DEF Discard, UnchangedOthers
  <2> QED
    BY <1>1, <1>6, <2>1, HolderStep DEF Discard, UnchangedOthers, IInv, TypeOK
<1> QED
  BY <1>7, <1>8 DEF Discard

LEMMA RecoverStep ==
  ASSUME IInv, NEW c \in Clients, Recover(c), UnchangedOthers
  PROVE  IInv'
<1>1. lock = c /\ client[c].mode # "commit" /\ disk.journal
  BY DEF IInv, Recover, At, ClientOK, PlaceOK
<1>2. CASE Exit(c, None)
  BY <1>2, EndStep DEF Recover, UnchangedOthers, IInv, TypeOK
<1>3. CASE Goto(c, "restoreIni") /\ lock' = lock
  <2>1. "restoreIni" \in Place
    BY DEF Place
  <2>2. /\ client' \in [Clients -> Process]
        /\ client'[c].pc = "restoreIni" /\ client'[c].mode = client[c].mode
        /\ client'[c].seen = client[c].seen
        /\ \A e \in Clients : e # c => client'[e] = client[e]
    BY <1>3, <2>1, GotoFacts DEF IInv
  <2>3. ClientOK(c)'
    BY <1>1, <1>3, <2>2 DEF IInv, Recover, UnchangedDirectory, UnchangedOthers, ClientOK, PlaceOK,
       BaseOK, CopiesOK, FilesOK, Past, Restoring, Copied, Replacing, Unlinking, Preparing
  <2> QED
    BY <1>3, <2>2, <2>3, OwnStep DEF Recover, UnchangedOthers, IInv, TypeOK
<1> QED
  BY <1>2, <1>3 DEF Recover

\* A copy of an original in place of a file, under the journal that protects it.
LEMMA RestoreStep ==
  ASSUME IInv, NEW c \in Clients, Restore(c), UnchangedOthers
  PROVE  IInv'
<1>1. /\ lock = c /\ client[c].mode # "commit" /\ disk \in images /\ ImageOK(disk) /\ disk.journal
      /\ JournalOK(disk) /\ Kept \subseteq disk.ini
  BY DEF IInv, Restore, At, ClientOK, PlaceOK, DirectoryOK, DiskOK, ImageOK, Restoring
<1>2. disk \in Directory /\ disk.iniOriginal \in Safe /\ disk.sandboxOriginal \in Safe
  BY <1>1 DEF ImageOK, JournalOK
<1>3. CASE /\ At(c, "restoreIni") /\ Change([disk EXCEPT !.ini = disk.iniOriginal.data])
           /\ Goto(c, "syncRestoredIni")
  <2> DEFINE d == [disk EXCEPT !.ini = disk.iniOriginal.data]
  <2>1. /\ d \in Directory /\ d.ini = disk.iniOriginal.data /\ d.sandbox = disk.sandbox /\ d.journal
        /\ d.iniOriginal = disk.iniOriginal /\ d.sandboxOriginal = disk.sandboxOriginal
    BY <1>1, <1>2 DEF Directory, Safe
  <2> HIDE DEF d
  <2>2. Committed(d) = Committed(disk)
    BY <1>1, <2>1 DEF Committed
  <2>3. ImageOK(d) /\ Kept \subseteq d.ini
    BY <1>1, <2>1, <2>2 DEF ImageOK, JournalOK
  <2>4. disk' = d /\ Change(d)
    BY <1>3 DEF Change, d
  <2>5. DirectoryOK'
    BY <1>1, <2>1, <2>3, <2>4, ChangeDirectory DEF IInv, Restore, UnchangedOthers
  <2>6. "syncRestoredIni" \in Place
    BY DEF Place, AfterSync
  <2>7. /\ client' \in [Clients -> Process]
        /\ client'[c].pc = "syncRestoredIni" /\ client'[c].mode = client[c].mode
        /\ client'[c].seen = client[c].seen
        /\ \A e \in Clients : e # c => client'[e] = client[e]
    BY <1>3, <2>6, GotoFacts DEF IInv
  <2>8. ClientOK(c)'
    BY <1>1, <2>1, <2>4, <2>7 DEF IInv, Restore, UnchangedOthers, ClientOK, PlaceOK,
       BaseOK, CopiesOK, FilesOK, Past, Restoring, Copied, Replacing, Unlinking, Preparing
  <2> QED
    BY <1>1, <2>5, <2>7, <2>8, HolderStep DEF Restore, UnchangedOthers, IInv, TypeOK
<1>4. CASE /\ At(c, "restoreSandbox") /\ Change([disk EXCEPT !.sandbox = disk.sandboxOriginal.data])
           /\ Goto(c, "syncRestoredSandbox")
  <2> DEFINE d == [disk EXCEPT !.sandbox = disk.sandboxOriginal.data]
  <2>1. /\ d \in Directory /\ d.ini = disk.ini /\ d.sandbox = disk.sandboxOriginal.data /\ d.journal
        /\ d.iniOriginal = disk.iniOriginal /\ d.sandboxOriginal = disk.sandboxOriginal
    BY <1>1, <1>2 DEF Directory, Safe
  <2> HIDE DEF d
  <2>2. Committed(d) = Committed(disk)
    BY <1>1, <2>1 DEF Committed
  <2>3. ImageOK(d) /\ Kept \subseteq d.ini
    BY <1>1, <2>1, <2>2 DEF ImageOK, JournalOK
  <2>4. disk' = d /\ Change(d)
    BY <1>4 DEF Change, d
  <2>5. DirectoryOK'
    BY <1>1, <2>1, <2>3, <2>4, ChangeDirectory DEF IInv, Restore, UnchangedOthers
  <2>6. "syncRestoredSandbox" \in Place
    BY DEF Place, AfterSync
  <2>7. /\ client' \in [Clients -> Process]
        /\ client'[c].pc = "syncRestoredSandbox" /\ client'[c].mode = client[c].mode
        /\ client'[c].seen = client[c].seen
        /\ \A e \in Clients : e # c => client'[e] = client[e]
    BY <1>4, <2>6, GotoFacts DEF IInv
  <2>8. edits = 0 => disk.ini = disk.iniOriginal.data
    BY <1>4 DEF IInv, At, ClientOK, FilesOK, Restoring
  <2>9. ClientOK(c)'
    BY <1>1, <2>1, <2>4, <2>7, <2>8 DEF IInv, Restore, UnchangedOthers, ClientOK, PlaceOK,
       BaseOK, CopiesOK, FilesOK, Past, Restoring, Copied, Replacing, Unlinking, Preparing
  <2> QED
    BY <1>1, <2>5, <2>7, <2>9, HolderStep DEF Restore, UnchangedOthers, IInv, TypeOK
<1> QED
  BY <1>3, <1>4 DEF Restore

\* The journal goes: every image has the same updates as the files by then.
LEMMA UnlinkJournalStep ==
  ASSUME IInv, NEW c \in Clients, At(c, "unlinkJournal"), Change([disk EXCEPT !.journal = FALSE]),
         Goto(c, "unlinkIni"), UNCHANGED <<lock, known, reported, backups>>, UnchangedOthers
  PROVE  IInv'
<1>1. /\ lock = c /\ disk \in images /\ ImageOK(disk) /\ disk.journal /\ Kept \subseteq disk.ini
      /\ JournalOK(disk) /\ disk \in Directory
      /\ \A d \in images : ImageOK(d)
  BY DEF IInv, At, ClientOK, PlaceOK, DirectoryOK, DiskOK, ImageOK
<1>2. /\ edits = 0 => Whole(disk)
      /\ disk.sandboxOriginal.data \subseteq disk.sandbox
      /\ \A d \in images : d.sandbox = disk.sandbox /\ d.sandboxOriginal = disk.sandboxOriginal
      /\ client[c].mode = "commit" => c \in disk.sandbox
  BY DEF IInv, At, ClientOK, FilesOK
<1>3. reported \subseteq disk.sandbox
  BY <1>1, <1>2 DEF ImageOK, Committed
<1> DEFINE d == [disk EXCEPT !.journal = FALSE]
<1>4. /\ d \in Directory /\ d.ini = disk.ini /\ d.sandbox = disk.sandbox /\ ~d.journal
      /\ Committed(d) = [ini |-> disk.ini, sandbox |-> disk.sandbox]
  BY <1>1 DEF Directory, Committed, Read
<1>5. disk' = d /\ Change(d)
  BY DEF Change
<1> HIDE DEF d
<1>6. ImageOK(d)
  BY <1>1, <1>2, <1>3, <1>4 DEF ImageOK, Whole
<1>7. DirectoryOK'
  BY <1>1, <1>2, <1>4, <1>5, <1>6, ChangeDirectory DEF IInv, UnchangedOthers
<1>8. "unlinkIni" \in Place
  BY DEF Place
<1>9. /\ client' \in [Clients -> Process]
      /\ client'[c].pc = "unlinkIni" /\ client'[c].mode = client[c].mode
      /\ client'[c].seen = client[c].seen
      /\ \A e \in Clients : e # c => client'[e] = client[e]
  BY <1>8, GotoFacts DEF IInv
<1>10. ClientOK(c)'
  BY <1>1, <1>2, <1>4, <1>5, <1>9 DEF IInv, UnchangedOthers, ClientOK, PlaceOK, BaseOK, CopiesOK,
     FilesOK, Past, Restoring, Copied, Replacing, Unlinking, Preparing
<1> QED
  BY <1>1, <1>7, <1>9, <1>10, HolderStep DEF UnchangedOthers, IInv, TypeOK

\* Then the originals.
LEMMA UnlinkOriginalStep ==
  ASSUME IInv, NEW c \in Clients, NEW there \in {"unlinkSandbox", "syncUnlinked"},
         \/ /\ At(c, "unlinkIni") /\ Change([disk EXCEPT !.iniOriginal = None])
            /\ there = "unlinkSandbox"
         \/ /\ At(c, "unlinkSandbox") /\ Change([disk EXCEPT !.sandboxOriginal = None])
            /\ there = "syncUnlinked",
         Goto(c, there), UNCHANGED <<lock, known, reported, backups>>, UnchangedOthers
  PROVE  IInv'
<1>1. /\ lock = c /\ disk \in images /\ ImageOK(disk) /\ ~disk.journal /\ Kept \subseteq disk.ini
      /\ client[c].mode = "commit" => c \in disk.sandbox
  BY DEF IInv, At, ClientOK, PlaceOK, FilesOK, DirectoryOK, DiskOK, Unlinking
<1>2. PICK i, s \in Original : Change([disk EXCEPT !.iniOriginal = i, !.sandboxOriginal = s])
  <2>1. disk \in Directory /\ None \in Original
    BY <1>1 DEF ImageOK, Original
  <2>2. \/ Change([disk EXCEPT !.iniOriginal = None, !.sandboxOriginal = disk.sandboxOriginal])
        \/ Change([disk EXCEPT !.iniOriginal = disk.iniOriginal, !.sandboxOriginal = None])
    BY <2>1 DEF Directory
  <2> QED
    BY <2>1, <2>2 DEF Directory
<1> DEFINE d == [disk EXCEPT !.iniOriginal = i, !.sandboxOriginal = s]
<1>3. ImageOK(d)
  BY <1>1, <1>2, OriginalsFree
<1>4. d.ini = disk.ini /\ d.sandbox = disk.sandbox /\ ~d.journal
  BY <1>1 DEF ImageOK, Directory
<1>5. disk' = d
  BY <1>2 DEF Change
<1>6. DirectoryOK'
  BY <1>1, <1>2, <1>3, <1>4, ChangeDirectory DEF IInv, UnchangedOthers
<1> HIDE DEF d
<1>7. there \in Place
  BY DEF Place
<1>8. /\ client' \in [Clients -> Process]
      /\ client'[c].pc = there /\ client'[c].mode = client[c].mode
      /\ client'[c].seen = client[c].seen
      /\ \A e \in Clients : e # c => client'[e] = client[e]
  BY <1>7, GotoFacts DEF IInv
<1>9. ClientOK(c)'
  BY <1>1, <1>4, <1>5, <1>8 DEF IInv, UnchangedOthers, ClientOK, PlaceOK, BaseOK, CopiesOK,
     FilesOK, Past, Restoring, Copied, Replacing, Unlinking, Preparing
<1> QED
  BY <1>1, <1>6, <1>8, <1>9, HolderStep DEF UnchangedOthers, IInv, TypeOK

LEMMA UnlinkStep ==
  ASSUME IInv, NEW c \in Clients, Unlink(c), UnchangedOthers
  PROVE  IInv'
BY UnlinkJournalStep, UnlinkOriginalStep DEF Unlink

LEMMA SyncUnlinkedStep ==
  ASSUME IInv, NEW c \in Clients, SyncUnlinked(c), UnchangedOthers
  PROVE  IInv'
<1>1. lock = c /\ ~disk.journal /\ (client[c].mode = "commit" => c \in disk.sandbox)
  BY DEF IInv, SyncUnlinked, At, ClientOK, PlaceOK, FilesOK, Unlinking
<1>2. DirectoryOK'
  BY FlushDirectory DEF IInv, SyncUnlinked, UnchangedOthers
<1>3. disk' = disk /\ images' = {disk}
  BY DEF SyncUnlinked, Flush
<1>4. CASE client[c].mode = "commit"
  <2>1. "answer" \in Place /\ Goto(c, "answer") /\ lock' = lock
    BY <1>4 DEF Place, SyncUnlinked
  <2>2. /\ client' \in [Clients -> Process]
        /\ client'[c].pc = "answer" /\ client'[c].mode = client[c].mode
        /\ client'[c].seen = client[c].seen
        /\ \A e \in Clients : e # c => client'[e] = client[e]
    BY <2>1, GotoFacts DEF IInv
  <2>3. ClientOK(c)'
    BY <1>1, <1>3, <2>1, <2>2 DEF IInv, UnchangedOthers, ClientOK, PlaceOK, BaseOK, CopiesOK,
       FilesOK, Past, Restoring, Copied, Replacing, Unlinking, Preparing
  <2> QED
    BY <1>1, <1>2, <2>1, <2>2, <2>3, HolderStep DEF SyncUnlinked, UnchangedOthers, IInv, TypeOK
<1>5. CASE client[c].mode # "commit"
  <2>1. /\ client' \in [Clients -> Process]
        /\ \A e \in Clients : e # c => client'[e] = client[e]
        /\ lock' = c \/ lock' = None
        /\ ClientOK(c)'
    BY <1>1, <1>3, <1>5, RecoveredOK DEF SyncUnlinked, UnchangedOthers
  <2> QED
    BY <1>1, <1>2, <2>1, HolderStep DEF SyncUnlinked, UnchangedOthers, IInv, TypeOK
<1> QED
  BY <1>4, <1>5

\* An fsync_directory: one image is left.
LEMMA FsyncStep ==
  ASSUME IInv, NEW c \in Clients, Fsync(c), UnchangedOthers
  PROVE  IInv'
<1> DEFINE here == client[c].pc
           there == AfterSync[here]
<1>1. \/ here = "syncRestoredIni" /\ there = "restoreSandbox"
      \/ here = "syncRestoredSandbox" /\ there = "unlinkJournal"
      \/ here = "syncOriginals" /\ there = "journal"
      \/ here = "syncJournal" /\ there = "replaceIni"
      \/ here = "syncIni" /\ there = "replaceSandbox"
      \/ here = "syncSandbox" /\ there = "unlinkJournal"
  BY DEF Fsync, AfterSync
<1>2. lock = c
  BY <1>1, Holder DEF IInv
<1>3. disk' = disk /\ images' = {disk} /\ disk \in images /\ ImageOK(disk)
  BY DEF Fsync, Flush, IInv, DirectoryOK, DiskOK
<1>4. DirectoryOK'
  BY FlushDirectory DEF IInv, Fsync, UnchangedOthers
<1>5. there \in Place /\ Goto(c, there)
  BY <1>1 DEF Place, Fsync
<1> HIDE DEF there
<1>6. /\ client' \in [Clients -> Process]
      /\ client'[c].pc = there /\ client'[c].mode = client[c].mode
      /\ client'[c].seen = client[c].seen /\ client'[c].base = client[c].base
      /\ \A e \in Clients : e # c => client'[e] = client[e]
  BY <1>5, GotoFacts DEF IInv
<1> USE DEF Restoring, Copied, Replacing, Unlinking, Preparing
<1>7. ClientOK(c)
  BY DEF IInv
<1>8. UNCHANGED <<lock, known, edits, exposed>>
  BY DEF Fsync, UnchangedOthers
<1>9. PlaceOK(c)'
  BY <1>1, <1>2, <1>3, <1>6, <1>7, <1>8 DEF ClientOK, PlaceOK
<1>10. BaseOK(c)'
  BY <1>1, <1>3, <1>6, <1>7, <1>8 DEF ClientOK, BaseOK, Past, Kept
<1>11. CopiesOK(c)'
  BY <1>1, <1>3, <1>6, <1>7, <1>8 DEF ClientOK, CopiesOK, Past, Kept
<1>12. FilesOK(c)'
  <2>1. CASE here = "syncSandbox"
    <3>1. /\ disk.journal /\ client[c].mode = "commit" /\ disk.sandbox = client[c].base.sandbox \cup {c}
          /\ disk.sandboxOriginal.data = client[c].base.sandbox
          /\ edits = 0 => disk.ini = client[c].base.ini \cup {c} /\ Whole(client[c].base)
      BY <1>7, <2>1 DEF ClientOK, PlaceOK, BaseOK, FilesOK
    <3>2. edits = 0 => Whole(disk)
      BY <3>1 DEF Whole
    <3> QED
      BY <1>1, <1>3, <1>6, <1>8, <2>1, <3>1, <3>2 DEF FilesOK, Whole
  <2>2. CASE here = "syncRestoredSandbox"
    <3>1. /\ disk.journal /\ disk.sandbox = disk.sandboxOriginal.data /\ client[c].mode # "commit"
          /\ edits = 0 => disk.ini = disk.iniOriginal.data
      BY <1>7, <2>2 DEF ClientOK, PlaceOK, FilesOK
    <3>2. edits = 0 => Whole(disk)
      BY <1>3, <3>1 DEF ImageOK, Committed, Whole
    <3> QED
      BY <1>1, <1>3, <1>6, <1>8, <2>2, <3>1, <3>2 DEF FilesOK, Whole
  <2>3. CASE here \notin {"syncSandbox", "syncRestoredSandbox"}
    BY <1>1, <1>3, <1>6, <1>7, <1>8, <2>3 DEF ClientOK, FilesOK
  <2> QED
    BY <2>1, <2>2, <2>3
<1>13. ClientOK(c)'
  BY <1>9, <1>10, <1>11, <1>12 DEF ClientOK
<1> QED
  BY <1>2, <1>4, <1>6, <1>8, <1>13, HolderStep DEF Fsync, UnchangedOthers, IInv, TypeOK

-----------------------------------------------------------------------------
(* Reading and comparing *)

LEMMA ReadFacts ==
  ASSUME IInv
  PROVE  /\ Read(disk) \in Contents /\ Read(disk).ini \subseteq Past
         /\ Read(disk).ini = disk.ini /\ Read(disk).sandbox = disk.sandbox
         /\ disk \in images /\ ImageOK(disk) /\ Kept \subseteq disk.ini
BY DEF IInv, DirectoryOK, DiskOK, ImageOK, Directory, Read, Contents

LEMMA ParseStep ==
  ASSUME IInv, NEW c \in Clients, Parse(c), UnchangedOthers
  PROVE  IInv'
<1>1. /\ lock = c /\ client[c].mode = "begin" /\ ~disk.journal /\ client[c] \in Process
      /\ client[c].seen # None => client[c].seen.ini \subseteq Past
  BY DEF IInv, TypeOK, Parse, At, ClientOK, PlaceOK, BaseOK
<1>2. /\ client'[c].pc = "check" /\ client'[c].mode = "begin" /\ client'[c].base = Read(disk)
      /\ client'[c].seen = client[c].seen
      /\ \A e \in Clients : e # c => client'[e] = client[e]
  BY <1>1 DEF IInv, TypeOK, Parse, Process
<1>3. client' \in [Clients -> Process]
  <2> DEFINE q == [client[c] EXCEPT !.pc = "check", !.base = Read(disk)]
  <2>1. q \in Process
    BY <1>1, ReadFacts DEF Process, Place
  <2>2. client' = [client EXCEPT ![c] = q]
    BY DEF IInv, TypeOK, Parse, Process
  <2> HIDE DEF q
  <2> QED
    BY <2>1, <2>2 DEF IInv, TypeOK
<1>4. edits = 0 => Whole(Read(disk))
  BY <1>1, ReadFacts DEF ImageOK, Committed
<1>5. UNCHANGED <<disk, images, lock, known, edits, exposed>>
  BY DEF Parse, UnchangedDirectory, UnchangedOthers
<1>6. ClientOK(c)'
  BY <1>1, <1>2, <1>4, <1>5, ReadFacts DEF ClientOK, PlaceOK, BaseOK, CopiesOK, FilesOK, Past, Read,
     Whole, Restoring, Copied, Replacing, Unlinking, Preparing
<1> QED
  BY <1>2, <1>3, <1>6, OwnStep DEF Parse, UnchangedOthers, IInv, TypeOK

LEMMA ReviseStep ==
  ASSUME IInv, NEW c \in Clients, Revise(c) \/ Stale(c), UnchangedOthers
  PROVE  IInv'
<1>1. PICK seen \in {None, Read(disk)} : Exit(c, seen)
  BY DEF Revise, Stale
<1>2. seen \in Contents \cup {None} /\ (seen # None => seen.ini \subseteq Past)
  BY ReadFacts
<1>3. UnchangedDirectory /\ UNCHANGED <<known, reported, editor, edits, exposed, backups, faults>>
  BY DEF Revise, Stale, UnchangedOthers
<1> QED
  BY <1>1, <1>2, <1>3, EndStep DEF IInv, TypeOK

LEMMA RecheckStep ==
  ASSUME IInv, NEW c \in Clients, Recheck(c), UnchangedOthers
  PROVE  IInv'
<1>1. /\ lock = c /\ client[c].mode = "commit" /\ ~disk.journal
      /\ ClientOK(c) /\ client[c].base = Read(disk)
  BY DEF IInv, Recheck, At, ClientOK, PlaceOK, BaseOK
<1>2. "backup" \in Place
  BY DEF Place
<1>3. /\ client' \in [Clients -> Process]
      /\ client'[c].pc = "backup" /\ client'[c].mode = client[c].mode
      /\ client'[c].seen = client[c].seen /\ client'[c].base = client[c].base
      /\ \A e \in Clients : e # c => client'[e] = client[e]
  BY <1>2, GotoFacts DEF IInv, Recheck
<1>4. UNCHANGED <<disk, images, lock, known, edits, exposed>>
  BY DEF Recheck, UnchangedDirectory, UnchangedOthers
<1> USE DEF Restoring, Copied, Replacing, Unlinking, Preparing
<1>5. BaseOK(c)'
  BY <1>1, <1>3, <1>4, ReadFacts DEF Recheck, At, ClientOK, BaseOK, Past, Kept
<1>6. ClientOK(c)'
  BY <1>1, <1>3, <1>4, <1>5 DEF ClientOK, PlaceOK, CopiesOK, FilesOK
<1> QED
  BY <1>3, <1>6, OwnStep DEF Recheck, UnchangedOthers, IInv, TypeOK

\* A client that has seen every update there is may learn of them.
LEMMA AgreedGrows ==
  ASSUME TypeOK, NEW c \in Clients, NEW content, Agreed(content), NEW all, content \subseteq all,
         known' = [known EXCEPT ![c] = all \cap Clients]
  PROVE  Agreed(content)'
BY DEF TypeOK, Agreed

LEMMA CheckStep ==
  ASSUME IInv, NEW c \in Clients, Check(c), UnchangedOthers
  PROVE  IInv'
<1>1. /\ lock = c /\ client[c].mode = "begin" /\ ~disk.journal /\ client[c] \in Process
      /\ client[c].seen = Read(disk) /\ client[c].base = Read(disk) /\ ClientOK(c)
  BY DEF IInv, TypeOK, Check, At, ClientOK, PlaceOK, BaseOK
<1>2. /\ UNCHANGED <<disk, images, lock, edits, exposed, reported, editor, backups, faults>>
      /\ At(c, "check")
  BY DEF Check, UnchangedDirectory, UnchangedOthers
<1> USE DEF Restoring, Copied, Replacing, Unlinking, Preparing
<1>3. CASE Goto(c, "answer") /\ UNCHANGED known
  <2>1. "answer" \in Place
    BY DEF Place
  <2>2. /\ client' \in [Clients -> Process]
        /\ client'[c].pc = "answer" /\ client'[c].mode = client[c].mode
        /\ client'[c].seen = client[c].seen
        /\ \A e \in Clients : e # c => client'[e] = client[e]
    BY <1>3, <2>1, GotoFacts DEF IInv
  <2>3. ClientOK(c)'
    BY <1>1, <1>2, <1>3, <2>2 DEF ClientOK, PlaceOK, BaseOK, CopiesOK, FilesOK, Past
  <2> QED
    BY <1>2, <1>3, <2>2, <2>3, OwnStep DEF IInv, TypeOK, UnchangedDirectory
<1>4. CASE /\ client' = [client EXCEPT ![c].pc = "recheck", ![c].mode = "commit"]
           /\ known' = [known EXCEPT ![c] = client[c].seen.sandbox \cap Clients]
  <2>1. /\ client'[c].pc = "recheck" /\ client'[c].mode = "commit"
        /\ client'[c].seen = client[c].seen /\ client'[c].base = client[c].base
        /\ \A e \in Clients : e # c => client'[e] = client[e]
    BY <1>1, <1>4 DEF IInv, TypeOK, Process
  <2>2. client' \in [Clients -> Process]
    <3> DEFINE q == [client[c] EXCEPT !.pc = "recheck", !.mode = "commit"]
    <3>1. q \in Process
      BY <1>1 DEF Process, Place
    <3>2. client' = [client EXCEPT ![c] = q]
      BY <1>4 DEF IInv, TypeOK, Process
    <3> HIDE DEF q
    <3> QED
      BY <3>1, <3>2 DEF IInv, TypeOK
  <2>3. client[c].seen.sandbox = disk.sandbox
    BY <1>1, ReadFacts
  <2>4. /\ known' \in [Clients -> SUBSET Clients] /\ known'[c] = disk.sandbox \cap Clients
        /\ known' = [known EXCEPT ![c] = disk.sandbox \cap Clients]
    BY <1>4, <2>3 DEF IInv, TypeOK
  <2>5. ASSUME NEW d \in images PROVE ImageOK(d)'
    <3>1. ImageOK(d) /\ d.sandbox \subseteq disk.sandbox
          /\ (d.journal => d.sandboxOriginal.data \subseteq disk.sandbox)
      BY <1>1 DEF IInv, DirectoryOK, DiskOK
    <3>2. Agreed(d.sandbox)'
      BY <2>4, <3>1, AgreedGrows DEF IInv, ImageOK
    <3>3. d.journal => Agreed(d.sandboxOriginal.data)'
      BY <2>4, <3>1, AgreedGrows DEF IInv, ImageOK, JournalOK
    <3> QED
      BY <1>2, <3>1, <3>2, <3>3 DEF ImageOK, JournalOK, Past, Kept
  <2>6. DirectoryOK'
    BY <1>2, <2>5 DEF IInv, DirectoryOK, DiskOK, EditorOK, Past, Kept
  <2>7. ClientOK(c)'
    BY <1>1, <1>2, <2>1, <2>4, ReadFacts DEF At, ClientOK, PlaceOK, BaseOK, CopiesOK, FilesOK, Past
  <2> QED
    BY <1>1, <1>2, <2>1, <2>2, <2>4, <2>6, <2>7, HolderStep DEF IInv, TypeOK
<1> QED
  BY <1>3, <1>4 DEF Check

-----------------------------------------------------------------------------
(* The commit *)

LEMMA BackupStep ==
  ASSUME IInv, NEW c \in Clients, Backup(c), UnchangedOthers
  PROVE  IInv'
<1>1. /\ lock = c /\ client[c].mode = "commit" /\ ~disk.journal /\ ClientOK(c)
  BY DEF IInv, Backup, At, ClientOK, PlaceOK, Preparing
<1>2. "copyIni" \in Place
  BY DEF Place
<1>3. /\ client' \in [Clients -> Process]
      /\ client'[c].pc = "copyIni" /\ client'[c].mode = client[c].mode
      /\ client'[c].seen = client[c].seen /\ client'[c].base = client[c].base
      /\ \A e \in Clients : e # c => client'[e] = client[e]
  BY <1>2, GotoFacts DEF IInv, Backup
<1>4. UNCHANGED <<disk, images, lock, known, edits, exposed, reported, editor, faults>>
  BY DEF Backup, UnchangedDirectory, UnchangedOthers
<1>5. ClientOK(c)'
  BY <1>1, <1>3, <1>4 DEF Backup, At, ClientOK, PlaceOK, BaseOK, CopiesOK, FilesOK, Past, Kept,
     Restoring, Copied, Replacing, Unlinking, Preparing
<1>6. backups' \subseteq [by : Clients, content : Content]
  <2>1. disk.ini \in Content
    BY DEF IInv, TypeOK, Directory
  <2>2. backups' \subseteq backups \cup {[by |-> c, content |-> disk.ini]}
    BY DEF Backup
  <2> QED
    BY <2>1, <2>2 DEF IInv, TypeOK
<1> QED
  BY <1>3, <1>4, <1>5, <1>6, OwnStep DEF IInv, TypeOK, UnchangedDirectory

LEMMA CopyFacts ==
  ASSUME NEW content \in Content
  PROVE  /\ Copy(content) \in Copies /\ Copy(content) \in Original
         /\ Copy(content).data = content
BY DEF Copy, Copies, Original

LEMMA CopyStep ==
  ASSUME IInv, NEW c \in Clients, CopyOriginals(c), UnchangedOthers
  PROVE  IInv'
<1>1. /\ lock = c /\ client[c].mode = "commit" /\ ~disk.journal /\ ClientOK(c)
  BY DEF IInv, CopyOriginals, At, ClientOK, PlaceOK, Preparing, Copied
<1>2. disk \in Directory /\ disk \in images /\ ImageOK(disk) /\ Kept \subseteq disk.ini
  BY DEF IInv, DirectoryOK, DiskOK, ImageOK
<1>3. disk.ini \in Content /\ disk.sandbox \in Content
  BY <1>2 DEF Directory
<1>4. UNCHANGED <<lock, known, edits, exposed, reported, editor, backups, faults>>
  BY DEF CopyOriginals, UnchangedOthers
<1> USE DEF Restoring, Copied, Replacing, Unlinking, Preparing
<1>5. CASE /\ At(c, "copyIni") /\ Goto(c, "copySandbox")
           /\ Change([disk EXCEPT !.iniOriginal = Copy(disk.ini)])
  <2> DEFINE d == [disk EXCEPT !.iniOriginal = Copy(disk.ini)]
  <2>1. /\ d.ini = disk.ini /\ d.sandbox = disk.sandbox /\ ~d.journal
        /\ d.iniOriginal \in Copies /\ d.iniOriginal.data = disk.ini
        /\ d = [disk EXCEPT !.iniOriginal = Copy(disk.ini), !.sandboxOriginal = disk.sandboxOriginal]
    BY <1>1, <1>2, <1>3, CopyFacts DEF Directory
  <2>2. ImageOK(d)
    <3>1. Copy(disk.ini) \in Original /\ disk.sandboxOriginal \in Original
      BY <1>2, <1>3, CopyFacts DEF Directory
    <3>2. ImageOK([disk EXCEPT !.iniOriginal = Copy(disk.ini),
                           !.sandboxOriginal = disk.sandboxOriginal])
      BY <1>1, <1>2, <3>1, OriginalsFree
    <3> QED
      BY <2>1, <3>2
  <2>3. disk' = d
    BY <1>5 DEF Change
  <2>4. DirectoryOK'
    BY <1>1, <1>2, <1>4, <1>5, <2>1, <2>2, ChangeDirectory DEF IInv
  <2> HIDE DEF d
  <2>5. "copySandbox" \in Place
    BY DEF Place
  <2>6. /\ client' \in [Clients -> Process]
        /\ client'[c].pc = "copySandbox" /\ client'[c].mode = client[c].mode
        /\ client'[c].seen = client[c].seen /\ client'[c].base = client[c].base
        /\ \A e \in Clients : e # c => client'[e] = client[e]
    BY <1>5, <2>5, GotoFacts DEF IInv
  <2>7. BaseOK(c)'
    BY <1>1, <1>4, <1>5, <2>1, <2>3, <2>6 DEF At, ClientOK, BaseOK, Past, Kept
  <2>8. CopiesOK(c)'
    BY <1>2, <1>4, <2>1, <2>3, <2>6 DEF CopiesOK, ImageOK, Past, Kept
  <2>9. ClientOK(c)'
    BY <1>1, <1>4, <2>1, <2>3, <2>6, <2>7, <2>8 DEF ClientOK, PlaceOK, FilesOK
  <2> QED
    BY <1>1, <1>4, <2>4, <2>6, <2>9, HolderStep DEF IInv, TypeOK
<1>6. CASE /\ At(c, "copySandbox") /\ Goto(c, "syncCopies")
           /\ Change([disk EXCEPT !.sandboxOriginal = Copy(disk.sandbox)])
  <2> DEFINE d == [disk EXCEPT !.sandboxOriginal = Copy(disk.sandbox)]
  <2>1. /\ d.ini = disk.ini /\ d.sandbox = disk.sandbox /\ ~d.journal
        /\ d.iniOriginal = disk.iniOriginal
        /\ d.sandboxOriginal \in Copies /\ d.sandboxOriginal.data = disk.sandbox
        /\ d = [disk EXCEPT !.iniOriginal = disk.iniOriginal, !.sandboxOriginal = Copy(disk.sandbox)]
    BY <1>1, <1>2, <1>3, CopyFacts DEF Directory
  <2>2. ImageOK(d)
    <3>1. disk.iniOriginal \in Original /\ Copy(disk.sandbox) \in Original
      BY <1>2, <1>3, CopyFacts DEF Directory
    <3>2. ImageOK([disk EXCEPT !.iniOriginal = disk.iniOriginal,
                           !.sandboxOriginal = Copy(disk.sandbox)])
      BY <1>1, <1>2, <3>1, OriginalsFree
    <3> QED
      BY <2>1, <3>2
  <2>3. disk' = d
    BY <1>6 DEF Change
  <2>4. DirectoryOK'
    BY <1>1, <1>2, <1>4, <1>6, <2>1, <2>2, ChangeDirectory DEF IInv
  <2> HIDE DEF d
  <2>5. "syncCopies" \in Place
    BY DEF Place
  <2>6. /\ client' \in [Clients -> Process]
        /\ client'[c].pc = "syncCopies" /\ client'[c].mode = client[c].mode
        /\ client'[c].seen = client[c].seen /\ client'[c].base = client[c].base
        /\ \A e \in Clients : e # c => client'[e] = client[e]
    BY <1>6, <2>5, GotoFacts DEF IInv
  <2>7. BaseOK(c)'
    BY <1>1, <1>4, <1>6, <2>1, <2>3, <2>6 DEF At, ClientOK, BaseOK, Past, Kept
  <2>8. CopiesOK(c)'
    BY <1>1, <1>4, <1>6, <2>1, <2>3, <2>6 DEF At, ClientOK, CopiesOK, Past, Kept
  <2>9. ClientOK(c)'
    BY <1>1, <1>4, <2>1, <2>3, <2>6, <2>7, <2>8 DEF ClientOK, PlaceOK, FilesOK
  <2> QED
    BY <1>1, <1>4, <2>4, <2>6, <2>9, HolderStep DEF IInv, TypeOK
<1> QED
  BY <1>5, <1>6 DEF CopyOriginals

LEMMA SyncedFacts ==
  ASSUME NEW copy \in Original
  PROVE  /\ Synced(copy) \in Original
         /\ copy \in Safe => Synced(copy) = copy
         /\ copy \in Copies =>
              Synced(copy) \in Copies /\ Synced(copy).data = copy.data /\ Synced(copy).synced
<1>1. CASE copy = None
  <2>1. copy \notin Copies /\ copy \notin Safe
    BY <1>1, ConfigAssumption DEF Copies, Safe
  <2> QED
    BY <1>1, <2>1 DEF Synced, Original
<1>2. CASE copy # None
  <2>1. Synced(copy) = [copy EXCEPT !.synced = TRUE]
    BY <1>2 DEF Synced
  <2>2. copy \in [data : Content \cup {Torn}, synced : BOOLEAN]
    BY <1>2 DEF Original
  <2>3. Synced(copy) \in Original /\ Synced(copy).data = copy.data /\ Synced(copy).synced
    BY <2>1, <2>2 DEF Original
  <2>4. copy \in Safe => Synced(copy) = copy
    BY <2>1 DEF Safe
  <2>5. copy \in Copies => Synced(copy) \in Copies
    BY <2>1 DEF Copies
  <2> QED
    BY <2>3, <2>4, <2>5
<1> QED
  BY <1>1, <1>2

LEMMA SyncCopiesStep ==
  ASSUME IInv, NEW c \in Clients, SyncCopies(c), UnchangedOthers
  PROVE  IInv'
<1> DEFINE W(d) == [d EXCEPT !.iniOriginal = IF @ = disk.iniOriginal THEN Synced(@) ELSE @,
                             !.sandboxOriginal = IF @ = disk.sandboxOriginal THEN Synced(@) ELSE @]
<1>1. /\ lock = c /\ client[c].mode = "commit" /\ ~disk.journal /\ ClientOK(c)
      /\ disk \in images /\ ImageOK(disk) /\ Kept \subseteq disk.ini
  BY DEF IInv, SyncCopies, At, ClientOK, PlaceOK, DirectoryOK, DiskOK, Preparing, Copied
<1>2. /\ disk' = W(disk) /\ images' = {W(d) : d \in images}
      /\ UNCHANGED <<lock, known, edits, exposed, reported, editor, backups, faults>>
  BY DEF SyncCopies, UnchangedOthers
<1>3. ASSUME NEW d \in images
      PROVE  /\ ImageOK(W(d)) /\ W(d).ini = d.ini /\ W(d).sandbox = d.sandbox
             /\ W(d).journal = d.journal /\ (d.journal => W(d) = d)
  <2>1. ImageOK(d) /\ d \in Directory
    BY DEF IInv, DirectoryOK, ImageOK
  <2> DEFINE i == IF d.iniOriginal = disk.iniOriginal THEN Synced(d.iniOriginal) ELSE d.iniOriginal
             s == IF d.sandboxOriginal = disk.sandboxOriginal THEN Synced(d.sandboxOriginal)
                  ELSE d.sandboxOriginal
  <2>2. /\ W(d) = [d EXCEPT !.iniOriginal = i, !.sandboxOriginal = s]
        /\ i \in Original /\ s \in Original
    BY <2>1, SyncedFacts DEF Directory
  <2>3. d.journal => i = d.iniOriginal /\ s = d.sandboxOriginal
    <3>1. d.iniOriginal \in Original /\ d.sandboxOriginal \in Original
      BY <2>1 DEF Directory
    <3>2. d.journal => d.iniOriginal \in Safe /\ d.sandboxOriginal \in Safe
      BY <2>1 DEF ImageOK, JournalOK
    <3> QED
      BY <3>1, <3>2, SyncedFacts
  <2> HIDE DEF i, s
  <2>4. d.journal => W(d) = d
    BY <2>1, <2>2, <2>3 DEF Directory
  <2>5. W(d).ini = d.ini /\ W(d).sandbox = d.sandbox /\ W(d).journal = d.journal
    BY <2>1, <2>2 DEF Directory
  <2>6. ~d.journal => ImageOK([d EXCEPT !.iniOriginal = i, !.sandboxOriginal = s])
    BY <2>1, <2>2, OriginalsFree
  <2> HIDE DEF W
  <2> QED
    BY <2>1, <2>2, <2>4, <2>5, <2>6
<1>4. /\ W(disk).iniOriginal = Synced(disk.iniOriginal)
      /\ W(disk).sandboxOriginal = Synced(disk.sandboxOriginal)
  BY <1>1 DEF ImageOK, Directory
<1> HIDE DEF W
<1>5. ASSUME NEW x \in images' PROVE ImageOK(x)'
  <2>1. PICK d \in images : x = W(d)
    BY <1>2
  <2>2. ImageOK(x)
    BY <1>3, <2>1
  <2> QED
    BY <1>2, <2>2, ImageKept
<1>6. DiskOK'
  <2>1. disk' \in images' /\ Kept' \subseteq disk'.ini
    BY <1>1, <1>2, <1>3 DEF Kept
  <2>2. ASSUME NEW x \in images'
        PROVE  /\ x.sandbox \subseteq disk'.sandbox
               /\ x.journal => x.sandboxOriginal.data \subseteq disk'.sandbox
    <3>1. PICK d \in images : x = W(d)
      BY <1>2
    <3>2. /\ d.sandbox \subseteq disk.sandbox
          /\ d.journal => d.sandboxOriginal.data \subseteq disk.sandbox
      BY <1>1 DEF IInv, DirectoryOK, DiskOK
    <3>3. disk'.sandbox = disk.sandbox
      BY <1>1, <1>2, <1>3
    <3> QED
      BY <1>3, <3>1, <3>2, <3>3
  <2> QED
    BY <2>1, <2>2 DEF DiskOK
<1>7. DirectoryOK'
  BY <1>2, <1>5, <1>6 DEF IInv, DirectoryOK, EditorOK, Past, Kept
<1>8. "syncOriginals" \in Place
  BY DEF Place, AfterSync
<1>9. /\ client' \in [Clients -> Process]
      /\ client'[c].pc = "syncOriginals" /\ client'[c].mode = client[c].mode
      /\ client'[c].seen = client[c].seen /\ client'[c].base = client[c].base
      /\ \A e \in Clients : e # c => client'[e] = client[e]
  BY <1>8, GotoFacts DEF IInv, SyncCopies
<1>10. disk'.ini = disk.ini /\ disk'.sandbox = disk.sandbox /\ ~disk'.journal
  BY <1>1, <1>2, <1>3
<1> USE DEF Restoring, Copied, Replacing, Unlinking, Preparing
<1>11. BaseOK(c)'
  BY <1>1, <1>2, <1>9, <1>10 DEF SyncCopies, At, ClientOK, BaseOK, Past, Kept
<1>12. CopiesOK(c)'
  <2>1. /\ disk.iniOriginal \in Copies /\ disk.iniOriginal.data \subseteq Past
        /\ Kept \subseteq disk.iniOriginal.data
        /\ edits = 0 => disk.iniOriginal.data = disk.ini
        /\ disk.sandboxOriginal \in Copies /\ disk.sandboxOriginal.data = disk.sandbox
    BY <1>1 DEF SyncCopies, At, ClientOK, CopiesOK
  <2>2. Copies \subseteq Original
    BY DEF Copies, Original
  <2>3. /\ disk'.iniOriginal \in Copies /\ disk'.iniOriginal.data = disk.iniOriginal.data
        /\ disk'.iniOriginal.synced
        /\ disk'.sandboxOriginal \in Copies /\ disk'.sandboxOriginal.data = disk.sandboxOriginal.data
        /\ disk'.sandboxOriginal.synced
    BY <1>2, <1>4, <2>1, <2>2, SyncedFacts
  <2> QED
    BY <1>2, <1>9, <1>10, <2>1, <2>3 DEF CopiesOK, Past, Kept
<1>13. ClientOK(c)'
  BY <1>1, <1>2, <1>9, <1>10, <1>11, <1>12 DEF ClientOK, PlaceOK, FilesOK
<1> QED
  BY <1>1, <1>2, <1>7, <1>9, <1>13, HolderStep DEF IInv, TypeOK

LEMMA PublishStep ==
  ASSUME IInv, NEW c \in Clients, Publish(c), UnchangedOthers
  PROVE  IInv'
<1>1. /\ lock = c /\ client[c].mode = "commit" /\ ~disk.journal /\ ClientOK(c)
      /\ disk \in images /\ ImageOK(disk) /\ Kept \subseteq disk.ini /\ disk \in Directory
  BY DEF IInv, Publish, At, ClientOK, PlaceOK, DirectoryOK, DiskOK, ImageOK, Preparing, Copied
<1>2. /\ UNCHANGED <<lock, known, edits, exposed, reported, editor, backups, faults>>
      /\ At(c, "journal")
  BY DEF Publish, UnchangedOthers
<1>3. /\ disk.iniOriginal \in Copies /\ disk.iniOriginal.data \subseteq Past
      /\ Kept \subseteq disk.iniOriginal.data
      /\ edits = 0 => disk.iniOriginal.data = disk.ini
      /\ disk.sandboxOriginal \in Copies /\ disk.sandboxOriginal.data = disk.sandbox
      /\ disk.iniOriginal.synced /\ disk.sandboxOriginal.synced
  BY <1>1, <1>2 DEF At, ClientOK, CopiesOK, Copied
<1> DEFINE d == [disk EXCEPT !.journal = TRUE]
<1>4. /\ d \in Directory /\ d.ini = disk.ini /\ d.sandbox = disk.sandbox /\ d.journal
      /\ d.iniOriginal = disk.iniOriginal /\ d.sandboxOriginal = disk.sandboxOriginal
  BY <1>1 DEF Directory
<1>5. disk' = d /\ Change(d)
  BY DEF Publish, Change
<1> HIDE DEF d
<1>6. JournalOK(d)
  <2>1. d.iniOriginal \in Safe /\ d.sandboxOriginal \in Safe
    BY <1>3, <1>4 DEF Copies, Safe
  <2> QED
    BY <1>1, <1>3, <1>4, <2>1 DEF JournalOK, ImageOK
<1>7. /\ Committed(d).sandbox = Committed(disk).sandbox
      /\ edits = 0 => Committed(d).ini = Committed(disk).ini
  BY <1>1, <1>3, <1>4 DEF Committed, Read
<1>8. ImageOK(d)
  BY <1>1, <1>4, <1>6, <1>7 DEF ImageOK, Whole
<1>9. DirectoryOK'
  BY <1>1, <1>2, <1>4, <1>5, <1>8, ChangeDirectory DEF IInv
<1>10. "syncJournal" \in Place
  BY DEF Place, AfterSync
<1>11. /\ client' \in [Clients -> Process]
       /\ client'[c].pc = "syncJournal" /\ client'[c].mode = client[c].mode
       /\ client'[c].seen = client[c].seen /\ client'[c].base = client[c].base
       /\ \A e \in Clients : e # c => client'[e] = client[e]
  BY <1>10, GotoFacts DEF IInv, Publish
<1> USE DEF Restoring, Copied, Replacing, Unlinking, Preparing
<1>12. BaseOK(c)'
  BY <1>1, <1>2, <1>4, <1>5, <1>11 DEF At, ClientOK, BaseOK, Past, Kept
<1>13. FilesOK(c)'
  BY <1>1, <1>2, <1>3, <1>4, <1>5, <1>11 DEF At, ClientOK, BaseOK, FilesOK
<1>14. ClientOK(c)'
  BY <1>1, <1>2, <1>4, <1>5, <1>11, <1>12, <1>13 DEF ClientOK, PlaceOK, CopiesOK
<1> QED
  BY <1>1, <1>2, <1>9, <1>11, <1>14, HolderStep DEF IInv, TypeOK

\* A file is replaced under the journal.
LEMMA ReplaceStep ==
  ASSUME IInv, NEW c \in Clients, Replace(c), UnchangedOthers
  PROVE  IInv'
<1> USE DEF Restoring, Copied, Replacing, Unlinking, Preparing
<1>1. /\ lock = c /\ client[c].mode = "commit" /\ ClientOK(c) /\ client[c] \in Process
      /\ disk \in images /\ ImageOK(disk) /\ Kept \subseteq disk.ini /\ disk \in Directory
      /\ disk.journal /\ JournalOK(disk)
  BY DEF IInv, TypeOK, Replace, At, ClientOK, PlaceOK, DirectoryOK, DiskOK, ImageOK
<1>2. UNCHANGED <<lock, known, edits, exposed, reported, editor, backups, faults>>
  BY DEF Replace, UnchangedOthers
<1> DEFINE base == client[c].base
<1>3. /\ base.ini \cup {c} \in Content /\ base.sandbox \cup {c} \in Content
      /\ base.ini \cup {c} \subseteq Past
  <2>1. base.ini \in Content /\ base.sandbox \in Content
    BY <1>1 DEF Process, Contents
  <2>2. base.ini \subseteq Past
    BY <1>1 DEF Replace, At, ClientOK, BaseOK
  <2> QED
    BY <2>1, <2>2 DEF Content, Past
<1> HIDE DEF base
<1>4. CASE /\ At(c, "replaceIni") /\ Change([disk EXCEPT !.ini = base.ini \cup {c}])
           /\ Goto(c, "syncIni")
  <2> DEFINE d == [disk EXCEPT !.ini = base.ini \cup {c}]
  <2>1. /\ d \in Directory /\ d.ini = base.ini \cup {c} /\ d.sandbox = disk.sandbox /\ d.journal
        /\ d.iniOriginal = disk.iniOriginal /\ d.sandboxOriginal = disk.sandboxOriginal
    BY <1>1, <1>3 DEF Directory
  <2>2. disk' = d /\ Change(d)
    BY <1>4 DEF Change
  <2> HIDE DEF d
  <2>3. Committed(d) = Committed(disk)
    BY <1>1, <2>1 DEF Committed
  <2>4. Kept \subseteq d.ini
    BY <1>1, <1>4, <2>1 DEF At, ClientOK, BaseOK, base
  <2>5. ImageOK(d) /\ Kept \subseteq d.ini
    BY <1>1, <1>3, <2>1, <2>3, <2>4 DEF ImageOK, JournalOK
  <2>6. DirectoryOK'
    BY <1>1, <1>2, <2>1, <2>2, <2>5, ChangeDirectory DEF IInv
  <2>7. "syncIni" \in Place
    BY DEF Place, AfterSync
  <2>8. /\ client' \in [Clients -> Process]
        /\ client'[c].pc = "syncIni" /\ client'[c].mode = client[c].mode
        /\ client'[c].seen = client[c].seen /\ client'[c].base = base
        /\ \A e \in Clients : e # c => client'[e] = client[e]
    BY <1>4, <2>7, GotoFacts DEF IInv, base
  <2>9. BaseOK(c)'
    BY <1>1, <1>2, <1>4, <2>1, <2>2, <2>8 DEF At, ClientOK, BaseOK, Past, Kept, base
  <2>10. FilesOK(c)'
    BY <1>1, <1>2, <1>4, <2>1, <2>2, <2>8 DEF At, ClientOK, BaseOK, FilesOK, base
  <2>11. ClientOK(c)'
    BY <1>1, <1>2, <2>1, <2>2, <2>8, <2>9, <2>10 DEF ClientOK, PlaceOK, CopiesOK
  <2> QED
    BY <1>1, <1>2, <2>6, <2>8, <2>11, HolderStep DEF IInv, TypeOK
<1>5. CASE /\ At(c, "replaceSandbox") /\ Change([disk EXCEPT !.sandbox = base.sandbox \cup {c}])
           /\ Goto(c, "syncSandbox")
  <2> DEFINE d == [disk EXCEPT !.sandbox = base.sandbox \cup {c}]
  <2>1. /\ d \in Directory /\ d.sandbox = base.sandbox \cup {c} /\ d.ini = disk.ini /\ d.journal
        /\ d.iniOriginal = disk.iniOriginal /\ d.sandboxOriginal = disk.sandboxOriginal
    BY <1>1, <1>3 DEF Directory
  <2>2. disk' = d /\ Change(d)
    BY <1>5 DEF Change
  <2> HIDE DEF d
  <2>3. Committed(d) = Committed(disk)
    BY <1>1, <2>1 DEF Committed
  <2>4. Agreed(d.sandbox)
    <3>1. base.sandbox = disk.sandbox /\ known[c] = base.sandbox \cap Clients
      BY <1>1, <1>5 DEF At, ClientOK, BaseOK, base
    <3>2. Agreed(disk.sandbox)
      BY <1>1 DEF ImageOK
    <3> QED
      BY <2>1, <3>1, <3>2 DEF Agreed
  <2>5. ImageOK(d) /\ Kept \subseteq d.ini
    BY <1>1, <2>1, <2>3, <2>4 DEF ImageOK, JournalOK
  <2>6. DirectoryOK'
    BY <1>1, <1>2, <2>1, <2>2, <2>5, ChangeDirectory DEF IInv
  <2>7. "syncSandbox" \in Place
    BY DEF Place, AfterSync
  <2>8. /\ client' \in [Clients -> Process]
        /\ client'[c].pc = "syncSandbox" /\ client'[c].mode = client[c].mode
        /\ client'[c].seen = client[c].seen /\ client'[c].base = base
        /\ \A e \in Clients : e # c => client'[e] = client[e]
    BY <1>5, <2>7, GotoFacts DEF IInv, base
  <2>9. BaseOK(c)'
    BY <1>1, <1>2, <1>5, <2>1, <2>2, <2>8 DEF At, ClientOK, BaseOK, Past, Kept, base
  <2>10. FilesOK(c)'
    BY <1>1, <1>2, <1>5, <2>1, <2>2, <2>8 DEF At, ClientOK, BaseOK, FilesOK, base
  <2>11. ClientOK(c)'
    BY <1>1, <1>2, <2>1, <2>2, <2>8, <2>9, <2>10 DEF ClientOK, PlaceOK, CopiesOK
  <2> QED
    BY <1>1, <1>2, <2>6, <2>8, <2>11, HolderStep DEF IInv, TypeOK
<1> QED
  BY <1>4, <1>5 DEF Replace, base

LEMMA AnswerStep ==
  ASSUME IInv, NEW c \in Clients, Answer(c), UnchangedOthers
  PROVE  IInv'
<1>1. UNCHANGED <<disk, images, known, edits, exposed, editor, backups, faults>>
  BY DEF Answer, UnchangedDirectory, UnchangedOthers
<1>2. /\ lock = c /\ At(c, "answer") /\ Exit(c, Read(disk)) /\ ClientOK(c)
  BY DEF IInv, Answer, At, ClientOK, PlaceOK
<1>3. CASE client[c].mode # "commit"
  BY <1>1, <1>2, <1>3, ReadFacts, EndStep DEF Answer, IInv, TypeOK
<1>4. CASE client[c].mode = "commit"
  <2>1. /\ reported' = reported \cup {c} /\ c \in disk.sandbox
        /\ \A d \in images : ~d.journal /\ d.sandbox = disk.sandbox
    BY <1>2, <1>4 DEF Answer, At, ClientOK, FilesOK
  <2>2. ASSUME NEW d \in images PROVE ImageOK(d)'
    <3>1. ImageOK(d) /\ ~d.journal /\ c \in d.sandbox
      BY <2>1 DEF IInv, DirectoryOK
    <3> QED
      BY <1>1, <2>1, <3>1 DEF ImageOK, Committed, Read, Agreed, Past
  <2>3. DirectoryOK'
    BY <1>1, <2>2 DEF IInv, DirectoryOK, DiskOK, EditorOK, Past, Kept
  <2>4. /\ client' \in [Clients -> Process]
        /\ client'[c].pc = "idle" /\ client'[c].mode = "begin" /\ client'[c].seen = Read(disk)
        /\ \A e \in Clients : e # c => client'[e] = client[e]
        /\ lock' # c
    BY <1>2, ReadFacts, ExitFacts DEF IInv
  <2>5. ClientOK(c)'
    BY <1>1, <2>4, ReadFacts, EndedOK DEF Past
  <2>6. lock' = None
    BY <1>2 DEF Exit
  <2> QED
    BY <1>1, <1>2, <2>1, <2>3, <2>4, <2>5, <2>6, HolderStep DEF IInv, TypeOK
<1> QED
  BY <1>3, <1>4

-----------------------------------------------------------------------------
(* Failures *)

LEMMA ReplaceFailsStep ==
  ASSUME IInv, NEW c \in Clients, ReplaceFails(c), UNCHANGED <<editor, edits, exposed>>,
         faults' \in 0 .. MaxFaults
  PROVE  IInv'
<1>1. /\ lock = c /\ client[c] \in Process /\ ClientOK(c) /\ disk.journal
  BY DEF IInv, TypeOK, ReplaceFails, ClientOK, PlaceOK, Replacing
<1>2. /\ client'[c].pc = "recover" /\ client'[c].mode = "undo" /\ client'[c].seen = client[c].seen
      /\ \A e \in Clients : e # c => client'[e] = client[e]
  BY <1>1 DEF IInv, TypeOK, ReplaceFails, Process
<1>3. client' \in [Clients -> Process]
  <2> DEFINE q == [client[c] EXCEPT !.pc = "recover", !.mode = "undo"]
  <2>1. q \in Process
    BY <1>1 DEF Process, Place
  <2>2. client' = [client EXCEPT ![c] = q]
    BY DEF IInv, TypeOK, ReplaceFails, Process
  <2> HIDE DEF q
  <2> QED
    BY <2>1, <2>2 DEF IInv, TypeOK
<1>4. UNCHANGED <<disk, images, lock, known, reported, backups, edits, exposed, editor>>
  BY DEF ReplaceFails, UnchangedDirectory
<1>5. ClientOK(c)'
  BY <1>1, <1>2, <1>4 DEF ClientOK, PlaceOK, BaseOK, CopiesOK, FilesOK, Past,
     Restoring, Copied, Replacing, Unlinking, Preparing
<1> QED
  BY <1>2, <1>3, <1>4, <1>5, OwnStep DEF IInv, TypeOK, UnchangedDirectory

LEMMA KilledStep ==
  ASSUME IInv, NEW c \in Clients, Killed(c), UNCHANGED <<editor, edits, exposed>>,
         faults' \in 0 .. MaxFaults
  PROVE  IInv'
BY EndStep DEF Killed, IInv, TypeOK

\* What a power loss leaves of an image is such an image, alone.
LEMMA SurvivorOK ==
  ASSUME NEW x \in images, ImageOK(x), NEW i \in Remains(x.iniOriginal), NEW s \in Remains(x.sandboxOriginal)
  PROVE  LET d == Keeping(x, i, s)
         IN  /\ ImageOK(d) /\ d.ini = x.ini /\ d.sandbox = x.sandbox /\ d.journal = x.journal
             /\ Committed(d) = Committed(x)
             /\ x.journal => d = x
<1> USE DEF Keeping
<1> DEFINE d == Keeping(x, i, s)
<1>1. x \in Directory /\ x.iniOriginal \in Original /\ x.sandboxOriginal \in Original
  BY DEF ImageOK, Directory
<1>2. ASSUME NEW copy \in Original, NEW r \in Remains(copy)
      PROVE  r \in Original /\ (copy \in Safe => r = copy)
  <2>1. Synced(copy) \in Original /\ (copy \in Safe => Synced(copy) = copy)
    BY SyncedFacts
  <2>2. CASE r = Synced(copy)
    BY <2>1, <2>2
  <2>3. CASE r \in Torns(copy)
    <3>1. r = [data |-> Torn, synced |-> TRUE] /\ copy # None /\ ~copy.synced
      BY <2>3 DEF Torns
    <3>2. r \in Original /\ copy \notin Safe
      BY <3>1 DEF Original, Safe
    <3> QED
      BY <3>2
  <2> QED
    BY <2>2, <2>3 DEF Remains
<1>3. i \in Original /\ s \in Original
  BY <1>1, <1>2
<1>4. d.ini = x.ini /\ d.sandbox = x.sandbox /\ d.journal = x.journal
  BY <1>1
  DEF Directory
<1>5. x.journal => d = x
  <2>1. x.journal => i = x.iniOriginal /\ s = x.sandboxOriginal
    BY <1>1, <1>2 DEF ImageOK, JournalOK
  <2> QED
    BY <1>1, <2>1 DEF Directory
<1>6. ~x.journal => ImageOK(d) /\ Committed(d) = Committed(x)
  BY <1>3, <1>4, OriginalsFree DEF Committed, Read
<1> QED
  BY <1>4, <1>5, <1>6

\* What survives a power loss is an image whose copies have lost what no journal protects.
LEMMA SurvivorFacts ==
  ASSUME IInv, NEW d \in Survivors
  PROVE  /\ ImageOK(d)
         /\ \E x \in images : Committed(d) = Committed(x)
<1>1. PICK x \in images :
        \E i \in Remains(x.iniOriginal), s \in Remains(x.sandboxOriginal) : d = Keeping(x, i, s)
  BY DEF Survivors
<1>2. ImageOK(x)
  BY DEF IInv, DirectoryOK
<1> QED
  BY <1>1, <1>2, SurvivorOK

LEMMA PowerLossStep ==
  ASSUME IInv, PowerLoss, faults' \in 0 .. MaxFaults
  PROVE  IInv'
<1>1. PICK d \in Survivors : /\ disk' = d /\ images' = {d}
                             /\ exposed' = exposed \cup ((1 .. edits) \ d.ini)
  BY DEF PowerLoss
<1>2. ImageOK(d)
  BY SurvivorFacts
<1>3. disk' = d /\ images' = {d} /\ exposed' = exposed \cup ((1 .. edits) \ d.ini)
  BY <1>1
<1>4. /\ UNCHANGED <<known, reported, edits>> /\ lock' = None /\ editor' = None
      /\ backups' \subseteq backups
  BY DEF PowerLoss
<1>5. Kept' \subseteq Kept /\ Kept' \subseteq d.ini
  BY <1>3, <1>4 DEF Kept
<1>6. ImageOK(d)'
  BY <1>2, <1>4, <1>5 DEF ImageOK, JournalOK, Agreed, Past
<1>7. DirectoryOK'
  <2>1. exposed' \subseteq 1 .. edits'
    BY <1>3, <1>4 DEF IInv, DirectoryOK
  <2> QED
    BY <1>3, <1>4, <1>5, <1>6, <2>1 DEF IInv, DirectoryOK, DiskOK, EditorOK
<1>8. client' \in [Clients -> Process]
      /\ \A c \in Clients : /\ client'[c].pc = "idle" /\ client'[c].mode = "begin"
                            /\ client'[c].seen = None
  <2>1. "idle" \in Place /\ Unread \in Contents
    BY DEF Place, Unread, Contents, Content
  <2> DEFINE Ended(c) == [client[c] EXCEPT !.pc = "idle", !.mode = "begin", !.seen = None,
                                           !.base = Unread]
  <2>2. ASSUME NEW c \in Clients
        PROVE  /\ Ended(c) \in Process
               /\ Ended(c).pc = "idle" /\ Ended(c).mode = "begin" /\ Ended(c).seen = None
    <3>1. client[c] \in Process
      BY DEF IInv, TypeOK
    <3> QED
      BY <2>1, <3>1 DEF Process
  <2>3. client' = [c \in Clients |-> Ended(c)]
    BY DEF PowerLoss
  <2> HIDE DEF Ended
  <2> QED
    BY <2>2, <2>3
<1>9. \A c \in Clients : ClientOK(c)'
  BY <1>4, <1>8, EndedOK, ConfigAssumption
<1>10. TypeOK'
  <2>1. d \in Directory /\ exposed' \subseteq Edits
    BY <1>2, <1>7, ConfigAssumption DEF ImageOK, DirectoryOK, Edits
  <2> QED
    BY <1>3, <1>4, <1>8, <2>1 DEF IInv, TypeOK
<1> QED
  BY <1>7, <1>9, <1>10 DEF IInv

-----------------------------------------------------------------------------
(* Edits by others *)

LEMMA EditBeginsStep ==
  ASSUME IInv, EditBegins
  PROVE  IInv'
<1>1. /\ UNCHANGED <<disk, images, lock, client, known, reported, backups, edits, exposed, faults>>
      /\ editor' = disk.ini /\ edits < MaxEdits
  BY DEF EditBegins, UnchangedDirectory
<1>2. ASSUME NEW d \in images PROVE ImageOK(d)'
  BY <1>1, ImageKept DEF IInv, DirectoryOK
<1>3. DirectoryOK'
  BY <1>1, <1>2, ReadFacts DEF IInv, DirectoryOK, DiskOK, EditorOK, Past, Kept
<1>4. \A c \in Clients : ClientOK(c)'
  BY <1>1, ApartKept DEF IInv
<1>5. TypeOK'
  BY <1>1 DEF IInv, TypeOK, Directory
<1> QED
  BY <1>3, <1>4, <1>5 DEF IInv

\* The change an edit makes is new, and nobody has seen it yet.
LEMMA EditEndsStep ==
  ASSUME IInv, EditEnds
  PROVE  IInv'
<1>0. PICK n, d : n = edits + 1 /\ d = [disk EXCEPT !.ini = editor \cup {n}]
  OBVIOUS
<1>1. /\ UNCHANGED <<lock, client, known, reported, backups, faults>>
      /\ edits' = n /\ editor' = None /\ editor # None
      /\ disk' = d /\ images' = images \cup {d}
      /\ exposed' = IF Committing THEN exposed \cup {n} ELSE exposed
  BY <1>0 DEF EditEnds, Change
<1>2. /\ edits \in 0 .. MaxEdits /\ edits < MaxEdits /\ editor \subseteq Past /\ Kept \subseteq editor
      /\ editor \in Content /\ exposed \subseteq 1 .. edits
      /\ disk \in images /\ ImageOK(disk) /\ Kept \subseteq disk.ini /\ disk \in Directory
  BY <1>1, ReadFacts DEF IInv, TypeOK, DirectoryOK, EditorOK, ImageOK
<1>3. /\ n \in Edits /\ n \in Nat /\ n # 0 /\ edits' \in 0 .. MaxEdits /\ n \notin Clients /\ n \notin Past
      /\ n \notin 1 .. edits
  <2>1. n \in Edits /\ n \in Nat /\ n # 0 /\ edits' \in 0 .. MaxEdits /\ n \notin 1 .. edits
    BY <1>0, <1>1, <1>2, ConfigAssumption DEF Edits
  <2> QED
    BY <2>1, ConfigAssumption DEF Past
<1>4. Past' = Past \cup {n}
  <2>1. 1 .. edits' = (1 .. edits) \cup {n}
    BY <1>0, <1>1, <1>2
  <2> QED
    BY <2>1 DEF Past
<1>5. /\ Kept' \subseteq Kept \cup {n}
      /\ Committing => Kept' = Kept
  <2>1. 1 .. edits' = (1 .. edits) \cup {n}
    BY <1>0, <1>1, <1>2
  <2> QED
    BY <1>1, <1>2, <1>3, <2>1 DEF Kept
<1>6. /\ d \in Directory /\ d.ini = editor \cup {n} /\ d.sandbox = disk.sandbox
      /\ d.journal = disk.journal
      /\ d.iniOriginal = disk.iniOriginal /\ d.sandboxOriginal = disk.sandboxOriginal
  <2>1. editor \cup {n} \in Content
    BY <1>2, <1>3 DEF Content
  <2> QED
    BY <1>0, <1>2, <2>1 DEF Directory
<1>7. ASSUME NEW x \in images PROVE ImageOK(x)'
  <2>1. ImageOK(x)
    BY DEF IInv, DirectoryOK
  <2>2. n \notin x.ini
    BY <1>3, <2>1 DEF ImageOK
  <2>3. x.journal => JournalOK(x)'
    BY <1>1, <1>4, <1>5, <2>1, <2>2 DEF ImageOK, JournalOK, Agreed
  <2> QED
    BY <1>1, <1>3, <1>4, <2>1, <2>3 DEF ImageOK, Agreed
<1>8. ImageOK(d)'
  <2>1. d.journal => JournalOK(d)'
    <3>1. ASSUME d.journal PROVE JournalOK(disk) /\ Kept' = Kept
      BY <1>2, <1>5, <1>6, <3>1 DEF ImageOK, Committing
    <3> QED
      BY <1>1, <1>2, <1>4, <1>6, <3>1 DEF JournalOK, Agreed
  <2>2. Committed(d).sandbox = Committed(disk).sandbox
    BY <1>6 DEF Committed, Read
  <2>3. d.ini \subseteq Past'
    BY <1>2, <1>4, <1>6
  <2> QED
    BY <1>1, <1>2, <1>3, <1>6, <2>1, <2>2, <2>3 DEF ImageOK, Agreed
<1>9. DirectoryOK'
  <2>1. exposed' \subseteq 1 .. edits'
    BY <1>0, <1>1, <1>2, <1>3
  <2>2. DiskOK'
    <3>1. Kept' \subseteq d.ini
      BY <1>2, <1>5, <1>6
    <3> QED
      BY <1>1, <1>6, <3>1 DEF IInv, DirectoryOK, DiskOK
  <2> QED
    BY <1>1, <1>3, <1>7, <1>8, <2>1, <2>2 DEF DirectoryOK, EditorOK
<1>10. ASSUME NEW c \in Clients PROVE ClientOK(c)'
  <2> USE DEF Restoring, Copied, Replacing, Unlinking, Preparing
  <2>1. ClientOK(c) /\ client[c] \in Process
    BY DEF IInv, TypeOK
  <2>2. PlaceOK(c)'
    BY <1>1, <1>6, <2>1 DEF ClientOK, PlaceOK
  <2>3. client[c].pc \in Preparing \cup {"syncJournal", "replaceIni"} => Kept' = Kept
    BY <1>5, <2>1 DEF ClientOK, PlaceOK, Committing
  <2>4. client[c].seen # Read(disk)'
    <3>1. Read(disk)'.ini = d.ini /\ n \in d.ini /\ Read(disk)' \in Contents
      BY <1>1, <1>6 DEF Read, Contents, Directory
    <3>2. CASE client[c].seen = None
      BY <3>1, <3>2, ConfigAssumption
    <3>3. CASE client[c].seen # None
      BY <1>3, <2>1, <3>1, <3>3 DEF ClientOK, BaseOK
    <3> QED
      BY <3>2, <3>3
  <2>5. BaseOK(c)'
    BY <1>1, <1>3, <1>4, <1>6, <2>1, <2>3, <2>4 DEF ClientOK, BaseOK
  <2>6. CopiesOK(c)'
    BY <1>1, <1>3, <1>4, <1>6, <2>1, <2>3 DEF ClientOK, CopiesOK
  <2>7. FilesOK(c)'
    BY <1>1, <1>3, <1>6, <2>1 DEF ClientOK, PlaceOK, FilesOK
  <2> QED
    BY <2>2, <2>5, <2>6, <2>7 DEF ClientOK
<1>11. TypeOK'
  <2>1. disk' \in Directory /\ images' \subseteq Directory
    BY <1>1, <1>2, <1>6 DEF IInv, TypeOK
  <2>2. exposed' \subseteq Edits
    BY <1>1, <1>3 DEF IInv, TypeOK
  <2> QED
    BY <1>1, <1>3, <2>1, <2>2 DEF IInv, TypeOK
<1> QED
  BY <1>9, <1>10, <1>11 DEF IInv

-----------------------------------------------------------------------------

LEMMA NextIInv ==
  ASSUME IInv, [Next]_vars
  PROVE  IInv'
<1>1. ASSUME NEW c \in Clients, Request(c) PROVE IInv'
  BY <1>1, AskStep, AcquireStep DEF Request
<1>2. ASSUME NEW c \in Clients, Work(c) PROVE IInv'
  <2>1. CASE Prepare(c)
    BY <1>2, <2>1, DiscardStep, RecoverStep, RestoreStep, UnlinkStep, SyncUnlinkedStep DEF Work, Prepare
  <2>2. CASE Fsync(c)
    BY <1>2, <2>2, FsyncStep DEF Work
  <2>3. CASE Decide(c)
    BY <1>2, <2>3, ParseStep, ReviseStep, CheckStep, RecheckStep DEF Work, Decide
  <2>4. CASE Commit(c)
    BY <1>2, <2>4, BackupStep, CopyStep, SyncCopiesStep, PublishStep, ReplaceStep, AnswerStep
    DEF Work, Commit
  <2> QED
    BY <1>2, <2>1, <2>2, <2>3, <2>4 DEF Work
<1>3. CASE Fault
  <2>1. faults' \in 0 .. MaxFaults
    BY <1>3, ConfigAssumption DEF Fault, IInv, TypeOK
  <2> QED
    BY <1>3, <2>1, ReplaceFailsStep, KilledStep, PowerLossStep DEF Fault
<1>4. CASE EditBegins \/ EditEnds
  BY <1>4, EditBeginsStep, EditEndsStep
<1>5. CASE UNCHANGED vars
  <2>1. DirectoryOK'
    BY <1>5, SameDirectory DEF IInv, vars
  <2>2. \A c \in Clients : ClientOK(c)'
    BY <1>5, ApartKept DEF IInv, vars
  <2> QED
    BY <1>5, <2>1, <2>2 DEF IInv, TypeOK, vars
<1> QED
  BY <1>1, <1>2, <1>3, <1>4, <1>5 DEF Next

LEMMA Invariance == Spec => []IInv
BY InitIInv, NextIInv, PTL DEF Spec

-----------------------------------------------------------------------------
(* The theorems *)

\* The places, contents and copies of every process and image are what they are said to be,
\* whatever fails: nothing of a torn copy ever gets into a file of the server.
THEOREM TypeCorrect == Spec => []TypeOK
BY Invariance, PTL DEF IInv

\* An image that a power loss may leave is well formed.
LEMMA SurvivorsOK ==
  ASSUME IInv, NEW d \in Survivors
  PROVE  ImageOK(d)
BY SurvivorFacts

\* recover_transaction never gives up: whenever the power is lost, a journal is on disk only
\* together with both originals and their data.
THEOREM AlwaysRecoverable == Spec => []Recoverable
<1>1. IInv => Recoverable
  <2> SUFFICES ASSUME IInv, NEW d \in Survivors, d.journal
               PROVE  /\ d.iniOriginal # None /\ d.iniOriginal.data # Torn
                      /\ d.sandboxOriginal # None /\ d.sandboxOriginal.data # Torn
    BY DEF Recoverable
  <2>1. d.iniOriginal \in Safe /\ d.sandboxOriginal \in Safe
    BY SurvivorsOK DEF ImageOK, JournalOK
  <2>2. None \notin Safe /\ \A copy \in Safe : copy.data # Torn
    BY ConfigAssumption DEF Safe
  <2> QED
    BY <2>1, <2>2
<1> QED
  BY <1>1, Invariance, PTL

\* An update is in both files or in neither, after every power loss and for every reader,
\* as long as nobody else writes to the server's file.
THEOREM Atomic == Spec => []NeverHalfApplied
<1>1. IInv => NeverHalfApplied
  <2> SUFFICES ASSUME IInv, edits = 0 PROVE NeverHalfApplied
    BY DEF NeverHalfApplied
  <2>1. ASSUME NEW d \in Survivors PROVE Whole(Committed(d))
    BY SurvivorsOK DEF ImageOK
  <2>2. ASSUME NEW c \in Clients, client[c].pc \in {"check", "recheck"} PROVE Whole(client[c].base)
    BY <2>2 DEF IInv, ClientOK, BaseOK
  <2> QED
    BY <2>1, <2>2 DEF NeverHalfApplied
<1> QED
  BY <1>1, Invariance, PTL

\* An update that its client was told of is in the configuration for ever, whatever crashes,
\* power losses and other updates follow.
THEOREM ReportedIsDurable == Spec => []Durable
<1>1. IInv => Durable
  BY SurvivorsOK DEF ImageOK, Durable
<1> QED
  BY <1>1, Invariance, PTL

\* No update is made against a revision that lacks another update of the configuration:
\* expectedRevision orders the updates, across all failures.
THEOREM UpdatesInformed == Spec => []Informed
<1>1. IInv => Informed
  BY DEF IInv, DirectoryOK, DiskOK, ImageOK, Agreed, Informed
<1> QED
  BY <1>1, Invariance, PTL

\* Edits of the server's file by other programs are lost only where an update is already
\* past its last comparison of revisions, or with the power.
THEOREM EditsSurvive == Spec => []EditsKept
<1>1. IInv => EditsKept
  <2> SUFFICES ASSUME IInv PROVE EditsKept
    OBVIOUS
  <2>1. /\ edits \in 0 .. MaxEdits /\ exposed \subseteq 1 .. edits
        /\ (1 .. edits) \ exposed \subseteq disk.ini /\ disk.ini \subseteq Clients \cup (1 .. edits)
    BY DEF IInv, DirectoryOK, DiskOK, ImageOK, Kept, Past
  <2>2. 1 .. edits \subseteq Edits /\ edits \in Nat
    BY <2>1, ConfigAssumption DEF Edits
  <2>3. exposed \cup (disk.ini \cap Edits) = 1 .. edits
    BY <2>1, <2>2, ConfigAssumption
  <2>4. Cardinality(1 .. edits) = edits
    BY <2>2, FS_Interval
  <2> QED
    BY <2>3, <2>4 DEF EditsKept
<1> QED
  BY <1>1, Invariance, PTL
=============================================================================
