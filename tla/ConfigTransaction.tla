-------------------------- MODULE ConfigTransaction --------------------------
(***************************************************************************)
(* pz-config.py: revision-checked updates of the server's two              *)
(* configuration files, as one transaction over a directory that may lose  *)
(* power.                                                                  *)
(*                                                                         *)
(* Every process takes the lock, recovers what an interrupted update left  *)
(* behind, and reads both files.  An update then compares revisions, keeps *)
(* a backup and a synced original of each file, publishes a journal, and   *)
(* replaces the files one after the other.  The shell tools edit the       *)
(* server's file without the lock (ini_set of common.sh).                  *)
(*                                                                         *)
(* A file's content is the set of changes it contains: the update of a     *)
(* client, named by the client, which changes both files, or the edit of   *)
(* somebody else, a number.  A directory keeps changes of its entries in   *)
(* order, but loses those after its last fsync, or any number of the       *)
(* latest of them, with the power; a file that was not synced may lose its *)
(* data (Torn).  Survivors is what the disk may hold afterwards.           *)
(***************************************************************************)
EXTENDS Integers, FiniteSets, FiniteSetsExt

CONSTANTS
  Clients,      \* those who read and update the configuration, one update each
  None,         \* no file, no client, no revision
  Torn,         \* the content of a file that was not synced
  Keep,         \* keep of create_backup
  MaxEdits,     \* bound: edits by other programs
  MaxFaults     \* bound: failed calls, killed processes and power losses

VARIABLES
  disk,      \* the directory as processes see it
  images,    \* the directories a power loss may leave, but for the data of their files
  lock,      \* the holder of .pz-config.lock, or None
  client,    \* [Clients -> Process]: what each client's process does
  known,     \* [Clients -> SUBSET Clients]: the updates in the revision a client last passed
  reported,  \* the clients that were told their update is applied
  backups,   \* the backups of the server's file: whose update made each, and its content
  editor,    \* the content another program has read and is about to write back, or None
  edits,     \* the number of edits written
  exposed,   \* the edits written between an update's last check and its end, or lost with the power
  faults     \* failures so far

vars == <<disk, images, lock, client, known, reported, backups, editor, edits,
          exposed, faults>>

Edits == 1 .. MaxEdits
Content == SUBSET (Clients \cup Edits)
Contents == [ini : Content, sandbox : Content]

\* The copies a commit keeps, and whether an fsync has written their data; the journal.
Original == {None} \cup [data : Content \cup {Torn}, synced : BOOLEAN]
Directory == [ini : Content, sandbox : Content, journal : BOOLEAN,
              iniOriginal : Original, sandboxOriginal : Original]

Read(d) == [ini |-> d.ini, sandbox |-> d.sandbox]
Unread == [ini |-> {}, sandbox |-> {}]

\* fsync_directory: the places of a process that waits for it, and what follows.
AfterSync ==
  [ syncRestoredIni |-> "restoreSandbox",
    syncRestoredSandbox |-> "unlinkJournal",
    syncOriginals |-> "journal",
    syncJournal |-> "replaceIni",
    syncIni |-> "replaceSandbox",
    syncSandbox |-> "unlinkJournal" ]

Place == {"idle", "lock", "recover", "discard", "restoreIni", "restoreSandbox",
          "unlinkJournal", "unlinkIni", "unlinkSandbox", "syncUnlinked",
          "parse", "check", "recheck", "backup", "copyIni", "copySandbox", "syncCopies",
          "journal", "replaceIni", "replaceSandbox", "answer"} \cup DOMAIN AfterSync

\* Names are told apart, and from contents: that of a client is no number of an edit.
ASSUME ConfigAssumption ==
  /\ None \notin Clients /\ None \notin Contents
  /\ None \notin [data : Content \cup {Torn}, synced : BOOLEAN]
  /\ \A content \in Content : content # Torn
  /\ Clients \cap Edits = {}
  /\ Keep \in Nat \ {0} /\ MaxEdits \in Nat /\ MaxFaults \in Nat

\* What a process does: where it is, whether it recovers first, commits or undoes its own
\* commit, what it was asked for, the revision its client expects, and what it has read.
Process == [pc : Place, mode : {"begin", "commit", "undo"}, goal : {"read", "update"},
            seen : Contents \cup {None}, base : Contents]

TypeOK ==
  /\ disk \in Directory
  /\ images \subseteq Directory
  /\ lock \in Clients \cup {None}
  /\ client \in [Clients -> Process]
  /\ known \in [Clients -> SUBSET Clients]
  /\ reported \subseteq Clients
  /\ backups \subseteq [by : Clients, content : Content]
  /\ editor \in Content \cup {None}
  /\ edits \in 0 .. MaxEdits
  /\ exposed \subseteq Edits
  /\ faults \in 0 .. MaxFaults

Fresh == [ini |-> {}, sandbox |-> {}, journal |-> FALSE,
          iniOriginal |-> None, sandboxOriginal |-> None]

Init ==
  /\ disk = Fresh
  /\ images = {Fresh}
  /\ lock = None
  /\ client = [c \in Clients |->
                 [pc |-> "idle", mode |-> "begin", goal |-> "read", seen |-> None, base |-> Unread]]
  /\ known = [c \in Clients |-> {}]
  /\ reported = {}
  /\ backups = {}
  /\ editor = None
  /\ edits = 0
  /\ exposed = {}
  /\ faults = 0

-----------------------------------------------------------------------------
(* The directory *)

At(c, here) == client[c].pc = here
Goto(c, there) == client' = [client EXCEPT ![c].pc = there]

\* The directory becomes d, in memory for now.
Change(d) == disk' = d /\ images' = images \cup {d}

\* Everything the directory holds has reached the disk.
Flush == images' = {disk} /\ UNCHANGED disk

\* A copy, and what it is after its fsync and after a power loss.
Copy(content) == [data |-> content, synced |-> FALSE]
Synced(copy) == IF copy = None THEN None ELSE [copy EXCEPT !.synced = TRUE]
Torns(copy) == IF copy = None \/ copy.synced THEN {} ELSE {[data |-> Torn, synced |-> TRUE]}
Remains(copy) == {Synced(copy)} \cup Torns(copy)

\* What a power loss may leave: one of the directories, some copies without their data.
Keeping(d, i, s) == [d EXCEPT !.iniOriginal = i, !.sandboxOriginal = s]
Survivors ==
  UNION {{Keeping(d, i, s) : i \in Remains(d.iniOriginal), s \in Remains(d.sandboxOriginal)} :
            d \in images}

UnchangedDirectory == UNCHANGED <<disk, images>>
UnchangedOthers == UNCHANGED <<editor, edits, exposed, faults>>

\* An fsync_directory that nothing but the next step follows.
Fsync(c) ==
  /\ client[c].pc \in DOMAIN AfterSync
  /\ Flush
  /\ Goto(c, AfterSync[client[c].pc])
  /\ UNCHANGED <<lock, known, reported, backups>>

\* The process ends, and the kernel drops its lock; the client keeps what it was told.
Exit(c, seen) ==
  /\ client' = [client EXCEPT ![c].pc = "idle", ![c].mode = "begin", ![c].seen = seen,
                              ![c].base = Unread]
  /\ lock' = IF lock = c THEN None ELSE lock

-----------------------------------------------------------------------------
(* Requests, the lock and recovery *)

\* A client asks for the configuration, or to update the revision it has seen.
Ask(c) ==
  /\ At(c, "idle")
  /\ \/ client' = [client EXCEPT ![c].pc = "lock", ![c].goal = "read"]
     \/ /\ client[c].seen # None
        /\ client' = [client EXCEPT ![c].pc = "lock", ![c].goal = "update"]
  /\ UnchangedDirectory
  /\ UNCHANGED <<lock, known, reported, backups>>

\* configuration_lock.
Acquire(c) ==
  /\ At(c, "lock")
  /\ lock = None
  /\ lock' = c
  /\ Goto(c, "recover")
  /\ UnchangedDirectory
  /\ UNCHANGED <<known, reported, backups>>

\* What follows a recovery: the request, or the error the commit has failed with.
Recovered(c) ==
  IF client[c].mode = "undo"
    THEN Exit(c, None)
    ELSE Goto(c, "parse") /\ UNCHANGED lock

\* recover_transaction without a journal: originals nobody published are discarded.
Discard(c) ==
  /\ \/ /\ At(c, "recover")
        /\ ~disk.journal
        /\ Change([disk EXCEPT !.iniOriginal = None])
        /\ Goto(c, "discard") /\ UNCHANGED lock
     \/ /\ At(c, "discard")
        /\ Change([disk EXCEPT !.sandboxOriginal = None])
        /\ Recovered(c)
  /\ UNCHANGED <<known, reported, backups>>

\* recover_transaction with a journal: both originals are needed.
Recover(c) ==
  /\ At(c, "recover")
  /\ disk.journal
  /\ IF disk.iniOriginal # None /\ disk.sandboxOriginal # None
       THEN Goto(c, "restoreIni") /\ UNCHANGED lock
       ELSE Exit(c, None)
  /\ UnchangedDirectory
  /\ UNCHANGED <<known, reported, backups>>

\* Mutant of Restore: only the file that was replaced first is restored.
RestoreIniOnly(c) ==
  /\ \/ At(c, "restoreIni") /\ Change([disk EXCEPT !.ini = disk.iniOriginal.data])
                            /\ Goto(c, "syncRestoredIni")
     \/ At(c, "restoreSandbox") /\ UnchangedDirectory /\ Goto(c, "syncRestoredSandbox")
  /\ UNCHANGED <<lock, known, reported, backups>>

\* restore_copy of either file, up to its fsync_directory.
Restore(c) ==
  /\ \/ At(c, "restoreIni") /\ Change([disk EXCEPT !.ini = disk.iniOriginal.data])
                            /\ Goto(c, "syncRestoredIni")
     \/ At(c, "restoreSandbox") /\ Change([disk EXCEPT !.sandbox = disk.sandboxOriginal.data])
                                /\ Goto(c, "syncRestoredSandbox")
  /\ UNCHANGED <<lock, known, reported, backups>>

\* The end of a recovery and of a commit: the journal goes, then the originals.
Unlink(c) ==
  /\ \/ At(c, "unlinkJournal") /\ Change([disk EXCEPT !.journal = FALSE])
                               /\ Goto(c, "unlinkIni")
     \/ At(c, "unlinkIni") /\ Change([disk EXCEPT !.iniOriginal = None])
                           /\ Goto(c, "unlinkSandbox")
     \/ At(c, "unlinkSandbox") /\ Change([disk EXCEPT !.sandboxOriginal = None])
                               /\ Goto(c, "syncUnlinked")
  /\ UNCHANGED <<lock, known, reported, backups>>

\* Mutant of SyncUnlinked: no fsync.
LeaveUnlinked(c) ==
  /\ At(c, "syncUnlinked")
  /\ UnchangedDirectory
  /\ IF client[c].mode = "commit"
       THEN Goto(c, "answer") /\ UNCHANGED lock
       ELSE Recovered(c)
  /\ UNCHANGED <<known, reported, backups>>

\* Its fsync_directory.
SyncUnlinked(c) ==
  /\ At(c, "syncUnlinked")
  /\ Flush
  /\ IF client[c].mode = "commit"
       THEN Goto(c, "answer") /\ UNCHANGED lock
       ELSE Recovered(c)
  /\ UNCHANGED <<known, reported, backups>>

-----------------------------------------------------------------------------
(* Reading and updating *)

\* snapshot: both files are parsed, and hashed afterwards.
Parse(c) ==
  /\ At(c, "parse")
  /\ client' = [client EXCEPT ![c].pc = "check", ![c].base = Read(disk)]
  /\ UnchangedDirectory
  /\ UNCHANGED <<lock, known, reported, backups>>

\* The revision of a read, which is answered with it.
Revise(c) ==
  /\ At(c, "check")
  /\ client[c].goal = "read"
  /\ Exit(c, Read(disk))
  /\ UnchangedDirectory
  /\ UNCHANGED <<known, reported, backups>>

\* A stale revision: the update is refused.
Stale(c) ==
  /\ \/ At(c, "check") /\ client[c].goal = "update"
     \/ At(c, "recheck")
  /\ client[c].seen # Read(disk)
  /\ Exit(c, None)
  /\ UnchangedDirectory
  /\ UNCHANGED <<known, reported, backups>>

\* Mutant of Check: the revision is not compared.
CheckNothing(c) ==
  /\ At(c, "check")
  /\ client[c].goal = "update"
  /\ IF c \in client[c].base.ini \cap client[c].base.sandbox
       THEN Goto(c, "answer") /\ UNCHANGED known
       ELSE /\ client' = [client EXCEPT ![c].pc = "recheck", ![c].mode = "commit",
                                        ![c].seen = Read(disk)]
            /\ known' = [known EXCEPT ![c] = client[c].seen.sandbox \cap Clients]
  /\ UnchangedDirectory
  /\ UNCHANGED <<lock, reported, backups>>

\* The first comparison; the changed files are written to synced temporary files, unless
\* the configuration contains the change already.
Check(c) ==
  /\ At(c, "check")
  /\ client[c].goal = "update"
  /\ client[c].seen = Read(disk)
  /\ IF c \in client[c].base.ini \cap client[c].base.sandbox
       THEN Goto(c, "answer") /\ UNCHANGED known
       ELSE /\ client' = [client EXCEPT ![c].pc = "recheck", ![c].mode = "commit"]
            /\ known' = [known EXCEPT ![c] = client[c].seen.sandbox \cap Clients]
  /\ UnchangedDirectory
  /\ UNCHANGED <<lock, reported, backups>>

\* Mutant of Recheck: the files are not compared again.
RecheckNothing(c) ==
  /\ At(c, "recheck")
  /\ Goto(c, "backup")
  /\ UnchangedDirectory
  /\ UNCHANGED <<lock, known, reported, backups>>

\* The comparison before the commit.
Recheck(c) ==
  /\ At(c, "recheck")
  /\ client[c].seen = Read(disk)
  /\ Goto(c, "backup")
  /\ UnchangedDirectory
  /\ UNCHANGED <<lock, known, reported, backups>>

\* The modification time of a file, and so of its backups: an update copies that of the
\* file it replaces, so it is the time of the last edit.
ModifiedAt(content) == Max({0} \cup (content \cap Edits))

\* create_backup: of all backups, Keep of the most recently modified remain.
Backup(c) ==
  /\ At(c, "backup")
  /\ LET all == backups \cup {[by |-> c, content |-> disk.ini]}
     IN  backups' \in {kept \in SUBSET all :
           /\ Cardinality(kept) = IF Cardinality(all) > Keep THEN Keep ELSE Cardinality(all)
           /\ \A b \in kept, stale \in all \ kept :
                ModifiedAt(stale.content) <= ModifiedAt(b.content)}
  /\ Goto(c, "copyIni")
  /\ UnchangedDirectory
  /\ UNCHANGED <<lock, known, reported>>

\* commit_transaction: the originals.
CopyOriginals(c) ==
  /\ \/ /\ At(c, "copyIni")
        /\ ~disk.journal /\ disk.iniOriginal = None /\ disk.sandboxOriginal = None
        /\ Change([disk EXCEPT !.iniOriginal = Copy(disk.ini)])
        /\ Goto(c, "copySandbox")
     \/ /\ At(c, "copySandbox")
        /\ Change([disk EXCEPT !.sandboxOriginal = Copy(disk.sandbox)])
        /\ Goto(c, "syncCopies")
  /\ UNCHANGED <<lock, known, reported, backups>>

\* Mutant of SyncCopies: the originals' data are not synced.
LeaveCopies(c) ==
  /\ At(c, "syncCopies")
  /\ Goto(c, "syncOriginals")
  /\ UnchangedDirectory
  /\ UNCHANGED <<lock, known, reported, backups>>

\* fsync of both originals, under whatever names they survive.
SyncCopies(c) ==
  /\ At(c, "syncCopies")
  /\ LET Written(d) ==
           [d EXCEPT !.iniOriginal = IF @ = disk.iniOriginal THEN Synced(@) ELSE @,
                     !.sandboxOriginal = IF @ = disk.sandboxOriginal THEN Synced(@) ELSE @]
     IN  disk' = Written(disk) /\ images' = {Written(d) : d \in images}
  /\ Goto(c, "syncOriginals")
  /\ UNCHANGED <<lock, known, reported, backups>>

\* The journal, whose own data were synced, is published.
Publish(c) ==
  /\ At(c, "journal")
  /\ Change([disk EXCEPT !.journal = TRUE])
  /\ Goto(c, "syncJournal")
  /\ UNCHANGED <<lock, known, reported, backups>>

\* Both files are replaced by the temporary files.
Replace(c) ==
  /\ \/ At(c, "replaceIni") /\ Change([disk EXCEPT !.ini = client[c].base.ini \cup {c}])
                            /\ Goto(c, "syncIni")
     \/ At(c, "replaceSandbox")
           /\ Change([disk EXCEPT !.sandbox = client[c].base.sandbox \cup {c}])
           /\ Goto(c, "syncSandbox")
  /\ UNCHANGED <<lock, known, reported, backups>>

\* The client is told that its update is applied, or that it changed nothing, and the
\* revision of the files.
Answer(c) ==
  /\ At(c, "answer")
  /\ reported' = IF client[c].mode = "commit" THEN reported \cup {c} ELSE reported
  /\ Exit(c, Read(disk))
  /\ UnchangedDirectory
  /\ UNCHANGED <<known, backups>>

-----------------------------------------------------------------------------
(* Failures and other programs *)

\* A call of the replacement fails: the commit undoes itself.
ReplaceFails(c) ==
  /\ client[c].pc \in {"replaceIni", "syncIni", "replaceSandbox", "syncSandbox"}
  /\ client' = [client EXCEPT ![c].pc = "recover", ![c].mode = "undo"]
  /\ UnchangedDirectory
  /\ UNCHANGED <<lock, known, reported, backups>>

\* Any other call fails, or the process is killed.
Killed(c) ==
  /\ ~At(c, "idle")
  /\ Exit(c, None)
  /\ UnchangedDirectory
  /\ UNCHANGED <<known, reported, backups>>

\* The power is lost: every process with it, and some of what was not synced.
PowerLoss ==
  /\ \E d \in Survivors :
       /\ disk' = d
       /\ images' = {d}
       /\ exposed' = exposed \cup ((1 .. edits) \ d.ini)
  /\ backups' \in SUBSET backups   \* they are not synced
  /\ client' = [c \in Clients |-> [client[c] EXCEPT !.pc = "idle", !.mode = "begin",
                                                    !.seen = None, !.base = Unread]]
  /\ lock' = None
  /\ editor' = None
  /\ UNCHANGED <<known, reported, edits>>

\* ini_set reads the server's file, and later replaces it, whatever became of it meanwhile.
EditBegins ==
  /\ editor = None
  /\ edits < MaxEdits
  /\ editor' = disk.ini
  /\ UnchangedDirectory
  /\ UNCHANGED <<lock, client, known, reported, backups, edits, exposed, faults>>

\* From the last comparison of an update until the new file is in place, or until its
\* journal is gone, an edit is overwritten.
Committing ==
  \/ disk.journal
  \/ \E c \in Clients : client[c].pc \in {"backup", "copyIni", "copySandbox", "syncCopies",
                                          "syncOriginals", "journal"}

EditEnds ==
  /\ editor # None
  /\ edits' = edits + 1
  /\ Change([disk EXCEPT !.ini = editor \cup {edits + 1}])
  /\ exposed' = IF Committing THEN exposed \cup {edits + 1} ELSE exposed
  /\ editor' = None
  /\ UNCHANGED <<lock, client, known, reported, backups, faults>>

-----------------------------------------------------------------------------
(* The specification *)

Prepare(c) == Discard(c) \/ Recover(c) \/ Restore(c) \/ Unlink(c) \/ SyncUnlinked(c)
Decide(c) == Parse(c) \/ Revise(c) \/ Stale(c) \/ Check(c) \/ Recheck(c)
Commit(c) == Backup(c) \/ CopyOriginals(c) \/ SyncCopies(c) \/ Publish(c) \/ Replace(c) \/ Answer(c)

\* A step of a process that has the lock.
Work(c) ==
  /\ Prepare(c) \/ Fsync(c) \/ Decide(c) \/ Commit(c)
  /\ UnchangedOthers

Request(c) == (Ask(c) \/ Acquire(c)) /\ UnchangedOthers

Fault ==
  /\ faults < MaxFaults
  /\ faults' = faults + 1
  /\ \/ \E c \in Clients : (ReplaceFails(c) \/ Killed(c)) /\ UNCHANGED <<editor, edits, exposed>>
     \/ PowerLoss

Next ==
  \/ \E c \in Clients : Request(c) \/ Work(c)
  \/ Fault
  \/ EditBegins
  \/ EditEnds

Spec == Init /\ [][Next]_vars

-----------------------------------------------------------------------------
(* Properties *)

\* What the next process will find after its recovery.
Committed(d) ==
  IF d.journal
    THEN [ini |-> d.iniOriginal.data, sandbox |-> d.sandboxOriginal.data]
    ELSE Read(d)

\* Whenever the power is lost, the journal is only there together with both originals and
\* their data, so that recover_transaction never gives up ("cannot be recovered
\* automatically").
Recoverable ==
  \A d \in Survivors :
    d.journal => /\ d.iniOriginal # None /\ d.iniOriginal.data # Torn
                 /\ d.sandboxOriginal # None /\ d.sandboxOriginal.data # Torn

\* An update is in both files or in neither, whatever interrupts it: the files, or the
\* originals of an unfinished commit, contain the same updates after every power loss; and
\* what a read or an update works on is such a configuration, never one in the middle of
\* somebody's commit or recovery.  (Before any edit: ini_set may write back a server's file
\* from before an update.)
Whole(d) == d.ini \cap Clients = d.sandbox \cap Clients

NeverHalfApplied ==
  edits = 0 =>
    /\ \A d \in Survivors : Whole(Committed(d))
    /\ \A c \in Clients : client[c].pc \in {"check", "recheck"} => Whole(client[c].base)

\* An update whose client was told so survives every crash, power loss, and the failure,
\* recovery or success of every other update.
Durable ==
  \A d \in Survivors : reported \subseteq Committed(d).sandbox

\* Of any two updates in the configuration, one client had seen the other's: no update was
\* made against a revision that lacks another one (expectedRevision).
Informed ==
  \A c, e \in disk.sandbox \cap Clients : c # e => c \in known[e] \/ e \in known[c]

\* An update overwrites no edit that was written before its last comparison of revisions,
\* and neither does a recovery: all edits but the exposed ones remain in the server's file.
EditsKept ==
  edits = Cardinality(exposed \cup (disk.ini \cap Edits))

\* "always write timestamped recovery backups before replacing prior state"
\* (docs/config-panel-design.md:103): an update that replaces the server's file has its
\* backup.
BackedUp ==
  \A c \in Clients :
    client[c].pc \in {"replaceIni", "syncIni", "replaceSandbox", "syncSandbox"} =>
      \E b \in backups : b.by = c /\ b.content = client[c].base.ini
=============================================================================
