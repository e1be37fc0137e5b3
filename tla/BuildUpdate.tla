----------------------------- MODULE BuildUpdate -----------------------------
(***************************************************************************)
(* pz-build-update.sh: a new build of the game server is downloaded and    *)
(* swapped in, entry by entry, while the server is stopped; the old        *)
(* entries wait in a rollback directory until the new build has started.   *)
(*                                                                         *)
(* Root entries are those of the install directory, Meta entries those of  *)
(* its steamapps directory other than the Workshop.  A build is a number.  *)
(* An update is a job of the agent, which runs one at a time; it stops     *)
(* and starts the unit with the helpers of ServiceUnit.                    *)
(***************************************************************************)
EXTENDS ServiceUnit

CONSTANTS
  Root, Meta,   \* the entries of the install directory and of steamapps
  MaxUpdates    \* bound: updates

ASSUME BuildAssumption == Root \cap Meta = {} /\ MaxUpdates \in Nat

VARIABLES
  live,     \* the build of each installed entry
  saved,    \* the build of each entry of the rollback directory
  pc,       \* the script's place
  target,   \* the build being installed
  was,      \* was_active
  answer,   \* the result the update gives, or will give; "none" before
  before    \* history: the installed entries when the update began

buildVars == <<live, saved, pc, target, was, answer, before>>

Entries == Root \cup Meta
Builds == 0 .. MaxUpdates
Absent == -1
Torn == -2      \* an entry whose copy has failed half-way

\* The entries that a place of the swap works on, and the place that follows.
Part == [moveRoot |-> Root, copyRoot |-> Root, moveMeta |-> Meta, copyMeta |-> Meta]
Follows == [moveRoot |-> "copyRoot", copyRoot |-> "moveMeta", moveMeta |-> "copyMeta",
            copyMeta |-> "boot"]
Swap == DOMAIN Part

BuildTypeOK ==
  /\ live \in [Entries -> Builds \cup {Absent, Torn}]
  /\ saved \in [Entries -> Builds \cup {Absent, Torn}]
  /\ pc \in Swap \cup {"idle", "stop", "backup", "download", "boot", "delete", "restore", "resume"}
  /\ target \in Builds
  /\ was \in BOOLEAN
  /\ answer \in {"none", "blocked", "failed", "restored", "updated"}
  /\ before \in [Entries -> Builds \cup {Absent, Torn}]

Nothing == [e \in Entries |-> Absent]

BuildInit ==
  /\ live = [e \in Entries |-> 0]
  /\ before = live
  /\ saved = Nothing
  /\ pc = "idle"
  /\ target = 0
  /\ was = FALSE
  /\ answer = "none"

-----------------------------------------------------------------------------
(* Stopping, backup and download *)

Goto(there) == pc' = there

\* What a step that does nothing to the unit leaves alone, but for what may go wrong in it.
Apart == UNCHANGED <<server, call, attempt, dog, halt, early, owed>>

\* The update gives up: what it will answer, once the server is back.
GiveUp(reason) == answer' = reason /\ Goto("resume")

\* update_build up to the stop: players, or a count that is not known, block it.
Begin ==
  /\ pc = "idle"
  /\ target < MaxUpdates
  /\ target' = target + 1
  /\ was' = Active
  /\ before' = live
  /\ \/ answer' = "none" /\ Goto("stop")
     \/ Listening /\ answer' = "blocked" /\ UNCHANGED pc
  /\ UNCHANGED <<live, saved>> /\ UNCHANGED unitVars

\* graceful_stop_service, and what follows it.
Stop ==
  /\ pc = "stop"
  /\ \/ StopBegins("job") /\ UNCHANGED <<pc, answer>>
     \/ call["job"] = "stopped" /\ Returns("job") /\ Goto("backup") /\ UNCHANGED answer
     \/ call["job"] = "refused" /\ Returns("job") /\ Goto("idle") /\ answer' = "failed"
  /\ UNCHANGED <<live, saved, target, was, before>>

\* The world backup, and the download of the build to a directory of its own.
Fetch ==
  /\ \/ pc = "backup" /\ Goto("download") /\ UNCHANGED <<answer, failed>>
     \/ pc = "backup" /\ Fails("backup") /\ GiveUp("failed")
     \/ pc = "download" /\ Goto("moveRoot") /\ UNCHANGED <<answer, failed>>
     \/ pc = "download" /\ Fails("download") /\ GiveUp("failed")
  /\ Apart /\ UNCHANGED <<live, saved, target, was, before>>

-----------------------------------------------------------------------------
(* install_downloaded_build *)

\* An old entry moves to the rollback directory.
Move(e) ==
  /\ pc \in {"moveRoot", "moveMeta"}
  /\ e \in Part[pc]
  /\ live[e] # Absent
  /\ \/ /\ saved' = [saved EXCEPT ![e] = live[e]]
        /\ live' = [live EXCEPT ![e] = Absent]
        /\ UNCHANGED <<pc, answer, failed>>
     \/ /\ Fails("move")
        /\ Goto("delete") /\ answer' = "restored"
        /\ UNCHANGED <<live, saved>>
  /\ Apart /\ UNCHANGED <<target, was, before>>

\* A new entry is copied from the download; a copy that fails leaves a part of it.
Copy(e) ==
  /\ pc \in {"copyRoot", "copyMeta"}
  /\ e \in Part[pc]
  /\ live[e] = Absent
  /\ \/ live' = [live EXCEPT ![e] = target] /\ UNCHANGED <<pc, answer, failed>>
     \/ /\ Fails("copy")
        /\ live' = [live EXCEPT ![e] = Torn]
        /\ Goto("delete") /\ answer' = "restored"
  /\ Apart /\ UNCHANGED <<saved, target, was, before>>

\* Mutant of NextPart: the copies are not waited for.
NextPartEarly ==
  /\ pc \in Swap
  /\ pc \in {"moveRoot", "moveMeta"} => \A e \in Part[pc] : live[e] = Absent
  /\ Goto(Follows[pc])
  /\ UNCHANGED <<live, saved, target, was, answer, before>> /\ UNCHANGED unitVars

\* A loop over the entries ends; a download need not have a steamapps directory.
NextPart ==
  /\ pc \in Swap
  /\ \A e \in Part[pc] : (live[e] = Absent) = (pc \in {"moveRoot", "moveMeta"})
  /\ \/ Goto(Follows[pc])
     \/ pc = "copyRoot" /\ Goto("boot")
  /\ UNCHANGED <<live, saved, target, was, answer, before>> /\ UNCHANGED unitVars

\* restore_build_rollback, first half: whatever is installed is deleted.
Delete ==
  /\ pc = "delete"
  /\ live' = Nothing
  /\ Goto("restore")
  /\ UNCHANGED <<saved, target, was, answer, before>> /\ UNCHANGED unitVars

\* Mutant of Restore: the root entries are not moved back.
RestoreMeta ==
  /\ pc = "restore"
  /\ live' = [e \in Entries |-> IF e \in Meta THEN saved[e] ELSE live[e]]
  /\ saved' = Nothing
  /\ Goto("resume")
  /\ UNCHANGED <<target, was, answer, before>> /\ UNCHANGED unitVars

\* Second half: the rollback directory is moved back, as far as that works, and removed.
Restore ==
  /\ pc = "restore"
  /\ \/ live' = saved /\ UNCHANGED failed
     \/ /\ Fails("move")
        /\ \E lost \in SUBSET Entries :
             live' = [e \in Entries |-> IF e \in lost THEN Absent ELSE saved[e]]
  /\ saved' = Nothing
  /\ Goto("resume")
  /\ Apart /\ UNCHANGED <<target, was, answer, before>>

-----------------------------------------------------------------------------
(* Starting the server *)

\* The new build is started if the server was active, and kept if it starts.
Boot ==
  /\ pc = "boot"
  /\ \/ was /\ call["job"] = "none" /\ BootBegins("job") /\ UNCHANGED <<saved, pc, answer>>
     \/ /\ IF was THEN call["job"] = "up" /\ Returns("job") ELSE UNCHANGED unitVars
        /\ saved' = Nothing
        /\ answer' = "updated" /\ Goto("idle")
     \/ /\ call["job"] = "failed" /\ Returns("job")
        /\ answer' = "restored" /\ Goto("delete")
        /\ UNCHANGED saved
  /\ UNCHANGED <<live, target, was, before>>

\* Mutant of Resume: the server stays down.
ResumeNothing ==
  /\ pc = "resume"
  /\ Goto("idle")
  /\ UNCHANGED <<live, saved, target, was, answer, before>> /\ UNCHANGED unitVars

\* An update that has given up starts the server again if it was active
\* (start_after_failure), and answers whether that works or not.
Resume ==
  /\ pc = "resume"
  /\ \/ was /\ call["job"] = "none" /\ BootBegins("job") /\ UNCHANGED pc
     \/ /\ IF was THEN call["job"] \in {"up", "failed"} /\ Returns("job") ELSE UNCHANGED unitVars
        /\ Goto("idle")
  /\ UNCHANGED <<live, saved, target, was, answer, before>>

-----------------------------------------------------------------------------
(* The agent is restarted *)

\* Its job is killed with it: nothing reads the job's rollback directory.
JobKilled ==
  /\ Fails("killed")
  /\ call' = [call EXCEPT !["job"] = "none"]
  /\ attempt' = [attempt EXCEPT !["job"] = 0]
  /\ UNCHANGED <<server, dog, halt, early, owed>>

Killed ==
  /\ pc # "idle"
  /\ JobKilled
  /\ saved' = Nothing
  /\ answer' = "none"
  /\ Goto("idle")
  /\ UNCHANGED <<live, target, was, before>>

Update ==
  \/ Stop \/ Fetch
  \/ \E e \in Entries : Move(e) \/ Copy(e)
  \/ NextPart \/ Delete \/ Restore \/ Boot \/ Resume
  \/ Killed

BuildSpec ==
  /\ UnitInit /\ BuildInit
  /\ [][Begin \/ Update \/ (Unit /\ UNCHANGED buildVars)]_<<unitVars, buildVars>>

-----------------------------------------------------------------------------
(* Properties *)

\* A server that listens runs one build, whatever stop, download, copy or start has failed,
\* and the new one after an update that answered "updated", with metadata that are all new,
\* or all as before if the download had none; unless a move failed, a killed script has
\* left the swap half-way, or somebody who was about to start the server when the
\* update stopped it has done so (see StopHolds).  The code does not stop a new build that
\* has not started in time before it deletes it.
RunsOneBuild ==
  Listening /\ pc # "restore" /\ halt # "broken" /\ failed \cap {"move", "killed"} = {} =>
    \E b \in Builds :
      /\ \A e \in Root : live[e] = b
      /\ pc = "idle" /\ answer = "updated" =>
           /\ b = target
           /\ (\A e \in Meta : live[e] = target) \/ (\A e \in Meta : live[e] = before[e])

\* "a failed copy can restore the previous server build" (pz-build-update.sh:256), and the
\* result then says that "the previous build was restored" (line 259).
PreviousRestored ==
  pc = "idle" /\ answer = "restored" => live = before
=============================================================================
