------------------------------ MODULE ModUpdate ------------------------------
(***************************************************************************)
(* pz-modupdate.sh: Workshop items that are out of date are installed, and *)
(* the server restarted to load them, when the panel asks (apply), or by a *)
(* timer once the server has been empty for long enough (auto).            *)
(*                                                                         *)
(* An apply holds a lock of its own.  Time is counted in ticks of the      *)
(* timer, which does not start a tick before the last one has ended.       *)
(***************************************************************************)
EXTENDS ServiceUnit

CONSTANTS
  Items,        \* the Workshop items of the manifest
  EmptyTicks    \* MODUPDATE_EMPTY_MIN

ASSUME ModAssumption == EmptyTicks \in Nat

VARIABLES
  listed,     \* the items that a check would report
  pending,    \* PENDING is not empty
  emptyFor,   \* the age of EMPTY_SINCE, or Unset
  tick,       \* the place of the timer's do_auto
  apply,      \* the place of do_apply, who runs it, its --no-restart, and whether an item failed
  rows,       \* the items it has not come to yet
  quiet       \* history: ticks since one has counted players

modVars == <<listed, pending, emptyFor, tick, apply, rows, quiet>>

Unset == -1

ModTypeOK ==
  /\ listed \subseteq Items /\ rows \subseteq Items /\ owed \subseteq Items
  /\ pending \in BOOLEAN
  /\ emptyFor \in Unset .. EmptyTicks /\ quiet \in 0 .. EmptyTicks
  /\ tick \in {"idle", "look", "apply"}
  /\ apply \in [at : {"idle", "save", "items", "restart"}, by : Scripts,
                restart : BOOLEAN, bad : BOOLEAN]

ApplyIdle == [at |-> "idle", by |-> "timer", restart |-> FALSE, bad |-> FALSE]

ModInit ==
  /\ listed = {} /\ rows = {}
  /\ pending = FALSE
  /\ emptyFor = Unset /\ quiet = EmptyTicks
  /\ tick = "idle"
  /\ apply = ApplyIdle

-----------------------------------------------------------------------------
(* do_apply *)

\* It takes the lock and asks Steam what is out of date.
Busy == apply.at # "idle" \/ "steam" \in MayFail
NothingNew == apply.at = "idle" /\ listed = {}
Begins(who, restart) ==
  /\ apply.at = "idle" /\ listed # {}
  /\ apply' = [at |-> "save", by |-> who, restart |-> restart, bad |-> FALSE]
  /\ rows' = listed

\* It ends; a tick whose apply succeeds is done with what was pending.
Done(ok) ==
  /\ apply' = ApplyIdle /\ rows' = {}
  /\ tick' = IF apply.by = "timer" THEN "idle" ELSE tick
  /\ IF apply.by = "timer" /\ ok THEN pending' = FALSE /\ emptyFor' = Unset
     ELSE UNCHANGED <<pending, emptyFor>>
  /\ UNCHANGED <<listed, quiet>>

\* save_world and backup_world; nothing is installed without them.
Save ==
  /\ apply.at = "save"
  /\ \/ apply' = [apply EXCEPT !.at = "items"] /\ UNCHANGED <<listed, pending, emptyFor, tick, rows, quiet>>
     \/ ((Listening /\ "rcon" \in MayFail) \/ "backup" \in MayFail) /\ Done(FALSE)
  /\ UNCHANGED unitVars

\* install_workshop_item: a download that fails keeps the old files.  The item stays listed
\* when Steam does not tell its new time for the manifest.
Install(i) ==
  /\ apply.at = "items" /\ i \in rows
  /\ rows' = rows \ {i}
  /\ \/ /\ owed' = IF apply.restart THEN owed \cup {i} ELSE owed
        /\ \/ listed' = listed \ {i}
           \/ "steam" \in MayFail /\ UNCHANGED listed
        /\ UNCHANGED apply
     \/ /\ "download" \in MayFail
        /\ apply' = [apply EXCEPT !.bad = TRUE]
        /\ UNCHANGED <<listed, owed>>
  /\ UNCHANGED <<pending, emptyFor, tick, quiet>>
  /\ UNCHANGED <<server, call, attempt, dog, halt, early, failed>>

\* Mutant of Reload: a server that is still booting is not restarted.
ReloadListening ==
  /\ apply.at = "items" /\ rows = {}
  /\ IF apply.restart /\ Listening
       THEN /\ StopBegins(apply.by)
            /\ apply' = [apply EXCEPT !.at = "restart"]
            /\ UNCHANGED <<listed, pending, emptyFor, tick, rows, quiet>>
       ELSE Done(~apply.bad) /\ UNCHANGED unitVars

\* The restart, unless the server is stopped or the caller takes care of it.
Reload ==
  /\ apply.at = "items" /\ rows = {}
  /\ IF apply.restart /\ Active
       THEN /\ StopBegins(apply.by)
            /\ apply' = [apply EXCEPT !.at = "restart"]
            /\ UNCHANGED <<listed, pending, emptyFor, tick, rows, quiet>>
       ELSE Done(~apply.bad) /\ UNCHANGED unitVars

\* graceful_stop_service && pz-boot-retry
Reloaded ==
  /\ apply.at = "restart"
  /\ \/ call[apply.by] = "stopped" /\ BootBegins(apply.by) /\ UNCHANGED modVars
     \/ call[apply.by] = "up" /\ Returns(apply.by) /\ Done(~apply.bad)
     \/ call[apply.by] \in {"refused", "failed"} /\ Returns(apply.by) /\ Done(FALSE)

Apply == Save \/ (\E i \in Items : Install(i)) \/ Reload \/ Reloaded

-----------------------------------------------------------------------------
(* do_auto *)

Older(age) == IF age \in {Unset, EmptyTicks} THEN age ELSE age + 1

\* A tick; the check, when it is due, fails if Steam cannot be reached.
Tick ==
  /\ tick = "idle"
  /\ pending' \in {pending, listed # {}}
  /\ tick' = IF pending' THEN "look" ELSE "idle"
  /\ emptyFor' = Older(emptyFor) /\ quiet' = Older(quiet)
  /\ UNCHANGED <<listed, apply, rows>> /\ UNCHANGED unitVars

TimerApplies(restart) ==
  \/ Begins("timer", restart) /\ tick' = "apply" /\ UNCHANGED <<pending, emptyFor>>
  \/ NothingNew /\ tick' = "idle" /\ pending' = FALSE /\ emptyFor' = Unset /\ UNCHANGED <<apply, rows>>
  \/ Busy /\ tick' = "idle" /\ UNCHANGED <<pending, emptyFor, apply, rows>>

Waits == tick' = "idle" /\ UNCHANGED <<pending, apply, rows>>

\* Mutant of Look: a player does not reset the clock.
LookKeepsClock ==
  /\ tick = "look"
  /\ \/ ~Active /\ TimerApplies(FALSE) /\ UNCHANGED quiet
     \/ Listening /\ Waits /\ quiet' = 0 /\ UNCHANGED emptyFor
     \/ /\ Listening /\ UNCHANGED quiet
        /\ CASE emptyFor = Unset -> Waits /\ emptyFor' = 0
             [] emptyFor \in 0 .. EmptyTicks - 1 -> Waits /\ UNCHANGED emptyFor
             [] OTHER -> TimerApplies(TRUE)
  /\ UNCHANGED listed /\ UNCHANGED unitVars

\* A stopped server is updated at once.  One that does not listen, or whose players cannot
\* be counted, is left alone; players reset the clock, and an empty server sets it, waits,
\* or is updated.
Look ==
  /\ tick = "look"
  /\ \/ ~Active /\ TimerApplies(FALSE) /\ UNCHANGED quiet
     \/ /\ Active /\ (~Listening \/ "rcon" \in MayFail)
        /\ Waits /\ UNCHANGED <<emptyFor, quiet>>
     \/ Listening /\ Waits /\ emptyFor' = Unset /\ quiet' = 0
     \/ /\ Listening /\ UNCHANGED quiet
        /\ CASE emptyFor = Unset -> Waits /\ emptyFor' = 0
             [] emptyFor \in 0 .. EmptyTicks - 1 -> Waits /\ UNCHANGED emptyFor
             [] OTHER -> TimerApplies(TRUE)
  /\ UNCHANGED listed /\ UNCHANGED unitVars

\* An item has an update.
Publish ==
  /\ listed # Items
  /\ \E i \in Items \ listed : listed' = listed \cup {i}
  /\ UNCHANGED <<pending, emptyFor, tick, apply, rows, quiet>> /\ UNCHANGED unitVars

Mods == Apply \/ Tick \/ Look \/ Publish

-----------------------------------------------------------------------------
(* Properties *)

\* An update that is to restart the server leaves no server running that was started
\* before its items were installed, whoever starts or stops it meanwhile, unless the stop
\* was refused or the script killed: nothing restarts the server then.
UpdatesLoaded ==
  apply.at = "idle" /\ Active /\ failed \cap {"stop", "killed"} = {} => owed = {}

\* "any player sighting resets the clock" (docs/design.md:137-138): the timer restarts a server
\* only if no tick has counted players for as long as the server must be empty, whatever
\* stops, starts, unreachable consoles, checks and other updates came between.
QuietEnough ==
  [][tick = "look" /\ tick' = "apply" /\ apply'.restart => quiet = EmptyTicks]_modVars
=============================================================================
