----------------------------- MODULE ServiceUnit -----------------------------
(***************************************************************************)
(* The systemd unit of the game server and what acts on it: the game,      *)
(* systemd (Restart=always), the watchdog, and two scripts that may run at *)
(* the same time: the job of the host agent and the timer's mod update.    *)
(*                                                                         *)
(* A script stops the unit with graceful_stop_service and starts it with   *)
(* pz-boot-retry; `call` says where it is in them, and how they ended.     *)
(***************************************************************************)
EXTENDS Integers, FiniteSets

CONSTANTS
  MayFail,      \* what may go wrong
  MaxKinds,     \* bound: kinds of failures that a behaviour's properties excuse
  MaxAttempts   \* attempts of pz-boot-retry

Excused == {"stop", "boot", "move", "killed"}
Failures == Excused \cup {"hang", "game", "rcon", "steam", "backup", "download", "copy"}

ASSUME UnitAssumption == MayFail \subseteq Failures /\ MaxKinds \in Nat /\ MaxAttempts \in Nat \ {0}

VARIABLES
  server,     \* the unit: active while it is booting, hung or up (listening)
  call,       \* where each script is in its helper
  attempt,    \* attempts of its pz-boot-retry
  dog,        \* the watchdog samples the CPU
  halt,       \* history: a stop by a job holds, or somebody has started the unit since
  early,      \* history: who was about to start the unit when the job stopped it
  owed,       \* history: mods installed for a server that was started before
  failed      \* history: what has gone wrong

unitVars == <<server, call, attempt, dog, halt, early, owed, failed>>

Scripts == {"job", "timer"}
Starters == {"timer", "watchdog", "systemd"}

UnitTypeOK ==
  /\ server \in {"down", "booting", "hung", "up", "restarting"}
  /\ call \in [Scripts -> {"none", "halt", "stopped", "refused", "start", "watch", "sample",
                           "up", "failed"}]
  /\ attempt \in [Scripts -> 0 .. MaxAttempts]
  /\ dog \in BOOLEAN
  /\ halt \in {"none", "held", "broken"}
  /\ early \subseteq Starters
  /\ failed \subseteq Excused

UnitInit ==
  /\ server \in {"down", "up"}
  /\ call = [p \in Scripts |-> "none"] /\ attempt = [p \in Scripts |-> 0]
  /\ dog = FALSE
  /\ halt = "none" /\ early = {}
  /\ owed = {} /\ failed = {}

Active == server \in {"booting", "hung", "up"}
Listening == server = "up"

Fails(what) ==
  /\ what \in MayFail
  /\ failed' = failed \cup ({what} \cap Excused)
  /\ Cardinality(failed') <= MaxKinds

Goes(p, there) == call' = [call EXCEPT ![p] = there]

\* A script reads how its helper has ended, and goes on.
Returns(p) == Goes(p, "none") /\ UNCHANGED <<server, attempt, dog, halt, early, owed, failed>>

\* The unit is started: it loads what is installed now.
StartedBy(who) ==
  /\ server' = "booting"
  /\ owed' = {}
  /\ early' = {}
  /\ halt' = CASE who = "job" -> "none" [] who # "job" /\ halt = "none" -> "none"
               [] OTHER -> "broken"

-----------------------------------------------------------------------------
(* graceful_stop_service *)

\* History: who is on the way to start the unit when a job has found or made it inactive.
Underway ==
  {w \in Starters : \/ w = "timer" /\ call["timer"] \in {"halt", "stopped", "start", "watch", "sample"}
                    \/ w = "watchdog" /\ dog
                    \/ w = "systemd" /\ server = "restarting" /\ call["job"] = "none"}
Holds(p) == IF p = "job" THEN halt' = "held" /\ early' = Underway ELSE UNCHANGED <<halt, early>>

\* Only an active unit is stopped.
StopBegins(p) ==
  /\ call[p] = "none"
  /\ IF Active THEN Goes(p, "halt") /\ UNCHANGED <<halt, early>>
     ELSE Goes(p, "stopped") /\ Holds(p)
  /\ UNCHANGED <<server, attempt, dog, owed, failed>>

\* Mutant of Halt: a server that could not be saved counts as stopped.
HaltAnyway(p) ==
  /\ call[p] = "halt"
  /\ Goes(p, "stopped")
  /\ \/ server' = "down" /\ Holds(p) /\ UNCHANGED failed
     \/ Active /\ Fails("stop") /\ UNCHANGED <<server, halt, early>>
  /\ UNCHANGED <<attempt, dog, owed>>

\* save_world and systemctl stop: refused if the world of a listening server cannot be
\* saved, or the unit not be stopped.
Halt(p) ==
  /\ call[p] = "halt"
  /\ \/ server' = "down" /\ Goes(p, "stopped") /\ Holds(p) /\ UNCHANGED failed
     \/ Active /\ Fails("stop") /\ Goes(p, "refused") /\ UNCHANGED <<server, halt, early>>
  /\ UNCHANGED <<attempt, dog, owed>>

-----------------------------------------------------------------------------
(* pz-boot-retry *)

BootBegins(p) ==
  /\ Goes(p, "start")
  /\ attempt' = [attempt EXCEPT ![p] = 1]
  /\ UNCHANGED <<server, dog, halt, early, owed, failed>>

Restart(p) ==
  /\ call[p] = "start"
  /\ StartedBy(p)
  /\ Goes(p, "watch")
  /\ UNCHANGED <<attempt, dog, failed>>

GivesUp(p) == Goes(p, "failed") /\ attempt' = [attempt EXCEPT ![p] = 0]
Again(p) ==
  IF attempt[p] < MaxAttempts
    THEN Goes(p, "start") /\ attempt' = [attempt EXCEPT ![p] = @ + 1]
    ELSE GivesUp(p)

\* One of 40 polls.  A failed Workshop download ends it; a silent console is followed
\* by a sample of the CPU; a boot is waited for as long as 40 polls take.
Watch(p) ==
  /\ call[p] = "watch"
  /\ \/ Listening /\ Goes(p, "up") /\ attempt' = [attempt EXCEPT ![p] = 0] /\ UNCHANGED failed
     \/ ~Listening /\ Fails("boot") /\ (Again(p) \/ GivesUp(p))
     \/ server \in {"hung", "down"} /\ Goes(p, "sample") /\ UNCHANGED <<attempt, failed>>
  /\ UNCHANGED <<server, dog, halt, early, owed>>

\* 8 s later.  A unit that was stopped uses no CPU either.
Sample(p) ==
  /\ call[p] = "sample"
  /\ \/ Again(p)
     \/ server \in {"booting", "up"} /\ Goes(p, "watch") /\ UNCHANGED attempt
  /\ UNCHANGED <<server, dog, halt, early, owed, failed>>

BootRetry(p) == Restart(p) \/ Watch(p) \/ Sample(p)

-----------------------------------------------------------------------------
(* The watchdog, systemd and the game *)

\* Mutant of WatchdogLooks: it does not ask whether the unit is active.
WatchdogLooksAnyway ==
  /\ ~dog /\ server \in {"hung", "down"}
  /\ dog' = TRUE
  /\ UNCHANGED <<server, call, attempt, halt, early, owed, failed>>

\* A unit active for 6 minutes that does not listen, and whose console is as old.
WatchdogLooks ==
  /\ ~dog /\ server = "hung"
  /\ dog' = TRUE
  /\ UNCHANGED <<server, call, attempt, halt, early, owed, failed>>

\* 8 s later it restarts a unit that used no CPU, whether it is still active or not.
WatchdogEnds ==
  /\ dog
  /\ dog' = FALSE
  /\ \/ StartedBy("watchdog")
     \/ server \in {"booting", "up"} /\ UNCHANGED <<server, halt, early, owed>>
  /\ UNCHANGED <<call, attempt, failed>>

Boots ==
  /\ \/ server \in {"booting", "hung"} /\ server' = "up" /\ UNCHANGED failed
     \/ server = "booting" /\ Fails("hang") /\ server' = "hung"
  /\ UNCHANGED <<call, attempt, dog, halt, early, owed>>

\* The game crashes; systemd starts it again after RestartSec.
GameCrash ==
  /\ Active
  /\ Fails("game")
  /\ server' = "restarting"
  /\ UNCHANGED <<call, attempt, dog, halt, early, owed>>

AutoRestart ==
  /\ server = "restarting"
  /\ StartedBy("systemd")
  /\ UNCHANGED <<call, attempt, dog, failed>>

Unit ==
  \/ \E p \in Scripts : Halt(p) \/ BootRetry(p)
  \/ WatchdogLooks \/ WatchdogEnds
  \/ Boots \/ GameCrash \/ AutoRestart

-----------------------------------------------------------------------------
(* Properties *)

Started(w) ==
  CASE w = "timer" -> call["timer"] = "start" /\ call'["timer"] = "watch"
    [] w = "watchdog" -> dog /\ ~dog'
    [] w = "systemd" -> server = "restarting" /\ call' = call /\ dog' = dog

\* A unit that a job has stopped (pzctl stop, or the stop of a build update or restart)
\* stays down until a job starts it, but for those who were already about to start it:
\* the mod update in its own restart, a watchdog that samples, systemd in RestartSec.
StopHolds ==
  [][halt = "held" /\ halt' = "broken" => \E w \in early : Started(w)]_unitVars
=============================================================================
