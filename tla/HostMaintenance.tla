--------------------------- MODULE HostMaintenance ---------------------------
(***************************************************************************)
(* The game server of a host and everything that stops and starts it: the  *)
(* agent's jobs, one at a time (start, stop, restart, a build update, a    *)
(* mod update), the timer's mod update, the watchdog and systemd.          *)
(***************************************************************************)
EXTENDS BuildUpdate, ModUpdate

VARIABLES
  job,      \* the job other than a build update
  wanted    \* history: the last job that started or stopped the server started it

vars == <<unitVars, buildVars, modVars, job, wanted>>

TypeOK ==
  /\ UnitTypeOK /\ BuildTypeOK /\ ModTypeOK
  /\ job \in {"none", "start", "stop", "restart", "update", "apply"}
  /\ wanted \in BOOLEAN

Init ==
  /\ UnitInit /\ BuildInit /\ ModInit
  /\ job = "none"
  /\ wanted = (server = "up")

JobFree == job = "none" /\ pc = "idle"
Installed == UNCHANGED buildVars /\ UNCHANGED wanted

-----------------------------------------------------------------------------
(* The jobs *)

\* pzctl start: nothing is done for a server that listens.
StartJob ==
  /\ JobFree /\ ~Listening
  /\ job' = "start" /\ BootBegins("job")
  /\ Installed /\ UNCHANGED modVars

StopJob ==
  /\ JobFree
  /\ job' = "stop" /\ StopBegins("job")
  /\ Installed /\ UNCHANGED modVars

\* pzctl restart: with MODUPDATE_ON_RESTART the mods are updated first.
RestartJob ==
  /\ JobFree
  /\ \/ job' = "restart" /\ StopBegins("job") /\ UNCHANGED modVars
     \/ /\ job' = "update" /\ Begins("job", FALSE)
        /\ UNCHANGED <<listed, pending, emptyFor, tick, quiet>> /\ UNCHANGED unitVars
  /\ Installed

\* The panel's mod update, when it is not refused because of players.
ApplyJob ==
  /\ JobFree
  /\ job' = "apply"
  /\ \E restart \in BOOLEAN : Begins("job", restart)
  /\ Installed /\ UNCHANGED <<listed, pending, emptyFor, tick, quiet>> /\ UNCHANGED unitVars

\* A job's mod update ends, and the job with it, or it goes on to the restart.
Applied ==
  /\ job \in {"update", "apply"}
  /\ ~(apply.at # "idle" /\ apply.by = "job")
  /\ IF job = "apply" THEN job' = "none" /\ UNCHANGED unitVars
     ELSE job' = "restart" /\ StopBegins("job")
  /\ Installed /\ UNCHANGED modVars

\* The restart goes on after the stop; a job ends when its last helper has.
JobGoesOn ==
  /\ \/ job = "restart" /\ call["job"] = "stopped" /\ BootBegins("job") /\ UNCHANGED <<job, wanted>>
     \/ /\ job \in {"start", "stop", "restart"}
        /\ \/ call["job"] \in {"up", "failed", "refused"}
           \/ job = "stop" /\ call["job"] = "stopped"
        /\ wanted' = IF call["job"] = "refused" THEN wanted ELSE call["job"] # "stopped"
        /\ job' = "none" /\ Returns("job")
  /\ UNCHANGED buildVars /\ UNCHANGED modVars

\* The agent is restarted: its job is killed, and the lock of a mod update with it.
JobDies ==
  /\ job # "none" /\ JobKilled
  /\ job' = "none"
  /\ IF apply.by = "job" /\ apply.at # "idle" THEN Done(FALSE) ELSE UNCHANGED modVars
  /\ Installed

Jobs == StartJob \/ StopJob \/ RestartJob \/ ApplyJob \/ Applied \/ JobGoesOn \/ JobDies

Next ==
  \/ Jobs
  \/ job = "none" /\ (Begin \/ Update) /\ UNCHANGED modVars /\ UNCHANGED <<job, wanted>>
  \/ Mods /\ Installed /\ UNCHANGED job
  \/ Unit /\ Installed /\ UNCHANGED modVars /\ UNCHANGED job

Spec == Init /\ [][Next]_vars

-----------------------------------------------------------------------------
(* Properties *)

\* A server that was not stopped by a stop job is not left stopped by any update or
\* restart, whatever they answer, unless a boot fails, the agent's job is killed, or a build
\* update stops a server that it had just found inactive, because systemd or the timer's
\* update was about to start it: the update does not start it again then.
NotLeftDown ==
  JobFree /\ tick = "idle" /\ wanted /\ failed \cap {"boot", "killed"} = {}
    /\ server = "down" => halt = "held" /\ ~was
=============================================================================
