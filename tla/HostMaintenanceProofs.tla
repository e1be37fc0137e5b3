------------------------ MODULE HostMaintenanceProofs ------------------------
(***************************************************************************)
(* Safety of what stops, starts and updates the game server, for any       *)
(* entries, mods, attempts and failures: a stop holds, updates are loaded, *)
(* one build runs, an empty server is updated, and none is left down.      *)
(*                                                                         *)
(* The invariant says who uses the unit's helpers, what the swap has done  *)
(* at each of its places, and who will start a server that is down.        *)
(***************************************************************************)
EXTENDS HostMaintenance, TLAPS

Without(kinds) == failed \cap kinds = {}

-----------------------------------------------------------------------------
(* Who uses the helpers *)

Booting == {"none", "start", "watch", "sample", "up", "failed"}
Stopping == {"none", "halt", "stopped", "refused"}

\* The mod update that the agent's job runs.
JobApplies == apply.at # "idle" /\ apply.by = "job"

TimerOK ==
  /\ tick = "apply" <=> (apply.at # "idle" /\ apply.by = "timer")
  /\ call["timer"] # "none" => apply.at = "restart" /\ apply.by = "timer"

JobOK ==
  /\ JobApplies => job \in {"update", "apply"} /\ (job = "update" => ~apply.restart)
  /\ pc # "idle" => job = "none"
  /\ call["job"] # "none" =>
       \/ job \in {"start", "stop", "restart"}
       \/ job = "none" /\ pc \in {"stop", "boot", "resume"}
       \/ job = "apply" /\ JobApplies /\ apply.at = "restart"
  /\ job = "stop" \/ pc = "stop" => call["job"] \in Stopping
  /\ pc \in {"boot", "resume"} => call["job"] \in Booting /\ (call["job"] # "none" => was)

-----------------------------------------------------------------------------
(* A stop *)

\* Whoever may start a unit that a job has stopped was about to.
HoldOK ==
  halt = "held" =>
    /\ ~Active
    /\ call["timer"] \in {"halt", "stopped", "start", "watch", "sample"} => "timer" \in early
    /\ dog => "watchdog" \in early
    /\ server = "restarting" => "systemd" \in early

\* The unit is not started by a job while it installs a build.
Swapping == {"backup", "download", "moveRoot", "copyRoot", "moveMeta", "copyMeta"}
SwapOK ==
  pc \in Swapping \/ (pc = "stop" /\ call["job"] = "stopped") => halt # "none"

-----------------------------------------------------------------------------
(* A mod update *)

\* The clock of the empty server is not ahead of what was seen of it.
ClockOK == emptyFor # Unset => emptyFor <= quiet

\* A server that runs on old items is about to be stopped.
OwedOK ==
  Active /\ owed # {} /\ Without({"stop", "killed"}) =>
    apply.restart /\ (apply.at = "items" \/ (apply.at = "restart" /\ call[apply.by] = "halt"))

-----------------------------------------------------------------------------
(* A build update *)

Is(entries, f, b) == \A e \in entries : f[e] = b
Same(entries, f, g) == \A e \in entries : f[e] = g[e]
OneBuild(f) == \E b \in Builds : Is(Root, f, b)

\* The metadata of a new build are new, or the download had none.
MetaOK == Is(Meta, live, target) \/ Same(Meta, live, before)

InstallOK ==
  /\ pc \in {"idle", "stop", "backup", "download", "resume"} => OneBuild(live)
  /\ pc # "idle" => OneBuild(before) /\ answer # "updated"
  /\ pc \in {"stop", "backup", "download"} => Same(Entries, live, before)
  /\ pc = "moveRoot" => \A e \in Root : \/ live[e] = before[e]
                                        \/ live[e] = Absent /\ saved[e] = before[e]
  /\ pc \in {"moveRoot", "copyRoot"} => Same(Meta, live, before)
  /\ pc \in {"copyRoot", "moveMeta", "copyMeta", "boot", "delete", "restore"} =>
       Same(Root, saved, before)
  /\ pc = "copyRoot" => \A e \in Root : live[e] \in {Absent, target}
  /\ pc \in {"moveMeta", "copyMeta", "boot"} => Is(Root, live, target)
  /\ pc = "copyMeta" => \A e \in Meta : live[e] \in {Absent, target}
  /\ pc = "boot" => MetaOK
  /\ pc = "delete" => halt # "none" \/ Is(Root, live, target)
  /\ pc = "idle" /\ answer = "updated" => Is(Root, live, target) /\ MetaOK

BuildOK == Without({"move", "killed"}) => InstallOK

-----------------------------------------------------------------------------
(* A server that is down *)

\* The server is to run, by the last job or by the one that has started it.
Wants ==
  \/ wanted
  \/ job \in {"start", "restart"} /\ call["job"] \in {"watch", "sample", "up", "failed"}

ByTimer == call["timer"] \in {"stopped", "start"}
ByJob ==
  \/ job # "none" /\ call["job"] \in {"stopped", "start"}
  \/ /\ was
     /\ \/ pc = "stop" /\ call["job"] = "stopped"
        \/ pc \in Swapping \cup {"delete", "restore"}
        \/ pc \in {"boot", "resume"} /\ call["job"] \in {"none", "start"}
Left == halt = "held" /\ ~was

DownOK ==
  server = "down" /\ Wants /\ Without({"boot", "killed"}) => ByTimer \/ ByJob \/ Left

IInv ==
  /\ TypeOK
  /\ TimerOK /\ JobOK /\ HoldOK /\ SwapOK
  /\ ClockOK /\ OwedOK /\ BuildOK /\ DownOK

-----------------------------------------------------------------------------
(* The helpers *)

Calls == {"none", "halt", "stopped", "refused", "start", "watch", "sample", "up", "failed"}

LEMMA Grow ==
  ASSUME NEW what, Fails(what)
  PROVE  failed \subseteq failed' /\ (failed \subseteq Excused => failed' \subseteq Excused)
BY DEF Fails, Excused

\* What has not gone wrong later had not gone wrong before.
LEMMA Earlier ==
  ASSUME failed \subseteq failed', NEW kinds, Without(kinds)'
  PROVE  Without(kinds)
BY DEF Without

LEMMA GoesThere ==
  ASSUME UnitTypeOK, NEW p \in Scripts, NEW there \in Calls, Goes(p, there)
  PROVE  /\ call' \in [Scripts -> Calls] /\ call'[p] = there
         /\ \A q \in Scripts : q # p => call'[q] = call[q]
         /\ p = "job" => call'["job"] = there /\ call'["timer"] = call["timer"]
         /\ p = "timer" => call'["timer"] = there /\ call'["job"] = call["job"]
BY DEF Goes, UnitTypeOK, Calls, Scripts

LEMMA CallTypes == UnitTypeOK <=> /\ server \in {"down", "booting", "hung", "up", "restarting"}
                                  /\ call \in [Scripts -> Calls]
                                  /\ attempt \in [Scripts -> 0 .. MaxAttempts]
                                  /\ dog \in BOOLEAN
                                  /\ halt \in {"none", "held", "broken"}
                                  /\ early \subseteq Starters
                                  /\ failed \subseteq Excused
BY DEF UnitTypeOK, Calls

\* The helper that starts the unit: the start holds no stop.
LEMMA StartedTypes ==
  ASSUME NEW who, StartedBy(who), halt \in {"none", "held", "broken"}
  PROVE  /\ server' = "booting" /\ owed' = {} /\ early' = {} /\ halt' \in {"none", "broken"}
         /\ who # "job" /\ halt # "none" => halt' = "broken"
BY DEF StartedBy

\* The helper that stops it.
LEMMA StopFacts ==
  ASSUME UnitTypeOK, NEW p \in Scripts, StopBegins(p)
  PROVE  /\ UnitTypeOK' /\ call[p] = "none" /\ UNCHANGED <<server, dog, owed, failed>>
         /\ \A q \in Scripts : q # p => call'[q] = call[q]
         /\ \/ Active /\ call'[p] = "halt" /\ UNCHANGED <<halt, early>>
            \/ ~Active /\ call'[p] = "stopped" /\ Holds(p)
<1>1. UNCHANGED <<server, attempt, dog, owed, failed>> /\ call[p] = "none"
  BY DEF StopBegins
<1>2. CASE Active
  <2>1. Goes(p, "halt") /\ UNCHANGED <<halt, early>>
    BY <1>2 DEF StopBegins
  <2>2. /\ call' \in [Scripts -> Calls] /\ call'[p] = "halt"
        /\ \A q \in Scripts : q # p => call'[q] = call[q]
    BY <2>1, GoesThere DEF Calls
  <2> QED
    BY <1>1, <1>2, <2>1, <2>2, CallTypes DEF UnitTypeOK, Calls
<1>3. CASE ~Active
  <2>1. Goes(p, "stopped") /\ Holds(p)
    BY <1>3 DEF StopBegins
  <2>2. /\ call' \in [Scripts -> Calls] /\ call'[p] = "stopped"
        /\ \A q \in Scripts : q # p => call'[q] = call[q]
    BY <2>1, GoesThere DEF Calls
  <2>3. halt' \in {"none", "held", "broken"} /\ early' \subseteq Starters
    BY <2>1, CallTypes DEF Holds, Underway
  <2> QED
    BY <1>1, <1>3, <2>1, <2>2, <2>3, CallTypes DEF UnitTypeOK, Calls
<1> QED
  BY <1>2, <1>3

-----------------------------------------------------------------------------
(* Steps of the unit *)

\* What a step of the unit leaves alone.
LEMMA UnitFrame ==
  ASSUME IInv, UnitTypeOK', Installed, UNCHANGED modVars, UNCHANGED job,
         owed' \in {owed, {}}, failed \subseteq failed',
         pc = "delete" /\ halt # "none" => halt' # "none"
  PROVE  TypeOK' /\ ClockOK' /\ BuildOK'
<1>1. TypeOK' /\ ClockOK'
  BY DEF IInv, TypeOK, BuildTypeOK, ModTypeOK, ClockOK, Installed, modVars, buildVars
<1>2. BuildOK'
  <2>1. SUFFICES ASSUME Without({"move", "killed"})' PROVE InstallOK'
    BY DEF BuildOK
  <2>2. InstallOK
    BY <2>1, Earlier DEF IInv, BuildOK
  <2>3. UNCHANGED <<live, saved, pc, target, answer, before>>
    BY DEF Installed, buildVars
  <2> QED
    BY <2>2, <2>3 DEF InstallOK, OneBuild, Is, Same, MetaOK
<1> QED
  BY <1>1, <1>2

LEMMA HaltStep ==
  ASSUME IInv, NEW p \in Scripts, Halt(p), Installed, UNCHANGED modVars, UNCHANGED job
  PROVE  IInv'
<1> USE DEF Scripts
<1>0. /\ call[p] = "halt" /\ UnitTypeOK /\ call \in [Scripts -> Calls]
      /\ UNCHANGED <<attempt, dog, owed, pc, was, wanted, job, apply, tick>>
  BY CallTypes DEF Halt, IInv, TypeOK, Installed, modVars, buildVars
<1>1. CASE server' = "down" /\ Goes(p, "stopped") /\ Holds(p) /\ UNCHANGED failed
  <2>1. /\ call' \in [Scripts -> Calls]
        /\ p = "job" => call'["job"] = "stopped" /\ call'["timer"] = call["timer"]
        /\ p = "timer" => call'["timer"] = "stopped" /\ call'["job"] = call["job"]
    BY <1>0, <1>1, GoesThere DEF Calls
  <2>2. /\ p = "job" => halt' = "held" /\ early' = Underway
        /\ p = "timer" => halt' = halt /\ early' = early
    BY <1>1 DEF Holds
  <2>3. UnitTypeOK'
    BY <1>0, <1>1, <2>1, <2>2, CallTypes DEF Underway, Starters, UnitTypeOK, Calls
  <2>4. TypeOK' /\ ClockOK' /\ BuildOK'
    BY <1>0, <1>1, <2>2, <2>3, UnitFrame
  <2>5. TimerOK'
    BY <1>0, <2>1 DEF IInv, TimerOK
  <2>6. JobOK'
    BY <1>0, <2>1 DEF IInv, JobOK, JobApplies, Stopping, Booting
  <2>7. HoldOK'
    BY <1>0, <1>1, <2>1, <2>2 DEF IInv, HoldOK, Active, Underway, Starters
  <2>8. SwapOK'
    BY <1>0, <2>1, <2>2 DEF IInv, SwapOK, Swapping
  <2>9. OwedOK'
    BY <1>1 DEF OwedOK, Active
  <2>10. DownOK'
    BY <1>0, <1>1, <2>1, <2>2 DEF IInv, DownOK, ByTimer, ByJob, Left, JobOK, TimerOK, Booting
  <2> QED
    BY <2>4, <2>5, <2>6, <2>7, <2>8, <2>9, <2>10 DEF IInv
<1>2. CASE Active /\ Fails("stop") /\ Goes(p, "refused") /\ UNCHANGED <<server, halt, early>>
  <2>1. /\ call' \in [Scripts -> Calls]
        /\ p = "job" => call'["job"] = "refused" /\ call'["timer"] = call["timer"]
        /\ p = "timer" => call'["timer"] = "refused" /\ call'["job"] = call["job"]
    BY <1>0, <1>2, GoesThere DEF Calls
  <2>2. "stop" \in failed' /\ failed \subseteq failed' /\ failed' \subseteq Excused
    BY <1>0, <1>2, Grow, CallTypes DEF Fails, Excused
  <2>3. UnitTypeOK'
    BY <1>0, <1>2, <2>1, <2>2, CallTypes DEF UnitTypeOK, Calls
  <2>4. TypeOK' /\ ClockOK' /\ BuildOK'
    BY <1>0, <1>2, <2>2, <2>3, UnitFrame
  <2>5. TimerOK'
    BY <1>0, <2>1 DEF IInv, TimerOK
  <2>6. JobOK'
    BY <1>0, <2>1 DEF IInv, JobOK, JobApplies, Stopping, Booting
  <2>7. HoldOK'
    BY <1>2 DEF IInv, HoldOK, Active
  <2>8. SwapOK'
    BY <1>0, <1>2, <2>1 DEF IInv, SwapOK, Swapping
  <2>9. OwedOK'
    BY <2>2 DEF OwedOK, Without
  <2>10. DownOK'
    BY <1>2 DEF DownOK, Active
  <2> QED
    BY <2>4, <2>5, <2>6, <2>7, <2>8, <2>9, <2>10 DEF IInv
<1> QED
  BY <1>1, <1>2 DEF Halt

LEMMA RestartStep ==
  ASSUME IInv, NEW p \in Scripts, Restart(p), Installed, UNCHANGED modVars, UNCHANGED job
  PROVE  IInv'
<1> USE DEF Scripts
<1>0. /\ call[p] = "start" /\ UnitTypeOK /\ call \in [Scripts -> Calls]
      /\ StartedBy(p) /\ Goes(p, "watch")
      /\ UNCHANGED <<attempt, dog, failed, pc, was, wanted, job, apply, tick>>
  BY CallTypes DEF Restart, IInv, TypeOK, Installed, modVars, buildVars
<1>1. /\ call' \in [Scripts -> Calls]
      /\ p = "job" => call'["job"] = "watch" /\ call'["timer"] = call["timer"]
      /\ p = "timer" => call'["timer"] = "watch" /\ call'["job"] = call["job"]
  BY <1>0, GoesThere DEF Calls
<1>2. /\ server' = "booting" /\ owed' = {} /\ early' = {} /\ halt' \in {"none", "broken"}
      /\ p # "job" /\ halt # "none" => halt' = "broken"
  BY <1>0, CallTypes, StartedTypes
<1>3. p = "job" => pc \notin Swapping \cup {"stop", "delete"}
  BY <1>0 DEF IInv, JobOK, Swapping, Stopping
<1>4. UnitTypeOK'
  BY <1>0, <1>1, <1>2, CallTypes DEF UnitTypeOK, Calls
<1>5. TypeOK' /\ ClockOK' /\ BuildOK'
  BY <1>0, <1>2, <1>3, <1>4, UnitFrame
<1>6. TimerOK'
  BY <1>0, <1>1 DEF IInv, TimerOK
<1>7. JobOK'
  BY <1>0, <1>1 DEF IInv, JobOK, JobApplies, Stopping, Booting
<1>8. HoldOK' /\ OwedOK' /\ DownOK'
  BY <1>2 DEF HoldOK, OwedOK, DownOK
<1>9. SwapOK'
  BY <1>0, <1>1, <1>2, <1>3 DEF IInv, SwapOK
<1> QED
  BY <1>5, <1>6, <1>7, <1>8, <1>9 DEF IInv

\* The steps of pz-boot-retry that only look at the unit.
LEMMA LookOn ==
  ASSUME IInv, NEW p \in Scripts, NEW there \in Booting \ {"none"},
         call[p] \in {"watch", "sample"}, Goes(p, there),
         attempt' \in [Scripts -> 0 .. MaxAttempts],
         failed \subseteq failed', failed' \subseteq Excused,
         UNCHANGED <<server, dog, halt, early, owed>>,
         Installed, UNCHANGED modVars, UNCHANGED job
  PROVE  IInv'
<1> USE DEF Scripts
<1>0. /\ UnitTypeOK /\ call \in [Scripts -> Calls] /\ there \in Calls
      /\ UNCHANGED <<pc, was, wanted, job, apply, tick>>
  BY CallTypes DEF IInv, TypeOK, Installed, modVars, buildVars, Booting, Calls
<1>1. /\ call' \in [Scripts -> Calls]
      /\ p = "job" => call'["job"] = there /\ call'["timer"] = call["timer"]
      /\ p = "timer" => call'["timer"] = there /\ call'["job"] = call["job"]
  BY <1>0, GoesThere
<1>2. UnitTypeOK'
  BY <1>0, <1>1, CallTypes DEF UnitTypeOK, Calls
<1>3. TypeOK' /\ ClockOK' /\ BuildOK'
  BY <1>0, <1>2, UnitFrame
<1>4. TimerOK'
  BY <1>0, <1>1 DEF IInv, TimerOK, Booting
<1>5. JobOK'
  BY <1>0, <1>1 DEF IInv, JobOK, JobApplies, Stopping, Booting
<1>6. HoldOK'
  BY <1>0, <1>1 DEF IInv, HoldOK, Active, Booting
<1>7. SwapOK'
  BY <1>0, <1>1 DEF IInv, SwapOK, Swapping, Booting
<1>8. OwedOK'
  <2>1. SUFFICES ASSUME Active, owed # {}, Without({"stop", "killed"})'
                 PROVE  /\ apply.restart
                        /\ apply.at = "items" \/ (apply.at = "restart" /\ call'[apply.by] = "halt")
    BY <1>0 DEF OwedOK, Active
  <2>2. Without({"stop", "killed"})
    BY <2>1, Earlier
  <2>3. apply.by \in Scripts
    BY DEF IInv, TypeOK, ModTypeOK
  <2> QED
    BY <1>0, <1>1, <2>1, <2>2, <2>3 DEF IInv, OwedOK
<1>9. DownOK'
  <2>1. SUFFICES ASSUME server = "down", Wants', Without({"boot", "killed"})'
                 PROVE  (ByTimer \/ ByJob \/ Left)'
    BY DEF DownOK
  <2>2. Without({"boot", "killed"})
    BY <2>1, Earlier
  <2>3. Wants
    BY <1>0, <1>1, <2>1 DEF Wants, IInv, JobOK, Booting
  <2>4. ByTimer \/ ByJob \/ Left
    BY <2>1, <2>2, <2>3 DEF IInv, DownOK
  <2> QED
    BY <1>0, <1>1, <2>4 DEF IInv, JobOK, ByTimer, ByJob, Left, Swapping
<1> QED
  BY <1>3, <1>4, <1>5, <1>6, <1>7, <1>8, <1>9 DEF IInv

LEMMA WatchStep ==
  ASSUME IInv, NEW p \in Scripts, Watch(p) \/ Sample(p), Installed, UNCHANGED modVars,
         UNCHANGED job
  PROVE  IInv'
<1>0. /\ call[p] \in {"watch", "sample"} /\ attempt \in [Scripts -> 0 .. MaxAttempts]
      /\ MaxAttempts \in Nat /\ failed \subseteq Excused
      /\ UNCHANGED <<server, dog, halt, early, owed>>
  BY UnitAssumption DEF Watch, Sample, IInv, TypeOK, UnitTypeOK
<1>1. failed' = failed \/ Fails("boot")
  BY DEF Watch, Sample
<1>2. failed \subseteq failed' /\ failed' \subseteq Excused
  BY <1>0, <1>1, Grow
<1>3. \/ Again(p) \/ GivesUp(p)
      \/ \E there \in {"up", "sample", "watch"} :
           Goes(p, there) /\ attempt' \in {attempt, [attempt EXCEPT ![p] = 0]}
  BY DEF Watch, Sample
<1>4. PICK there \in Booting \ {"none"} :
        Goes(p, there) /\ attempt' \in [Scripts -> 0 .. MaxAttempts]
  <2>1. CASE Again(p)
    BY <1>0, <2>1 DEF Again, GivesUp, Booting
  <2>2. CASE GivesUp(p)
    BY <1>0, <2>2 DEF GivesUp, Booting
  <2>3. CASE \E there \in {"up", "sample", "watch"} :
               Goes(p, there) /\ attempt' \in {attempt, [attempt EXCEPT ![p] = 0]}
    BY <1>0, <2>3 DEF Booting
  <2> QED
    BY <1>3, <2>1, <2>2, <2>3
<1> QED
  BY <1>0, <1>2, <1>4, LookOn

\* The watchdog, systemd and the game, which use no helper.
LEMMA OthersStep ==
  ASSUME IInv, WatchdogLooks \/ WatchdogEnds \/ Boots \/ GameCrash \/ AutoRestart,
         Installed, UNCHANGED modVars, UNCHANGED job
  PROVE  IInv'
<1>0. /\ UnitTypeOK /\ failed \subseteq Excused
      /\ UNCHANGED <<call, attempt, pc, was, wanted, job, apply, tick>>
  BY DEF WatchdogLooks, WatchdogEnds, Boots, GameCrash, AutoRestart, IInv, TypeOK, UnitTypeOK,
         Installed, modVars, buildVars
<1>1. failed \subseteq failed' /\ failed' \subseteq Excused
  <2>1. failed' = failed \/ Fails("hang") \/ Fails("game")
    BY DEF WatchdogLooks, WatchdogEnds, Boots, GameCrash, AutoRestart
  <2> QED
    BY <1>0, <2>1, Grow
<1>2. \/ /\ StartedBy("watchdog") \/ StartedBy("systemd")
         /\ dog' \in BOOLEAN
      \/ /\ WatchdogLooks \/ (dog' = FALSE /\ UNCHANGED server) \/ Boots \/ GameCrash
         /\ UNCHANGED <<halt, early, owed>>
  BY <1>0 DEF WatchdogLooks, WatchdogEnds, Boots, GameCrash, AutoRestart, UnitTypeOK
<1>3. TimerOK' /\ JobOK'
  BY <1>0 DEF IInv, TimerOK, JobOK, JobApplies, Stopping, Booting
<1>4. CASE (StartedBy("watchdog") \/ StartedBy("systemd")) /\ dog' \in BOOLEAN
  <2>1. /\ server' = "booting" /\ owed' = {} /\ early' = {} /\ halt' \in {"none", "broken"}
        /\ halt # "none" => halt' = "broken"
    BY <1>0, <1>4, StartedTypes DEF UnitTypeOK
  <2>2. UnitTypeOK'
    BY <1>0, <1>1, <1>4, <2>1 DEF UnitTypeOK
  <2>3. TypeOK' /\ ClockOK' /\ BuildOK'
    BY <1>1, <2>1, <2>2, UnitFrame
  <2>4. HoldOK' /\ OwedOK' /\ DownOK'
    BY <2>1 DEF HoldOK, OwedOK, DownOK
  <2>5. SwapOK'
    BY <1>0, <2>1 DEF IInv, SwapOK, Swapping
  <2> QED
    BY <1>3, <2>3, <2>4, <2>5 DEF IInv
<1>5. CASE /\ WatchdogLooks \/ (dog' = FALSE /\ UNCHANGED server) \/ Boots \/ GameCrash
           /\ UNCHANGED <<halt, early, owed>>
  <2>1. /\ server' \in {"booting", "hung", "up", "restarting", server} /\ dog' \in BOOLEAN
        /\ server' = "restarting" => Active \/ server' = server
        /\ Active' => Active
        /\ dog' => dog \/ Active
        /\ server' # server => Active
    BY <1>0, <1>5 DEF WatchdogLooks, Boots, GameCrash, Active, UnitTypeOK
  <2>2. UnitTypeOK'
    BY <1>0, <1>1, <1>5, <2>1 DEF UnitTypeOK
  <2>3. TypeOK' /\ ClockOK' /\ BuildOK'
    BY <1>1, <1>5, <2>2, UnitFrame
  <2>4. HoldOK'
    BY <1>0, <1>5, <2>1 DEF IInv, HoldOK
  <2>5. SwapOK'
    BY <1>0, <1>5 DEF IInv, SwapOK, Swapping
  <2>6. OwedOK'
    <3>1. SUFFICES ASSUME Active', owed # {}, Without({"stop", "killed"})'
                   PROVE  /\ apply.restart
                          /\ apply.at = "items" \/ (apply.at = "restart" /\ call[apply.by] = "halt")
      BY <1>0, <1>5 DEF OwedOK
    <3>2. Without({"stop", "killed"})
      BY <1>1, <3>1, Earlier
    <3> QED
      BY <2>1, <3>1, <3>2 DEF IInv, OwedOK
  <2>7. DownOK'
    <3>1. SUFFICES ASSUME server' = "down", Wants', Without({"boot", "killed"})'
                   PROVE  (ByTimer \/ ByJob \/ Left)'
      BY DEF DownOK
    <3>2. Without({"boot", "killed"})
      BY <1>1, <3>1, Earlier
    <3>3. Wants /\ server = "down"
      BY <1>0, <2>1, <3>1 DEF Wants
    <3> QED
      BY <1>0, <1>5, <3>2, <3>3 DEF IInv, DownOK, ByTimer, ByJob, Left, Swapping
  <2> QED
    BY <1>3, <2>3, <2>4, <2>5, <2>6, <2>7 DEF IInv
<1> QED
  BY <1>2, <1>4, <1>5

LEMMA UnitStep ==
  ASSUME IInv, Unit, Installed, UNCHANGED modVars, UNCHANGED job
  PROVE  IInv'
BY HaltStep, RestartStep, WatchStep, OthersStep DEF Unit, BootRetry

-----------------------------------------------------------------------------
(* Steps of a build update *)

\* What a step of the swap leaves alone that does nothing to the unit.
LEMMA BuildFrame ==
  ASSUME IInv, BuildTypeOK', JobOK', SwapOK', BuildOK', DownOK',
         UNCHANGED <<server, call, attempt, dog, halt, early, owed, job, wanted>>,
         failed \subseteq failed', failed' \subseteq Excused, UNCHANGED modVars
  PROVE  IInv'
<1>1. TypeOK'
  BY DEF IInv, TypeOK, UnitTypeOK, ModTypeOK, modVars
<1>2. TimerOK' /\ HoldOK' /\ ClockOK'
  BY DEF IInv, TimerOK, HoldOK, Active, ClockOK, modVars
<1>3. OwedOK'
  <2>1. SUFFICES ASSUME Active, owed # {}, Without({"stop", "killed"})'
                 PROVE  /\ apply.restart
                        /\ apply.at = "items" \/ (apply.at = "restart" /\ call[apply.by] = "halt")
    BY DEF OwedOK, Active, modVars
  <2>2. Without({"stop", "killed"})
    BY <2>1, Earlier
  <2> QED
    BY <2>1, <2>2 DEF IInv, OwedOK
<1> QED
  BY <1>1, <1>2, <1>3 DEF IInv

\* A server that is down stays so, and who is to start it goes on.
LEMMA DownFrame ==
  ASSUME DownOK, UNCHANGED <<server, call, halt, job>>, failed \subseteq failed', Wants' => Wants,
         ByJob => (ByJob \/ Left)', Left => Left'
  PROVE  DownOK'
<1>1. SUFFICES ASSUME server = "down", Wants', Without({"boot", "killed"})'
               PROVE  (ByTimer \/ ByJob \/ Left)'
  BY DEF DownOK
<1>2. Without({"boot", "killed"})
  BY <1>1, Earlier
<1>3. ByTimer \/ ByJob \/ Left
  BY <1>1, <1>2 DEF DownOK
<1> QED
  BY <1>3 DEF ByTimer

\* The installed entries, and what has gone wrong, stay as they are.
LEMMA InstallFrame ==
  ASSUME BuildOK, failed \subseteq failed', InstallOK /\ Without({"move", "killed"})' => InstallOK'
  PROVE  BuildOK'
BY Earlier DEF BuildOK

LEMMA BeginStep ==
  ASSUME IInv, Begin, job = "none", UNCHANGED modVars, UNCHANGED <<job, wanted>>
  PROVE  IInv'
<1>0. /\ pc = "idle" /\ target' = target + 1 /\ target < MaxUpdates /\ was' = Active
      /\ before' = live /\ pc' \in {"stop", "idle"} /\ answer' \in {"none", "blocked"}
      /\ UNCHANGED <<live, saved>>
      /\ UNCHANGED <<server, call, attempt, dog, halt, early, owed, failed>>
      /\ failed \subseteq Excused /\ BuildTypeOK
  BY DEF Begin, Goto, unitVars, IInv, TypeOK, UnitTypeOK
<1>1. BuildTypeOK'
  BY <1>0, BuildAssumption DEF BuildTypeOK, Builds, Active
<1>2. call["job"] = "none"
  BY <1>0 DEF IInv, JobOK, JobApplies
<1>3. JobOK'
  BY <1>0, <1>2 DEF IInv, JobOK, JobApplies, Stopping, modVars
<1>4. SwapOK'
  BY <1>0, <1>2 DEF SwapOK, Swapping
<1>5. BuildOK'
  BY <1>0, InstallFrame DEF IInv, InstallOK, OneBuild, Is, Same
<1>6. DownOK'
  <2>1. Wants' => Wants
    BY <1>0 DEF Wants
  <2>2. ~ByJob
    BY <1>0, <1>2 DEF ByJob, Swapping
  <2>3. CASE server = "down"
    BY <1>0, <2>1, <2>2, <2>3, DownFrame DEF IInv, Left, Active
  <2>4. CASE server # "down"
    BY <1>0, <2>4 DEF DownOK
  <2> QED
    BY <2>3, <2>4
<1> QED
  BY <1>0, <1>1, <1>3, <1>4, <1>5, <1>6, BuildFrame

\* The stop of a build update: its steps in the unit are HaltStep.
LEMMA StopStep ==
  ASSUME IInv, Stop, job = "none", UNCHANGED modVars, UNCHANGED <<job, wanted>>
  PROVE  IInv'
<1> USE DEF Scripts
<1>0. /\ pc = "stop" /\ UnitTypeOK /\ BuildTypeOK /\ call \in [Scripts -> Calls]
      /\ call["job"] \in Stopping
      /\ UNCHANGED <<live, saved, target, was, before>>
  BY CallTypes DEF Stop, IInv, TypeOK, JobOK
<1>1. CASE StopBegins("job") /\ UNCHANGED <<pc, answer>>
  <2>1. /\ UnitTypeOK' /\ call["job"] = "none" /\ UNCHANGED <<server, dog, owed, failed>>
        /\ call'["timer"] = call["timer"]
        /\ \/ Active /\ call'["job"] = "halt" /\ UNCHANGED <<halt, early>>
           \/ ~Active /\ call'["job"] = "stopped" /\ halt' = "held" /\ early' = Underway
    BY <1>0, <1>1, StopFacts DEF Holds
  <2>2. Installed /\ UNCHANGED job
    BY <1>0, <1>1 DEF Installed, buildVars
  <2>3. TypeOK' /\ ClockOK' /\ BuildOK'
    BY <1>0, <2>1, <2>2, UnitFrame
  <2>4. TimerOK'
    BY <2>1 DEF IInv, TimerOK, modVars
  <2>5. JobOK'
    BY <1>0, <1>1, <2>1 DEF IInv, JobOK, JobApplies, Stopping, modVars
  <2>6. HoldOK'
    BY <2>1 DEF IInv, HoldOK, Active, Underway, Starters
  <2>7. SwapOK'
    BY <1>0, <1>1, <2>1 DEF IInv, SwapOK, Swapping
  <2>8. OwedOK'
    BY <2>1 DEF IInv, OwedOK, Active, Without, modVars, TimerOK, ModTypeOK, TypeOK
  <2>9. DownOK'
    BY <1>0, <1>1, <2>1 DEF IInv, DownOK, Active, Wants, ByTimer, ByJob, Left, Without
  <2> QED
    BY <2>3, <2>4, <2>5, <2>6, <2>7, <2>8, <2>9 DEF IInv
<1>2. CASE call["job"] \in {"stopped", "refused"} /\ Returns("job")
  <2>1. /\ UNCHANGED <<server, attempt, dog, halt, early, owed, failed>>
        /\ call' \in [Scripts -> Calls] /\ call'["job"] = "none" /\ call'["timer"] = call["timer"]
    BY <1>0, <1>2, GoesThere DEF Returns, Calls
  <2>2. \/ call["job"] = "stopped" /\ pc' = "backup" /\ answer' = answer
        \/ call["job"] = "refused" /\ pc' = "idle" /\ answer' = "failed"
    BY <1>0, <1>2, <2>1 DEF Stop, Goto, StopBegins
  <2>3. TypeOK'
    BY <1>0, <2>1, <2>2 DEF IInv, TypeOK, UnitTypeOK, Calls, BuildTypeOK, ModTypeOK, modVars
  <2>4. TimerOK' /\ HoldOK' /\ ClockOK'
    BY <2>1 DEF IInv, TimerOK, HoldOK, Active, ClockOK, modVars
  <2>5. JobOK'
    BY <1>0, <2>1, <2>2 DEF IInv, JobOK, JobApplies, Stopping, modVars
  <2>6. SwapOK'
    BY <1>0, <2>1, <2>2 DEF IInv, SwapOK, Swapping
  <2>7. OwedOK'
    BY <1>2, <2>1 DEF IInv, OwedOK, Active, Without, modVars, ModTypeOK, TypeOK
  <2>8. BuildOK'
    BY <1>0, <2>1, <2>2, InstallFrame DEF IInv, InstallOK, OneBuild, Is, Same
  <2>9. DownOK'
    BY <1>0, <2>1, <2>2 DEF IInv, DownOK, Wants, ByTimer, ByJob, Left, Swapping, Without
  <2> QED
    BY <2>3, <2>4, <2>5, <2>6, <2>7, <2>8, <2>9 DEF IInv
<1> QED
  BY <1>1, <1>2 DEF Stop

LEMMA SwapPlaces ==
  /\ Swap = {"moveRoot", "copyRoot", "moveMeta", "copyMeta"}
  /\ Part["moveRoot"] = Root /\ Part["copyRoot"] = Root
  /\ Part["moveMeta"] = Meta /\ Part["copyMeta"] = Meta
  /\ Follows["moveRoot"] = "copyRoot" /\ Follows["copyRoot"] = "moveMeta"
  /\ Follows["moveMeta"] = "copyMeta" /\ Follows["copyMeta"] = "boot"
BY DEF Swap, Part, Follows

\* What holds before each step of the update that does not use the unit's helpers.
LEMMA Before ==
  ASSUME IInv
  PROVE  /\ UnitTypeOK /\ BuildTypeOK /\ failed \subseteq Excused
         /\ target \in Builds /\ Absent \notin Builds /\ Torn \notin Builds /\ Absent # target
         /\ pc \in Swapping \cup {"delete", "restore"} => call["job"] = "none"
         /\ pc \notin Swapping \cup {"delete", "restore"} => pc \in {"idle", "stop", "boot", "resume"}
<1>1. UnitTypeOK /\ BuildTypeOK /\ failed \subseteq Excused
  BY DEF IInv, TypeOK, UnitTypeOK
<1>2. target \in Builds /\ Absent \notin Builds /\ Torn \notin Builds /\ Absent # target
  BY <1>1, BuildAssumption DEF BuildTypeOK, Builds, Absent, Torn
<1>3. pc \in Swapping \cup {"delete", "restore"} => call["job"] = "none"
  BY DEF IInv, JobOK, Swapping
<1>4. pc \notin Swapping \cup {"delete", "restore"} => pc \in {"idle", "stop", "boot", "resume"}
  BY <1>1, SwapPlaces DEF BuildTypeOK, Swapping
<1> QED
  BY <1>1, <1>2, <1>3, <1>4

\* Between its stop and its start the update goes from place to place.
LEMMA PlaceFrame ==
  ASSUME IInv, job = "none", UNCHANGED <<job, wanted, was>>, UNCHANGED modVars,
         UNCHANGED <<server, call, attempt, dog, halt, early, owed>>,
         failed \subseteq failed', failed' \subseteq Excused,
         pc \in Swapping \cup {"delete", "restore"},
         pc' \in Swapping \cup {"delete", "restore", "boot", "resume"},
         pc' \in Swapping => pc \in Swapping,
         BuildTypeOK', BuildOK'
  PROVE  IInv'
<1>1. call["job"] = "none"
  BY Before
<1>2. JobOK'
  BY <1>1 DEF IInv, JobOK, JobApplies, Stopping, Booting, Swapping, modVars
<1>3. SwapOK'
  BY <1>1 DEF IInv, SwapOK, Swapping
<1>4. DownOK'
  <2>1. Wants' => Wants
    BY DEF Wants
  <2>2. ByJob => ByJob'
    BY <1>1 DEF ByJob, Swapping
  <2> QED
    BY <2>1, <2>2, DownFrame DEF IInv, Left
<1> QED
  BY <1>2, <1>3, <1>4, BuildFrame

LEMMA FetchStep ==
  ASSUME IInv, Fetch, job = "none", UNCHANGED modVars, UNCHANGED <<job, wanted>>
  PROVE  IInv'
<1>0. /\ pc \in {"backup", "download"} /\ UNCHANGED <<live, saved, target, was, before>>
      /\ UNCHANGED <<server, call, attempt, dog, halt, early, owed>>
  BY DEF Fetch, Apart
<1>1. /\ failed' = failed \/ Fails("backup") \/ Fails("download")
      /\ \/ pc = "backup" /\ pc' = "download" /\ answer' = answer
         \/ pc = "download" /\ pc' = "moveRoot" /\ answer' = answer
         \/ pc' = "resume" /\ answer' = "failed"
  BY DEF Fetch, Goto, GiveUp
<1>2. failed \subseteq failed' /\ failed' \subseteq Excused
  BY <1>1, Before, Grow
<1>3. BuildTypeOK'
  BY <1>0, <1>1, Before, SwapPlaces DEF BuildTypeOK
<1>4. BuildOK'
  <2>1. InstallOK => InstallOK'
    BY <1>0, <1>1 DEF InstallOK, OneBuild, Is, Same, Entries
  <2> QED
    BY <1>2, <2>1, InstallFrame DEF IInv
<1>5. /\ pc \in Swapping /\ pc' \in Swapping \cup {"resume"}
  BY <1>0, <1>1 DEF Swapping
<1> QED
  BY <1>0, <1>2, <1>3, <1>4, <1>5, PlaceFrame

LEMMA MoveStep ==
  ASSUME IInv, NEW e \in Entries, Move(e), job = "none", UNCHANGED modVars,
         UNCHANGED <<job, wanted>>
  PROVE  IInv'
<1>0. /\ pc \in {"moveRoot", "moveMeta"} /\ e \in Part[pc] /\ live[e] # Absent
      /\ UNCHANGED <<server, call, attempt, dog, halt, early, owed, target, was, before>>
      /\ pc \in Swapping
  BY DEF Move, Apart, Swapping
<1>t. /\ live \in [Entries -> Builds \cup {Absent, Torn}]
      /\ saved \in [Entries -> Builds \cup {Absent, Torn}] /\ BuildTypeOK
  BY Before DEF BuildTypeOK
<1>1. CASE /\ saved' = [saved EXCEPT ![e] = live[e]]
           /\ live' = [live EXCEPT ![e] = Absent]
           /\ UNCHANGED <<pc, answer, failed>>
  <2>1. /\ live' \in [Entries -> Builds \cup {Absent, Torn}]
        /\ saved' \in [Entries -> Builds \cup {Absent, Torn}]
        /\ live'[e] = Absent /\ saved'[e] = live[e]
        /\ \A d \in Entries : d # e => live'[d] = live[d] /\ saved'[d] = saved[d]
    BY <1>1, <1>t
  <2>2. BuildTypeOK'
    BY <1>0, <1>1, <1>t, <2>1 DEF BuildTypeOK
  <2>3. CASE pc = "moveRoot"
    <3>1. e \in Root /\ e \notin Meta
      BY <1>0, <2>3, SwapPlaces, BuildAssumption
    <3>2. InstallOK => InstallOK'
      <4>1. SUFFICES ASSUME InstallOK PROVE InstallOK'
        OBVIOUS
      <4>2. OneBuild(before)' /\ Same(Meta, live, before)'
        BY <1>0, <2>1, <2>3, <3>1, <4>1 DEF InstallOK, OneBuild, Is, Same, Entries
      <4>3. \A d \in Root : live'[d] = before[d] \/ (live'[d] = Absent /\ saved'[d] = before[d])
        BY <1>0, <2>1, <2>3, <4>1 DEF InstallOK, Entries
      <4> QED
        BY <1>0, <1>1, <2>3, <4>1, <4>2, <4>3 DEF InstallOK
    <3>3. BuildOK'
      BY <1>1, <3>2, InstallFrame DEF IInv
    <3> QED
      BY <1>0, <1>1, <2>2, <3>3, Before, PlaceFrame
  <2>4. CASE pc = "moveMeta"
    <3>1. e \in Meta /\ e \notin Root
      BY <1>0, <2>4, SwapPlaces, BuildAssumption
    <3>2. InstallOK => InstallOK'
      <4>1. SUFFICES ASSUME InstallOK PROVE InstallOK'
        OBVIOUS
      <4>2. OneBuild(before)' /\ Same(Root, saved, before)' /\ Is(Root, live, target)'
        BY <1>0, <2>1, <2>4, <3>1, <4>1 DEF InstallOK, OneBuild, Is, Same, Entries
      <4> QED
        BY <1>0, <1>1, <2>4, <4>1, <4>2 DEF InstallOK
    <3>3. BuildOK'
      BY <1>1, <3>2, InstallFrame DEF IInv
    <3> QED
      BY <1>0, <1>1, <2>2, <3>3, Before, PlaceFrame
  <2> QED
    BY <1>0, <2>3, <2>4
<1>2. CASE Fails("move") /\ Goto("delete") /\ answer' = "restored" /\ UNCHANGED <<live, saved>>
  <2>1. /\ failed \subseteq failed' /\ failed' \subseteq Excused /\ "move" \in failed'
        /\ pc' = "delete"
    BY <1>2, Before, Grow DEF Fails, Goto, Excused
  <2>2. BuildTypeOK'
    BY <1>0, <1>2, <1>t, <2>1 DEF BuildTypeOK
  <2>3. BuildOK'
    BY <2>1 DEF BuildOK, Without
  <2>4. pc' \notin Swapping
    BY <2>1 DEF Swapping
  <2> QED
    BY <1>0, <2>1, <2>2, <2>3, <2>4, PlaceFrame
<1> QED
  BY <1>1, <1>2 DEF Move

LEMMA CopyStep ==
  ASSUME IInv, NEW e \in Entries, Copy(e), job = "none", UNCHANGED modVars,
         UNCHANGED <<job, wanted>>
  PROVE  IInv'
<1>0. /\ pc \in {"copyRoot", "copyMeta"} /\ e \in Part[pc] /\ live[e] = Absent
      /\ UNCHANGED <<server, call, attempt, dog, halt, early, owed, saved, target, was, before>>
      /\ pc \in Swapping /\ halt # "none"
  BY DEF Copy, Apart, Swapping, IInv, SwapOK
<1>t. live \in [Entries -> Builds \cup {Absent, Torn}] /\ BuildTypeOK /\ target \in Builds
  BY Before DEF BuildTypeOK
<1>r. /\ pc = "copyRoot" => e \in Root /\ e \notin Meta
      /\ pc = "copyMeta" => e \in Meta /\ e \notin Root
  BY <1>0, SwapPlaces, BuildAssumption
<1>1. CASE live' = [live EXCEPT ![e] = target] /\ UNCHANGED <<pc, answer, failed>>
  <2>1. /\ live' \in [Entries -> Builds \cup {Absent, Torn}] /\ live'[e] = target
        /\ \A d \in Entries : d # e => live'[d] = live[d]
    BY <1>1, <1>t
  <2>2. BuildTypeOK'
    BY <1>0, <1>1, <1>t, <2>1 DEF BuildTypeOK
  <2>3. InstallOK => InstallOK'
    <3>1. SUFFICES ASSUME InstallOK PROVE InstallOK'
      OBVIOUS
    <3>2. OneBuild(before)' /\ Same(Root, saved, before)'
      BY <1>0, <3>1 DEF InstallOK, OneBuild, Is, Same
    <3>3. CASE pc = "copyRoot"
      <4>1. Same(Meta, live, before)' /\ \A d \in Root : live'[d] \in {Absent, target}
        BY <1>0, <1>r, <2>1, <3>1, <3>3 DEF InstallOK, Same, Entries
      <4> QED
        BY <1>0, <1>1, <3>1, <3>2, <3>3, <4>1 DEF InstallOK
    <3>4. CASE pc = "copyMeta"
      <4>1. Is(Root, live, target)' /\ \A d \in Meta : live'[d] \in {Absent, target}
        BY <1>0, <1>r, <2>1, <3>1, <3>4 DEF InstallOK, Is, Entries
      <4> QED
        BY <1>0, <1>1, <3>1, <3>2, <3>4, <4>1 DEF InstallOK
    <3> QED
      BY <1>0, <3>3, <3>4
  <2>4. BuildOK'
    BY <1>1, <2>3, InstallFrame DEF IInv
  <2> QED
    BY <1>0, <1>1, <2>2, <2>4, Before, PlaceFrame
<1>2. CASE Fails("copy") /\ live' = [live EXCEPT ![e] = Torn] /\ Goto("delete") /\ answer' = "restored"
  <2>1. failed \subseteq failed' /\ failed' \subseteq Excused /\ pc' = "delete"
    BY <1>2, Before, Grow DEF Goto
  <2>2. BuildTypeOK'
    <3>1. live' \in [Entries -> Builds \cup {Absent, Torn}]
      BY <1>2, <1>t
    <3> QED
      BY <1>0, <1>2, <1>t, <2>1, <3>1 DEF BuildTypeOK
  <2>3. InstallOK => InstallOK'
    BY <1>0, <1>2, <2>1 DEF InstallOK, OneBuild, Is, Same
  <2>4. BuildOK'
    BY <2>1, <2>3, InstallFrame DEF IInv
  <2>5. pc' \notin Swapping
    BY <2>1 DEF Swapping
  <2> QED
    BY <1>0, <2>1, <2>2, <2>4, <2>5, PlaceFrame
<1> QED
  BY <1>1, <1>2 DEF Copy

LEMMA NextPartStep ==
  ASSUME IInv, NextPart, job = "none", UNCHANGED modVars, UNCHANGED <<job, wanted>>
  PROVE  IInv'
<1>0. /\ UNCHANGED <<live, saved, target, was, answer, before>>
      /\ UNCHANGED <<server, call, attempt, dog, halt, early, owed, failed>>
      /\ pc \in Swap /\ (pc' = Follows[pc] \/ (pc = "copyRoot" /\ pc' = "boot"))
      /\ \A e \in Part[pc] : (live[e] = Absent) <=> (pc \in {"moveRoot", "moveMeta"})
  BY DEF NextPart, Goto, unitVars
<1>1. /\ pc \in Swapping /\ pc' \in Swapping \cup {"boot"}
      /\ pc' \in Swap \cup {"boot"}
  BY <1>0, SwapPlaces DEF Swapping
<1>2. BuildTypeOK'
  BY <1>0, <1>1, Before DEF BuildTypeOK
<1>3. InstallOK => InstallOK'
  <2>1. SUFFICES ASSUME InstallOK PROVE InstallOK'
    OBVIOUS
  <2>2. OneBuild(before)'
    BY <1>0, <1>1, <2>1 DEF InstallOK, OneBuild, Is, Swapping
  <2>3. CASE pc = "moveRoot"
    <3>1. pc' = "copyRoot" /\ \A e \in Root : live[e] = Absent
      BY <1>0, <2>3, SwapPlaces
    <3>2. OneBuild(before) /\ \A e \in Root : before[e] # Absent
      BY <2>1, <2>3, Before DEF InstallOK, OneBuild, Is
    <3>3. Same(Root, saved, before) /\ Same(Meta, live, before)
      BY <2>1, <2>3, <3>1, <3>2 DEF InstallOK, Same
    <3> QED
      BY <1>0, <2>1, <2>2, <2>3, <3>1, <3>3 DEF InstallOK, Same
  <2>4. CASE pc = "copyRoot"
    <3>1. pc' \in {"moveMeta", "boot"} /\ \A e \in Root : live[e] # Absent
      BY <1>0, <2>4, SwapPlaces
    <3>2. Is(Root, live, target) /\ Same(Root, saved, before) /\ MetaOK
      BY <2>1, <2>4, <3>1 DEF InstallOK, Is, MetaOK
    <3> QED
      BY <1>0, <2>1, <2>2, <2>4, <3>1, <3>2 DEF InstallOK, Same, Is, MetaOK
  <2>5. CASE pc = "moveMeta"
    <3>1. pc' = "copyMeta" /\ \A e \in Meta : live[e] = Absent
      BY <1>0, <2>5, SwapPlaces
    <3> QED
      BY <1>0, <2>1, <2>2, <2>5, <3>1 DEF InstallOK, Same, Is
  <2>6. CASE pc = "copyMeta"
    <3>1. pc' = "boot" /\ \A e \in Meta : live[e] # Absent
      BY <1>0, <2>6, SwapPlaces
    <3>2. MetaOK
      BY <2>1, <2>6, <3>1 DEF InstallOK, Is, MetaOK
    <3> QED
      BY <1>0, <2>1, <2>2, <2>6, <3>1, <3>2 DEF InstallOK, Same, Is, MetaOK
  <2> QED
    BY <1>0, <2>3, <2>4, <2>5, <2>6, SwapPlaces
<1>4. BuildOK'
  BY <1>0, <1>3, InstallFrame DEF IInv
<1> QED
  BY <1>0, <1>1, <1>2, <1>4, Before, PlaceFrame

LEMMA RollbackStep ==
  ASSUME IInv, Delete \/ Restore, job = "none", UNCHANGED modVars, UNCHANGED <<job, wanted>>
  PROVE  IInv'
<1>0. /\ UNCHANGED <<target, was, answer, before>>
      /\ UNCHANGED <<server, call, attempt, dog, halt, early, owed>>
      /\ pc \in {"delete", "restore"} /\ pc' \in {"restore", "resume"}
      /\ failed' = failed \/ Fails("move")
  BY DEF Delete, Restore, Goto, Apart, unitVars
<1>1. /\ BuildTypeOK /\ live \in [Entries -> Builds \cup {Absent, Torn}]
      /\ saved \in [Entries -> Builds \cup {Absent, Torn}]
      /\ Nothing \in [Entries -> Builds \cup {Absent, Torn}]
  BY Before DEF BuildTypeOK, Nothing
<1>2. failed \subseteq failed' /\ failed' \subseteq Excused
  BY <1>0, Before, Grow
<1>3. BuildTypeOK' /\ BuildOK'
  <2>1. CASE Delete
    <3>1. live' = Nothing /\ pc = "delete" /\ pc' = "restore" /\ UNCHANGED <<saved, failed>>
      BY <2>1 DEF Delete, Goto, unitVars
    <3>2. BuildTypeOK'
      BY <1>0, <1>1, <3>1 DEF BuildTypeOK
    <3>3. InstallOK => InstallOK'
      BY <1>0, <3>1 DEF InstallOK, OneBuild, Is, Same
    <3> QED
      BY <3>1, <3>2, <3>3, InstallFrame DEF IInv
  <2>2. CASE Restore
    <3>1. saved' = Nothing /\ pc = "restore" /\ pc' = "resume"
      BY <2>2 DEF Restore, Goto
    <3>2. CASE live' = saved /\ UNCHANGED failed
      <4>1. BuildTypeOK'
        BY <1>0, <1>1, <3>1, <3>2 DEF BuildTypeOK
      <4>2. InstallOK => InstallOK'
        BY <1>0, <3>1, <3>2 DEF InstallOK, OneBuild, Is, Same
      <4> QED
        BY <3>2, <4>1, <4>2, InstallFrame DEF IInv
    <3>3. CASE /\ Fails("move")
               /\ \E lost \in SUBSET Entries :
                    live' = [e \in Entries |-> IF e \in lost THEN Absent ELSE saved[e]]
      <4>1. live' \in [Entries -> Builds \cup {Absent, Torn}]
        BY <1>1, <3>3
      <4>2. BuildTypeOK'
        BY <1>0, <1>1, <3>1, <4>1 DEF BuildTypeOK
      <4>3. "move" \in failed'
        BY <3>3 DEF Fails, Excused
      <4> QED
        BY <4>2, <4>3 DEF BuildOK, Without
    <3> QED
      BY <2>2, <3>2, <3>3 DEF Restore
  <2> QED
    BY <2>1, <2>2
<1>4. pc' \notin Swapping
  BY <1>0 DEF Swapping
<1> QED
  BY <1>0, <1>2, <1>3, <1>4, PlaceFrame

\* The start that ends a build update, in the helpers' steps.
LEMMA BootStep ==
  ASSUME IInv, Boot \/ Resume, job = "none", UNCHANGED modVars, UNCHANGED <<job, wanted>>
  PROVE  IInv'
<1> USE DEF Scripts
<1>0. /\ UnitTypeOK /\ BuildTypeOK /\ call \in [Scripts -> Calls] /\ failed \subseteq Excused
      /\ attempt \in [Scripts -> 0 .. MaxAttempts] /\ MaxAttempts \in Nat \ {0}
      /\ pc \in {"boot", "resume"} /\ UNCHANGED <<live, target, was, before>>
  BY Before, CallTypes, UnitAssumption DEF Boot, Resume, UnitTypeOK
<1>1. UNCHANGED <<server, dog, halt, early, owed, failed>>
  BY DEF Boot, Resume, BootBegins, Returns, unitVars
<1>2. TimerOK' /\ HoldOK' /\ ClockOK' /\ OwedOK'
      /\ (UnitTypeOK' /\ BuildTypeOK' => TypeOK')
  <2>1. call'["timer"] = call["timer"] /\ (apply.at = "restart" => apply.by = "timer")
    <3>1. \/ Goes("job", "start") \/ Goes("job", "none") \/ call' = call
      BY DEF Boot, Resume, BootBegins, Returns, unitVars
    <3>2. call'["timer"] = call["timer"]
      BY <1>0, <3>1, GoesThere DEF Calls
    <3>3. apply.at = "restart" => apply.by = "timer"
      <4>1. apply.by \in Scripts
        BY DEF IInv, TypeOK, ModTypeOK
      <4>2. ~JobApplies
        BY DEF IInv, JobOK
      <4> QED
        BY <4>1, <4>2 DEF JobApplies
    <3> QED
      BY <3>2, <3>3
  <2> QED
    BY <1>1, <2>1 DEF IInv, TypeOK, ModTypeOK, TimerOK, HoldOK, Active, ClockOK, OwedOK, Without,
                      modVars
<1>3. CASE was /\ call["job"] = "none" /\ BootBegins("job") /\ UNCHANGED <<saved, pc, answer>>
  <2>1. /\ call' \in [Scripts -> Calls] /\ call'["job"] = "start" /\ call'["timer"] = call["timer"]
        /\ attempt' \in [Scripts -> 0 .. MaxAttempts]
    BY <1>0, <1>3, GoesThere DEF BootBegins, Calls
  <2>2. UnitTypeOK' /\ BuildTypeOK'
    BY <1>0, <1>1, <1>3, <2>1 DEF UnitTypeOK, Calls, BuildTypeOK
  <2>3. JobOK'
    BY <1>0, <1>3, <2>1 DEF IInv, JobOK, JobApplies, Stopping, Booting, modVars
  <2>4. SwapOK'
    BY <1>0, <1>3 DEF SwapOK, Swapping
  <2>5. BuildOK'
    BY <1>0, <1>1, <1>3 DEF IInv, BuildOK, InstallOK, OneBuild, Is, Same, MetaOK, Without
  <2>6. DownOK'
    BY <1>0, <1>1, <1>3, <2>1 DEF IInv, DownOK, Wants, ByTimer, ByJob, Left, Swapping, Without
  <2> QED
    BY <1>2, <2>2, <2>3, <2>4, <2>5, <2>6 DEF IInv
<1>4. CASE /\ pc' = "idle"
           /\ IF was THEN call["job"] \in {"up", "failed"} /\ Returns("job") ELSE UNCHANGED unitVars
           /\ \/ pc = "boot" /\ saved' = Nothing /\ answer' = "updated"
              \/ pc = "resume" /\ UNCHANGED <<saved, answer>>
  <2>1. /\ call' \in [Scripts -> Calls] /\ call'["job"] = "none" /\ call'["timer"] = call["timer"]
        /\ attempt' = attempt
        /\ was => call["job"] \in {"up", "failed"}
    <3>1. CASE was
      BY <1>0, <1>4, <3>1, GoesThere DEF Returns, Calls
    <3>2. CASE ~was
      BY <1>0, <1>4, <3>2 DEF unitVars, IInv, JobOK
    <3> QED
      BY <3>1, <3>2
  <2>2. UnitTypeOK' /\ BuildTypeOK'
    BY <1>0, <1>1, <1>4, <2>1 DEF UnitTypeOK, Calls, BuildTypeOK, Nothing
  <2>3. JobOK'
    BY <1>0, <1>4, <2>1 DEF IInv, JobOK, JobApplies, Stopping, modVars
  <2>4. SwapOK'
    BY <1>4 DEF SwapOK, Swapping
  <2>5. BuildOK'
    <3>1. SUFFICES ASSUME InstallOK PROVE InstallOK'
      BY <1>1, InstallFrame DEF IInv
    <3>2. CASE pc = "boot"
      <4>1. Is(Root, live, target) /\ MetaOK /\ OneBuild(live)
        BY <3>1, <3>2, Before DEF InstallOK, OneBuild
      <4> QED
        BY <1>0, <1>4, <4>1 DEF InstallOK, OneBuild, Is, Same, MetaOK
    <3>3. CASE pc = "resume"
      <4>1. OneBuild(live) /\ answer' # "updated"
        BY <1>4, <3>1, <3>3 DEF InstallOK
      <4> QED
        BY <1>0, <1>4, <4>1 DEF InstallOK, OneBuild, Is
    <3> QED
      BY <1>0, <3>2, <3>3
  <2>6. DownOK'
    BY <1>0, <1>1, <1>4, <2>1 DEF IInv, DownOK, Wants, ByTimer, ByJob, Left, Swapping, Without
  <2> QED
    BY <1>2, <2>2, <2>3, <2>4, <2>5, <2>6 DEF IInv
<1>5. CASE /\ pc = "boot" /\ pc' = "delete" /\ call["job"] = "failed" /\ Returns("job")
           /\ answer' = "restored" /\ UNCHANGED saved
  <2>1. /\ call' \in [Scripts -> Calls] /\ call'["job"] = "none" /\ call'["timer"] = call["timer"]
        /\ attempt' = attempt
    BY <1>0, <1>5, GoesThere DEF Returns, Calls
  <2>2. UnitTypeOK' /\ BuildTypeOK'
    BY <1>0, <1>1, <1>5, <2>1 DEF UnitTypeOK, Calls, BuildTypeOK
  <2>3. JobOK'
    BY <1>0, <1>5, <2>1 DEF IInv, JobOK, JobApplies, Stopping, modVars
  <2>4. SwapOK'
    BY <1>5 DEF SwapOK, Swapping
  <2>5. BuildOK'
    <3>1. InstallOK => InstallOK'
      BY <1>0, <1>5 DEF InstallOK, OneBuild, Is, Same
    <3> QED
      BY <1>1, <3>1, InstallFrame DEF IInv
  <2>6. DownOK'
    BY <1>0, <1>1, <1>5, <2>1 DEF IInv, DownOK, Wants, ByTimer, ByJob, Left, Swapping, Without
  <2> QED
    BY <1>2, <2>2, <2>3, <2>4, <2>5, <2>6 DEF IInv
<1> QED
  BY <1>3, <1>4, <1>5 DEF Boot, Resume, Goto

\* A kill excuses whatever it leaves behind.
LEMMA KilledStep ==
  ASSUME IInv, Killed, job = "none", UNCHANGED modVars, UNCHANGED <<job, wanted>>
  PROVE  IInv'
<1> USE DEF Scripts
<1>0. /\ UnitTypeOK /\ BuildTypeOK /\ call \in [Scripts -> Calls]
      /\ attempt \in [Scripts -> 0 .. MaxAttempts] /\ MaxAttempts \in Nat
      /\ pc' = "idle" /\ saved' = Nothing /\ answer' = "none" /\ JobKilled
      /\ UNCHANGED <<live, target, was, before, server, dog, halt, early, owed>>
  BY Before, CallTypes, UnitAssumption DEF Killed, Goto, JobKilled, UnitTypeOK
<1>1. /\ call' \in [Scripts -> Calls] /\ call'["job"] = "none" /\ call'["timer"] = call["timer"]
      /\ attempt' \in [Scripts -> 0 .. MaxAttempts]
  BY <1>0 DEF JobKilled, Calls
<1>2. failed \subseteq failed' /\ failed' \subseteq Excused /\ "killed" \in failed'
  BY <1>0, Before, Grow DEF JobKilled, Fails, Excused
<1>3. TypeOK'
  BY <1>0, <1>1, <1>2 DEF IInv, TypeOK, UnitTypeOK, Calls, BuildTypeOK, Nothing, ModTypeOK, modVars
<1>4. TimerOK' /\ HoldOK' /\ ClockOK'
  BY <1>0, <1>1 DEF IInv, TimerOK, HoldOK, Active, ClockOK, modVars
<1>5. JobOK'
  BY <1>0, <1>1 DEF IInv, JobOK, JobApplies, Stopping, modVars
<1>6. SwapOK'
  BY <1>0 DEF SwapOK, Swapping
<1>7. OwedOK' /\ BuildOK' /\ DownOK'
  BY <1>2 DEF OwedOK, BuildOK, DownOK, Without
<1> QED
  BY <1>3, <1>4, <1>5, <1>6, <1>7 DEF IInv

LEMMA UpdateStep ==
  ASSUME IInv, Begin \/ Update, job = "none", UNCHANGED modVars, UNCHANGED <<job, wanted>>
  PROVE  IInv'
BY BeginStep, StopStep, FetchStep, MoveStep, CopyStep, NextPartStep, RollbackStep, BootStep,
   KilledStep DEF Update

-----------------------------------------------------------------------------
(* Steps of a mod update *)

\* What a step of a mod update leaves alone that does nothing to the unit.
LEMMA ModFrame ==
  ASSUME IInv, UNCHANGED <<server, call, attempt, dog, halt, early, failed>>, Installed,
         UNCHANGED job, ModTypeOK', TimerOK', JobOK', ClockOK', OwedOK'
  PROVE  IInv'
<1>0. /\ UNCHANGED <<live, saved, pc, target, was, answer, before, wanted>>
  BY DEF Installed, buildVars
<1>1. TypeOK' /\ HoldOK' /\ SwapOK'
  BY <1>0 DEF IInv, TypeOK, UnitTypeOK, BuildTypeOK, HoldOK, Active, SwapOK
<1>2. BuildOK'
  BY <1>0 DEF IInv, BuildOK, InstallOK, OneBuild, Is, Same, MetaOK, Without
<1>3. DownOK'
  BY <1>0 DEF IInv, DownOK, Wants, ByTimer, ByJob, Left, Without
<1> QED
  BY <1>1, <1>2, <1>3 DEF IInv

\* An update that ends.
LEMMA DoneFacts ==
  ASSUME IInv, NEW ok, Done(ok), owed' \subseteq Items
  PROVE  /\ ModTypeOK' /\ ClockOK' /\ apply'.at = "idle" /\ ~JobApplies'
         /\ tick' # "apply"
<1>1. ModTypeOK /\ EmptyTicks \in Nat /\ pending \in BOOLEAN /\ emptyFor \in Unset .. EmptyTicks
      /\ tick \in {"idle", "look", "apply"}
  BY ModAssumption DEF IInv, TypeOK, ModTypeOK
<1>2. apply' = ApplyIdle /\ rows' = {} /\ listed' = listed /\ quiet' = quiet
      /\ tick' = (IF apply.by = "timer" THEN "idle" ELSE tick)
  BY DEF Done
<1>3. \/ pending' = FALSE /\ emptyFor' = Unset
      \/ pending' = pending /\ emptyFor' = emptyFor
  BY DEF Done
<1>4. pending' \in BOOLEAN /\ emptyFor' \in {Unset, emptyFor}
  BY <1>1, <1>3
<1>5. emptyFor' \in Unset .. EmptyTicks
  BY <1>1, <1>4 DEF Unset
<1>6. apply'.at = "idle" /\ apply' \in [at : {"idle", "save", "items", "restart"}, by : Scripts,
                                        restart : BOOLEAN, bad : BOOLEAN]
  BY <1>2 DEF ApplyIdle, Scripts
<1>7. tick' \in {"idle", tick}
  BY <1>2
<1>8. ModTypeOK'
  BY <1>1, <1>2, <1>4, <1>5, <1>6, <1>7 DEF ModTypeOK
<1>9. ClockOK'
  BY <1>2, <1>4 DEF IInv, ClockOK
<1>10. CASE apply.by = "timer"
  BY <1>2, <1>6, <1>8, <1>9, <1>10 DEF JobApplies
<1>11. CASE apply.by # "timer"
  <2>1. tick # "apply"
    BY <1>11 DEF IInv, TimerOK
  <2> QED
    BY <1>2, <1>6, <1>8, <1>9, <1>11, <2>1 DEF JobApplies
<1> QED
  BY <1>10, <1>11

\* An update that begins.
LEMMA BeginsFacts ==
  ASSUME IInv, NEW who \in Scripts, NEW restart \in BOOLEAN, Begins(who, restart)
  PROVE  /\ apply' \in [at : {"idle", "save", "items", "restart"}, by : Scripts,
                        restart : BOOLEAN, bad : BOOLEAN]
         /\ apply.at = "idle" /\ apply'.at = "save" /\ apply'.by = who
         /\ apply'.restart = restart /\ rows' \subseteq Items
         /\ ~(Active /\ owed # {} /\ Without({"stop", "killed"}))
         /\ call["timer"] = "none" /\ tick # "apply"
<1>1. apply' = [at |-> "save", by |-> who, restart |-> restart, bad |-> FALSE]
      /\ apply.at = "idle" /\ rows' = listed
  BY DEF Begins
<1>2. apply' \in [at : {"idle", "save", "items", "restart"}, by : Scripts,
                  restart : BOOLEAN, bad : BOOLEAN]
      /\ apply'.at = "save" /\ apply'.by = who /\ apply'.restart = restart
  BY <1>1
<1> QED
  BY <1>1, <1>2 DEF IInv, TypeOK, ModTypeOK, OwedOK, TimerOK

LEMMA TickStep ==
  ASSUME IInv, Tick \/ Look \/ Publish, Installed, UNCHANGED job
  PROVE  IInv'
<1>0. /\ ModTypeOK /\ EmptyTicks \in Nat
      /\ UNCHANGED <<server, call, attempt, dog, halt, early, owed, failed>>
  BY ModAssumption DEF IInv, TypeOK, Tick, Look, Publish, unitVars
<1>1. CASE Tick
  <2>1. /\ tick = "idle" /\ tick' \in {"idle", "look"} /\ pending' \in BOOLEAN
        /\ emptyFor' = Older(emptyFor) /\ quiet' = Older(quiet)
        /\ UNCHANGED <<listed, apply, rows>>
    BY <1>0, <1>1 DEF Tick, ModTypeOK
  <2>2. /\ emptyFor' \in Unset .. EmptyTicks /\ quiet' \in 0 .. EmptyTicks
        /\ ClockOK'
    BY <1>0, <2>1 DEF IInv, ClockOK, Older, Unset, ModTypeOK
  <2>3. ModTypeOK'
    BY <1>0, <2>1, <2>2 DEF ModTypeOK
  <2>4. TimerOK' /\ JobOK' /\ OwedOK'
    BY <1>0, <2>1 DEF IInv, TimerOK, JobOK, JobApplies, OwedOK, Active, Without, Installed, buildVars
  <2> QED
    BY <1>0, <2>2, <2>3, <2>4, ModFrame
<1>2. CASE Look
  <2>1. CASE /\ \E restart \in BOOLEAN : Begins("timer", restart)
             /\ tick' = "apply" /\ UNCHANGED <<pending, emptyFor, quiet, listed>>
    <3>1. PICK restart \in BOOLEAN : Begins("timer", restart)
      BY <2>1
    <3>2. PICK p \in Scripts : p = "timer"
      BY DEF Scripts
    <3>3. /\ apply' \in [at : {"idle", "save", "items", "restart"}, by : Scripts,
                         restart : BOOLEAN, bad : BOOLEAN]
          /\ apply.at = "idle" /\ apply'.at = "save" /\ apply'.by = "timer"
          /\ rows' \subseteq Items
          /\ ~(Active /\ owed # {} /\ Without({"stop", "killed"}))
          /\ call["timer"] = "none"
      BY <3>1, <3>2, BeginsFacts
    <3>4. ModTypeOK' /\ ClockOK'
      BY <1>0, <2>1, <3>3 DEF IInv, ModTypeOK, ClockOK
    <3>5. TimerOK' /\ OwedOK'
      BY <1>0, <2>1, <3>3 DEF TimerOK, OwedOK, Active, Without
    <3>6. JobOK'
      BY <1>0, <3>3 DEF IInv, JobOK, JobApplies, Installed, buildVars
    <3> QED
      BY <1>0, <3>4, <3>5, <3>6, ModFrame
  <2>2. CASE /\ tick' = "idle" /\ pending' \in BOOLEAN /\ UNCHANGED <<apply, rows, listed>>
             /\ \/ emptyFor' \in {Unset, emptyFor} /\ quiet' = quiet
                \/ emptyFor' = 0 /\ quiet' = quiet
                \/ emptyFor' = Unset /\ quiet' = 0
    <3>1. ClockOK' /\ emptyFor' \in Unset .. EmptyTicks /\ quiet' \in 0 .. EmptyTicks
      BY <1>0, <2>2 DEF IInv, ClockOK, Unset, ModTypeOK
    <3>2. ModTypeOK'
      BY <1>0, <2>2, <3>1 DEF ModTypeOK
    <3>3. tick # "apply"
      BY <1>2 DEF Look
    <3>4. TimerOK' /\ JobOK' /\ OwedOK'
      BY <1>0, <2>2, <3>3 DEF IInv, TimerOK, JobOK, JobApplies, OwedOK, Active, Without, Installed,
                              buildVars
    <3> QED
      BY <1>0, <3>1, <3>2, <3>4, ModFrame
  <2>3. ASSUME NEW restart \in BOOLEAN, TimerApplies(restart)
        PROVE  \/ Begins("timer", restart) /\ tick' = "apply" /\ UNCHANGED <<pending, emptyFor>>
               \/ /\ tick' = "idle" /\ pending' \in BOOLEAN /\ emptyFor' \in {Unset, emptyFor}
                  /\ UNCHANGED <<apply, rows>>
    BY <1>0, <2>3 DEF TimerApplies, ModTypeOK
  <2> QED
    BY <1>0, <1>2, <2>1, <2>2, <2>3 DEF Look, Waits, ModTypeOK
<1>3. CASE Publish
  <2>1. listed' \subseteq Items /\ UNCHANGED <<pending, emptyFor, tick, apply, rows, quiet>>
    BY <1>0, <1>3 DEF Publish, ModTypeOK
  <2>2. ModTypeOK'
    BY <1>0, <2>1 DEF ModTypeOK
  <2>3. TimerOK' /\ JobOK' /\ OwedOK' /\ ClockOK'
    BY <1>0, <2>1 DEF IInv, TimerOK, JobOK, JobApplies, OwedOK, Active, Without, Installed, buildVars,
                      ClockOK
  <2> QED
    BY <1>0, <2>2, <2>3, ModFrame
<1> QED
  BY <1>1, <1>2, <1>3

\* An update that ends without its restart.
LEMMA EndsStep ==
  ASSUME IInv, NEW ok, Done(ok), apply.at \in {"save", "items"},
         ~(Active /\ owed # {} /\ Without({"stop", "killed"})),
         UNCHANGED <<server, call, attempt, dog, halt, early, owed, failed>>, Installed, UNCHANGED job
  PROVE  IInv'
<1>0. /\ owed' \subseteq Items /\ call["timer"] = "none"
      /\ job = "apply" => call["job"] = "none" \/ ~JobApplies
  BY DEF IInv, TypeOK, ModTypeOK, TimerOK, JobOK
<1>1. ModTypeOK' /\ ClockOK' /\ apply'.at = "idle" /\ ~JobApplies' /\ tick' # "apply"
  BY <1>0, DoneFacts
<1>2. TimerOK'
  BY <1>0, <1>1 DEF TimerOK
<1>3. JobOK'
  BY <1>1 DEF IInv, JobOK, Installed, buildVars
<1>4. OwedOK'
  BY DEF OwedOK, Active, Without
<1> QED
  BY <1>1, <1>2, <1>3, <1>4, ModFrame

LEMMA SaveStep ==
  ASSUME IInv, Save, Installed, UNCHANGED job
  PROVE  IInv'
<1>0. /\ ModTypeOK /\ apply.at = "save" /\ ~(Active /\ owed # {} /\ Without({"stop", "killed"}))
      /\ UNCHANGED <<server, call, attempt, dog, halt, early, owed, failed>>
  BY DEF IInv, TypeOK, OwedOK, Save, unitVars
<1>1. CASE /\ apply' = [apply EXCEPT !.at = "items"]
           /\ UNCHANGED <<listed, pending, emptyFor, tick, rows, quiet>>
  <2>1. /\ apply' \in [at : {"idle", "save", "items", "restart"}, by : Scripts,
                       restart : BOOLEAN, bad : BOOLEAN]
        /\ apply'.at = "items" /\ apply'.by = apply.by /\ apply'.restart = apply.restart
    BY <1>0, <1>1 DEF ModTypeOK
  <2>2. ModTypeOK' /\ ClockOK'
    BY <1>0, <1>1, <2>1 DEF IInv, ModTypeOK, ClockOK
  <2>3. TimerOK' /\ JobOK'
    BY <1>0, <1>1, <2>1 DEF IInv, TimerOK, JobOK, JobApplies, Installed, buildVars
  <2>4. OwedOK'
    BY <1>0 DEF OwedOK, Active, Without
  <2> QED
    BY <1>0, <2>2, <2>3, <2>4, ModFrame
<1>2. CASE Done(FALSE)
  BY <1>0, <1>2, EndsStep
<1> QED
  BY <1>1, <1>2 DEF Save

LEMMA InstallStep ==
  ASSUME IInv, NEW i \in Items, Install(i), Installed, UNCHANGED job
  PROVE  IInv'
<1>0. /\ ModTypeOK /\ apply.at = "items" /\ rows' \subseteq Items
      /\ UNCHANGED <<server, call, attempt, dog, halt, early, failed>>
      /\ UNCHANGED <<pending, emptyFor, tick, quiet>>
  BY DEF IInv, TypeOK, ModTypeOK, Install
<1>1. /\ owed' \subseteq Items /\ listed' \subseteq Items
      /\ owed' = owed \/ apply.restart
      /\ \/ apply' = apply
         \/ apply' = [apply EXCEPT !.bad = TRUE]
  BY <1>0 DEF Install, ModTypeOK
<1>2. /\ apply' \in [at : {"idle", "save", "items", "restart"}, by : Scripts,
                     restart : BOOLEAN, bad : BOOLEAN]
      /\ apply'.at = "items" /\ apply'.by = apply.by /\ apply'.restart = apply.restart
  BY <1>0, <1>1 DEF ModTypeOK
<1>3. ModTypeOK' /\ ClockOK'
  BY <1>0, <1>1, <1>2 DEF IInv, ModTypeOK, ClockOK
<1>4. TimerOK' /\ JobOK'
  BY <1>0, <1>2 DEF IInv, TimerOK, JobOK, JobApplies, Installed, buildVars
<1>5. OwedOK'
  BY <1>0, <1>1, <1>2 DEF IInv, OwedOK, Active, Without
<1> QED
  BY <1>0, <1>3, <1>4, <1>5, ModFrame

LEMMA ReloadStep ==
  ASSUME IInv, Reload, Installed, UNCHANGED job
  PROVE  IInv'
<1>0. /\ UnitTypeOK /\ ModTypeOK /\ apply.at = "items" /\ call["timer"] = "none"
      /\ apply.by \in Scripts
      /\ UNCHANGED <<live, saved, pc, target, was, answer, before, wanted>>
  BY DEF IInv, TypeOK, ModTypeOK, TimerOK, Reload, Installed, buildVars
<1>1. CASE apply.restart /\ Active
  <2>1. /\ StopBegins(apply.by) /\ apply' = [apply EXCEPT !.at = "restart"]
        /\ UNCHANGED <<listed, pending, emptyFor, tick, rows, quiet>>
    BY <1>1 DEF Reload
  <2>2. /\ UnitTypeOK' /\ UNCHANGED <<server, dog, owed, failed, halt, early>>
        /\ \A q \in Scripts : q # apply.by => call'[q] = call[q]
        /\ call'[apply.by] = "halt" /\ call[apply.by] = "none"
    BY <1>0, <1>1, <2>1, StopFacts
  <2>3. /\ apply' \in [at : {"idle", "save", "items", "restart"}, by : Scripts,
                       restart : BOOLEAN, bad : BOOLEAN]
        /\ apply'.at = "restart" /\ apply'.by = apply.by /\ apply'.restart
    BY <1>0, <1>1, <2>1 DEF ModTypeOK
  <2>4. TypeOK'
    BY <1>0, <2>1, <2>2, <2>3 DEF IInv, TypeOK, BuildTypeOK, ModTypeOK
  <2>5. TimerOK'
    BY <1>0, <2>1, <2>2, <2>3 DEF IInv, TimerOK, Scripts
  <2>6. JobOK'
    <3>1. CASE apply.by = "job"
      <4>1. job = "apply" /\ pc = "idle"
        BY <1>0, <1>1, <3>1 DEF IInv, JobOK, JobApplies
      <4> QED
        BY <1>0, <2>2, <2>3, <3>1, <4>1 DEF JobOK, JobApplies, Stopping
    <3>2. CASE apply.by # "job"
      BY <1>0, <2>2, <2>3, <3>2 DEF IInv, JobOK, JobApplies, Scripts
    <3> QED
      BY <3>1, <3>2
  <2>7. HoldOK' /\ DownOK'
    BY <1>1, <2>2 DEF IInv, HoldOK, DownOK, Active
  <2>8. SwapOK'
    BY <1>0, <2>2 DEF IInv, SwapOK, Scripts, Swapping
  <2>9. ClockOK' /\ OwedOK'
    BY <2>1, <2>2, <2>3 DEF IInv, ClockOK, OwedOK
  <2>10. BuildOK'
    BY <1>0, <2>2 DEF IInv, BuildOK, InstallOK, OneBuild, Is, Same, MetaOK, Without
  <2> QED
    BY <2>4, <2>5, <2>6, <2>7, <2>8, <2>9, <2>10 DEF IInv
<1>2. CASE ~(apply.restart /\ Active)
  <2>1. Done(~apply.bad) /\ UNCHANGED <<server, call, attempt, dog, halt, early, owed, failed>>
    BY <1>2 DEF Reload, unitVars
  <2>2. ~(Active /\ owed # {} /\ Without({"stop", "killed"}))
    BY <1>2 DEF IInv, OwedOK
  <2> QED
    BY <1>0, <2>1, <2>2, EndsStep
<1> QED
  BY <1>1, <1>2

\* The restart of a mod update is not in its stop any more.
LEMMA ReloadedStep ==
  ASSUME IInv, Reloaded, Installed, UNCHANGED job
  PROVE  IInv'
<1> DEFINE by == apply.by
<1>0. /\ UnitTypeOK /\ ModTypeOK /\ apply.at = "restart" /\ by \in Scripts
      /\ call \in [Scripts -> Calls] /\ attempt \in [Scripts -> 0 .. MaxAttempts]
      /\ MaxAttempts \in Nat \ {0}
      /\ UNCHANGED <<live, saved, pc, target, was, answer, before, wanted>>
      /\ by = "timer" => tick = "apply"
  BY CallTypes, UnitAssumption DEF IInv, TypeOK, ModTypeOK, UnitTypeOK, TimerOK, Reloaded, Installed,
                                   buildVars
<1>1. /\ UNCHANGED <<server, dog, halt, early, owed, failed>>
      /\ call[by] \in {"stopped", "up", "refused", "failed"}
      /\ \/ call[by] = "stopped" /\ BootBegins(by) /\ UNCHANGED modVars
         \/ call[by] # "stopped" /\ Returns(by) /\ \E ok \in BOOLEAN : Done(ok)
  <2>1. CASE call[by] = "stopped" /\ BootBegins(by) /\ UNCHANGED modVars
    BY <2>1 DEF BootBegins
  <2>2. CASE call[by] = "up" /\ Returns(by) /\ Done(~apply.bad)
    <3>1. apply.bad \in BOOLEAN
      BY <1>0 DEF ModTypeOK
    <3> QED
      BY <2>2, <3>1 DEF Returns
  <2>3. CASE call[by] \in {"refused", "failed"} /\ Returns(by) /\ Done(FALSE)
    BY <2>3 DEF Returns
  <2> QED
    BY <2>1, <2>2, <2>3 DEF Reloaded
<1>2. by = "job" => job = "apply" /\ pc = "idle"
  BY <1>0, <1>1 DEF IInv, JobOK, JobApplies
<1>3. ~(Active /\ owed # {} /\ Without({"stop", "killed"}))
  BY <1>0, <1>1 DEF IInv, OwedOK
<1>4. BuildOK'
  BY <1>0, <1>1 DEF IInv, BuildOK, InstallOK, OneBuild, Is, Same, MetaOK, Without
<1>5. OwedOK'
  BY <1>1, <1>3 DEF OwedOK, Active, Without
<1>6. CASE call[by] = "stopped" /\ BootBegins(by) /\ UNCHANGED modVars
  <2>1. /\ call' \in [Scripts -> Calls] /\ call'[by] = "start"
        /\ \A q \in Scripts : q # by => call'[q] = call[q]
        /\ attempt' \in [Scripts -> 0 .. MaxAttempts]
    BY <1>0, <1>6, GoesThere DEF BootBegins, Calls
  <2>2. UNCHANGED <<listed, pending, emptyFor, tick, apply, rows, quiet>>
    BY <1>6 DEF modVars
  <2>3. TypeOK'
    BY <1>0, <1>1, <2>1, <2>2 DEF IInv, TypeOK, UnitTypeOK, Calls, BuildTypeOK, ModTypeOK
  <2>4. TimerOK' /\ ClockOK'
    BY <1>0, <2>1, <2>2 DEF IInv, TimerOK, ClockOK, Scripts
  <2>5. JobOK'
    BY <1>0, <1>2, <2>1, <2>2 DEF IInv, JobOK, JobApplies, Scripts
  <2>6. HoldOK' /\ SwapOK'
    BY <1>0, <1>1, <1>2, <1>6, <2>1 DEF IInv, HoldOK, SwapOK, Active, Swapping, Scripts
  <2>7. DownOK'
    BY <1>0, <1>1, <1>2, <1>6, <2>1 DEF IInv, DownOK, Wants, ByTimer, ByJob, Left, Without, Scripts
  <2> QED
    BY <1>4, <1>5, <2>3, <2>4, <2>5, <2>6, <2>7 DEF IInv
<1>7. CASE call[by] # "stopped" /\ Returns(by) /\ \E ok \in BOOLEAN : Done(ok)
  <2>1. /\ call' \in [Scripts -> Calls] /\ call'[by] = "none"
        /\ \A q \in Scripts : q # by => call'[q] = call[q]
        /\ attempt' = attempt
    BY <1>0, <1>7, GoesThere DEF Returns, Calls
  <2>2. ModTypeOK' /\ ClockOK' /\ apply'.at = "idle" /\ ~JobApplies' /\ tick' # "apply"
    <3>1. owed' \subseteq Items
      BY <1>0, <1>1 DEF ModTypeOK
    <3>2. PICK ok \in BOOLEAN : Done(ok)
      BY <1>7
    <3> QED
      BY <3>1, <3>2, DoneFacts
  <2>3. TypeOK'
    BY <1>0, <1>1, <2>1, <2>2 DEF IInv, TypeOK, UnitTypeOK, Calls, BuildTypeOK
  <2>4. TimerOK'
    BY <1>0, <2>1, <2>2 DEF IInv, TimerOK, Scripts
  <2>5. JobOK'
    BY <1>0, <1>2, <2>1, <2>2 DEF IInv, JobOK, JobApplies, Stopping, Booting, Scripts
  <2>6. HoldOK' /\ SwapOK'
    BY <1>0, <1>1, <1>2, <2>1 DEF IInv, HoldOK, SwapOK, Active, Swapping, Scripts
  <2>7. DownOK'
    BY <1>0, <1>1, <1>2, <2>1, <1>7 DEF IInv, DownOK, Wants, ByTimer, ByJob, Left, Without, Swapping,
                                        Scripts
  <2> QED
    BY <1>4, <1>5, <2>2, <2>3, <2>4, <2>5, <2>6, <2>7 DEF IInv
<1> QED
  BY <1>1, <1>6, <1>7

LEMMA ModsStep ==
  ASSUME IInv, Mods, Installed, UNCHANGED job
  PROVE  IInv'
BY SaveStep, InstallStep, ReloadStep, ReloadedStep, TickStep DEF Mods, Apply

-----------------------------------------------------------------------------
(* Steps of the jobs *)

\* What a job other than a build update leaves alone.
LEMMA JobFrame ==
  ASSUME IInv, Installed, TypeOK', TimerOK', JobOK', HoldOK', SwapOK', OwedOK', DownOK',
         failed' = failed, emptyFor' = emptyFor, quiet' = quiet, pc = "idle"
  PROVE  IInv'
<1>0. UNCHANGED <<live, saved, pc, target, was, answer, before, failed>> /\ BuildOK
  BY DEF IInv, Installed, buildVars
<1>1. BuildOK'
  BY <1>0 DEF BuildOK, InstallOK, OneBuild, Is, Same, MetaOK, Without
<1>2. ClockOK'
  BY DEF IInv, ClockOK, Unset
<1> QED
  BY <1>1, <1>2 DEF IInv

\* A job that does nothing to the unit uses none of its helpers.
LEMMA NoHelper ==
  ASSUME IInv, job \in {"none", "update", "apply"}, ~JobApplies, pc = "idle"
  PROVE  call["job"] = "none"
BY DEF IInv, JobOK

\* A job stops the unit.
LEMMA JobStops ==
  ASSUME IInv, job \in {"none", "update"}, ~JobApplies, pc = "idle",
         StopBegins("job"), job' \in {"stop", "restart"}, Installed, UNCHANGED modVars
  PROVE  IInv'
<1>0. /\ UnitTypeOK /\ ModTypeOK /\ call["job"] = "none" /\ "job" \in Scripts /\ "timer" \in Scripts
      /\ UNCHANGED <<live, saved, pc, target, was, answer, before, wanted>>
      /\ UNCHANGED <<listed, pending, emptyFor, tick, apply, rows, quiet>>
  BY NoHelper DEF IInv, TypeOK, Installed, buildVars, modVars, Scripts
<1>1. /\ UnitTypeOK' /\ UNCHANGED <<server, dog, owed, failed>>
      /\ call'["timer"] = call["timer"]
      /\ \/ Active /\ call'["job"] = "halt" /\ UNCHANGED <<halt, early>>
         \/ ~Active /\ call'["job"] = "stopped" /\ halt' = "held" /\ early' = Underway
  BY <1>0, StopFacts DEF Holds
<1>2. TypeOK'
  BY <1>0, <1>1 DEF IInv, TypeOK, BuildTypeOK, ModTypeOK
<1>3. TimerOK'
  BY <1>0, <1>1 DEF IInv, TimerOK
<1>4. JobOK'
  BY <1>0, <1>1 DEF JobOK, JobApplies, Stopping
<1>5. HoldOK'
  BY <1>0, <1>1 DEF IInv, HoldOK, Active, Underway, Starters
<1>6. SwapOK'
  BY <1>0 DEF SwapOK, Swapping
<1>7. OwedOK'
  <2>1. apply.at = "restart" => apply.by = "timer"
    BY <1>0 DEF JobApplies, ModTypeOK, Scripts
  <2> QED
    BY <1>0, <1>1, <2>1 DEF IInv, OwedOK, Active, Without
<1>8. DownOK'
  <2>1. SUFFICES ASSUME server' = "down" PROVE ByJob'
    BY DEF DownOK
  <2> QED
    BY <1>1, <2>1 DEF Active, ByJob
<1> QED
  BY <1>0, <1>1, <1>2, <1>3, <1>4, <1>5, <1>6, <1>7, <1>8, JobFrame

\* A job other than an update starts the unit.
LEMMA JobBoots ==
  ASSUME IInv, job' \in {"start", "restart"}, BootBegins("job"), Installed, UNCHANGED modVars,
         pc = "idle", ~JobApplies,
         call["job"] \in {"none", "stopped"}
  PROVE  IInv'
<1>0. /\ UnitTypeOK /\ ModTypeOK /\ "job" \in Scripts /\ "timer" \in Scripts
      /\ call \in [Scripts -> Calls] /\ attempt \in [Scripts -> 0 .. MaxAttempts]
      /\ MaxAttempts \in Nat \ {0}
      /\ UNCHANGED <<live, saved, pc, target, was, answer, before, wanted>>
      /\ UNCHANGED <<listed, pending, emptyFor, tick, apply, rows, quiet>>
      /\ UNCHANGED <<server, dog, halt, early, owed, failed>>
  BY CallTypes, UnitAssumption DEF IInv, TypeOK, UnitTypeOK, Installed, buildVars, modVars, Scripts,
                                   BootBegins
<1>1. /\ call' \in [Scripts -> Calls] /\ call'["job"] = "start" /\ call'["timer"] = call["timer"]
      /\ attempt' \in [Scripts -> 0 .. MaxAttempts]
  BY <1>0, GoesThere DEF BootBegins, Calls
<1>2. TypeOK'
  BY <1>0, <1>1 DEF IInv, TypeOK, UnitTypeOK, Calls, BuildTypeOK, ModTypeOK
<1>3. TimerOK'
  BY <1>0, <1>1 DEF IInv, TimerOK
<1>4. JobOK'
  BY <1>0, <1>1 DEF JobOK, JobApplies
<1>5. HoldOK'
  BY <1>0, <1>1 DEF IInv, HoldOK, Active
<1>6. SwapOK'
  BY <1>0 DEF SwapOK, Swapping
<1>7. OwedOK'
  <2>1. apply.at = "restart" => apply.by = "timer"
    BY <1>0 DEF JobApplies, ModTypeOK, Scripts
  <2> QED
    BY <1>0, <1>1, <2>1 DEF IInv, OwedOK, Active, Without
<1>8. DownOK'
  BY <1>1 DEF DownOK, ByJob
<1> QED
  BY <1>0, <1>2, <1>3, <1>4, <1>5, <1>6, <1>7, <1>8, JobFrame

\* A job runs a mod update.
LEMMA JobUpdates ==
  ASSUME IInv, JobFree, job' \in {"update", "apply"}, NEW restart \in BOOLEAN,
         Begins("job", restart), job' = "update" => ~restart, Installed,
         UNCHANGED <<listed, pending, emptyFor, tick, quiet>>, UNCHANGED unitVars
  PROVE  IInv'
<1>0. /\ UnitTypeOK /\ ModTypeOK /\ "job" \in Scripts /\ job = "none" /\ pc = "idle"
      /\ UNCHANGED <<live, saved, pc, target, was, answer, before, wanted>>
      /\ UNCHANGED <<server, call, attempt, dog, halt, early, owed, failed>>
  BY DEF IInv, TypeOK, Installed, buildVars, unitVars, Scripts, JobFree
<1>1. /\ apply' \in [at : {"idle", "save", "items", "restart"}, by : Scripts,
                     restart : BOOLEAN, bad : BOOLEAN]
      /\ apply.at = "idle" /\ apply'.at = "save" /\ apply'.by = "job"
      /\ apply'.restart = restart /\ rows' \subseteq Items
      /\ ~(Active /\ owed # {} /\ Without({"stop", "killed"}))
      /\ call["timer"] = "none" /\ tick # "apply"
  <2>1. PICK p \in Scripts : p = "job"
    BY <1>0
  <2> QED
    BY <2>1, BeginsFacts
<1>2. call["job"] = "none"
  BY <1>0, <1>1, NoHelper DEF JobApplies
<1>3. TypeOK'
  BY <1>0, <1>1 DEF IInv, TypeOK, UnitTypeOK, BuildTypeOK, ModTypeOK
<1>4. TimerOK' /\ SwapOK'
  BY <1>0, <1>1 DEF TimerOK, SwapOK, Swapping
<1>5. JobOK'
  BY <1>0, <1>1, <1>2 DEF JobOK, JobApplies, Stopping
<1>6. HoldOK' /\ OwedOK'
  BY <1>0, <1>1 DEF IInv, HoldOK, OwedOK, Active, Without
<1>7. DownOK'
  BY <1>0, <1>2 DEF IInv, DownOK, Wants, ByTimer, ByJob, Left, Without, Swapping
<1> QED
  BY <1>0, <1>3, <1>4, <1>5, <1>6, <1>7, JobFrame

LEMMA BeginsJob ==
  ASSUME IInv, StartJob \/ StopJob \/ RestartJob \/ ApplyJob
  PROVE  IInv'
<1>1. CASE StartJob
  <2>1. job = "none" /\ pc = "idle" /\ ~JobApplies
    BY <1>1 DEF IInv, JobOK, JobFree, StartJob
  <2>2. call["job"] = "none"
    BY <2>1, NoHelper
  <2> QED
    BY <1>1, <2>1, <2>2, JobBoots DEF StartJob
<1>2. CASE job' \in {"stop", "restart"} /\ JobFree /\ StopBegins("job") /\ Installed /\ UNCHANGED modVars
  <2>1. job = "none" /\ pc = "idle" /\ ~JobApplies
    BY <1>2 DEF IInv, JobOK, JobFree
  <2> QED
    BY <1>2, <2>1, JobStops
<1>3. CASE /\ job' = "update" /\ JobFree /\ Begins("job", FALSE) /\ Installed
           /\ UNCHANGED <<listed, pending, emptyFor, tick, quiet>> /\ UNCHANGED unitVars
  <2>1. PICK restart \in BOOLEAN : restart = FALSE
    OBVIOUS
  <2> QED
    BY <1>3, <2>1, JobUpdates
<1>4. CASE ApplyJob
  BY <1>4, JobUpdates DEF ApplyJob
<1> QED
  BY <1>1, <1>2, <1>3, <1>4 DEF StopJob, RestartJob

\* A job's mod update has ended.
LEMMA AppliedStep ==
  ASSUME IInv, Applied
  PROVE  IInv'
<1>0. /\ job \in {"update", "apply"} /\ ~JobApplies /\ Installed /\ UNCHANGED modVars
  BY DEF Applied, JobApplies
<1>1. pc = "idle"
  BY <1>0 DEF IInv, JobOK
<1>2. CASE job = "apply"
  <2>1. /\ UnitTypeOK /\ ModTypeOK /\ call["job"] = "none" /\ job' = "none"
        /\ UNCHANGED <<live, saved, pc, target, was, answer, before, wanted>>
        /\ UNCHANGED <<listed, pending, emptyFor, tick, apply, rows, quiet>>
        /\ UNCHANGED <<server, call, attempt, dog, halt, early, owed, failed>>
    BY <1>0, <1>1, <1>2, NoHelper DEF IInv, TypeOK, Installed, buildVars, modVars, unitVars, Applied
  <2>2. TypeOK'
    BY <2>1 DEF IInv, TypeOK, UnitTypeOK, BuildTypeOK, ModTypeOK
  <2>3. TimerOK' /\ SwapOK' /\ HoldOK' /\ OwedOK'
    BY <2>1 DEF IInv, TimerOK, SwapOK, HoldOK, OwedOK, Active, Without
  <2>4. JobOK'
    BY <1>0, <1>1, <2>1 DEF JobOK, JobApplies, Stopping
  <2>5. DownOK'
    BY <1>1, <1>2, <2>1 DEF IInv, DownOK, Wants, ByTimer, ByJob, Left, Without, Swapping
  <2> QED
    BY <1>0, <1>1, <2>1, <2>2, <2>3, <2>4, <2>5, JobFrame
<1>3. CASE job # "apply"
  BY <1>0, <1>1, <1>3, JobStops DEF Applied
<1> QED
  BY <1>2, <1>3

LEMMA JobGoesOnStep ==
  ASSUME IInv, JobGoesOn
  PROVE  IInv'
<1>0. /\ job \in {"start", "stop", "restart"} /\ ~JobApplies /\ pc = "idle"
      /\ UnitTypeOK /\ ModTypeOK /\ call \in [Scripts -> Calls] /\ "job" \in Scripts
      /\ "timer" \in Scripts /\ UNCHANGED buildVars /\ UNCHANGED modVars
  BY CallTypes DEF IInv, TypeOK, JobOK, JobGoesOn, Scripts
<1>1. CASE job = "restart" /\ call["job"] = "stopped" /\ BootBegins("job") /\ UNCHANGED <<job, wanted>>
  BY <1>0, <1>1, JobBoots DEF Installed
<1>2. CASE /\ \/ call["job"] \in {"up", "failed", "refused"}
              \/ job = "stop" /\ call["job"] = "stopped"
           /\ wanted' = IF call["job"] = "refused" THEN wanted ELSE call["job"] # "stopped"
           /\ job' = "none" /\ Returns("job")
  <2>1. /\ call' \in [Scripts -> Calls] /\ call'["job"] = "none" /\ call'["timer"] = call["timer"]
        /\ UNCHANGED <<server, attempt, dog, halt, early, owed, failed>>
    BY <1>0, <1>2, GoesThere DEF Returns, Calls
  <2>2. /\ UNCHANGED <<live, saved, pc, target, was, answer, before>>
        /\ UNCHANGED <<listed, pending, emptyFor, tick, apply, rows, quiet>>
    BY <1>0 DEF buildVars, modVars
  <2>3. wanted' \in BOOLEAN
    BY <1>2 DEF IInv, TypeOK
  <2>4. TypeOK'
    BY <1>0, <1>2, <2>1, <2>2, <2>3 DEF IInv, TypeOK, UnitTypeOK, Calls, BuildTypeOK, ModTypeOK
  <2>5. TimerOK' /\ SwapOK' /\ HoldOK'
    BY <1>0, <2>1, <2>2 DEF IInv, TimerOK, SwapOK, Swapping, HoldOK, Active
  <2>6. JobOK'
    BY <1>0, <1>2, <2>1, <2>2 DEF JobOK, JobApplies, Stopping
  <2>7. OwedOK'
    <3>1. apply.at = "restart" => apply.by = "timer"
      BY <1>0 DEF JobApplies, ModTypeOK, Scripts
    <3> QED
      BY <2>1, <2>2, <3>1 DEF IInv, OwedOK, Active, Without
  <2>8. DownOK'
    <3>1. SUFFICES ASSUME server = "down", wanted', Without({"boot", "killed"})
                   PROVE  ByTimer \/ Left
      BY <1>2, <2>1, <2>2 DEF DownOK, Wants, ByTimer, Left, Without
    <3>2. Wants /\ call["job"] \in {"up", "failed", "refused"}
      <4>1. call["job"] # "stopped"
        BY <1>2, <3>1
      <4>2. job = "stop" => call["job"] \in Stopping
        BY DEF IInv, JobOK
      <4> QED
        BY <1>0, <1>2, <3>1, <4>1, <4>2 DEF Wants, Stopping
    <3>3. ~ByJob
      BY <1>0, <3>2 DEF ByJob, Swapping
    <3> QED
      BY <3>1, <3>2, <3>3 DEF IInv, DownOK
  <2>9. BuildOK'
    BY <2>1, <2>2 DEF IInv, BuildOK, InstallOK, OneBuild, Is, Same, MetaOK, Without
  <2>10. ClockOK'
    BY <2>2 DEF IInv, ClockOK, Unset
  <2> QED
    BY <2>4, <2>5, <2>6, <2>7, <2>8, <2>9, <2>10 DEF IInv
<1> QED
  BY <1>1, <1>2 DEF JobGoesOn

LEMMA JobDiesStep ==
  ASSUME IInv, JobDies
  PROVE  IInv'
<1>0. /\ UnitTypeOK /\ ModTypeOK /\ call \in [Scripts -> Calls] /\ failed \subseteq Excused
      /\ attempt \in [Scripts -> 0 .. MaxAttempts] /\ MaxAttempts \in Nat
      /\ JobKilled /\ job' = "none" /\ pc = "idle"
      /\ UNCHANGED <<live, saved, pc, target, was, answer, before, wanted>>
      /\ UNCHANGED <<server, dog, halt, early, owed>>
  BY Before, CallTypes, UnitAssumption DEF JobDies, JobKilled, UnitTypeOK, IInv, TypeOK, JobOK,
                                           Installed, buildVars
<1>1. /\ call' \in [Scripts -> Calls] /\ call'["job"] = "none" /\ call'["timer"] = call["timer"]
      /\ attempt' \in [Scripts -> 0 .. MaxAttempts]
  BY <1>0 DEF JobKilled, Calls, Scripts
<1>2. failed' \subseteq Excused /\ "killed" \in failed'
  BY <1>0, Grow DEF JobKilled, Fails, Excused
<1>3. /\ ModTypeOK' /\ ClockOK' /\ TimerOK' /\ ~JobApplies'
  <2>1. CASE JobApplies
    <3>1. Done(FALSE) /\ owed' \subseteq Items
      BY <1>0, <2>1 DEF JobDies, JobApplies, ModTypeOK
    <3>2. call["timer"] = "none"
      BY <2>1 DEF IInv, TimerOK, JobApplies
    <3>3. ModTypeOK' /\ ClockOK' /\ apply'.at = "idle" /\ ~JobApplies' /\ tick' # "apply"
      <4>1. PICK ok \in BOOLEAN : ok = FALSE
        OBVIOUS
      <4> QED
        BY <3>1, <4>1, DoneFacts
    <3> QED
      BY <1>1, <3>2, <3>3 DEF TimerOK
  <2>2. CASE ~JobApplies
    <3>1. UNCHANGED <<listed, pending, emptyFor, tick, apply, rows, quiet>>
      BY <2>2 DEF JobDies, JobApplies, modVars
    <3>2. ModTypeOK' /\ ~JobApplies'
      BY <1>0, <2>2, <3>1 DEF ModTypeOK, JobApplies
    <3>3. ClockOK' /\ TimerOK'
      BY <1>1, <3>1 DEF IInv, ClockOK, TimerOK, Unset
    <3> QED
      BY <3>2, <3>3
  <2> QED
    BY <2>1, <2>2
<1>4. TypeOK'
  BY <1>0, <1>1, <1>2, <1>3 DEF IInv, TypeOK, UnitTypeOK, Calls, BuildTypeOK
<1>5. JobOK' /\ SwapOK'
  BY <1>0, <1>1, <1>3 DEF JobOK, SwapOK, Stopping, Swapping
<1>6. HoldOK'
  BY <1>0, <1>1 DEF IInv, HoldOK, Active
<1>7. OwedOK' /\ BuildOK' /\ DownOK'
  BY <1>2 DEF OwedOK, BuildOK, DownOK, Without
<1> QED
  BY <1>3, <1>4, <1>5, <1>6, <1>7 DEF IInv


-----------------------------------------------------------------------------
(* The invariant *)

LEMMA Init1 ==
  ASSUME Init
  PROVE  IInv
<1> USE DEF Scripts
<1>u. /\ server \in {"down", "up"} /\ call = [p \in Scripts |-> "none"]
      /\ attempt = [p \in Scripts |-> 0] /\ dog = FALSE /\ halt = "none" /\ early = {}
      /\ owed = {} /\ failed = {}
  BY DEF Init, UnitInit
<1>b. /\ live = [e \in Entries |-> 0] /\ before = live /\ saved = Nothing
      /\ pc = "idle" /\ target = 0 /\ was = FALSE /\ answer = "none"
  BY DEF Init, BuildInit
<1>m. /\ listed = {} /\ rows = {} /\ pending = FALSE /\ emptyFor = Unset /\ quiet = EmptyTicks
      /\ tick = "idle" /\ apply = ApplyIdle
  BY DEF Init, ModInit
<1>0. job = "none" /\ wanted = (server = "up")
  BY DEF Init
<1>1. call["job"] = "none" /\ call["timer"] = "none" /\ apply.at = "idle"
  BY <1>u, <1>m DEF ApplyIdle
<1>2. UnitTypeOK
  <2>1. call \in [Scripts -> Calls]
    BY <1>u DEF Calls
  <2>2. attempt \in [Scripts -> 0 .. MaxAttempts]
    <3>1. 0 \in 0 .. MaxAttempts
      BY UnitAssumption
    <3> QED
      BY <1>u, <3>1
  <2> QED
    BY <1>u, <2>1, <2>2, CallTypes
<1>3. BuildTypeOK
  <2>1. 0 \in Builds
    BY BuildAssumption DEF Builds
  <2>2. live \in [Entries -> Builds \cup {Absent, Torn}] /\ saved \in [Entries -> Builds \cup {Absent, Torn}]
    BY <1>b, <2>1 DEF Nothing
  <2> QED
    BY <1>b, <2>1, <2>2 DEF BuildTypeOK
<1>4. ModTypeOK
  <2>1. Unset \in Unset .. EmptyTicks /\ EmptyTicks \in 0 .. EmptyTicks
    BY ModAssumption DEF Unset
  <2>2. ApplyIdle \in [at : {"idle", "save", "items", "restart"}, by : Scripts,
                       restart : BOOLEAN, bad : BOOLEAN]
    BY DEF ApplyIdle
  <2> QED
    BY <1>u, <1>m, <2>1, <2>2 DEF ModTypeOK
<1>5. TypeOK
  BY <1>0, <1>2, <1>3, <1>4 DEF TypeOK
<1>6. TimerOK /\ JobOK /\ HoldOK /\ SwapOK
  BY <1>u, <1>b, <1>m, <1>0, <1>1 DEF TimerOK, JobOK, JobApplies, Stopping, HoldOK, SwapOK, Swapping
<1>7. ClockOK /\ OwedOK
  BY <1>u, <1>m DEF ClockOK, OwedOK
<1>8. BuildOK
  <2>1. OneBuild(live)
    <3>1. 0 \in Builds
      BY BuildAssumption DEF Builds
    <3> QED
      BY <1>b, <3>1 DEF OneBuild, Is, Entries
  <2> QED
    BY <1>b, <2>1 DEF BuildOK, InstallOK
<1>9. DownOK
  BY <1>0 DEF DownOK, Wants
<1> QED
  BY <1>5, <1>6, <1>7, <1>8, <1>9 DEF IInv

LEMMA Next1 ==
  ASSUME IInv, [Next]_vars
  PROVE  IInv'
<1>1. CASE Jobs
  BY <1>1, BeginsJob, AppliedStep, JobGoesOnStep, JobDiesStep DEF Jobs
<1>2. CASE job = "none" /\ (Begin \/ Update) /\ UNCHANGED modVars /\ UNCHANGED <<job, wanted>>
  BY <1>2, UpdateStep
<1>3. CASE Mods /\ Installed /\ UNCHANGED job
  BY <1>3, ModsStep
<1>4. CASE Unit /\ Installed /\ UNCHANGED modVars /\ UNCHANGED job
  BY <1>4, UnitStep
<1>5. CASE UNCHANGED vars
  <2>1. /\ UNCHANGED <<server, call, attempt, dog, halt, early, owed, failed>>
        /\ UNCHANGED <<live, saved, pc, target, was, answer, before, job, wanted>>
        /\ UNCHANGED <<listed, pending, emptyFor, tick, apply, rows, quiet>>
    BY <1>5 DEF vars, unitVars, buildVars, modVars
  <2>2. TypeOK' /\ TimerOK' /\ JobOK' /\ ClockOK' /\ OwedOK'
    BY <2>1 DEF IInv, TypeOK, UnitTypeOK, BuildTypeOK, ModTypeOK, TimerOK, JobOK, JobApplies, ClockOK,
                OwedOK, Active, Without
  <2> QED
    BY <2>1, <2>2, ModFrame DEF Installed, buildVars, IInv, TypeOK
<1> QED
  BY <1>1, <1>2, <1>3, <1>4, <1>5 DEF Next

LEMMA AlwaysIInv == Spec => []IInv
<1>1. Init => IInv
  BY Init1
<1>2. IInv /\ [Next]_vars => IInv'
  BY Next1
<1> QED
  BY <1>1, <1>2, PTL DEF Spec

\* Every variable has a value of its type.
THEOREM TypeCorrect == Spec => []TypeOK
<1>1. IInv => TypeOK
  BY DEF IInv
<1> QED
  BY <1>1, AlwaysIInv, PTL

-----------------------------------------------------------------------------
(* The properties *)

\* A server is not left down by the updates and restarts of the agent's jobs and of the
\* timer, unless a boot has failed or the agent was restarted, or a build update found it
\* inactive: whatever stops it is there to start it.
THEOREM NotForgotten == Spec => []NotLeftDown
<1>1. IInv => NotLeftDown
  <2>1. SUFFICES ASSUME IInv, JobFree, tick = "idle", wanted, Without({"boot", "killed"}),
                        server = "down"
                 PROVE  Left
    BY DEF NotLeftDown, Without, Left
  <2>2. ByTimer \/ ByJob \/ Left
    BY <2>1 DEF IInv, DownOK, Wants
  <2>3. ~ByTimer
    BY <2>1 DEF IInv, TimerOK, ByTimer
  <2>4. ~ByJob
    BY <2>1 DEF ByJob, JobFree, Swapping
  <2> QED
    BY <2>2, <2>3, <2>4
<1> QED
  BY <1>1, AlwaysIInv, PTL

\* No server runs on with items that were installed after its start by an update that was
\* to restart it, unless the stop was refused or the script killed.
THEOREM ItemsAreLoaded == Spec => []UpdatesLoaded
<1>1. IInv => UpdatesLoaded
  BY DEF IInv, OwedOK, UpdatesLoaded, Without
<1> QED
  BY <1>1, AlwaysIInv, PTL

\* A server that listens runs the entries of one build, and of the new one after an update
\* that answered so, whatever else failed on the way.
THEOREM OneBuildRuns == Spec => []RunsOneBuild
<1>1. IInv => RunsOneBuild
  <2>1. SUFFICES ASSUME IInv, Listening, pc # "restore", halt # "broken", Without({"move", "killed"})
                 PROVE  \E b \in Builds :
                          /\ \A e \in Root : live[e] = b
                          /\ pc = "idle" /\ answer = "updated" =>
                               /\ b = target
                               /\ (\A e \in Meta : live[e] = target) \/ (\A e \in Meta : live[e] = before[e])
    BY DEF RunsOneBuild, Without
  <2>2. InstallOK /\ target \in Builds
    BY <2>1, Before DEF IInv, BuildOK
  <2>3. CASE pc = "idle" /\ answer = "updated"
    <3>1. Is(Root, live, target) /\ MetaOK
      BY <2>2, <2>3 DEF InstallOK
    <3> QED
      BY <2>2, <3>1 DEF Is, Same, MetaOK
  <2>4. CASE ~(pc = "idle" /\ answer = "updated")
    <3>1. pc \notin Swapping /\ (pc = "delete" => halt = "none")
      BY <2>1, Before DEF IInv, SwapOK, HoldOK, Active, Listening, TypeOK, UnitTypeOK
    <3>2. pc \in {"idle", "stop", "resume", "boot", "delete"}
      BY <2>1, <3>1, Before
    <3>3. OneBuild(live) \/ Is(Root, live, target)
      BY <2>2, <3>1, <3>2 DEF InstallOK
    <3>4. \E b \in Builds : \A e \in Root : live[e] = b
      BY <2>2, <3>3 DEF OneBuild, Is
    <3> QED
      BY <2>4, <3>4
  <2> QED
    BY <2>3, <2>4
<1> QED
  BY <1>1, AlwaysIInv, PTL

\* The timer restarts a server for its mods only if every tick since as long as it must be
\* empty has counted no players.
THEOREM PlayersAreSpared == Spec => QuietEnough
<1>1. IInv /\ [Next]_vars =>
        [tick = "look" /\ tick' = "apply" /\ apply'.restart => quiet = EmptyTicks]_modVars
  <2>1. SUFFICES ASSUME IInv, [Next]_vars, tick = "look", tick' = "apply", apply'.restart
                 PROVE  quiet = EmptyTicks
    OBVIOUS
  <2>2. \/ Look
        \/ tick' = tick
        \/ \E ok \in BOOLEAN : Done(ok)
    <3>1. CASE Jobs
      BY <3>1 DEF Jobs, StartJob, StopJob, RestartJob, ApplyJob, Applied, JobGoesOn, JobDies, modVars
    <3>2. CASE Mods
      <4>1. CASE Save
        BY <4>1 DEF Save
      <4>2. CASE \E i \in Items : Install(i)
        BY <4>2 DEF Install
      <4>3. CASE Reload
        <5>1. apply.bad \in BOOLEAN
          BY <2>1 DEF IInv, TypeOK, ModTypeOK
        <5> QED
          BY <4>3, <5>1 DEF Reload
      <4>4. CASE Reloaded
        <5>1. apply.bad \in BOOLEAN
          BY <2>1 DEF IInv, TypeOK, ModTypeOK
        <5> QED
          BY <4>4, <5>1 DEF Reloaded, modVars
      <4>5. CASE Tick
        BY <2>1, <4>5 DEF Tick
      <4>6. CASE Publish
        BY <4>6 DEF Publish
      <4> QED
        BY <3>2, <4>1, <4>2, <4>3, <4>4, <4>5, <4>6 DEF Mods, Apply
    <3>3. CASE UNCHANGED modVars
      BY <3>3 DEF modVars
    <3> QED
      BY <2>1, <3>1, <3>2, <3>3 DEF Next, vars
  <2>3. CASE Look
    <3>1. \/ Begins("timer", FALSE)
          \/ emptyFor \notin {Unset} \cup (0 .. EmptyTicks - 1)
      <4>1. CASE emptyFor = Unset \/ emptyFor \in 0 .. EmptyTicks - 1
        <5>1. emptyFor = Unset => emptyFor \notin 0 .. EmptyTicks - 1
          BY DEF Unset
        <5>2. Waits \/ TimerApplies(FALSE)
          BY <2>3, <4>1, <5>1 DEF Look
        <5> QED
          BY <2>1, <5>2 DEF Waits, TimerApplies
      <4>2. CASE ~(emptyFor = Unset \/ emptyFor \in 0 .. EmptyTicks - 1)
        BY <4>2
      <4> QED
        BY <4>1, <4>2
    <3>2. ~Begins("timer", FALSE)
      BY <2>1 DEF Begins
    <3>3. /\ emptyFor \in Unset .. EmptyTicks /\ quiet \in 0 .. EmptyTicks /\ EmptyTicks \in Nat
          /\ emptyFor # Unset => emptyFor <= quiet
      BY <2>1, ModAssumption DEF IInv, TypeOK, ModTypeOK, ClockOK
    <3>4. emptyFor # Unset /\ ~(emptyFor \in 0 .. EmptyTicks - 1)
      BY <3>1, <3>2
    <3>5. emptyFor \in Int /\ quiet \in Int /\ emptyFor <= quiet /\ quiet <= EmptyTicks
          /\ -1 <= emptyFor /\ emptyFor # -1
      BY <3>3, <3>4 DEF Unset
    <3> QED
      BY <3>3, <3>4, <3>5
  <2>4. ASSUME NEW ok \in BOOLEAN, Done(ok)
        PROVE  FALSE
    BY <2>1, <2>4 DEF Done
  <2> QED
    BY <2>1, <2>2, <2>3, <2>4
<1> QED
  BY <1>1, AlwaysIInv, PTL DEF Spec, QuietEnough

\* A server that a job has stopped is started by nobody but jobs and those who were about to
\* start it when it was stopped.
THEOREM StopsHold == Spec => StopHolds
<1>1. IInv /\ [Next]_vars =>
        [halt = "held" /\ halt' = "broken" => \E w \in early : Started(w)]_unitVars
  <2>1. SUFFICES ASSUME IInv, [Next]_vars, halt = "held", halt' = "broken"
                 PROVE  \E w \in early : Started(w)
    OBVIOUS
  <2>2. \/ \E p \in Scripts : Restart(p)
        \/ WatchdogEnds \/ AutoRestart
    <3>1. ASSUME NEW p \in Scripts
          PROVE  ~Holds(p) /\ ~StopBegins(p) /\ ~Returns(p) /\ ~BootBegins(p) /\ ~Halt(p)
                 /\ ~Watch(p) /\ ~Sample(p)
      BY <2>1 DEF Holds, StopBegins, Returns, BootBegins, Halt, Watch, Sample
    <3>2. ~UNCHANGED <<server, call, attempt, dog, halt, early, owed, failed>> /\ ~UNCHANGED unitVars
          /\ ~Apart
      BY <2>1 DEF unitVars, Apart
    <3>3. "job" \in Scripts
      BY DEF Scripts
    <3>4. ~Jobs
      BY <2>1, <3>1, <3>2, <3>3 DEF Jobs, StartJob, StopJob, RestartJob, ApplyJob, Applied, JobGoesOn,
                                   JobDies, JobKilled
    <3>5. ~Begin /\ ~Update
      <4>1. ~Begin /\ ~Stop /\ ~Fetch /\ ~NextPart /\ ~Delete /\ ~Restore
        BY <3>1, <3>2, <3>3 DEF Begin, Stop, Fetch, NextPart, Delete, Restore
      <4>2. ~Boot /\ ~Resume
        BY <3>1, <3>2, <3>3 DEF Boot, Resume
      <4>3. ~Killed
        BY <2>1 DEF Killed, JobKilled
      <4>4. ASSUME NEW e \in Entries PROVE ~Move(e) /\ ~Copy(e)
        BY <3>2 DEF Move, Copy
      <4> QED
        BY <4>1, <4>2, <4>3, <4>4 DEF Update
    <3>6. ~Mods
      <4>1. apply.by \in Scripts
        BY <2>1 DEF IInv, TypeOK, ModTypeOK
      <4>2. ASSUME NEW i \in Items PROVE ~Install(i)
        BY <2>1 DEF Install
      <4>3. ~Save /\ ~Tick /\ ~Look /\ ~Publish
        BY <3>2 DEF Save, Tick, Look, Publish
      <4>4. ~Reload /\ ~Reloaded
        BY <3>1, <3>2, <4>1 DEF Reload, Reloaded
      <4> QED
        BY <4>2, <4>3, <4>4 DEF Mods, Apply
    <3>7. ~WatchdogLooks /\ ~Boots /\ ~GameCrash
      BY <2>1 DEF WatchdogLooks, Boots, GameCrash
    <3>8. ~UNCHANGED vars
      BY <3>2 DEF vars
    <3>9. Unit
      BY <2>1, <3>4, <3>5, <3>6, <3>8 DEF Next
    <3> QED
      BY <3>1, <3>7, <3>9 DEF Unit, BootRetry
  <2>3. CASE \E p \in Scripts : Restart(p)
    <3>1. PICK p \in Scripts : Restart(p)
      BY <2>3
    <3>2. p = "timer"
      BY <2>1, <3>1 DEF Restart, StartedBy, Scripts
    <3>3. call["timer"] = "start" /\ call \in [Scripts -> Calls] /\ Goes("timer", "watch")
      BY <2>1, <3>1, <3>2, CallTypes DEF Restart, IInv, TypeOK
    <3>4. call'["timer"] = "watch"
      BY <3>3 DEF Goes, Scripts
    <3>5. "timer" \in early
      BY <2>1, <3>3 DEF IInv, HoldOK
    <3> QED
      BY <3>3, <3>4, <3>5 DEF Started
  <2>4. CASE WatchdogEnds
    BY <2>1, <2>4 DEF WatchdogEnds, IInv, HoldOK, Started
  <2>5. CASE AutoRestart
    BY <2>1, <2>5 DEF AutoRestart, IInv, HoldOK, Started
  <2> QED
    BY <2>2, <2>3, <2>4, <2>5
<1> QED
  BY <1>1, AlwaysIInv, PTL DEF Spec, StopHolds

=============================================================================
