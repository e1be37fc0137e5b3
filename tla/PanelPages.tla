----------------------------- MODULE PanelPages -----------------------------
(***************************************************************************)
(* The parts of the panel that keep state of their own: the configuration  *)
(* (ServerConfiguration.tsx), the load order (ModManager.tsx), the         *)
(* Workshop card (ModsPage.tsx), the access editor (OverviewPage.tsx) and  *)
(* the realtime console (RconConsole.tsx).                                 *)
(*                                                                         *)
(* `form` is the local state of the open part.  Effects run in the step    *)
(* that changes what they depend on.  A followed operation is polled until *)
(* it is settled; `poll` is what the query last returned for it.           *)
(***************************************************************************)
EXTENDS ControlPanel

CONSTANT Capabilities   \* direct capabilities, for the console

VARIABLES
  config,    \* the server-config query's data: [rev, value], or None
  reading    \* its fetch: None, [snapshot |-> None] until the host is read, or the answer

vars == <<agentVars, host, drops, shellVars, form, config, reading>>

Blank ==
  CASE part = "settings" -> [draft |-> None, review |-> FALSE, follow |-> 0, poll |-> "none",
                             awaits |-> 0, saved |-> 0]
    [] part = "mods"     -> [list |-> status, dirty |-> FALSE, review |-> FALSE,
                             follow |-> 0, poll |-> "none"]
    [] part = "workshop" -> [check |-> 0, checked |-> "none", offer |-> FALSE,
                             review |-> FALSE, follow |-> 0, poll |-> "none"]
    [] part = "access"   -> [open |-> FALSE, value |-> None, typed |-> FALSE, review |-> FALSE]
    [] part = "console"  -> [selected |-> CHOOSE c \in Capabilities : TRUE, running |-> None,
                             output |-> None]

Init ==
  /\ ShellInit
  /\ IF part = "console" THEN AgentInit ELSE EnrolledInit
  /\ config = None /\ reading = None
  /\ form = Blank

\* A configuration as it was read, with its revision.
Snapshot == [rev : Nat, value : Values]
Fetch == [snapshot : Snapshot \cup {None}]

ASSUME PagesAssumption == None \notin Fetch

TypeOK ==
  /\ AgentTypeOK /\ ShellTypeOK
  /\ config \in Snapshot \cup {None}
  /\ reading \in Fetch \cup {None}
  /\ part \in {"settings", "mods", "workshop"} => form.follow \in 0 .. Len(ops)

Change(f) == form' = f
Only(f) == Change(f) /\ UNCHANGED <<agentVars, host, drops, shellVars, config, reading>>
Unread == UNCHANGED <<config, reading>>

\* The page is left and opened again: its state is lost, the queries' data is not,
\* and what the mutation brings later finds no page.
Leave ==
  /\ part # "console"
  /\ Drop
  /\ Change(Blank)
  /\ post' = IF post = None THEN None ELSE [post EXCEPT !.attached = FALSE]
  /\ UNCHANGED <<agentVars, host, part, ops, known, status, config, reading>>

-----------------------------------------------------------------------------
(* Configuration *)

changed == form.draft # None /\ form.draft # config.value
applying == busy \/ form.poll = "active"

\* readConfig, when the page is opened or focused, or by the user.
Reload ==
  /\ part = "settings" /\ Authorized
  /\ reading = None
  /\ reading' = [snapshot |-> None]
  /\ UNCHANGED <<agentVars, host, drops, shellVars, form, config>>

ReadOnHost ==
  /\ reading # None /\ reading.snapshot = None
  /\ reading' = [snapshot |-> host]
  /\ UNCHANGED <<agentVars, host, drops, shellVars, form, config>>

\* The page's success effect waits for the re-read it asked for.
ReadArrives ==
  /\ reading # None /\ reading.snapshot # None
  /\ config' = reading.snapshot
  /\ reading' = None
  /\ Change(IF form.awaits # 0 THEN [form EXCEPT !.awaits = 0, !.saved = form.awaits] ELSE form)
  /\ UNCHANGED <<agentVars, host, drops, shellVars>>

ReadFails ==
  /\ reading # None
  /\ Drop
  /\ reading' = None
  /\ Change([form EXCEPT !.awaits = 0])
  /\ UNCHANGED <<agentVars, host, shellVars, config>>

\* A field, a preset, or the undoing of a change, behind no dialog.
EditSetting ==
  /\ part = "settings" /\ config # None /\ ~form.review
  /\ \/ ~applying /\ \E v \in Values : Only([form EXCEPT !.draft = v, !.saved = 0])
     \/ changed /\ Only([form EXCEPT !.draft = None])

ReviewSettings ==
  /\ part = "settings" /\ config # None
  /\ ~applying
  /\ \/ changed /\ ~form.review /\ Only([form EXCEPT !.review = TRUE])
     \/ form.review /\ Only([form EXCEPT !.review = FALSE])

Update(v, rev) == [Plain("config.update") EXCEPT !.value = v, !.rev = rev, !.shown = config.value]

\* Mutant of ApplySettings: the revision is that of the value, not of the page.
ApplySettingsLatest ==
  /\ part = "settings" /\ form.review
  /\ ~applying
  /\ Mutate(Update(form.draft, host.rev))
  /\ UNCHANGED <<agentVars, host, drops, part, ops, known, status, form>> /\ Unread

\* applyChanges: what the dialog shows, and the revision it was read with.  When a
\* reload has brought the drafted value, the list of changes is empty.
ApplySettings ==
  /\ part = "settings" /\ form.review
  /\ ~applying
  /\ Mutate(Update(IF changed THEN form.draft ELSE None, config.rev))
  /\ UNCHANGED <<agentVars, host, drops, part, ops, known, status, form>> /\ Unread

\* Mutant of FollowSettings: the success effect joins a read under way.
FollowSettingsJoins ==
  LET outcome == ops[form.follow].status IN
  /\ part = "settings" /\ form.follow # 0 /\ form.poll # outcome
  /\ IF outcome = "succeeded"
       THEN /\ Change([form EXCEPT !.poll = outcome, !.draft = None, !.awaits = form.follow])
            /\ reading' = IF reading = None THEN [snapshot |-> None] ELSE reading
       ELSE Change([form EXCEPT !.poll = outcome]) /\ UNCHANGED reading
  /\ UNCHANGED <<agentVars, host, drops, shellVars, config>>

\* The poll every 1.5 s and its success effect: the draft is dropped, and the
\* configuration read again, in place of a read under way.
FollowSettings ==
  LET outcome == ops[form.follow].status IN
  /\ part = "settings" /\ form.follow # 0 /\ form.poll # outcome
  /\ IF outcome = "succeeded"
       THEN /\ Change([form EXCEPT !.poll = outcome, !.draft = None, !.awaits = form.follow])
            /\ reading' = [snapshot |-> None]
       ELSE Change([form EXCEPT !.poll = outcome]) /\ UNCHANGED reading
  /\ UNCHANGED <<agentVars, host, drops, shellVars, config>>

Settings ==
  \/ Reload \/ ReadOnHost \/ ReadArrives \/ ReadFails
  \/ EditSetting \/ ReviewSettings \/ ApplySettings \/ FollowSettings

-----------------------------------------------------------------------------
(* Load order *)

locked == busy \/ form.follow # 0

\* The effect on the reported inventory: it ends the wait for the lists that were
\* submitted, and otherwise shows itself unless the user has arranged something.
Inventory(f, s) ==
  IF s = None THEN f
  ELSE IF f.follow # 0
  THEN IF s = ops[f.follow].request.value
         THEN [f EXCEPT !.follow = 0, !.poll = "none", !.dirty = FALSE, !.list = s]
         ELSE f
  ELSE IF f.dirty THEN f ELSE [f EXCEPT !.list = s]

\* Moving, disabling and enabling a mod.
Arrange ==
  /\ part = "mods" /\ status # None /\ ~form.review
  /\ ~locked
  /\ \E v \in Values : Only([form EXCEPT !.list = v, !.dirty = TRUE])

DiscardOrReview ==
  /\ part = "mods" /\ status # None /\ form.dirty
  /\ ~locked
  /\ \/ ~form.review /\ Only(Inventory([form EXCEPT !.dirty = FALSE], status))
     \/ Only([form EXCEPT !.review = ~form.review])

SaveMods ==
  /\ part = "mods" /\ form.review
  /\ ~locked
  /\ Mutate([Plain("mods.configure") EXCEPT !.value = form.list])
  /\ UNCHANGED <<agentVars, host, drops, part, ops, known, status, form>> /\ Unread

\* Mutant of FollowMods: only a success is noticed.
FollowModsSuccess ==
  /\ part = "mods" /\ form.follow # 0
  /\ form.poll # ops[form.follow].status
  /\ Change([form EXCEPT !.poll = ops[form.follow].status])
  /\ UNCHANGED <<agentVars, host, drops, shellVars>> /\ Unread

\* The poll: a failure, of the operation or of the poll itself, ends the wait; a
\* success does not, the inventory has to agree.
FollowMods ==
  LET outcome == ops[form.follow].status
      ended == Inventory([form EXCEPT !.follow = 0, !.poll = "none"], status)
  IN  /\ part = "mods" /\ form.follow # 0
      /\ \/ /\ form.poll # outcome
            /\ Change(IF outcome = "failed" THEN ended ELSE [form EXCEPT !.poll = outcome])
            /\ UNCHANGED drops
         \/ Drop /\ Change(ended)
      /\ UNCHANGED <<agentVars, host, shellVars>> /\ Unread

Mods == Arrange \/ DiscardOrReview \/ SaveMods \/ FollowMods

-----------------------------------------------------------------------------
(* The Workshop card *)

CheckUpdates ==
  /\ part = "workshop" /\ ~form.review
  /\ ~busy /\ form.poll # "active" /\ form.checked # "active"
  /\ Mutate(Plain("mods.update.check"))
  /\ Change([form EXCEPT !.follow = 0, !.poll = "none"])
  /\ UNCHANGED <<agentVars, host, drops, part, ops, known, status>> /\ Unread

ReviewUpdate ==
  /\ part = "workshop" /\ form.offer
  /\ ~busy /\ form.poll # "active"
  /\ Only([form EXCEPT !.review = ~form.review])

ApplyUpdate ==
  /\ part = "workshop" /\ form.offer /\ form.review
  /\ ~busy /\ form.poll # "active"
  /\ Mutate(Plain("mods.update.apply"))
  /\ UNCHANGED <<agentVars, host, drops, part, ops, known, status, form>> /\ Unread

\* The poll of the check, which may find updates.
FollowCheck ==
  LET outcome == ops[form.check].status IN
  /\ part = "workshop" /\ form.check # 0 /\ form.checked # outcome
  /\ \E found \in IF outcome = "succeeded" THEN BOOLEAN ELSE {FALSE} :
       Only([form EXCEPT !.checked = outcome, !.offer = found])

\* Mutant of FollowUpdate: without the effect on success.
FollowUpdateOnly ==
  LET outcome == ops[form.follow].status IN
  /\ part = "workshop" /\ form.follow # 0 /\ form.poll # outcome
  /\ Only([form EXCEPT !.poll = outcome])

\* The poll of the update, whose success withdraws the offer.
FollowUpdate ==
  LET outcome == ops[form.follow].status IN
  /\ part = "workshop" /\ form.follow # 0 /\ form.poll # outcome
  /\ Only(IF outcome = "succeeded"
            THEN [form EXCEPT !.poll = outcome, !.check = 0, !.checked = "none",
                            !.offer = FALSE, !.review = FALSE]
            ELSE [form EXCEPT !.poll = outcome])

Workshop == CheckUpdates \/ ReviewUpdate \/ ApplyUpdate \/ FollowCheck \/ FollowUpdate

-----------------------------------------------------------------------------
(* The access editor *)

OpenEditor ==
  /\ part = "access" /\ status # None
  /\ \/ ~form.open /\ ~busy
        /\ Only([form EXCEPT !.open = TRUE, !.value = status, !.typed = FALSE])
     \/ form.open /\ Only([form EXCEPT !.open = FALSE])

Type ==
  /\ part = "access" /\ form.open
  /\ \E v \in Values : Only([form EXCEPT !.value = v, !.typed = TRUE])

\* All fields are sent, those too the user has not touched.
SaveAccess ==
  /\ part = "access" /\ form.open
  /\ ~busy
  /\ Mutate([Plain("settings.update") EXCEPT !.value = form.value, 
                            !.shown = IF form.typed THEN None ELSE status])
  /\ UNCHANGED <<agentVars, host, drops, part, ops, known, status, form>> /\ Unread

\* The status has another settings object, with the same value of what is edited.
OtherSetting ==
  /\ part = "access" /\ form.open
  /\ status # None /\ GetStatus = status
  /\ Only([form EXCEPT !.value = status, !.typed = FALSE])

Access == OpenEditor \/ Type \/ SaveAccess \/ OtherSetting

-----------------------------------------------------------------------------
(* The realtime console *)

\* Mutant of Select: the mutation is not reset.
SelectOnly ==
  /\ part = "console"
  /\ \E c \in Capabilities : Only([form EXCEPT !.selected = c])

\* The user, or a change of the host's capabilities, selects another one: the
\* mutation is reset, and its command, if one is running, has no observer left.
Select ==
  /\ part = "console"
  /\ \E c \in Capabilities : Only([selected |-> c, running |-> None, output |-> None])

RunNow ==
  /\ part = "console" /\ Authorized
  /\ form.running = None
  /\ Only([form EXCEPT !.running = form.selected, !.output = None])

\* The answer, or an error.
Output ==
  /\ part = "console" /\ form.running # None
  /\ \E o \in {form.running, None} : Only([form EXCEPT !.running = None, !.output = o])

Console == Select \/ RunNow \/ Output

-----------------------------------------------------------------------------
(* What reaches all of them *)

\* Mutant of Refreshed: the access editor keeps the values it was opened with.
RefreshedModsOnly(s) == IF part = "mods" THEN Inventory(form, s) ELSE form

\* The effects of a status whose value has changed: on the load order, and on the
\* access editor, which starts over.
Refreshed(s) ==
  CASE part = "mods" -> Inventory(form, s)
    [] part = "access" /\ form.open -> [form EXCEPT !.value = s, !.typed = FALSE]
    [] OTHER -> form

\* The status query, every 15 s, or the stream, every 5 s.  A failure leaves what
\* was shown.
RefreshStatus ==
  /\ GetStatus \notin {None, status}
  /\ status' = GetStatus
  /\ Change(Refreshed(GetStatus))
  /\ UNCHANGED <<agentVars, host, drops, part, ops, known, post>> /\ Unread

\* What the part does with the operation it has queued.
Continue(r, id) ==
  CASE part = "settings" -> [form EXCEPT !.review = FALSE, !.follow = id, !.poll = "none"]
    [] part = "mods" /\ r.kind = "mods.configure" ->
         Inventory([form EXCEPT !.review = FALSE, !.follow = id, !.poll = "none"], status)
    [] part = "workshop" /\ r.kind = "mods.update.check" ->
         [form EXCEPT !.check = id, !.checked = "none", !.offer = FALSE]
    [] part = "workshop" /\ r.kind = "mods.update.apply" ->
         [form EXCEPT !.follow = id, !.poll = "none", !.review = FALSE]
    [] part = "access" -> [form EXCEPT !.open = FALSE]
    [] OTHER -> form

PostAnswered ==
  /\ post # None /\ post.state # "sent"
  /\ Change(IF post.state = "queued" /\ post.attached THEN Continue(post.request, post.id) ELSE form)
  /\ post' = None
  /\ UNCHANGED <<agentVars, host, drops, part, ops, known, status>> /\ Unread

-----------------------------------------------------------------------------

Follow == FollowSettings \/ FollowMods \/ FollowCheck \/ FollowUpdate

\* Heartbeats go on while a part is open that shows the status, operations while
\* one is open that follows them: the other parts do not look.
Beats(A) ==
  /\ part \in {"mods", "access", "console"}
  /\ A /\ UNCHANGED <<shellVars, form, config, reading>>

Next ==
  \/ Beats(Agent)
  \/ part # "console" /\ (Server \/ Frame) /\ Unread
  \/ Settings \/ Mods \/ Workshop \/ Access \/ Console
  \/ Leave \/ RefreshStatus \/ PostAnswered

Spec == Init /\ [][Next]_vars

\* Polls, timers, answers and the agent's loops go on; users need not.
FairSpec ==
  /\ Spec
  /\ WF_vars(Beats(Beat \/ Heartbeat))
  /\ WF_vars(PostArrives /\ Unread) /\ WF_vars((Succeeds \/ Fails) /\ Unread)
  /\ WF_vars(RefreshOperations /\ Unread)
  /\ WF_vars(RefreshStatus) /\ WF_vars(PostAnswered) /\ WF_vars(Follow)
  /\ WF_vars(ReadOnHost \/ ReadArrives)

-----------------------------------------------------------------------------
(* Properties *)

Done(k) == \E i \in 1 .. Len(ops) :
  /\ ops[i].request.kind = k /\ ops[i].status = "active"
  /\ ops'[i].status = "succeeded"

\* What takes effect is what its user has reviewed, whatever was reloaded, queued by others,
\* reported late or written by other operations since.  "Reviewed drafts with a revision
\* check" (README): a configuration update replaces the value its user saw as the current
\* one; and an access update changes a value its user has not touched only if the status
\* the form was filled from was behind the host, because the form follows the status.
AppliedAsReviewed ==
  [][/\ Done("config.update") => host.value = ops[Len(ops)].request.shown
     /\ Done("settings.update") =>
          LET r == ops[Len(ops)].request IN r.shown # None => r.value = r.shown]_vars

\* What the page says of its own operation is so: while "Configuration saved and
\* re-read from the host" is shown, the page shows the configuration the update has
\* made, or a later one; and the console shows under a capability only what that
\* capability has returned.
ReportedIsSo ==
  /\ part = "settings" /\ form.saved # 0 => config.rev >= ops[form.saved].result
  /\ part = "console" /\ form.output # None => form.output = form.selected

\* A page that follows an operation gets over it.  The load order does not stay
\* locked: the submitted lists are reported, or the operation fails, or somebody
\* has queued another operation meanwhile.  An offer of Workshop updates goes when
\* the update that the card follows has installed them.
PageSettles ==
  []<>~(\/ part = "mods" /\ form.follow # 0 /\ form.follow = Len(ops)
        \/ /\ part = "workshop" /\ form.offer
           /\ form.follow # 0 /\ ops[form.follow].status = "succeeded")
=============================================================================
