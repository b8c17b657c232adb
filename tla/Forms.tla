------------------------------- MODULE Forms --------------------------------
(* The forms of the Discord bot about one schedule: the lists, details,      *)
(* choices and confirmations a user has on screen, the modals opened from    *)
(* them, and the coroutines that answer clicks, wait for each other's locks, *)
(* read the schedule, change it in a transaction and replace the form.       *)
(*                                                                           *)
(* Every handler of bot/posts.py is cut at the awaits during which something *)
(* relevant can happen: before its action_lock, between the transaction's    *)
(* unlocked read and its row locks, and before the answer.  A form is never  *)
(* changed once it is shown, so that reading a schedule and showing what was *)
(* read is one step.  Of the schedule only its version, its status and what  *)
(* the form shows of it are kept (Recurring and Delivery have the rest).     *)
EXTENDS Naturals, FiniteSets

CONSTANTS
    Tasks,          \* interactions being handled at a time
    NoTask,         \* an unlocked action_lock
    MaxForms,       \* bound of the forms ever opened, for TLC only
    MaxCommands,    \* commands open forms up to this many, for TLC only
    MaxVersion      \* bound of the changes made elsewhere, for TLC only

ASSUME TaskAssumption == NoTask \notin Tasks
ASSUME BoundAssumption == {MaxForms, MaxCommands, MaxVersion} \subseteq Nat

VARIABLES
    row,        \* the schedule: version, status, and how often what a form
                \* shows of it besides (content, times, channel) has changed
    form,       \* the views and modals opened so far
    task,       \* per interaction: where its handler stands
    closing,    \* Bot.close has collected the registered forms
    effects,    \* history: the changes committed through each form
    told        \* history: what each form's user was told became of it

vars == <<row, form, task, closing, effects, told>>

Views  == {"list", "detail", "resume", "delete", "create"}
Modals == {"edit", "name", "reason", "time"}
Operations == {"select", "back", "pause", "resume", "delete", "preview",
               "create", "edit", "name", "reason", "time", "cancel"}
Verdicts == {"none", "applied", "conflict", "unavailable", "error", "cancelled"}
Tellings == {"nothing", "applied", "refused", "error", "cancelled", "expired"}
OpenStatuses == {"active", "paused"}
Statuses == OpenStatuses \cup {"over"}     \* over: deleted, ended, failed, ...

NoForm == 0
NoVersion == 0      \* forms opened by a slash command carry no version
Ids    == DOMAIN form
New    == Cardinality(Ids) + 1
HasRoom == Cardinality(Ids) < MaxForms
Shown == [status |-> row.status, edits |-> row.edits]

(* A form as it is opened: ScheduleDetailContext for those about a detail. *)
Form(kind, parent, version, seen) ==
    [kind |-> kind, parent |-> parent, version |-> version, seen |-> seen,
     finished |-> FALSE, lock |-> NoTask]

(* A handler of an interaction with form f, about the view target. *)
Handler(pc, op, f, target) ==
    [pc |-> pc, op |-> op, form |-> f, target |-> target,
     snapshot |-> NoVersion, verdict |-> "none"]
Idle == Handler("idle", "cancel", NoForm, NoForm)

Init ==
    /\ row = [version |-> 1, status |-> "active", edits |-> 0]
    /\ form = [f \in {} |-> Idle]
    /\ task = [t \in Tasks |-> Idle]
    /\ closing = FALSE
    /\ effects = [f \in 1..MaxForms |-> 0]
    /\ told = [f \in 1..MaxForms |-> "nothing"]

-----------------------------------------------------------------------------
(* Helpers *)

Opened(forms, f) ==
    [g \in Ids \cup {New} |-> IF g \in Ids THEN forms[g] ELSE f]
Free(f) == form[f].lock = NoTask
Holding(t, f) == [form EXCEPT ![f].lock = t]
Finished(forms, f) == [forms EXCEPT ![f].finished = TRUE]

(* Mutant: a modal's lock is not given back. *)
ReleasedViewsOnly(forms, t) ==
    [f \in DOMAIN forms |-> IF forms[f].lock = t /\ forms[f].kind \in Views
                            THEN [forms[f] EXCEPT !.lock = NoTask]
                            ELSE forms[f]]

(* Leaving every "async with action_lock" of a handler. *)
Released(forms, t) ==
    [f \in DOMAIN forms |-> IF forms[f].lock = t
                            THEN [forms[f] EXCEPT !.lock = NoTask]
                            ELSE forms[f]]

Op(t)     == task[t].op
Target(t) == task[t].target
View(t)   == form[Target(t)]

(* The form whose button or submission is being answered. *)
Acting(t) == IF Op(t) \in {"edit", "name"} THEN task[t].form ELSE Target(t)

Ends(t) == task' = [task EXCEPT ![t] = Idle]
GoesTo(t, pc) == task' = [task EXCEPT ![t].pc = pc]

(* What a view's buttons offer, by what it shows. *)
Buttons(f) ==
    LET status == form[f].seen.status IN
    CASE form[f].kind = "list"   -> {"select"}
      [] form[f].kind = "detail" ->
            {"back"} \cup (IF status = "active" THEN {"pause"} ELSE {})
                     \cup (IF status = "paused" THEN {"resume"} ELSE {})
                     \cup (IF status \in OpenStatuses
                           THEN {"edit", "name", "delete"} ELSE {})
      [] form[f].kind = "resume" -> {"resume", "time", "cancel"}
      [] form[f].kind = "delete" -> {"delete", "cancel"}
      [] form[f].kind = "create" -> {"create", "cancel"}

(* When the services change a schedule, and what they make of it; a creation *)
(* makes another one.                                                        *)
Permitted(op) ==
    CASE op = "pause"  -> row.status = "active"
      [] op = "resume" -> row.status = "paused"
      [] op \in {"delete", "edit", "name"} -> row.status \in OpenStatuses
      [] op = "create" -> TRUE

Changed(op) ==
    CASE op = "create" -> row
      [] op = "pause"  -> [row EXCEPT !.version = @ + 1, !.status = "paused"]
      [] op = "resume" -> [row EXCEPT !.version = @ + 1, !.status = "active"]
      [] op = "delete" -> [row EXCEPT !.version = @ + 1, !.status = "over"]
      [] op = "edit"   -> [row EXCEPT !.version = @ + 1, !.edits = @ + 1]
      [] op = "name"   -> [row EXCEPT !.version = @ + 1]

-----------------------------------------------------------------------------
(* What happens elsewhere: other users, slash commands, deliveries *)

ChangedElsewhere ==
    /\ row.version < MaxVersion
    /\ \E op \in {"pause", "resume", "delete", "edit"} :
           Permitted(op) /\ row' = Changed(op)
    /\ UNCHANGED <<form, task, closing, effects, told>>

(* The slash commands that answer with a form. *)
Opens(f) ==
    /\ ~closing /\ HasRoom /\ New <= MaxCommands
    /\ form' = Opened(form, f)
    /\ UNCHANGED <<row, task, closing, effects, told>>

ShowCommand == Opens(Form("detail", NoForm, row.version, Shown))
ListCommand == Opens(Form("list", NoForm, NoVersion, Shown))
CreateCommand == Opens(Form("create", NoForm, NoVersion, Shown))
DeleteCommand == /\ row.status \in OpenStatuses
                 /\ Opens(Form("delete", NoForm, NoVersion, Shown))
ResumeCommand == /\ row.status = "paused"
                 /\ Opens(Form("resume", NoForm, NoVersion, Shown))

-----------------------------------------------------------------------------
(* A click or a submission reaches its handler *)

Click(t, f) ==
    /\ ~closing /\ task[t].pc = "idle"
    /\ form[f].kind \in Views /\ ~form[f].finished
    /\ \E op \in Buttons(f) :
           task' = [task EXCEPT ![t] = Handler("lock", op, f, f)]
    /\ UNCHANGED <<row, form, closing, effects, told>>

Submit(t, f) ==
    /\ ~closing /\ task[t].pc = "idle"
    /\ form[f].kind \in Modals /\ ~form[f].finished
    /\ task' = [task EXCEPT ![t] =
                   Handler("modal", form[f].kind, f, form[f].parent)]
    /\ UNCHANGED <<row, form, closing, effects, told>>

(* on_submit of the four modals: the first submission of an open one counts. *)
(* Editors go on to their transaction without the view's lock.               *)
EnterModal(t) ==
    LET f == task[t].form IN
    /\ task[t].pc = "modal" /\ Free(f)
    /\ \/ /\ form[f].finished /\ Ends(t) /\ UNCHANGED form
       \/ /\ ~form[f].finished
          /\ form' = Finished(form, f) /\ Ends(t)    \* input or actor refused
       \/ /\ ~form[f].finished
          /\ form' = Finished(Holding(t, f), f)
          /\ IF Op(t) = "reason"
             THEN task' = [task EXCEPT ![t].pc = "lock", ![t].op = "preview"]
             ELSE GoesTo(t, IF Op(t) = "time" THEN "lock" ELSE "look")
    /\ UNCHANGED <<row, closing, effects, told>>

-----------------------------------------------------------------------------
(* Handlers that run under the view's action_lock *)

(* Mutant: the form is looked at before its lock is awaited, not after. *)
StillOpenAtClick(t) == TRUE

StillOpen(t) == ~View(t).finished

HasLock(t) == task[t].pc = "lock" /\ Free(Target(t))
MayAct(t)  == HasLock(t) /\ StillOpen(t)

(* A finished form, an actor without permission, a response Discord refuses: *)
(* the handler returns without having done anything.                         *)
TurnedAway(t) ==
    /\ HasLock(t)
    /\ Ends(t) /\ form' = Released(form, t)
    /\ UNCHANGED <<row, closing, effects, told>>

(* The buttons that change the schedule, after their defer(). *)
StartChange(t) ==
    /\ MayAct(t)
    /\ \/ Op(t) = "pause" /\ View(t).kind = "detail"
       \/ Op(t) = "resume" /\ View(t).kind = "resume"
       \/ Op(t) = "delete" /\ View(t).kind = "delete"
       \/ Op(t) = "create"
    /\ form' = Holding(t, Target(t)) /\ GoesTo(t, "look")
    /\ UNCHANGED <<row, closing, effects, told>>

(* The old view hands its message over to the new one. *)
Replaces(t, new) ==
    /\ HasRoom
    /\ form' = Released(Finished(Opened(form, new), Target(t)), t)
    /\ Ends(t)
    /\ UNCHANGED <<row, closing, effects, told>>

ShowSelection(t) ==
    /\ MayAct(t) /\ Op(t) = "select"
    /\ Replaces(t, Form("detail", NoForm, row.version, Shown))

ReturnToList(t) ==
    /\ MayAct(t) /\ Op(t) = "back"
    /\ Replaces(t, Form("list", NoForm, NoVersion, Shown))

OpenModal(t, kind) ==
    /\ HasRoom
    /\ form' = Opened(form, Form(kind, Target(t), View(t).version, View(t).seen))
    /\ Ends(t)
    /\ UNCHANGED <<row, closing, effects, told>>

EditFromDetail(t) ==
    /\ MayAct(t) /\ Op(t) \in {"edit", "name"}
    /\ OpenModal(t, Op(t))

AskTime(t) ==
    /\ MayAct(t) /\ Op(t) = "time" /\ task[t].form = Target(t)
    /\ OpenModal(t, "time")

Conflicts(t, version) == View(t).version \notin {NoVersion, version}

(* Resuming from a detail: once the held time has passed, the user chooses. *)
ResumeFromDetail(t) ==
    /\ MayAct(t) /\ Op(t) = "resume" /\ View(t).kind = "detail"
    /\ \/ /\ Conflicts(t, row.version) \/ row.status # "paused"
          /\ form' = Holding(t, Target(t))
          /\ task' = [task EXCEPT ![t].pc = "answer", ![t].verdict =
                         IF Conflicts(t, row.version) THEN "conflict" ELSE "unavailable"]
          /\ UNCHANGED <<row, closing, effects, told>>
       \/ /\ ~Conflicts(t, row.version) /\ row.status = "paused"
          /\ \/ Replaces(t, Form("resume", NoForm, View(t).version, View(t).seen))
             \/ /\ form' = Holding(t, Target(t)) /\ GoesTo(t, "look")
                /\ UNCHANGED <<row, closing, effects, told>>

(* Administrators give a reason first; others go straight to the preview,    *)
(* for which the lock is left and taken again.                               *)
DeleteFromDetail(t) ==
    /\ MayAct(t) /\ Op(t) = "delete" /\ View(t).kind = "detail"
    /\ \/ OpenModal(t, "reason")
       \/ /\ task' = [task EXCEPT ![t].op = "preview"]
          /\ UNCHANGED <<row, form, closing, effects, told>>

ContinueDelete(t) ==
    /\ MayAct(t) /\ Op(t) = "preview"
    /\ IF Conflicts(t, row.version)
       THEN /\ form' = Holding(t, Target(t))
            /\ task' = [task EXCEPT ![t].pc = "answer", ![t].verdict = "conflict"]
            /\ UNCHANGED <<row, closing, effects, told>>
       ELSE /\ row.status \in OpenStatuses
            /\ Replaces(t, Form("delete", NoForm, View(t).version, View(t).seen))

(* Mutant: the choice's lock is kept while its own handler waits for it. *)
HeldAfterCheck(t) == Holding(t, Target(t))

AfterTimeCheck(t) == form

(* _submit_resume_time: the choice's lock is left and taken again. *)
SubmitTime(t) ==
    /\ MayAct(t) /\ Op(t) = "time" /\ task[t].form # Target(t)
    /\ form' = AfterTimeCheck(t)
    /\ task' = [task EXCEPT ![t].op = "resume"]
    /\ UNCHANGED <<row, closing, effects, told>>

Cancel(t) ==
    /\ MayAct(t) /\ Op(t) = "cancel"
    /\ form' = Holding(t, Target(t))
    /\ task' = [task EXCEPT ![t].pc = "answer", ![t].verdict = "cancelled"]
    /\ UNCHANGED <<row, closing, effects, told>>

-----------------------------------------------------------------------------
(* The transaction of a change *)

(* Its unlocked read. *)
Look(t) ==
    /\ task[t].pc = "look"
    /\ \/ /\ task' = [task EXCEPT ![t].pc = "commit", ![t].snapshot = row.version]
          /\ ~Conflicts(t, row.version)
       \/ /\ Conflicts(t, row.version)
          /\ task' = [task EXCEPT ![t].pc = "answer", ![t].verdict = "conflict"]
    /\ UNCHANGED <<row, form, closing, effects, told>>

(* Mutant: what was read without a lock is not read again under it. *)
UnchangedUnseen(t) == TRUE

(* The re-read under the row locks finds what the first read found. *)
Revalidated(t) == Op(t) = "create" \/ row.version = task[t].snapshot

(* A commit whose reply is lost has its effect and is an error all the same; *)
(* an edit may turn out to change nothing, a new schedule to be a duplicate. *)
Commit(t) ==
    /\ task[t].pc = "commit"
    /\ \/ /\ Revalidated(t) /\ Permitted(Op(t))
          /\ row' = Changed(Op(t))
          /\ effects' = [effects EXCEPT ![Acting(t)] = @ + 1]
          /\ \E verdict \in {"applied", "error"} :
                 task' = [task EXCEPT ![t].pc = "answer", ![t].verdict = verdict]
       \/ /\ task' = [task EXCEPT ![t].pc = "answer", ![t].verdict =
                         IF Revalidated(t) THEN "unavailable" ELSE "conflict"]
          /\ UNCHANGED <<row, effects>>
       \/ /\ task' = [task EXCEPT ![t].pc = "answer", ![t].verdict = "error"]
          /\ UNCHANGED <<row, effects>>
    /\ UNCHANGED <<form, closing, told>>

-----------------------------------------------------------------------------
(* The answer *)

Telling(verdict) ==
    IF verdict \in {"conflict", "unavailable"} THEN "refused" ELSE verdict

(* A database error leaves a detail as it is; it ends a choice. *)
Stays(t) == task[t].verdict = "error" /\ View(t).kind = "detail"

(* _refresh_detail, for whatever belongs to a detail, shows the latest one;  *)
(* one past MaxForms is not followed.                                        *)
Refreshes(t) ==
    /\ View(t).version # NoVersion /\ task[t].verdict # "error"
    /\ ~(View(t).kind \in {"resume", "delete"} /\ task[t].verdict = "unavailable")

(* The form is retired before Discord is asked to show the next one. *)
Answer(t) ==
    /\ task[t].pc = "answer"
    /\ LET forms == IF Stays(t) THEN form ELSE Finished(form, Target(t)) IN
       \/ /\ form' = IF Refreshes(t) /\ HasRoom
                      THEN Released(Opened(forms,
                               Form("detail", NoForm, row.version, Shown)), t)
                      ELSE Released(forms, t)
          /\ told' = [told EXCEPT ![Acting(t)] = Telling(task[t].verdict)]
       \/ /\ form' = Released(forms, t)     \* Discord refuses the response
          /\ UNCHANGED told
    /\ Ends(t)
    /\ UNCHANGED <<row, closing, effects>>

-----------------------------------------------------------------------------
(* The ends of forms nobody uses *)

(* on_timeout of a choice or a confirmation awaits its lock like a click. *)
Expire(f) ==
    /\ form[f].kind \in {"resume", "delete", "create"}
    /\ Free(f) /\ ~form[f].finished
    /\ form' = Finished(form, f)
    /\ told' = [told EXCEPT ![f] = "expired"]
    /\ UNCHANGED <<row, task, closing, effects>>

(* A modal is closed in any state; one that is closed on screen stays open   *)
(* here until then.                                                          *)
ModalExpires(f) ==
    /\ form[f].kind \in Modals /\ ~form[f].finished
    /\ form' = Finished(form, f)
    /\ told' = [told EXCEPT ![f] = "expired"]
    /\ UNCHANGED <<row, task, closing, effects>>

(* close_confirmation_views takes no locks: handlers under way go on. *)
Close ==
    /\ ~closing /\ closing' = TRUE
    /\ form' = [f \in Ids |-> [form[f] EXCEPT !.finished = TRUE]]
    /\ UNCHANGED <<row, task, effects, told>>

Handle(t) ==
    \/ EnterModal(t) \/ TurnedAway(t) \/ StartChange(t)
    \/ ShowSelection(t) \/ ReturnToList(t) \/ EditFromDetail(t) \/ AskTime(t)
    \/ ResumeFromDetail(t) \/ DeleteFromDetail(t) \/ ContinueDelete(t)
    \/ SubmitTime(t) \/ Cancel(t) \/ Look(t) \/ Commit(t) \/ Answer(t)

Next ==
    \/ ChangedElsewhere \/ Close
    \/ ShowCommand \/ ListCommand \/ CreateCommand \/ DeleteCommand \/ ResumeCommand
    \/ \E f \in Ids : Expire(f) \/ ModalExpires(f)
    \/ \E t \in Tasks : Handle(t) \/ \E f \in Ids : Click(t, f) \/ Submit(t, f)

Spec == Init /\ [][Next]_vars

-----------------------------------------------------------------------------
(* Properties *)

(* Rows, forms and handlers have the shape of the code's; a form is locked   *)
(* by a handler that is under way.                                           *)
TypeOK ==
    /\ row \in [version : Nat \ {0}, status :Statuses, edits : Nat]
    /\ Ids = 1..Cardinality(Ids) /\ Ids \subseteq 1..MaxForms
    /\ \A f \in Ids :
         /\ form[f] \in [kind : Views \cup Modals, parent : Ids \cup {NoForm},
                         version : Nat, finished : BOOLEAN,
                         seen : [status : Statuses,
                                 edits : Nat],
                         lock : Tasks \cup {NoTask}]
         /\ form[f].kind \in Modals <=> form[f].parent # NoForm
         /\ form[f].lock # NoTask => task[form[f].lock].pc # "idle"
    /\ task \in [Tasks -> [pc : {"idle", "modal", "lock", "look", "commit", "answer"},
                           op : Operations, form : 0..MaxForms, target : 0..MaxForms,
                           snapshot : Nat, verdict : Verdicts]]
    /\ closing \in BOOLEAN
    /\ effects \in [1..MaxForms -> Nat]
    /\ told \in [1..MaxForms -> Tellings]

(* Whatever is clicked twice, cancelled, timed out or closed while it is     *)
(* answered, a form changes the schedules at most once, and its user is not  *)
(* told otherwise: what was cancelled, expired or refused never happens      *)
(* later, what was reported as done was done.                                *)
OneVerdict ==
    \A f \in Ids :
        /\ effects[f] <= 1
        /\ told[f] = "applied" => effects[f] = 1
        /\ told[f] \in {"cancelled", "expired"} => effects[f] = 0
        /\ told[f] = "refused" /\ form[f].kind # "detail" => effects[f] = 0

(* A change made from a detail, or from a choice, a confirmation or a modal  *)
(* opened there, applies to the schedule the user was shown, however long    *)
(* ago and whoever has used other forms, commands or devices since.          *)
ActsOnWhatWasShown ==
    [][\A f \in Ids :
         effects'[f] > effects[f] /\ form[f].version # NoVersion
         => form[f].seen = Shown]_vars

(* Among the handlers under way there is always one that waits for none of   *)
(* the others, nor for a lock it holds itself: whatever is clicked while     *)
(* modals and choices are being submitted and take each other's locks, every *)
(* click is answered once the database and Discord calls return.             *)
Awaited(t) == CASE task[t].pc = "modal" -> form[task[t].form].lock
                [] task[t].pc = "lock"  -> form[Target(t)].lock
                [] OTHER -> NoTask

NoEndlessWait ==
    \A waiting \in (SUBSET Tasks) \ {{}} : \E t \in waiting : Awaited(t) \notin waiting
=============================================================================
