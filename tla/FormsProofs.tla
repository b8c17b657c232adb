----------------------------- MODULE FormsProofs -----------------------------
(* One verdict per form, and changes only to what was shown.  A handler that *)
(* works on a form holds its lock; a form that may still be used has had no  *)
(* effect, unless it is a detail, whose version no longer fits then.  Locks  *)
(* are taken in an order, so that no handlers wait for each other.           *)
EXTENDS Forms, FiniteSetTheorems, TLAPS

FormRow == [kind : Views \cup Modals, parent : Nat, version : Nat, finished : BOOLEAN,
            seen : [status : Statuses, edits : Nat], lock : Tasks \cup {NoTask}]
Rows == [version : Nat \ {0}, status : Statuses, edits : Nat]
TaskRow == [pc : {"idle", "modal", "lock", "look", "commit", "answer"},
            op : Operations, form : 0..MaxForms, target : 0..MaxForms,
            snapshot : Nat, verdict : Verdicts]

(* What is fixed when a form is opened: what it shows is the schedule of its *)
(* version, a modal has the version of its view.                             *)
OpenedOK(f) ==
    /\ form[f].version <= row.version
    /\ form[f].version = row.version => form[f].seen = Shown
    /\ form[f].kind = "create" => form[f].version = NoVersion
    /\ form[f].kind = "detail" => form[f].version # NoVersion
    /\ form[f].kind \in Modals => /\ form[f].parent \in Ids
                                  /\ form[form[f].parent].version = form[f].version
                                  /\ form[form[f].parent].kind \in Views
    /\ form[f].kind \in Views => form[f].parent = NoForm

Works(t) == task[t].pc \in {"look", "commit", "answer"}
Acts(t, f) == Works(t) /\ Acting(t) = f
IsDetail(f) == form[f].kind = "detail"
HoldsNothing(t) == \A f \in Ids : form[f].lock # t
HoldsModals(t) == \A f \in Ids : form[f].lock = t => form[f].kind \in Modals
Decided(f) == \/ told[f] \in {"cancelled", "expired"}
              \/ told[f] = "refused" /\ ~IsDetail(f)

Changes == {"pause", "resume", "delete", "create", "edit", "name"}

(* A handler: what it answers, the lock it works under, and what it knows.   *)
AboutOK(t) ==
    /\ task[t].pc # "idle" => /\ task[t].form \in Ids /\ Target(t) \in Ids
                              /\ View(t).kind \in Views
    /\ task[t].pc = "modal" => /\ form[task[t].form].kind \in Modals
                               /\ Op(t) = form[task[t].form].kind
                               /\ Target(t) = form[task[t].form].parent
    /\ task[t].pc \in {"lock", "look", "commit", "answer"} =>
          /\ Op(t) = "create" => View(t).kind = "create"
          /\ Op(t) = "cancel" => ~IsDetail(Target(t))
    /\ task[t].pc \in {"look", "commit"} => Op(t) \in Changes
LocksOK(t) ==
    /\ task[t].pc \in {"idle", "modal"} => HoldsNothing(t)
    /\ task[t].pc = "lock" =>
          /\ HoldsModals(t)
          /\ Op(t) \in {"edit", "name", "delete"} => HoldsNothing(t)
          /\ Op(t) = "time" /\ task[t].form = Target(t) => HoldsNothing(t)
    /\ Works(t) => form[Acting(t)].lock = t
    /\ Works(t) /\ Op(t) \in {"edit", "name"} =>
          /\ form[task[t].form].finished /\ form[task[t].form].kind \in Modals
          /\ form[task[t].form].parent = Target(t)
KnowsOK(t) ==
    /\ task[t].pc \in {"look", "commit"} /\ ~IsDetail(Acting(t))
          => effects[Acting(t)] = 0
    /\ task[t].pc = "commit" /\ Op(t) # "create"
          => View(t).version \in {NoVersion, task[t].snapshot}
    /\ task[t].pc = "answer" =>
          /\ task[t].verdict # "none"
          /\ task[t].verdict = "applied" => effects[Acting(t)] = 1
          /\ task[t].verdict \in {"cancelled", "conflict", "unavailable"}
                /\ ~IsDetail(Acting(t)) => effects[Acting(t)] = 0
          /\ task[t].verdict = "cancelled" => ~IsDetail(Acting(t))
TaskOK(t) == AboutOK(t) /\ LocksOK(t) /\ KnowsOK(t)

(* A form: its effect, if it had one, has made its version stale; it is      *)
(* retired after it, and what its user was told is final.                    *)
EffectOK(f) ==
    /\ effects[f] <= 1
    /\ effects[f] = 1 /\ form[f].version # NoVersion => form[f].version < row.version
    /\ effects[f] = 1 /\ ~form[f].finished =>
          IsDetail(f) \/ \E t \in Tasks : task[t].pc = "answer" /\ Acting(t) = f
ToldOK(f) ==
    /\ told[f] = "applied" => effects[f] = 1
    /\ Decided(f) => /\ effects[f] = 0 /\ form[f].finished
                     /\ \A t \in Tasks : ~Acts(t, f)
UnopenedOK(f) == effects[f] = 0 /\ told[f] = "nothing"

ShapeOK ==
    /\ row \in Rows
    /\ Ids = 1..Cardinality(Ids) /\ Ids \subseteq 1..MaxForms
    /\ form \in [Ids -> FormRow]
    /\ task \in [Tasks -> TaskRow]
    /\ closing \in BOOLEAN
    /\ effects \in [1..MaxForms -> Nat] /\ told \in [1..MaxForms -> Tellings]

IInv ==
    /\ ShapeOK
    /\ \A f \in Ids : OpenedOK(f) /\ EffectOK(f) /\ ToldOK(f)
    /\ \A f \in (1..MaxForms) \ Ids : UnopenedOK(f)
    /\ \A t \in Tasks : TaskOK(t)

-----------------------------------------------------------------------------
(* The operators on forms *)

Alike(a, b) == /\ a.kind = b.kind /\ a.parent = b.parent
               /\ a.version = b.version /\ a.seen = b.seen

LEMMA FinishedOK ==
    ASSUME NEW D, NEW forms \in [D -> FormRow], NEW f \in D
    PROVE  /\ Finished(forms, f) \in [D -> FormRow] /\ Finished(forms, f)[f].finished
           /\ \A g \in D : /\ Alike(Finished(forms, f)[g], forms[g])
                           /\ Finished(forms, f)[g].lock = forms[g].lock
                           /\ g # f => Finished(forms, f)[g] = forms[g]
<1> DEFINE new == [forms[f] EXCEPT !.finished = TRUE]
<1>1. /\ new \in FormRow /\ new.finished /\ Alike(new, forms[f])
      /\ new.lock = forms[f].lock
  BY DEF FormRow, Alike
<1>2. Finished(forms, f) = [forms EXCEPT ![f] = new]
  BY DEF Finished
<1> HIDE DEF new
<1> QED
  BY <1>1, <1>2 DEF Alike

LEMMA HoldingOK ==
    ASSUME form \in [Ids -> FormRow], NEW f \in Ids, NEW t \in Tasks
    PROVE  /\ Holding(t, f) \in [Ids -> FormRow] /\ Holding(t, f)[f].lock = t
           /\ \A g \in Ids : /\ Alike(Holding(t, f)[g], form[g])
                             /\ Holding(t, f)[g].finished = form[g].finished
                             /\ g # f => Holding(t, f)[g] = form[g]
<1> DEFINE new == [form[f] EXCEPT !.lock = t]
<1>1. /\ new \in FormRow /\ new.lock = t /\ Alike(new, form[f])
      /\ new.finished = form[f].finished
  BY DEF FormRow, Alike
<1>2. Holding(t, f) = [form EXCEPT ![f] = new]
  BY DEF Holding
<1> HIDE DEF new
<1> QED
  BY <1>1, <1>2 DEF Alike

LEMMA ReleasedOK ==
    ASSUME NEW D, NEW forms \in [D -> FormRow], NEW t \in Tasks
    PROVE  /\ Released(forms, t) \in [D -> FormRow]
           /\ \A g \in D : /\ Alike(Released(forms, t)[g], forms[g])
                           /\ Released(forms, t)[g].finished = forms[g].finished
                           /\ Released(forms, t)[g].lock # t
                           /\ forms[g].lock # t => Released(forms, t)[g] = forms[g]
                           /\ forms[g].lock = t => Released(forms, t)[g].lock = NoTask
<1>1. ASSUME NEW g \in D, forms[g].lock = t
      PROVE  /\ [forms[g] EXCEPT !.lock = NoTask] \in FormRow
             /\ [forms[g] EXCEPT !.lock = NoTask].lock = NoTask
             /\ Alike([forms[g] EXCEPT !.lock = NoTask], forms[g])
             /\ [forms[g] EXCEPT !.lock = NoTask].finished = forms[g].finished
  BY DEF FormRow, Alike
<1>2. DOMAIN forms = D
  OBVIOUS
<1>3. /\ \A g \in D : Released(forms, t)[g] =
             IF forms[g].lock = t THEN [forms[g] EXCEPT !.lock = NoTask] ELSE forms[g]
      /\ Released(forms, t) = [g \in D |-> Released(forms, t)[g]]
  BY <1>2 DEF Released
<1>4. NoTask # t
  BY TaskAssumption
<1> QED
  BY <1>1, <1>3, <1>4 DEF Alike

LEMMA NewIdOK ==
    ASSUME ShapeOK, HasRoom
    PROVE  /\ New \notin Ids /\ New \in 1..MaxForms
           /\ Ids \cup {New} = 1..Cardinality(Ids \cup {New})
<1>1. IsFiniteSet(Ids) /\ Cardinality(Ids) \in Nat
  <2>1. IsFiniteSet(1..MaxForms)
    BY FS_Interval, BoundAssumption
  <2> QED
    BY <2>1, FS_Subset, FS_CardinalityType DEF ShapeOK
<1> DEFINE n == Cardinality(Ids)
<1>2. Ids = 1..n /\ n < MaxForms /\ MaxForms \in Nat /\ New = n + 1
  BY BoundAssumption DEF ShapeOK, HasRoom, New
<1> HIDE DEF n
<1>3. n \in Nat
  BY <1>1 DEF n
<1>4. Ids \cup {New} = 1..(n + 1)
  BY <1>2, <1>3
<1>5. Cardinality(1..(n + 1)) = n + 1
  BY <1>3, FS_Interval
<1>6. Cardinality(Ids \cup {New}) = n + 1
  BY <1>4, <1>5
<1> QED
  BY <1>2, <1>3, <1>4, <1>6

LEMMA OpenedForm ==
    ASSUME ShapeOK, HasRoom, NEW forms \in [Ids -> FormRow], NEW new \in FormRow
    PROVE  /\ Opened(forms, new) \in [Ids \cup {New} -> FormRow]
           /\ Opened(forms, new)[New] = new
           /\ \A f \in Ids : Opened(forms, new)[f] = forms[f]
<1>1. New \notin Ids
  BY NewIdOK
<1> QED
  BY <1>1 DEF Opened

-----------------------------------------------------------------------------
(* Steps.  A step is one task's, or nobody's (t is NoTask then): forms keep  *)
(* what they show, and only t takes or gives back a lock.                    *)
Evolves(t) ==
    /\ ShapeOK'
    /\ row' = row \/ row'.version > row.version
    /\ \A u \in Tasks : u # t => task'[u] = task[u]
    /\ Ids \subseteq Ids'
    /\ \A f \in Ids : /\ Alike(form'[f], form[f])
                      /\ form[f].finished => form'[f].finished
                      /\ \/ form'[f].lock = form[f].lock
                         \/ form[f].lock = NoTask /\ form'[f].lock = t
                         \/ form[f].lock = t /\ form'[f].lock = NoTask
    /\ \A f \in Ids' \ Ids : form'[f].lock = NoTask /\ OpenedOK(f)'

LEMMA OpenedKept ==
    ASSUME IInv, NEW t, Evolves(t)
    PROVE  \A f \in Ids' : OpenedOK(f)'
<1> SUFFICES ASSUME NEW f \in Ids PROVE OpenedOK(f)'
  BY DEF Evolves
<1>1. /\ OpenedOK(f) /\ Alike(form'[f], form[f]) /\ form[f] \in FormRow
      /\ row \in Rows /\ row' \in Rows
  BY DEF IInv, Evolves, ShapeOK
<1>2. form[f].kind \in Modals =>
         /\ form[f].parent \in Ids'
         /\ form'[form[f].parent].version = form[form[f].parent].version
         /\ form'[form[f].parent].kind = form[form[f].parent].kind
  BY <1>1 DEF Evolves, Alike, OpenedOK
<1>3. /\ form[f].version <= row'.version
      /\ form[f].version = row'.version => row' = row
  BY <1>1 DEF Evolves, Rows, FormRow, OpenedOK
<1> QED
  BY <1>1, <1>2, <1>3 DEF OpenedOK, Alike, Shown

LEMMA OthersKept ==
    ASSUME IInv, NEW t, Evolves(t),
           \A f \in Ids : effects'[f] = effects[f] \/ form[f].lock = t,
           NEW u \in Tasks, u # t
    PROVE  TaskOK(u)'
<1>1. /\ TaskOK(u) /\ task'[u] = task[u] /\ Ids \subseteq Ids'
      /\ Acting(u)' = Acting(u) /\ Op(u)' = Op(u) /\ Target(u)' = Target(u)
  BY DEF IInv, Evolves, Acting, Op, Target
<1>2. \A f \in Ids : /\ Alike(form'[f], form[f])
                     /\ form[f].finished => form'[f].finished
                     /\ form[f].lock = u => form'[f].lock = u
                     /\ form'[f].lock = u => form[f].lock = u
  BY TaskAssumption DEF Evolves
<1>3. /\ HoldsNothing(u) => HoldsNothing(u)'
      /\ HoldsModals(u) => HoldsModals(u)'
  BY <1>2, TaskAssumption DEF HoldsNothing, HoldsModals, Evolves, Alike
<1>4. task[u].pc # "idle" => Target(u) \in Ids /\ task[u].form \in Ids /\ Acting(u) \in Ids
  BY <1>1 DEF TaskOK, AboutOK, Acting
<1>5. AboutOK(u)'
  BY <1>1, <1>2, <1>4 DEF TaskOK, AboutOK, Alike, View, IsDetail
<1>6. LocksOK(u)'
  BY <1>1, <1>2, <1>3, <1>4 DEF TaskOK, LocksOK, Alike, Works
<1>7. Works(u) => /\ form[Acting(u)].lock = u /\ effects'[Acting(u)] = effects[Acting(u)]
                  /\ IsDetail(Acting(u))' <=> IsDetail(Acting(u))
                  /\ View(u)'.version = View(u).version
  BY <1>1, <1>2, <1>4 DEF TaskOK, LocksOK, Works, IsDetail, Alike, View
<1>8. KnowsOK(u)'
  BY <1>1, <1>7 DEF TaskOK, KnowsOK, Works
<1> QED
  BY <1>5, <1>6, <1>8 DEF TaskOK

(* A step without an effect or an answer. *)
LEMMA QuietStep ==
    ASSUME IInv, NEW t, Evolves(t), UNCHANGED <<effects, told>>,
           t \in Tasks => /\ TaskOK(t)' /\ task[t].pc # "answer"
                          /\ \A f \in Ids : Acts(t, f)' =>
                                Acts(t, f) \/ ~form[f].finished
    PROVE  IInv'
<1>1. \A f \in Ids' : OpenedOK(f)'
  BY OpenedKept
<1>2. \A u \in Tasks : TaskOK(u)'
  BY OthersKept
<1>3. \A f \in (1..MaxForms) \ Ids' : UnopenedOK(f)'
  BY DEF IInv, Evolves, UnopenedOK
<1>4. ASSUME NEW f \in Ids' \ Ids
      PROVE  EffectOK(f)' /\ ToldOK(f)'
  <2>1. effects[f] = 0 /\ told[f] = "nothing"
    BY DEF IInv, Evolves, ShapeOK, UnopenedOK
  <2> QED
    BY <2>1 DEF EffectOK, ToldOK, Decided
<1>5. \A u \in Tasks : u # t => task'[u] = task[u] /\ Acting(u)' = Acting(u)
                                /\ \A f : Acts(u, f)' <=> Acts(u, f)
  BY DEF Evolves, Acting, Op, Target, Acts, Works
<1>6. ASSUME NEW f \in Ids
      PROVE  EffectOK(f)' /\ ToldOK(f)'
  <2>1. /\ EffectOK(f) /\ ToldOK(f) /\ Alike(form'[f], form[f])
        /\ form[f].finished => form'[f].finished
    BY DEF IInv, Evolves
  <2>2. /\ row.version \in Nat /\ row'.version \in Nat /\ form[f].version \in Nat
        /\ effects[f] \in Nat
    BY DEF IInv, Evolves, ShapeOK, Rows, FormRow
  <2>3. form[f].version < row.version => form'[f].version < row'.version
    BY <2>1, <2>2 DEF Evolves, Alike
  <2>4. (\E u \in Tasks : task[u].pc = "answer" /\ Acting(u) = f)
        => \E u \in Tasks : task'[u].pc = "answer" /\ Acting(u)' = f
    BY <1>5
  <2>5. EffectOK(f)'
    BY <2>1, <2>3, <2>4 DEF EffectOK, IsDetail, Alike
  <2>6. Decided(f)' <=> Decided(f)
    BY <2>1 DEF Decided, IsDetail, Alike
  <2>7. Decided(f) => \A u \in Tasks : ~Acts(u, f)'
    BY <1>5, <2>1 DEF ToldOK
  <2> QED
    BY <2>1, <2>5, <2>6, <2>7 DEF ToldOK
<1> QED
  BY <1>1, <1>2, <1>3, <1>4, <1>6 DEF IInv, Evolves

-----------------------------------------------------------------------------
(* Parts of steps *)

LEMMA TaskSet ==
    ASSUME ShapeOK, NEW t \in Tasks, NEW new \in TaskRow, task' = [task EXCEPT ![t] = new]
    PROVE  /\ task' \in [Tasks -> TaskRow] /\ task'[t] = new
           /\ \A u \in Tasks : u # t => task'[u] = task[u]
BY DEF ShapeOK

LEMMA IdleOK == Idle \in TaskRow /\ Idle.pc = "idle"
BY BoundAssumption DEF Idle, Handler, TaskRow, Operations, NoForm, NoVersion, Verdicts

LEMMA PcSet ==
    ASSUME ShapeOK, NEW t \in Tasks,
           NEW pc \in {"idle", "modal", "lock", "look", "commit", "answer"}, GoesTo(t, pc)
    PROVE  /\ task' \in [Tasks -> TaskRow] /\ task'[t].pc = pc
           /\ task'[t].op = task[t].op /\ task'[t].form = task[t].form
           /\ task'[t].target = task[t].target /\ task'[t].snapshot = task[t].snapshot
           /\ task'[t].verdict = task[t].verdict
           /\ \A u \in Tasks : u # t => task'[u] = task[u]
<1> DEFINE new == [task[t] EXCEPT !.pc = pc]
<1>1. /\ new \in TaskRow /\ new.pc = pc
      /\ new.op = task[t].op /\ new.form = task[t].form
      /\ new.target = task[t].target /\ new.snapshot = task[t].snapshot
      /\ new.verdict = task[t].verdict
  BY DEF ShapeOK, TaskRow
<1>2. task' = [task EXCEPT ![t] = new]
  BY DEF GoesTo
<1> HIDE DEF new
<1> QED
  BY <1>1, <1>2, TaskSet

LEMMA OpSet ==
    ASSUME ShapeOK, NEW t \in Tasks, NEW op \in Operations,
           task' = [task EXCEPT ![t].op = op]
    PROVE  /\ task' \in [Tasks -> TaskRow] /\ task'[t].op = op
           /\ task'[t].pc = task[t].pc /\ task'[t].form = task[t].form
           /\ task'[t].target = task[t].target
           /\ \A u \in Tasks : u # t => task'[u] = task[u]
<1> DEFINE new == [task[t] EXCEPT !.op = op]
<1>1. /\ new \in TaskRow /\ new.op = op
      /\ new.pc = task[t].pc /\ new.form = task[t].form /\ new.target = task[t].target
  BY DEF ShapeOK, TaskRow
<1>2. task' = [task EXCEPT ![t] = new]
  OBVIOUS
<1> HIDE DEF new
<1> QED
  BY <1>1, <1>2, TaskSet

LEMMA PcOpSet ==
    ASSUME ShapeOK, NEW t \in Tasks,
           task' = [task EXCEPT ![t].pc = "lock", ![t].op = "preview"]
    PROVE  /\ task' \in [Tasks -> TaskRow]
           /\ task'[t].pc = "lock" /\ task'[t].op = "preview"
           /\ task'[t].form = task[t].form /\ task'[t].target = task[t].target
           /\ \A u \in Tasks : u # t => task'[u] = task[u]
<1> DEFINE new == [task[t] EXCEPT !.pc = "lock", !.op = "preview"]
<1>1. /\ new \in TaskRow /\ new.op = "preview" /\ new.pc = "lock"
      /\ new.form = task[t].form /\ new.target = task[t].target
  BY ZenonT(60) DEF ShapeOK, TaskRow, Operations
<1>2. task' = [task EXCEPT ![t] = new]
  BY DEF ShapeOK, TaskRow
<1> HIDE DEF new
<1> QED
  BY <1>1, <1>2, TaskSet

LEMMA VerdictSet ==
    ASSUME ShapeOK, NEW t \in Tasks, NEW verdict \in Verdicts,
           task' = [task EXCEPT ![t].pc = "answer", ![t].verdict = verdict]
    PROVE  /\ task' \in [Tasks -> TaskRow]
           /\ task'[t].pc = "answer" /\ task'[t].verdict = verdict
           /\ task'[t].op = task[t].op
           /\ task'[t].form = task[t].form /\ task'[t].target = task[t].target
           /\ \A u \in Tasks : u # t => task'[u] = task[u]
<1> DEFINE new == [task[t] EXCEPT !.pc = "answer", !.verdict = verdict]
<1>1. /\ new \in TaskRow /\ new.verdict = verdict /\ new.pc = "answer"
      /\ new.op = task[t].op
      /\ new.form = task[t].form /\ new.target = task[t].target
  BY DEF ShapeOK, TaskRow
<1>2. task' = [task EXCEPT ![t] = new]
  BY DEF ShapeOK, TaskRow
<1> HIDE DEF new
<1> QED
  BY <1>1, <1>2, TaskSet

LEMMA SnapshotSet ==
    ASSUME ShapeOK, NEW t \in Tasks,
           task' = [task EXCEPT ![t].pc = "commit", ![t].snapshot = row.version]
    PROVE  /\ task' \in [Tasks -> TaskRow]
           /\ task'[t].pc = "commit" /\ task'[t].snapshot = row.version
           /\ task'[t].op = task[t].op
           /\ task'[t].form = task[t].form /\ task'[t].target = task[t].target
           /\ \A u \in Tasks : u # t => task'[u] = task[u]
<1> DEFINE new == [task[t] EXCEPT !.pc = "commit", !.snapshot = row.version]
<1>0. row.version \in Nat
  BY DEF ShapeOK, Rows
<1>1. /\ new \in TaskRow /\ new.snapshot = row.version /\ new.pc = "commit"
      /\ new.op = task[t].op
      /\ new.form = task[t].form /\ new.target = task[t].target
  BY <1>0 DEF ShapeOK, TaskRow
<1>2. task' = [task EXCEPT ![t] = new]
  BY DEF ShapeOK, TaskRow
<1> HIDE DEF new
<1> QED
  BY <1>1, <1>2, TaskSet

(* The handler has returned, and holds no lock. *)
LEMMA Ended ==
    ASSUME IInv, NEW t \in Tasks, Ends(t)
    PROVE  /\ task' \in [Tasks -> TaskRow] /\ task'[t].pc = "idle"
           /\ \A u \in Tasks : u # t => task'[u] = task[u]
           /\ \A f : ~Acts(t, f)'
           /\ HoldsNothing(t)' => TaskOK(t)'
<1>1. /\ task' \in [Tasks -> TaskRow] /\ task'[t].pc = "idle"
      /\ \A u \in Tasks : u # t => task'[u] = task[u]
  BY TaskSet, IdleOK DEF IInv, Ends
<1> QED
  BY <1>1 DEF Acts, Works, TaskOK, AboutOK, LocksOK, KnowsOK

(* What the schedule becomes. *)
LEMMA ChangedOK ==
    ASSUME row \in Rows, NEW op \in Changes
    PROVE  /\ Changed(op) \in Rows
           /\ op # "create" => Changed(op).version > row.version
           /\ op = "create" => Changed(op) = row
<1>1. row.version \in Nat \ {0} /\ row.version + 1 \in Nat \ {0}
      /\ row.version + 1 > row.version /\ row.edits + 1 \in Nat
  BY DEF Rows
<1>2. ASSUME NEW status \in Statuses
      PROVE  /\ [row EXCEPT !.version = row.version + 1, !.status = status] \in Rows
             /\ [row EXCEPT !.version = row.version + 1, !.status = status].version
                   = row.version + 1
  BY <1>1 DEF Rows
<1>3. /\ [row EXCEPT !.version = row.version + 1, !.edits = row.edits + 1] \in Rows
      /\ [row EXCEPT !.version = row.version + 1, !.edits = row.edits + 1].version
            = row.version + 1
      /\ [row EXCEPT !.version = row.version + 1] \in Rows
      /\ [row EXCEPT !.version = row.version + 1].version = row.version + 1
  BY <1>1 DEF Rows
<1> QED
  BY <1>1, <1>2, <1>3 DEF Changed, Changes, Statuses, OpenStatuses

(* A new form shows the schedule, or what its opener showed. *)
NewOK(new) ==
    /\ new \in FormRow /\ new.lock = NoTask
    /\ new.version <= row.version
    /\ new.version = row.version => new.seen = Shown
    /\ new.kind = "create" => new.version = NoVersion
    /\ new.kind = "detail" => new.version # NoVersion
    /\ new.kind \in Modals => /\ new.parent \in Ids /\ form[new.parent].kind \in Views
                              /\ form[new.parent].version = new.version
    /\ new.kind \in Views => new.parent = NoForm

LEMMA FormOK ==
    ASSUME NEW kind \in Views \cup Modals, NEW parent \in Nat, NEW version \in Nat,
           NEW seen \in [status : Statuses, edits : Nat]
    PROVE  /\ Form(kind, parent, version, seen) \in FormRow
           /\ Form(kind, parent, version, seen).kind = kind
           /\ Form(kind, parent, version, seen).parent = parent
           /\ Form(kind, parent, version, seen).version = version
           /\ Form(kind, parent, version, seen).seen = seen
           /\ Form(kind, parent, version, seen).lock = NoTask
BY DEF Form, FormRow

LEMMA NewViewOK ==
    ASSUME IInv, NEW kind \in Views
    PROVE  /\ kind # "create" => NewOK(Form(kind, NoForm, row.version, Shown))
           /\ kind # "detail" => NewOK(Form(kind, NoForm, NoVersion, Shown))
<1>1. /\ row.version \in Nat \ {0} /\ Shown \in [status : Statuses, edits : Nat]
      /\ NoForm \in Nat /\ NoVersion \in Nat /\ kind \notin Modals
      /\ kind \in Views \cup Modals
  BY DEF IInv, ShapeOK, Rows, Shown, NoForm, NoVersion, Views, Modals
<1>2. NoVersion # row.version /\ NoVersion <= row.version /\ row.version <= row.version
  BY <1>1 DEF NoVersion
<1>3. kind # "create" => NewOK(Form(kind, NoForm, row.version, Shown))
  BY <1>1, <1>2, FormOK DEF NewOK
<1>4. kind # "detail" => NewOK(Form(kind, NoForm, NoVersion, Shown))
  BY <1>1, <1>2, FormOK DEF NewOK
<1> QED
  BY <1>3, <1>4

LEMMA CopyOK ==
    ASSUME IInv, NEW f \in Ids, form[f].kind \in Views,
           NEW kind \in {"resume", "delete"} \cup Modals
    PROVE  /\ kind \in Modals => NewOK(Form(kind, f, form[f].version, form[f].seen))
           /\ kind \in Views => NewOK(Form(kind, NoForm, form[f].version, form[f].seen))
<1>1. /\ OpenedOK(f) /\ form[f] \in FormRow /\ f \in Nat /\ NoForm \in Nat
      /\ kind \in Views \cup Modals /\ kind \notin {"create", "detail"}
      /\ kind \in Modals <=> kind \notin Views
  BY BoundAssumption DEF IInv, ShapeOK, NoForm, Views, Modals
<1>2. form[f].version \in Nat /\ form[f].seen \in [status : Statuses, edits : Nat]
  BY <1>1 DEF FormRow
<1> QED
  BY <1>1, <1>2, FormOK DEF NewOK, OpenedOK

-----------------------------------------------------------------------------
(* What the operators on forms make of them, for a step of t. *)
LockMoves(before, after, t) ==
    \/ after = before
    \/ before = NoTask /\ after = t
    \/ before = t /\ after = NoTask

Moves(forms, t) ==
    /\ \/ DOMAIN forms = Ids
       \/ HasRoom /\ DOMAIN forms = Ids \cup {New} /\ NewOK(forms[New])
    /\ forms \in [DOMAIN forms -> FormRow]
    /\ \A f \in Ids : /\ Alike(forms[f], form[f])
                      /\ form[f].finished => forms[f].finished
                      /\ LockMoves(form[f].lock, forms[f].lock, t)

LEMMA MovesStart ==
    ASSUME ShapeOK, NEW t
    PROVE  Moves(form, t)
BY DEF Moves, ShapeOK, Alike, LockMoves

LEMMA MovesFinished ==
    ASSUME NEW forms, NEW t, Moves(forms, t), NEW f \in DOMAIN forms
    PROVE  Moves(Finished(forms, f), t)
<1>1. /\ Finished(forms, f) \in [DOMAIN forms -> FormRow] /\ Finished(forms, f)[f].finished
      /\ \A g \in DOMAIN forms :
            /\ Alike(Finished(forms, f)[g], forms[g])
            /\ Finished(forms, f)[g].lock = forms[g].lock
            /\ g # f => Finished(forms, f)[g] = forms[g]
  BY FinishedOK DEF Moves
<1>2. HasRoom /\ DOMAIN forms = Ids \cup {New} /\ NewOK(forms[New])
         => NewOK(Finished(forms, f)[New])
  BY <1>1 DEF NewOK, Alike
<1>3. Ids \subseteq DOMAIN forms
  BY DEF Moves
<1> QED
  BY <1>1, <1>2, <1>3 DEF Moves, Alike

LEMMA MovesHolding ==
    ASSUME ShapeOK, NEW t \in Tasks, NEW f \in Ids, Free(f)
    PROVE  Moves(Holding(t, f), t)
BY HoldingOK DEF ShapeOK, Moves, LockMoves, Free, Alike

LEMMA MovesReleased ==
    ASSUME NEW forms, NEW t \in Tasks, Moves(forms, t)
    PROVE  Moves(Released(forms, t), t)
<1>1. /\ Released(forms, t) \in [DOMAIN forms -> FormRow]
      /\ \A g \in DOMAIN forms :
            /\ Alike(Released(forms, t)[g], forms[g])
            /\ Released(forms, t)[g].finished = forms[g].finished
            /\ forms[g].lock # t => Released(forms, t)[g] = forms[g]
            /\ forms[g].lock = t => Released(forms, t)[g].lock = NoTask
  BY ReleasedOK DEF Moves
<1>2. HasRoom /\ DOMAIN forms = Ids \cup {New} /\ NewOK(forms[New])
         => NewOK(Released(forms, t)[New])
  <2>1. NoTask # t
    BY TaskAssumption
  <2> QED
    BY <1>1, <2>1 DEF NewOK
<1>3. Ids \subseteq DOMAIN forms
  BY DEF Moves
<1> QED
  BY <1>1, <1>2, <1>3 DEF Moves, Alike, LockMoves

LEMMA MovesOpened ==
    ASSUME ShapeOK, NEW forms, NEW t, Moves(forms, t), DOMAIN forms = Ids, HasRoom,
           NEW new, NewOK(new)
    PROVE  Moves(Opened(forms, new), t) /\ DOMAIN Opened(forms, new) = Ids \cup {New}
<1>1. forms \in [Ids -> FormRow] /\ new \in FormRow
  BY DEF Moves, NewOK
<1>2. /\ Opened(forms, new) \in [Ids \cup {New} -> FormRow]
      /\ Opened(forms, new)[New] = new
      /\ \A f \in Ids : Opened(forms, new)[f] = forms[f]
  BY <1>1, OpenedForm
<1> QED
  BY <1>1, <1>2 DEF Moves

LEMMA Evolution ==
    ASSUME IInv, NEW t, Moves(form', t), row' = row,
           task' \in [Tasks -> TaskRow], \A u \in Tasks : u # t => task'[u] = task[u],
           closing' \in BOOLEAN, effects' = effects, told' \in [1..MaxForms -> Tellings]
    PROVE  Evolves(t)
<1>1. /\ form' \in [Ids' -> FormRow] /\ Ids \subseteq Ids'
      /\ \A f \in Ids : /\ Alike(form'[f], form[f])
                        /\ form[f].finished => form'[f].finished
                        /\ LockMoves(form[f].lock, form'[f].lock, t)
  BY DEF Moves, Ids
<1>2. CASE Ids' = Ids
  <2>1. ShapeOK'
    BY <1>1, <1>2 DEF IInv, ShapeOK
  <2> QED
    BY <1>1, <1>2, <2>1 DEF Evolves, LockMoves
<1>3. CASE HasRoom /\ Ids' = Ids \cup {New} /\ NewOK(form'[New])
  <2>1. /\ New \notin Ids /\ New \in 1..MaxForms
        /\ Ids \cup {New} = 1..Cardinality(Ids \cup {New})
    BY <1>3, NewIdOK DEF IInv
  <2>2. ShapeOK'
    BY <1>1, <1>3, <2>1 DEF IInv, ShapeOK
  <2>3. form'[New].lock = NoTask
    BY <1>3 DEF NewOK
  <2>4. \A f \in Ids' \ Ids : f = New
    BY <1>3
  <2>5. Shown' = Shown
    BY DEF Shown
  <2>6. \A f \in Ids' \ Ids : OpenedOK(f)'
    BY <1>1, <1>3, <2>4, <2>5 DEF NewOK, OpenedOK, Alike
  <2> QED
    BY <1>1, <2>2, <2>3, <2>4, <2>6 DEF Evolves, LockMoves
<1> QED
  BY <1>2, <1>3 DEF Moves, Ids

-----------------------------------------------------------------------------
(* The steps, one by one *)

LEMMA OpensForm ==
    ASSUME IInv, NEW new, NewOK(new), Opens(new)
    PROVE  IInv'
<1>1. Moves(form', NoTask)
  BY MovesStart, MovesOpened DEF Opens, IInv, Ids
<1>2. Evolves(NoTask)
  BY <1>1, Evolution DEF Opens, IInv, ShapeOK
<1> QED
  BY <1>2, QuietStep, TaskAssumption DEF Opens

LEMMA ChangesElsewhere ==
    ASSUME IInv, ChangedElsewhere
    PROVE  IInv'
<1>1. row \in Rows /\ row' \in Rows /\ row'.version > row.version
  BY ChangedOK DEF ChangedElsewhere, IInv, ShapeOK, Changes
<1>2. Ids' = Ids
  BY DEF ChangedElsewhere, Ids
<1>3. Evolves(NoTask)
  BY <1>1, <1>2 DEF ChangedElsewhere, IInv, ShapeOK, Evolves, Alike
<1> QED
  BY <1>3, QuietStep, TaskAssumption DEF ChangedElsewhere

LEMMA Closes ==
    ASSUME IInv, Close
    PROVE  IInv'
<1>1. ASSUME NEW f \in Ids
      PROVE  /\ [form[f] EXCEPT !.finished = TRUE] \in FormRow
             /\ [form[f] EXCEPT !.finished = TRUE].finished
             /\ Alike([form[f] EXCEPT !.finished = TRUE], form[f])
             /\ [form[f] EXCEPT !.finished = TRUE].lock = form[f].lock
  BY DEF IInv, ShapeOK, FormRow, Alike
<1>2. Moves(form', NoTask)
  BY <1>1 DEF Close, Moves, LockMoves
<1>3. Evolves(NoTask)
  BY <1>2, Evolution DEF Close, IInv, ShapeOK
<1> QED
  BY <1>3, QuietStep, TaskAssumption DEF Close

(* A form that ends without an answer: nobody works on it. *)
LEMMA Expires ==
    ASSUME IInv, NEW f \in Ids, effects[f] = 0, \A t \in Tasks : ~Acts(t, f),
           form' = Finished(form, f), told' = [told EXCEPT ![f] = "expired"],
           UNCHANGED <<row, task, closing, effects>>
    PROVE  IInv'
<1>1. Moves(form', NoTask)
  BY MovesStart, MovesFinished DEF IInv, Ids
<1>2. /\ f \in 1..MaxForms /\ told' \in [1..MaxForms -> Tellings] /\ told'[f] = "expired"
      /\ \A g \in 1..MaxForms : g # f => told'[g] = told[g]
  BY DEF IInv, ShapeOK, Tellings
<1>3. Evolves(NoTask)
  BY <1>1, <1>2, Evolution DEF IInv, ShapeOK
<1>4. Ids' = Ids /\ form'[f].finished
  <2>1. form' \in [Ids -> FormRow] /\ form'[f].finished
    BY FinishedOK DEF IInv, ShapeOK
  <2> QED
    BY <2>1 DEF Ids
<1>5. \A g \in Ids' : OpenedOK(g)'
  BY <1>3, OpenedKept
<1>6. \A u \in Tasks : TaskOK(u)'
  BY <1>3, OthersKept, TaskAssumption
<1>7. \A u \in Tasks : Acting(u)' = Acting(u) /\ \A g : Acts(u, g)' <=> Acts(u, g)
  BY DEF Acting, Op, Target, Acts, Works
<1>8. ASSUME NEW g \in Ids
      PROVE  EffectOK(g)' /\ ToldOK(g)'
  <2>1. EffectOK(g) /\ ToldOK(g) /\ Alike(form'[g], form[g])
        /\ (form[g].finished => form'[g].finished) /\ g \in 1..MaxForms
    BY <1>3 DEF IInv, Evolves, ShapeOK
  <2>2. EffectOK(g)'
    BY <1>7, <2>1 DEF EffectOK, IsDetail, Alike
  <2>3. CASE g = f
    BY <1>2, <1>4, <1>7, <2>2, <2>3 DEF ToldOK, Decided
  <2>4. CASE g # f
    BY <1>2, <1>7, <2>1, <2>2, <2>4 DEF ToldOK, Decided, IsDetail, Alike
  <2> QED
    BY <2>2, <2>3, <2>4
<1>9. \A g \in (1..MaxForms) \ Ids' : UnopenedOK(g)'
  BY <1>2, <1>4 DEF IInv, UnopenedOK
<1> QED
  BY <1>3, <1>4, <1>5, <1>6, <1>8, <1>9 DEF IInv, Evolves

(* What is still open and not being answered has had no effect. *)
LEMMA Fresh ==
    ASSUME IInv, NEW f \in Ids, Free(f), ~form[f].finished, ~IsDetail(f)
    PROVE  effects[f] = 0 /\ \A t \in Tasks : ~Acts(t, f)
<1>1. \A t \in Tasks : ~Acts(t, f)
  BY TaskAssumption DEF IInv, TaskOK, LocksOK, Acts, Free
<1>2. effects[f] \in Nat /\ EffectOK(f)
  BY DEF IInv, ShapeOK
<1> QED
  BY <1>1, <1>2 DEF EffectOK, Acts, Works

LEMMA ViewExpires ==
    ASSUME IInv, NEW f \in Ids, Expire(f)
    PROVE  IInv'
BY Fresh, Expires DEF Expire, IsDetail

LEMMA AnyModalExpires ==
    ASSUME IInv, NEW f \in Ids, ModalExpires(f)
    PROVE  IInv'
<1>1. \A t \in Tasks : ~Acts(t, f)
  <2> SUFFICES ASSUME NEW t \in Tasks, Acts(t, f) PROVE FALSE
    OBVIOUS
  <2>1. TaskOK(t) /\ Works(t) /\ Acting(t) = f
    BY DEF IInv, Acts
  <2>2. CASE Op(t) \in {"edit", "name"}
    BY <2>1, <2>2 DEF TaskOK, LocksOK, Acting, ModalExpires
  <2>3. CASE Op(t) \notin {"edit", "name"}
    BY <2>1, <2>3 DEF TaskOK, AboutOK, Acting, ModalExpires, Works, View, Views, Modals
  <2> QED
    BY <2>2, <2>3
<1>2. effects[f] = 0
  <2>1. effects[f] \in Nat /\ EffectOK(f)
    BY DEF IInv, ShapeOK
  <2> QED
    BY <1>1, <2>1 DEF EffectOK, ModalExpires, IsDetail, Acts, Works, Modals
<1> QED
  BY <1>1, <1>2, Expires DEF ModalExpires

LEMMA TaskStep ==
    ASSUME IInv, NEW t \in Tasks, Moves(form', t), UNCHANGED <<row, closing, effects, told>>,
           task' \in [Tasks -> TaskRow], \A u \in Tasks : u # t => task'[u] = task[u],
           TaskOK(t)', task[t].pc # "answer",
           \A f \in Ids : Acts(t, f)' => Acts(t, f) \/ ~form[f].finished
    PROVE  IInv'
<1>1. Evolves(t)
  BY Evolution DEF IInv, ShapeOK
<1> QED
  BY <1>1, QuietStep

LEMMA EndStep ==
    ASSUME IInv, NEW t \in Tasks, Moves(form', t), UNCHANGED <<row, closing, effects, told>>,
           Ends(t), HoldsNothing(t)', task[t].pc # "answer"
    PROVE  IInv'
BY Ended, TaskStep

LEMMA ReplacesForm ==
    ASSUME IInv, NEW t \in Tasks, HasLock(t), NEW new, NewOK(new), Replaces(t, new)
    PROVE  IInv'
<1>1. Target(t) \in Ids /\ task[t].pc = "lock"
  BY DEF HasLock, IInv, TaskOK, AboutOK
<1> DEFINE opened == Opened(form, new)
           finished == Finished(opened, Target(t))
<1>2. Moves(opened, t) /\ DOMAIN opened = Ids \cup {New}
  BY MovesStart, MovesOpened DEF Replaces, IInv, Ids
<1>3. Moves(finished, t)
  BY <1>1, <1>2, MovesFinished
<1>4. form' = Released(finished, t)
  BY DEF Replaces
<1> HIDE DEF opened, finished
<1>5. Moves(form', t)
  BY <1>3, <1>4, MovesReleased
<1>6. /\ form' \in [DOMAIN finished -> FormRow]
      /\ \A g \in DOMAIN finished : form'[g].lock # t
  BY <1>3, <1>4, ReleasedOK DEF Moves
<1>7. HoldsNothing(t)'
  BY <1>6 DEF HoldsNothing, Ids
<1> QED
  BY <1>1, <1>5, <1>7, EndStep DEF Replaces

LEMMA OpensModal ==
    ASSUME IInv, NEW t \in Tasks, HasLock(t), HoldsNothing(t),
           NEW kind \in Modals, OpenModal(t, kind)
    PROVE  IInv'
<1>1. Target(t) \in Ids /\ task[t].pc = "lock" /\ View(t).kind \in Views
  BY DEF HasLock, IInv, TaskOK, AboutOK
<1> DEFINE new == Form(kind, Target(t), View(t).version, View(t).seen)
<1>2. NewOK(new)
  BY <1>1, CopyOK DEF View
<1>3. form' = Opened(form, new) /\ HasRoom
  BY DEF OpenModal
<1> HIDE DEF new
<1>4. Moves(form', t) /\ Ids' = Ids \cup {New}
  BY <1>2, <1>3, MovesStart, MovesOpened DEF IInv, Ids
<1>5. /\ form'[New] = new /\ \A f \in Ids : form'[f] = form[f]
  BY <1>2, <1>3, OpenedForm DEF IInv, ShapeOK, NewOK
<1>6. HoldsNothing(t)'
  BY <1>2, <1>4, <1>5, TaskAssumption DEF HoldsNothing, NewOK
<1> QED
  BY <1>1, <1>4, <1>6, EndStep DEF OpenModal

Starts(t, pc, op, f, target) ==
    task' = [task EXCEPT ![t] = Handler(pc, op, f, target)]

LEMMA StartOK ==
    ASSUME ShapeOK, NEW t \in Tasks, NEW pc \in {"modal", "lock"}, NEW op \in Operations,
           NEW f \in Ids, NEW target \in Ids, Starts(t, pc, op, f, target)
    PROVE  /\ task' \in [Tasks -> TaskRow] /\ task'[t].pc = pc /\ task'[t].op = op
           /\ task'[t].form = f /\ task'[t].target = target
           /\ \A u \in Tasks : u # t => task'[u] = task[u]
<1> DEFINE new == Handler(pc, op, f, target)
<1>1. f \in 0..MaxForms /\ target \in 0..MaxForms /\ NoVersion \in Nat /\ "none" \in Verdicts
  BY BoundAssumption DEF ShapeOK, NoVersion, Verdicts
<1>2. /\ new \in TaskRow /\ new.pc = pc /\ new.op = op
      /\ new.form = f /\ new.target = target
  BY <1>1 DEF TaskRow, Handler
<1>3. task' = [task EXCEPT ![t] = new]
  BY DEF Starts
<1> HIDE DEF new
<1> QED
  BY <1>2, <1>3, TaskSet

LEMMA StartStep ==
    ASSUME IInv, NEW t \in Tasks, task[t].pc = "idle",
           NEW pc \in {"modal", "lock"}, NEW op \in Operations,
           NEW f \in Ids, NEW target \in Ids, form[target].kind \in Views,
           Starts(t, pc, op, f, target),
           pc = "modal" => /\ form[f].kind \in Modals /\ op = form[f].kind
                           /\ target = form[f].parent,
           op = "create" => form[target].kind = "create",
           op = "cancel" => ~IsDetail(target),
           UNCHANGED <<row, form, closing, effects, told>>
    PROVE  IInv'
<1>1. /\ task' \in [Tasks -> TaskRow] /\ task'[t].pc = pc /\ task'[t].op = op
      /\ task'[t].form = f /\ task'[t].target = target
      /\ \A u \in Tasks : u # t => task'[u] = task[u]
  BY StartOK DEF IInv
<1>2. Ids' = Ids /\ form' = form /\ HoldsNothing(t)
  BY DEF IInv, TaskOK, LocksOK, Ids
<1>3. HoldsNothing(t)' /\ HoldsModals(t)'
  BY <1>2 DEF HoldsNothing, HoldsModals
<1>4. AboutOK(t)'
  BY <1>1, <1>2 DEF AboutOK, Op, Target, View, IsDetail
<1>5. TaskOK(t)' /\ \A g : ~Acts(t, g)'
  BY <1>1, <1>3, <1>4 DEF TaskOK, LocksOK, KnowsOK, Acts, Works
<1> QED
  BY <1>1, <1>5, MovesStart, TaskStep DEF IInv

LEMMA Clicks ==
    ASSUME IInv, NEW t \in Tasks, NEW f \in Ids, Click(t, f)
    PROVE  IInv'
<1>1. PICK op \in Buttons(f) : Starts(t, "lock", op, f, f)
  BY DEF Click, Starts
<1>2. /\ op \in Operations
      /\ op = "create" => form[f].kind = "create"
      /\ op = "cancel" => ~IsDetail(f)
  BY DEF Click, Buttons, Views, Operations, OpenStatuses, IsDetail
<1> QED
  BY <1>1, <1>2, StartStep DEF Click

LEMMA Submits ==
    ASSUME IInv, NEW t \in Tasks, NEW f \in Ids, Submit(t, f)
    PROVE  IInv'
<1>1. /\ form[f].parent \in Ids /\ form[form[f].parent].kind \in Views
      /\ form[f].kind \in Modals
  BY DEF IInv, OpenedOK, Submit
<1>2. /\ form[f].kind \in Operations /\ form[f].kind \notin {"create", "cancel"}
  BY <1>1 DEF Modals, Operations
<1>3. Starts(t, "modal", form[f].kind, f, form[f].parent)
  BY DEF Submit, Starts
<1> QED
  BY <1>1, <1>2, <1>3, StartStep DEF Submit

(* Steps of a handler under its form's lock. *)
LEMMA Under ==
    ASSUME IInv, NEW t \in Tasks, MayAct(t)
    PROVE  /\ Target(t) \in Ids /\ task[t].pc = "lock" /\ Free(Target(t))
           /\ ~form[Target(t)].finished /\ form[Target(t)].kind \in Views
           /\ TaskOK(t) /\ \A f : ~Acts(t, f)
           /\ Op(t) = "create" => form[Target(t)].kind = "create"
           /\ Op(t) = "cancel" => ~IsDetail(Target(t))
           /\ ~IsDetail(Target(t)) => effects[Target(t)] = 0
<1>1. /\ TaskOK(t) /\ Target(t) \in Ids /\ task[t].pc = "lock" /\ Free(Target(t))
      /\ ~form[Target(t)].finished /\ form[Target(t)].kind \in Views
      /\ Op(t) = "create" => form[Target(t)].kind = "create"
      /\ Op(t) = "cancel" => ~IsDetail(Target(t))
  BY DEF IInv, MayAct, HasLock, StillOpen, View, TaskOK, AboutOK
<1>2. \A f : ~Acts(t, f)
  BY <1>1 DEF Acts, Works
<1> QED
  BY <1>1, <1>2, Fresh

(* The handler goes on with the lock in its hands. *)
Goes(t, pc, verdict) ==
    /\ form' = Holding(t, Target(t))
    /\ task'[t].pc = pc /\ task'[t].verdict = verdict /\ task'[t].op = task[t].op
    /\ task'[t].form = task[t].form /\ task'[t].target = task[t].target
    /\ task' \in [Tasks -> TaskRow] /\ \A u \in Tasks : u # t => task'[u] = task[u]

LEMMA GoesOn ==
    ASSUME IInv, NEW t \in Tasks, MayAct(t), Op(t) \notin {"edit", "name"},
           UNCHANGED <<row, closing, effects, told>>,
           NEW pc \in {"look", "answer"}, NEW verdict, Goes(t, pc, verdict),
           pc = "look" => Op(t) \in Changes,
           pc = "answer" => /\ verdict \in {"conflict", "unavailable", "cancelled"}
                            /\ verdict = "cancelled" => ~IsDetail(Target(t))
    PROVE  IInv'
<1> DEFINE f == Target(t)
<1>1. /\ f \in Ids /\ task[t].pc = "lock" /\ Free(f) /\ ~form[f].finished
      /\ form[f].kind \in Views /\ TaskOK(t)
      /\ Op(t) = "create" => form[f].kind = "create"
      /\ Op(t) = "cancel" => ~IsDetail(f)
      /\ ~IsDetail(f) => effects[f] = 0
  BY Under
<1>2. /\ form' \in [Ids -> FormRow] /\ Alike(form'[f], form[f]) /\ form'[f].lock = t
      /\ Moves(form', t)
  BY <1>1, HoldingOK, MovesHolding DEF Goes, IInv, ShapeOK
<1>3. /\ task'[t].pc = pc /\ task'[t].verdict = verdict /\ Op(t)' = Op(t)
      /\ Target(t)' = f /\ Acting(t)' = f /\ task'[t].form \in Ids /\ Ids' = Ids
  BY <1>1, <1>2 DEF Goes, Op, Target, Acting, TaskOK, AboutOK, Ids
<1> HIDE DEF f
<1>4. (IsDetail(f))' <=> IsDetail(f)
  BY <1>2, <1>3 DEF IsDetail, Alike, f
<1>5. AboutOK(t)'
  BY <1>1, <1>2, <1>3, <1>4 DEF AboutOK, View, Alike, IsDetail
<1>6. LocksOK(t)'
  BY <1>2, <1>3 DEF LocksOK, Works
<1>7. KnowsOK(t)'
  BY <1>1, <1>2, <1>3, <1>4 DEF KnowsOK, IsDetail, Alike, f
<1>8. \A g \in Ids : Acts(t, g)' => ~form[g].finished
  BY <1>1, <1>3 DEF Acts
<1> QED
  BY <1>1, <1>2, <1>5, <1>6, <1>7, <1>8, TaskStep DEF TaskOK, Goes

LEMMA TurnsAway ==
    ASSUME IInv, NEW t \in Tasks, TurnedAway(t)
    PROVE  IInv'
<1>1. Moves(form', t) /\ task[t].pc = "lock"
  BY MovesStart, MovesReleased DEF TurnedAway, HasLock, IInv
<1>2. /\ form' \in [Ids -> FormRow] /\ \A g \in Ids : form'[g].lock # t
  <2>1. form \in [Ids -> FormRow] /\ form' = Released(form, t)
    BY DEF TurnedAway, IInv, ShapeOK
  <2> QED
    BY <2>1, ReleasedOK
<1>3. Ids' = Ids
  BY <1>2 DEF Ids
<1>4. HoldsNothing(t)'
  BY <1>2, <1>3 DEF HoldsNothing
<1> QED
  BY <1>1, <1>4, EndStep DEF TurnedAway

LEMMA StartsChange ==
    ASSUME IInv, NEW t \in Tasks, StartChange(t)
    PROVE  IInv'
<1>1. MayAct(t) /\ Op(t) \notin {"edit", "name"} /\ Op(t) \in Changes
  BY DEF StartChange, Changes
<1>2. Goes(t, "look", task[t].verdict)
  BY PcSet DEF StartChange, Goes, IInv
<1> QED
  BY <1>1, <1>2, GoesOn DEF StartChange

LEMMA ShowsSelection ==
    ASSUME IInv, NEW t \in Tasks, ShowSelection(t)
    PROVE  IInv'
<1>1. NewOK(Form("detail", NoForm, row.version, Shown))
  BY NewViewOK DEF Views
<1> QED
  BY <1>1, ReplacesForm DEF ShowSelection, MayAct

LEMMA ReturnsToList ==
    ASSUME IInv, NEW t \in Tasks, ReturnToList(t)
    PROVE  IInv'
<1>1. NewOK(Form("list", NoForm, NoVersion, Shown))
  BY NewViewOK DEF Views
<1> QED
  BY <1>1, ReplacesForm DEF ReturnToList, MayAct

LEMMA EditsFromDetail ==
    ASSUME IInv, NEW t \in Tasks, EditFromDetail(t)
    PROVE  IInv'
<1>1. HasLock(t) /\ HoldsNothing(t) /\ Op(t) \in Modals
  BY DEF EditFromDetail, MayAct, HasLock, IInv, TaskOK, LocksOK, Modals
<1> QED
  BY <1>1, OpensModal DEF EditFromDetail

LEMMA AsksTime ==
    ASSUME IInv, NEW t \in Tasks, AskTime(t)
    PROVE  IInv'
<1>1. HasLock(t) /\ HoldsNothing(t) /\ "time" \in Modals
  BY DEF AskTime, MayAct, HasLock, IInv, TaskOK, LocksOK, Modals
<1> QED
  BY <1>1, OpensModal DEF AskTime

LEMMA ResumesFromDetail ==
    ASSUME IInv, NEW t \in Tasks, ResumeFromDetail(t)
    PROVE  IInv'
<1>1. /\ MayAct(t) /\ Op(t) = "resume" /\ HasLock(t)
      /\ Target(t) \in Ids /\ form[Target(t)].kind \in Views
  BY Under DEF ResumeFromDetail, MayAct
<1>2. ASSUME form' = Holding(t, Target(t)), UNCHANGED <<row, closing, effects, told>>,
             NEW verdict \in {"conflict", "unavailable"},
             task' = [task EXCEPT ![t].pc = "answer", ![t].verdict = verdict]
      PROVE  IInv'
  <2>1. Goes(t, "answer", verdict)
    BY <1>2, VerdictSet DEF Goes, IInv, Verdicts
  <2> QED
    BY <1>1, <1>2, <2>1, GoesOn
<1>3. ASSUME form' = Holding(t, Target(t)), GoesTo(t, "look"),
             UNCHANGED <<row, closing, effects, told>>
      PROVE  IInv'
  <2>1. Goes(t, "look", task[t].verdict)
    BY <1>3, PcSet DEF Goes, IInv
  <2> QED
    BY <1>1, <1>3, <2>1, GoesOn DEF Changes
<1>4. NewOK(Form("resume", NoForm, View(t).version, View(t).seen))
  BY <1>1, CopyOK DEF View, Views
<1>5. CASE Replaces(t, Form("resume", NoForm, View(t).version, View(t).seen))
  BY <1>1, <1>4, <1>5, ReplacesForm
<1> QED
  BY <1>2, <1>3, <1>5 DEF ResumeFromDetail

LEMMA DeletesFromDetail ==
    ASSUME IInv, NEW t \in Tasks, DeleteFromDetail(t)
    PROVE  IInv'
<1>1. /\ HasLock(t) /\ HoldsNothing(t) /\ task[t].pc = "lock" /\ TaskOK(t)
      /\ "reason" \in Modals
  BY DEF DeleteFromDetail, MayAct, HasLock, IInv, TaskOK, LocksOK, Modals
<1>2. CASE OpenModal(t, "reason")
  BY <1>1, <1>2, OpensModal
<1>3. CASE /\ task' = [task EXCEPT ![t].op = "preview"]
           /\ UNCHANGED <<row, form, closing, effects, told>>
  <2>1. /\ task' \in [Tasks -> TaskRow] /\ task'[t].op = "preview"
        /\ task'[t].pc = "lock" /\ task'[t].form = task[t].form
        /\ task'[t].target = task[t].target
        /\ \A u \in Tasks : u # t => task'[u] = task[u]
    BY <1>1, <1>3, OpSet DEF IInv, Operations
  <2>2. form' = form /\ Ids' = Ids
    BY <1>3 DEF Ids
  <2>3. HoldsModals(t)'
    BY <1>1, <2>2 DEF HoldsNothing, HoldsModals
  <2>4. TaskOK(t)' /\ \A g : ~Acts(t, g)'
    BY <1>1, <2>1, <2>2, <2>3
       DEF TaskOK, AboutOK, LocksOK, KnowsOK, Acts, Works, Op, Target, View
  <2> QED
    BY <1>1, <1>3, <2>1, <2>4, MovesStart, TaskStep DEF IInv
<1> QED
  BY <1>2, <1>3 DEF DeleteFromDetail

LEMMA ContinuesDelete ==
    ASSUME IInv, NEW t \in Tasks, ContinueDelete(t)
    PROVE  IInv'
<1>1. /\ MayAct(t) /\ Op(t) = "preview" /\ HasLock(t)
      /\ Target(t) \in Ids /\ form[Target(t)].kind \in Views
  BY Under DEF ContinueDelete, MayAct
<1>2. CASE /\ form' = Holding(t, Target(t))
           /\ task' = [task EXCEPT ![t].pc = "answer", ![t].verdict = "conflict"]
           /\ UNCHANGED <<row, closing, effects, told>>
  <2>1. Goes(t, "answer", "conflict")
    BY <1>2, VerdictSet DEF Goes, IInv, Verdicts
  <2> QED
    BY <1>1, <1>2, <2>1, GoesOn
<1>3. NewOK(Form("delete", NoForm, View(t).version, View(t).seen))
  BY <1>1, CopyOK DEF View, Views
<1>4. CASE Replaces(t, Form("delete", NoForm, View(t).version, View(t).seen))
  BY <1>1, <1>3, <1>4, ReplacesForm
<1> QED
  BY <1>2, <1>4 DEF ContinueDelete

LEMMA SubmitsTime ==
    ASSUME IInv, NEW t \in Tasks, SubmitTime(t)
    PROVE  IInv'
<1>1. task[t].pc = "lock" /\ TaskOK(t)
  BY DEF SubmitTime, MayAct, HasLock, IInv
<1>2. /\ task' \in [Tasks -> TaskRow] /\ task'[t].op = "resume"
      /\ task'[t].pc = "lock" /\ task'[t].form = task[t].form
      /\ task'[t].target = task[t].target
      /\ \A u \in Tasks : u # t => task'[u] = task[u]
  BY <1>1, OpSet DEF SubmitTime, IInv, Operations
<1>3. form' = form /\ Ids' = Ids
  BY DEF SubmitTime, AfterTimeCheck, Ids
<1>4. HoldsModals(t)'
  BY <1>1, <1>3 DEF HoldsModals, TaskOK, LocksOK
<1>5. TaskOK(t)' /\ \A g : ~Acts(t, g)'
  BY <1>1, <1>2, <1>3, <1>4
     DEF TaskOK, AboutOK, LocksOK, KnowsOK, Acts, Works, Op, Target, View
<1> QED
  BY <1>1, <1>2, <1>3, <1>5, MovesStart, TaskStep DEF SubmitTime, IInv

LEMMA Cancels ==
    ASSUME IInv, NEW t \in Tasks, Cancel(t)
    PROVE  IInv'
<1>1. MayAct(t) /\ Op(t) = "cancel" /\ ~IsDetail(Target(t))
  BY Under DEF Cancel
<1>2. Goes(t, "answer", "cancelled")
  BY VerdictSet DEF Cancel, Goes, IInv, Verdicts
<1> QED
  BY <1>1, <1>2, GoesOn DEF Cancel

LEMMA Looks ==
    ASSUME IInv, NEW t \in Tasks, Look(t)
    PROVE  IInv'
<1>1. /\ TaskOK(t) /\ task[t].pc = "look" /\ form' = form /\ Ids' = Ids /\ row' = row
      /\ effects' = effects
  BY DEF Look, IInv, Ids
<1>2. CASE /\ task' = [task EXCEPT ![t].pc = "commit", ![t].snapshot = row.version]
           /\ ~Conflicts(t, row.version)
  <2>1. /\ task' \in [Tasks -> TaskRow]
        /\ task'[t].pc = "commit" /\ task'[t].snapshot = row.version
        /\ Op(t)' = Op(t) /\ task'[t].form = task[t].form /\ Target(t)' = Target(t)
        /\ Acting(t)' = Acting(t)
        /\ \A u \in Tasks : u # t => task'[u] = task[u]
    BY <1>2, SnapshotSet, ZenonT(60) DEF IInv, Op, Target, Acting
  <2>2. AboutOK(t)' /\ LocksOK(t)' /\ \A f : Acts(t, f)' => Acts(t, f)
    BY <1>1, <2>1 DEF TaskOK, AboutOK, LocksOK, Acts, Works, View, IsDetail
  <2>3. KnowsOK(t)'
    BY <1>1, <1>2, <2>1 DEF TaskOK, KnowsOK, View, IsDetail, Conflicts
  <2> QED
    BY <1>1, <2>1, <2>2, <2>3, MovesStart, TaskStep DEF Look, IInv, TaskOK
<1>3. CASE task' = [task EXCEPT ![t].pc = "answer", ![t].verdict = "conflict"]
  <2>1. /\ task' \in [Tasks -> TaskRow]
        /\ task'[t].pc = "answer" /\ task'[t].verdict = "conflict"
        /\ Op(t)' = Op(t) /\ task'[t].form = task[t].form /\ Target(t)' = Target(t)
        /\ Acting(t)' = Acting(t)
        /\ \A u \in Tasks : u # t => task'[u] = task[u]
    <3>1. /\ task' \in [Tasks -> TaskRow]
          /\ task'[t].pc = "answer" /\ task'[t].verdict = "conflict"
          /\ task'[t].op = task[t].op
          /\ task'[t].form = task[t].form /\ task'[t].target = task[t].target
          /\ \A u \in Tasks : u # t => task'[u] = task[u]
      BY <1>3, VerdictSet DEF IInv, Verdicts
    <3> QED
      BY <3>1 DEF Op, Target, Acting
  <2>2. AboutOK(t)' /\ LocksOK(t)' /\ \A f : Acts(t, f)' => Acts(t, f)
    BY <1>1, <2>1 DEF TaskOK, AboutOK, LocksOK, Acts, Works, View, IsDetail
  <2>3. KnowsOK(t)'
    BY <1>1, <2>1 DEF TaskOK, KnowsOK, View, IsDetail
  <2> QED
    BY <1>1, <2>1, <2>2, <2>3, MovesStart, TaskStep DEF Look, IInv, TaskOK
<1> QED
  BY <1>2, <1>3 DEF Look

LEMMA EntersModal ==
    ASSUME IInv, NEW t \in Tasks, EnterModal(t)
    PROVE  IInv'
<1> DEFINE f == task[t].form
<1>1. /\ task[t].pc = "modal" /\ Free(f) /\ f \in Ids /\ Target(t) \in Ids
      /\ form[f].kind \in Modals /\ Op(t) = form[f].kind /\ Target(t) = form[f].parent
      /\ View(t).kind \in Views /\ HoldsNothing(t) /\ f # Target(t)
      /\ UNCHANGED <<row, closing, effects, told>>
  BY DEF EnterModal, IInv, TaskOK, AboutOK, LocksOK, View, Views, Modals
<1> DEFINE held == Holding(t, f)
<1>2. CASE Ends(t) /\ UNCHANGED form
  BY <1>1, <1>2, MovesStart, EndStep DEF HoldsNothing, Ids, IInv
<1>3. CASE form' = Finished(form, f) /\ Ends(t)
  <2>1. form' \in [Ids -> FormRow] /\ \A g \in Ids : form'[g].lock = form[g].lock
    <3>1. form \in [Ids -> FormRow]
      BY DEF IInv, ShapeOK
    <3> QED
      BY <1>1, <1>3, <3>1, FinishedOK
  <2>2. Ids' = Ids
    BY <2>1 DEF Ids
  <2>3. HoldsNothing(t)'
    BY <1>1, <2>1, <2>2 DEF HoldsNothing
  <2>4. Moves(form', t)
    BY <1>1, <1>3, MovesStart, MovesFinished DEF IInv, Ids
  <2> QED
    BY <1>1, <1>3, <2>3, <2>4, EndStep
<1>4. ASSUME ~form[f].finished, form' = Finished(held, f),
             IF Op(t) = "reason"
             THEN task' = [task EXCEPT ![t].pc = "lock", ![t].op = "preview"]
             ELSE GoesTo(t, IF Op(t) = "time" THEN "lock" ELSE "look")
      PROVE  IInv'
  <2>1. /\ held \in [Ids -> FormRow] /\ held[f].lock = t /\ Moves(held, t)
        /\ \A g \in Ids : /\ Alike(held[g], form[g])
                          /\ g # f => held[g].lock # t
    <3>1. /\ held \in [Ids -> FormRow] /\ held[f].lock = t
          /\ \A g \in Ids : Alike(held[g], form[g]) /\ (g # f => held[g] = form[g])
      <4>1. form \in [Ids -> FormRow] /\ f \in Ids
        BY <1>1 DEF IInv, ShapeOK
      <4> HIDE DEF f
      <4> QED
        BY <4>1, HoldingOK
    <3>2. Moves(held, t)
      BY <1>1, MovesHolding DEF IInv, ShapeOK
    <3> QED
      BY <1>1, <3>1, <3>2 DEF HoldsNothing
  <2> HIDE DEF held
  <2>2. /\ form' \in [Ids -> FormRow] /\ form'[f].lock = t /\ form'[f].finished
        /\ \A g \in Ids : /\ Alike(form'[g], form[g])
                          /\ g # f => form'[g].lock # t
    BY <1>1, <1>4, <2>1, FinishedOK DEF Alike
  <2>3. Moves(form', t)
    BY <1>1, <1>4, <2>1, MovesFinished
  <2>4. /\ task' \in [Tasks -> TaskRow]
        /\ task'[t].form = f /\ Target(t)' = Target(t)
        /\ \A u \in Tasks : u # t => task'[u] = task[u]
        /\ \/ task'[t].pc = "lock" /\ Op(t)' \in {"preview", "time"}
           \/ task'[t].pc = "look" /\ Op(t)' \in {"edit", "name"}
    BY <1>1, <1>4, PcSet, PcOpSet DEF IInv, Target, Op, Modals
  <2>5. Ids' = Ids
    BY <2>2 DEF Ids
  <2>6. AboutOK(t)'
    BY <1>1, <2>2, <2>4, <2>5 DEF AboutOK, View, Alike, Changes
  <2>a. HoldsModals(t)'
    BY <1>1, <2>2, <2>5 DEF HoldsModals, Alike
  <2>7. LocksOK(t)'
    BY <1>1, <2>2, <2>4, <2>a DEF LocksOK, Works, Acting, Alike
  <2>8. effects'[f] = 0
    BY <1>1, <1>4, Fresh DEF IsDetail, Modals
  <2>9. KnowsOK(t)' /\ \A g : Acts(t, g)' => g = f
    BY <2>4, <2>8 DEF KnowsOK, Acting, Acts, Works
  <2> QED
    BY <1>1, <1>4, <2>3, <2>4, <2>6, <2>7, <2>9, TaskStep DEF TaskOK
<1> QED
  BY <1>2, <1>3, <1>4 DEF EnterModal

-----------------------------------------------------------------------------
(* The transaction and the answer *)

(* Where a change is committed, the form has had no effect, and what it was  *)
(* opened for is what the schedule is.                                       *)
LEMMA CommitsFresh ==
    ASSUME IInv, NEW t \in Tasks, task[t].pc = "commit", Revalidated(t)
    PROVE  /\ Acting(t) \in Ids /\ effects[Acting(t)] = 0
           /\ Op(t) = "create" => form[Acting(t)].version = NoVersion
           /\ form[Acting(t)].version \in {NoVersion, row.version}
<1> DEFINE f == Acting(t)
<1>1. TaskOK(t) /\ Works(t)
  BY DEF IInv, Works
<1>2. f \in Ids
  BY <1>1 DEF TaskOK, AboutOK, Acting
<1>3. OpenedOK(f) /\ EffectOK(f) /\ effects[f] \in Nat
  BY <1>2 DEF IInv, ShapeOK
<1>4. Op(t) \in {"edit", "name"} => /\ form[f].version = View(t).version
                                    /\ ~IsDetail(f)
  BY <1>1, <1>3 DEF TaskOK, LocksOK, Acting, OpenedOK, View, IsDetail, Modals
<1>5. Op(t) \notin {"edit", "name"} => f = Target(t)
  BY DEF Acting
<1>6. Op(t) = "create" => form[f].kind = "create" /\ form[f].version = NoVersion
  BY <1>1, <1>3, <1>5 DEF TaskOK, AboutOK, View, OpenedOK
<1>7. Op(t) # "create" => form[f].version \in {NoVersion, row.version}
  BY <1>1, <1>4, <1>5 DEF TaskOK, KnowsOK, View, Revalidated
<1>8. ~IsDetail(f) => effects[f] = 0
  BY <1>1 DEF TaskOK, KnowsOK
<1>9. IsDetail(f) => effects[f] = 0
  <2>1. row.version \in Nat
    BY DEF IInv, ShapeOK, Rows
  <2> QED
    BY <1>3, <1>6, <1>7, <2>1 DEF IsDetail, OpenedOK, EffectOK
<1> QED
  BY <1>2, <1>6, <1>7, <1>8, <1>9

LEMMA Commits ==
    ASSUME IInv, NEW t \in Tasks, Revalidated(t), task[t].pc = "commit",
           row' = Changed(Op(t)),
           effects' = [effects EXCEPT ![Acting(t)] = @ + 1],
           NEW verdict \in {"applied", "error"},
           task' = [task EXCEPT ![t].pc = "answer", ![t].verdict = verdict],
           UNCHANGED <<form, closing, told>>
    PROVE  IInv'
<1> DEFINE f == Acting(t)
<1>1. /\ TaskOK(t) /\ Works(t) /\ Op(t) \in Changes /\ form[f].lock = t
  BY DEF IInv, Works, TaskOK, AboutOK, LocksOK
<1>2. /\ f \in Ids /\ effects[f] = 0
      /\ Op(t) = "create" => form[f].version = NoVersion
      /\ form[f].version \in {NoVersion, row.version}
  BY CommitsFresh
<1>3. /\ row \in Rows /\ row' \in Rows /\ (row' = row \/ row'.version > row.version)
      /\ Op(t) # "create" => row'.version > row.version
  BY <1>1, ChangedOK DEF IInv, ShapeOK
<1>4. Ids' = Ids /\ f \in 1..MaxForms
  BY <1>2 DEF Ids, IInv, ShapeOK
<1>5. /\ effects' \in [1..MaxForms -> Nat] /\ effects'[f] = 1
      /\ \A g \in 1..MaxForms : g # f => effects'[g] = effects[g]
  BY <1>2, <1>4 DEF IInv, ShapeOK
<1>6. /\ task' \in [Tasks -> TaskRow]
      /\ task'[t].pc = "answer" /\ task'[t].verdict = verdict
      /\ task'[t].op = task[t].op
      /\ task'[t].form = task[t].form /\ task'[t].target = task[t].target
      /\ \A u \in Tasks : u # t => task'[u] = task[u]
  BY VerdictSet DEF IInv, Verdicts
<1>7. Op(t)' = Op(t) /\ Target(t)' = Target(t) /\ Acting(t)' = f
  BY <1>6 DEF Op, Target, Acting
<1> HIDE DEF f
<1>8. Evolves(t)
  BY <1>3, <1>4, <1>5, <1>6 DEF Evolves, IInv, ShapeOK, Alike
<1>9. \A g \in Ids' : OpenedOK(g)'
  BY <1>8, OpenedKept
<1>10. ASSUME NEW u \in Tasks
       PROVE  TaskOK(u)'
  <2>1. CASE u # t
    <3>1. \A g \in Ids : effects'[g] = effects[g] \/ form[g].lock = t
      BY <1>1, <1>5 DEF IInv, ShapeOK, f
    <3> QED
      BY <1>8, <2>1, <3>1, OthersKept
  <2>2. CASE u = t
    <3>1. AboutOK(t)' /\ LocksOK(t)'
      BY <1>1, <1>4, <1>6, <1>7
         DEF TaskOK, AboutOK, LocksOK, View, Works, IsDetail, f
    <3>2. KnowsOK(t)'
      BY <1>5, <1>6, <1>7 DEF KnowsOK
    <3> QED
      BY <2>2, <3>1, <3>2 DEF TaskOK
  <2> QED
    BY <2>1, <2>2
<1>11. ASSUME NEW g \in Ids
       PROVE  EffectOK(g)' /\ ToldOK(g)'
  <2>1. /\ EffectOK(g) /\ ToldOK(g) /\ OpenedOK(g) /\ g \in 1..MaxForms
        /\ form[g].version \in Nat /\ row.version \in Nat /\ row'.version \in Nat
    BY <1>3 DEF IInv, ShapeOK, FormRow, Rows
  <2>2. CASE g = f
    <3>1. ~Decided(g)
      BY <1>1, <2>1, <2>2 DEF ToldOK, Acts, f
    <3>2. ToldOK(g)'
      BY <1>5, <2>2, <3>1 DEF ToldOK, Decided, IsDetail
    <3>3. EffectOK(g)'
      BY <1>2, <1>3, <1>5, <1>6, <1>7, <2>1, <2>2 DEF EffectOK
    <3> QED
      BY <3>2, <3>3
  <2>3. CASE g # f
    <3>1. \A u \in Tasks : Acts(u, g)' => Acts(u, g)
      BY <1>6, <1>7, <2>3 DEF Acts, Works, Acting, Op, Target
    <3>2. \A u \in Tasks : task[u].pc = "answer" /\ Acting(u) = g
                              => task'[u].pc = "answer" /\ Acting(u)' = g
      BY <1>6 DEF Acting, Op, Target
    <3>3. effects'[g] = effects[g]
      BY <1>5, <2>1, <2>3
    <3>4. ToldOK(g)'
      BY <2>1, <3>1, <3>3 DEF ToldOK, Decided, IsDetail
    <3>5. form[g].version < row.version => form[g].version < row'.version
      BY <1>3, <2>1
    <3>6. EffectOK(g)'
      BY <2>1, <3>2, <3>3, <3>5 DEF EffectOK, IsDetail
    <3> QED
      BY <3>4, <3>6
  <2> QED
    BY <2>2, <2>3
<1>12. \A g \in (1..MaxForms) \ Ids' : UnopenedOK(g)'
  BY <1>2, <1>4, <1>5 DEF IInv, UnopenedOK
<1> QED
  BY <1>4, <1>8, <1>9, <1>10, <1>11, <1>12 DEF IInv, Evolves

LEMMA Refuses ==
    ASSUME IInv, NEW t \in Tasks, task[t].pc = "commit",
           NEW verdict \in {"unavailable", "conflict", "error"},
           task' = [task EXCEPT ![t].pc = "answer", ![t].verdict = verdict],
           UNCHANGED <<row, form, closing, effects, told>>
    PROVE  IInv'
<1>1. TaskOK(t) /\ form' = form /\ Ids' = Ids /\ effects' = effects
  BY DEF IInv, Ids
<1>2. /\ task' \in [Tasks -> TaskRow]
      /\ task'[t].pc = "answer" /\ task'[t].verdict = verdict
      /\ task'[t].op = task[t].op
      /\ task'[t].form = task[t].form /\ task'[t].target = task[t].target
      /\ \A u \in Tasks : u # t => task'[u] = task[u]
  BY VerdictSet DEF IInv, Verdicts
<1>3. Op(t)' = Op(t) /\ Target(t)' = Target(t) /\ Acting(t)' = Acting(t)
  BY <1>2 DEF Op, Target, Acting
<1>4. AboutOK(t)' /\ LocksOK(t)' /\ \A f : Acts(t, f)' => Acts(t, f)
  BY <1>1, <1>2, <1>3 DEF TaskOK, AboutOK, LocksOK, Acts, Works, View, IsDetail
<1>5. KnowsOK(t)'
  BY <1>1, <1>2, <1>3 DEF TaskOK, KnowsOK, View, IsDetail
<1> QED
  BY <1>1, <1>2, <1>4, <1>5, MovesStart, TaskStep DEF IInv, TaskOK

(* The user is told what became of the form, or nothing. *)
Tells(t) ==
    \/ told' = told
    \/ told' = [told EXCEPT ![Acting(t)] = Telling(task[t].verdict)]

LEMMA ToldSet ==
    ASSUME IInv, NEW t \in Tasks, task[t].pc = "answer", Tells(t),
           Stays(t) \/ form'[Target(t)].finished,
           NEW f \in Ids, f = Acting(t), Alike(form'[f], form[f]),
           form[f].finished => form'[f].finished
    PROVE  /\ told' \in [1..MaxForms -> Tellings]
           /\ \A g \in 1..MaxForms : g # f => told'[g] = told[g]
           /\ told'[f] = "applied" => effects[f] = 1
           /\ told'[f] # told[f] /\ Decided(f)' => effects[f] = 0 /\ form'[f].finished
<1>1. /\ TaskOK(t) /\ Works(t) /\ told \in [1..MaxForms -> Tellings] /\ f \in 1..MaxForms
      /\ task[t].verdict \in Verdicts \ {"none"} /\ ToldOK(f)
  BY DEF IInv, ShapeOK, Works, TaskOK, KnowsOK, TaskRow
<1>2. CASE told' = told
  BY <1>1, <1>2 DEF ToldOK
<1>3. CASE told' = [told EXCEPT ![Acting(t)] = Telling(task[t].verdict)]
  <2>1. Telling(task[t].verdict) \in Tellings
    BY <1>1 DEF Telling, Verdicts, Tellings
  <2>2. /\ told' \in [1..MaxForms -> Tellings] /\ told'[f] = Telling(task[t].verdict)
        /\ \A g \in 1..MaxForms : g # f => told'[g] = told[g]
    BY <1>1, <1>3, <2>1
  <2>3. told'[f] = "applied" => effects[f] = 1
    BY <1>1, <2>2 DEF Telling, TaskOK, KnowsOK, Verdicts
  <2>4. Decided(f)' => /\ task[t].verdict \in {"cancelled", "conflict", "unavailable"}
                       /\ ~IsDetail(f)
    BY <1>1, <2>2 DEF Decided, Telling, IsDetail, Alike, Verdicts, TaskOK, KnowsOK
  <2>5. Decided(f)' => effects[f] = 0
    BY <1>1, <2>4 DEF TaskOK, KnowsOK
  <2>6. Decided(f)' => form'[f].finished
    BY <1>1, <2>4 DEF TaskOK, LocksOK, Acting, Stays
  <2> QED
    BY <2>2, <2>3, <2>5, <2>6
<1> QED
  BY <1>2, <1>3 DEF Tells

LEMMA Answers ==
    ASSUME IInv, NEW t \in Tasks, task[t].pc = "answer", Moves(form', t), HoldsNothing(t)',
           Stays(t) \/ form'[Target(t)].finished, Tells(t), Ends(t),
           UNCHANGED <<row, closing, effects>>
    PROVE  IInv'
<1>1. /\ TaskOK(t) /\ Works(t) /\ form[Acting(t)].lock = t /\ Acting(t) \in Ids
      /\ Target(t) \in Ids
  BY DEF IInv, Works, TaskOK, AboutOK, LocksOK, Acting
<1>2. \A f \in Ids : /\ Alike(form'[f], form[f])
                     /\ form[f].finished => form'[f].finished
  BY DEF Moves
<1>3. PICK a \in Ids : a = Acting(t)
  BY <1>1
<1>4. /\ told' \in [1..MaxForms -> Tellings]
      /\ \A g \in 1..MaxForms : g # a => told'[g] = told[g]
      /\ told'[a] = "applied" => effects[a] = 1
      /\ told'[a] # told[a] /\ Decided(a)' => effects[a] = 0 /\ form'[a].finished
  BY <1>2, <1>3, ToldSet
<1>5. /\ task' \in [Tasks -> TaskRow] /\ task'[t].pc = "idle" /\ TaskOK(t)'
      /\ \A f : ~Acts(t, f)'
      /\ \A u \in Tasks : u # t => task'[u] = task[u]
  BY Ended
<1>6. Evolves(t)
  BY <1>4, <1>5, Evolution DEF IInv, ShapeOK
<1>7. \A f \in Ids' : OpenedOK(f)'
  BY <1>6, OpenedKept
<1>8. \A u \in Tasks : TaskOK(u)'
  BY <1>5, <1>6, OthersKept
<1>9. \A u \in Tasks : u # t => /\ Acting(u)' = Acting(u)
                                /\ \A f : Acts(u, f)' <=> Acts(u, f)
  BY <1>5 DEF Acts, Works, Acting, Op, Target
<1>10. ASSUME NEW f \in Ids
       PROVE  EffectOK(f)' /\ ToldOK(f)'
  <2>1. /\ EffectOK(f) /\ ToldOK(f) /\ Alike(form'[f], form[f])
        /\ form[f].finished => form'[f].finished
    BY <1>2 DEF IInv
  <2>0. f \in 1..MaxForms /\ effects' = effects /\ row' = row
    BY DEF IInv, ShapeOK
  <2>2. ASSUME Acting(t) = f, ~form'[f].finished
        PROVE  IsDetail(f)
    BY <1>1, <2>1, <2>2 DEF TaskOK, LocksOK, Acting, Stays, View, IsDetail
  <2>3. ASSUME effects'[f] = 1, ~form'[f].finished, ~IsDetail(f)
        PROVE  \E u \in Tasks : task'[u].pc = "answer" /\ Acting(u)' = f
    <3>1. PICK u \in Tasks : task[u].pc = "answer" /\ Acting(u) = f
      BY <2>0, <2>1, <2>3 DEF EffectOK
    <3>2. u # t
      BY <2>2, <2>3, <3>1
    <3> QED
      BY <1>5, <1>9, <3>1, <3>2
  <2>4. EffectOK(f)'
    BY <2>0, <2>1, <2>3 DEF EffectOK, IsDetail, Alike
  <2>5. ASSUME told'[f] = told[f]
        PROVE  ToldOK(f)'
    BY <1>5, <1>9, <2>0, <2>1, <2>5 DEF ToldOK, Decided, IsDetail, Alike
  <2>6. ASSUME told'[f] # told[f]
        PROVE  ToldOK(f)'
    <3>1. f = a
      BY <1>4, <2>0, <2>6
    <3>2. \A u \in Tasks : ~Acts(u, f)'
      BY <1>1, <1>3, <1>5, <1>9, <3>1 DEF IInv, TaskOK, LocksOK, Acts
    <3> QED
      BY <1>4, <2>0, <2>6, <3>1, <3>2 DEF ToldOK
  <2> QED
    BY <2>4, <2>5, <2>6
<1>11. ASSUME NEW f \in (1..MaxForms) \ Ids
       PROVE  effects'[f] = 0 /\ told'[f] = "nothing"
  BY <1>4 DEF IInv, UnopenedOK
<1>12. ASSUME NEW f \in Ids' \ Ids
       PROVE  EffectOK(f)' /\ ToldOK(f)'
  <2>1. effects'[f] = 0 /\ told'[f] = "nothing"
    BY <1>6, <1>11 DEF Evolves, ShapeOK
  <2> QED
    BY <2>1 DEF EffectOK, ToldOK, Decided
<1>13. \A f \in (1..MaxForms) \ Ids' : UnopenedOK(f)'
  BY <1>6, <1>11 DEF Evolves, UnopenedOK
<1> QED
  BY <1>6, <1>7, <1>8, <1>10, <1>12, <1>13 DEF IInv, Evolves

LEMMA Retires ==
    ASSUME IInv, NEW t \in Tasks, Answer(t)
    PROVE  IInv'
<1> DEFINE f == Target(t)
           forms == IF Stays(t) THEN form ELSE Finished(form, f)
           new == Form("detail", NoForm, row.version, Shown)
           shown == IF Refreshes(t) /\ HasRoom THEN Opened(forms, new) ELSE forms
<1>1. f \in Ids /\ task[t].pc = "answer" /\ form \in [Ids -> FormRow] /\ Moves(form, t)
  BY MovesStart DEF Answer, IInv, TaskOK, AboutOK, ShapeOK
<1>2. Moves(forms, t) /\ DOMAIN forms = Ids /\ (Stays(t) \/ forms[f].finished)
  BY <1>1, MovesFinished, FinishedOK DEF Ids
<1> HIDE DEF f, forms
<1>3. NewOK(new)
  BY NewViewOK DEF Views
<1> HIDE DEF new
<1>4. Moves(shown, t) /\ (Stays(t) \/ shown[f].finished) /\ f \in DOMAIN shown
  <2>1. CASE Refreshes(t) /\ HasRoom
    <3>1. Moves(Opened(forms, new), t) /\ DOMAIN Opened(forms, new) = Ids \cup {New}
      BY <1>2, <1>3, <2>1, MovesOpened DEF IInv
    <3>2. Opened(forms, new)[f] = forms[f]
      BY <1>1 DEF Opened
    <3> QED
      BY <1>1, <1>2, <2>1, <3>1, <3>2
  <2>2. CASE ~(Refreshes(t) /\ HasRoom)
    BY <1>1, <1>2, <2>2
  <2> QED
    BY <2>1, <2>2
<1>5. /\ Tells(t) /\ Ends(t) /\ UNCHANGED <<row, closing, effects>>
      /\ form' = Released(shown, t) \/ form' = Released(forms, t)
  BY DEF Answer, Tells, f, forms, new
<1>6. ASSUME NEW after, Moves(after, t), Stays(t) \/ after[f].finished, f \in DOMAIN after,
             form' = Released(after, t)
      PROVE  IInv'
  <2>1. /\ Released(after, t) \in [DOMAIN after -> FormRow]
        /\ \A g \in DOMAIN after : /\ Released(after, t)[g].lock # t
                                   /\ Released(after, t)[g].finished = after[g].finished
    BY <1>6, ReleasedOK DEF Moves
  <2>2. HoldsNothing(t)'
    BY <1>6, <2>1 DEF HoldsNothing, Ids
  <2>3. Moves(form', t)
    BY <1>6, MovesReleased
  <2>4. Stays(t) \/ form'[Target(t)].finished
    BY <1>6, <2>1 DEF f
  <2> QED
    BY <1>1, <1>5, <2>2, <2>3, <2>4, Answers
<1> QED
  BY <1>1, <1>2, <1>4, <1>5, <1>6

-----------------------------------------------------------------------------
(* The invariant *)

LEMMA Initially == Init => IInv
<1> SUFFICES ASSUME Init PROVE IInv
  OBVIOUS
<1>1. Ids = {} /\ Cardinality(Ids) = 0
  BY FS_EmptySet DEF Init, Ids
<1>2. row \in Rows
  BY DEF Init, Rows, Statuses, OpenStatuses
<1>3. form \in [Ids -> FormRow]
  BY <1>1 DEF Init, Ids
<1>4. ShapeOK
  <2>1. Ids = 1..Cardinality(Ids) /\ Ids \subseteq 1..MaxForms
    BY <1>1
  <2>2. task \in [Tasks -> TaskRow] /\ closing \in BOOLEAN
    BY IdleOK DEF Init
  <2>3. effects \in [1..MaxForms -> Nat] /\ told \in [1..MaxForms -> Tellings]
    BY DEF Init, Tellings
  <2> QED
    BY <1>2, <1>3, <2>1, <2>2, <2>3 DEF ShapeOK
<1>5. \A t \in Tasks : TaskOK(t)
  <2> SUFFICES ASSUME NEW t \in Tasks PROVE TaskOK(t)
    OBVIOUS
  <2>1. task[t].pc = "idle"
    BY IdleOK DEF Init
  <2> QED
    BY <1>1, <2>1 DEF TaskOK, AboutOK, LocksOK, KnowsOK, HoldsNothing, Works
<1>6. \A f \in 1..MaxForms : UnopenedOK(f)
  BY DEF Init, UnopenedOK
<1> QED
  BY <1>1, <1>4, <1>5, <1>6 DEF IInv

LEMMA Inductive == IInv /\ [Next]_vars => IInv'
<1> SUFFICES ASSUME IInv, [Next]_vars PROVE IInv'
  OBVIOUS
<1>1. CASE ChangedElsewhere
  BY <1>1, ChangesElsewhere
<1>2. CASE Close
  BY <1>2, Closes
<1>3. CASE ShowCommand \/ ListCommand \/ CreateCommand \/ DeleteCommand \/ ResumeCommand
  <2>1. /\ NewOK(Form("detail", NoForm, row.version, Shown))
        /\ NewOK(Form("list", NoForm, NoVersion, Shown))
        /\ NewOK(Form("create", NoForm, NoVersion, Shown))
        /\ NewOK(Form("delete", NoForm, NoVersion, Shown))
        /\ NewOK(Form("resume", NoForm, NoVersion, Shown))
    BY NewViewOK DEF Views
  <2> QED
    BY <1>3, <2>1, OpensForm
       DEF ShowCommand, ListCommand, CreateCommand, DeleteCommand, ResumeCommand
<1>4. ASSUME NEW f \in Ids, Expire(f) \/ ModalExpires(f)
      PROVE  IInv'
  BY <1>4, ViewExpires, AnyModalExpires
<1>5. ASSUME NEW t \in Tasks, NEW f \in Ids, Click(t, f) \/ Submit(t, f)
      PROVE  IInv'
  BY <1>5, Clicks, Submits
<1>6. ASSUME NEW t \in Tasks, Handle(t)
      PROVE  IInv'
  <2>1. CASE Commit(t)
    <3>1. CASE /\ Revalidated(t) /\ row' = Changed(Op(t))
               /\ effects' = [effects EXCEPT ![Acting(t)] = @ + 1]
               /\ \E verdict \in {"applied", "error"} :
                     task' = [task EXCEPT ![t].pc = "answer", ![t].verdict = verdict]
      BY <2>1, <3>1, Commits DEF Commit
    <3>2. CASE /\ \E verdict \in {"unavailable", "conflict", "error"} :
                     task' = [task EXCEPT ![t].pc = "answer", ![t].verdict = verdict]
               /\ UNCHANGED <<row, effects>>
      BY <2>1, <3>2, Refuses DEF Commit
    <3> QED
      BY <2>1, <3>1, <3>2 DEF Commit
  <2>2. CASE EnterModal(t) \/ TurnedAway(t) \/ StartChange(t) \/ Look(t) \/ Answer(t)
    BY <2>2, EntersModal, TurnsAway, StartsChange, Looks, Retires
  <2>3. CASE ShowSelection(t) \/ ReturnToList(t) \/ EditFromDetail(t) \/ AskTime(t)
    BY <2>3, ShowsSelection, ReturnsToList, EditsFromDetail, AsksTime
  <2>4. CASE \/ ResumeFromDetail(t) \/ DeleteFromDetail(t) \/ ContinueDelete(t)
             \/ SubmitTime(t) \/ Cancel(t)
    BY <2>4, ResumesFromDetail, DeletesFromDetail, ContinuesDelete, SubmitsTime, Cancels
  <2> QED
    BY <1>6, <2>1, <2>2, <2>3, <2>4 DEF Handle
<1>7. CASE UNCHANGED vars
  <2>1. Moves(form', NoTask)
    BY <1>7, MovesStart DEF vars, IInv
  <2>2. Evolves(NoTask)
    BY <1>7, <2>1, Evolution DEF vars, IInv, ShapeOK
  <2> QED
    BY <1>7, <2>2, QuietStep, TaskAssumption DEF vars
<1> QED
  BY <1>1, <1>2, <1>3, <1>4, <1>5, <1>6, <1>7 DEF Next

(* Whatever is clicked, submitted, cancelled, timed out or closed, rows,     *)
(* forms and handlers keep the shape of the code's, and a form's action_lock *)
(* is only ever held by a handler that is under way.                         *)
THEOREM FormsTypeCorrect == Spec => []TypeOK
<1>1. IInv => TypeOK
  <2> SUFFICES ASSUME IInv PROVE TypeOK
    OBVIOUS
  <2>1. ASSUME NEW f \in Ids
        PROVE  /\ form[f] \in [kind : Views \cup Modals, parent : Ids \cup {NoForm},
                               version : Nat, finished : BOOLEAN,
                               seen : [status : Statuses, edits : Nat],
                               lock : Tasks \cup {NoTask}]
               /\ form[f].kind \in Modals <=> form[f].parent # NoForm
               /\ form[f].lock # NoTask => task[form[f].lock].pc # "idle"
    <3>1. form[f] \in FormRow /\ OpenedOK(f) /\ \A g \in Ids : g # NoForm
      BY BoundAssumption DEF IInv, ShapeOK, NoForm
    <3>2. form[f].kind \in Views <=> form[f].kind \notin Modals
      BY <3>1 DEF FormRow, Views, Modals
    <3>3. form[f].parent \in Ids \cup {NoForm}
      BY <3>1, <3>2 DEF OpenedOK
    <3>4. \A t \in Tasks : task[t].pc = "idle" => form[f].lock # t
      BY DEF IInv, TaskOK, LocksOK, HoldsNothing
    <3>5. form[f].lock \in Tasks \cup {NoTask}
      BY <3>1 DEF FormRow
    <3>6. form[f].lock # NoTask => task[form[f].lock].pc # "idle"
      BY <3>4, <3>5
    <3>7. form[f].kind \in Modals <=> form[f].parent # NoForm
      BY <3>1, <3>2 DEF OpenedOK
    <3> QED
      BY <3>1, <3>3, <3>6, <3>7 DEF FormRow
  <2> QED
    BY <2>1 DEF IInv, ShapeOK, TypeOK, Rows, TaskRow
<1> QED
  BY <1>1, Initially, Inductive, PTL DEF Spec

(* No click waits for ever on the locks of others: who waits for a modal     *)
(* holds nothing and who waits for a view holds only modals, so whoever      *)
(* holds a view does not wait.                                               *)
THEOREM ClicksAreAnswered == Spec => []NoEndlessWait
<1>1. ASSUME IInv, NEW waiting \in (SUBSET Tasks) \ {{}}
      PROVE  \E t \in waiting : Awaited(t) \notin waiting
  <2> SUFFICES ASSUME \A t \in waiting : Awaited(t) \in waiting
               PROVE  FALSE
    OBVIOUS
  <2>1. \A t \in waiting : /\ TaskOK(t) /\ task[t].pc \in {"modal", "lock"}
                            /\ Awaited(t) \in Tasks
    BY <1>1, TaskAssumption DEF Awaited, IInv
  <2>2. ASSUME NEW t \in waiting, task[t].pc = "lock"
        PROVE  FALSE
    <3>1. /\ Target(t) \in Ids /\ form[Target(t)].kind \in Views
          /\ Awaited(t) = form[Target(t)].lock
      BY <2>1, <2>2 DEF Awaited, TaskOK, AboutOK, View
    <3>2. PICK u \in waiting : u = form[Target(t)].lock
      BY <3>1
    <3>3. task[u].pc = "modal" => HoldsNothing(u)
      BY <2>1 DEF TaskOK, LocksOK
    <3>4. task[u].pc = "lock" => HoldsModals(u)
      BY <2>1 DEF TaskOK, LocksOK
    <3> QED
      BY <2>1, <3>1, <3>2, <3>3, <3>4 DEF HoldsNothing, HoldsModals, Views, Modals
  <2>3. ASSUME NEW t \in waiting, task[t].pc = "modal"
        PROVE  FALSE
    <3>1. task[t].form \in Ids /\ Awaited(t) = form[task[t].form].lock
      BY <2>1, <2>3 DEF Awaited, TaskOK, AboutOK
    <3>2. PICK u \in waiting : u = form[task[t].form].lock
      BY <3>1
    <3>3. task[u].pc = "modal" => HoldsNothing(u)
      BY <2>1 DEF TaskOK, LocksOK
    <3> QED
      BY <2>1, <2>2, <3>1, <3>2, <3>3 DEF HoldsNothing
  <2>4. PICK t \in waiting : task[t].pc \in {"modal", "lock"}
    BY <1>1, <2>1
  <2> QED
    BY <2>2, <2>3, <2>4
<1>2. IInv => NoEndlessWait
  BY <1>1 DEF NoEndlessWait
<1> QED
  BY <1>2, Initially, Inductive, PTL DEF Spec

(* A form changes the schedules at most once, and its user is never told     *)
(* otherwise, in whatever order its buttons, its timeout, the shutdown and   *)
(* the answers of other handlers come: action_lock and finished suffice.     *)
THEOREM OneVerdictEach == Spec => []OneVerdict
<1>1. IInv => OneVerdict
  BY DEF IInv, OneVerdict, EffectOK, ToldOK, Decided, IsDetail
<1> QED
  BY <1>1, Initially, Inductive, PTL DEF Spec

(* A change made from a form that belongs to a detail is committed only      *)
(* while the schedule is still the one that form showed its user: the form's *)
(* version, the unlocked read and the read under the row locks agree.        *)
THEOREM ActsOnShown == Spec => ActsOnWhatWasShown
<1>1. ASSUME IInv, [Next]_vars, NEW f \in Ids,
             effects'[f] > effects[f], form[f].version # NoVersion
      PROVE  form[f].seen = Shown
  <2>1. effects \in [1..MaxForms -> Nat] /\ f \in 1..MaxForms /\ OpenedOK(f)
    BY <1>1 DEF IInv, ShapeOK
  <2>2. effects' # effects
    <3>1. effects[f] \in Nat
      BY <2>1
    <3> QED
      BY <1>1, <3>1
  <2>3. PICK t \in Tasks : Commit(t)
    BY <1>1, <2>2, ZenonT(60)
       DEF Next, vars, Handle, ChangedElsewhere, Close, Opens, ShowCommand, ListCommand,
           CreateCommand, DeleteCommand, ResumeCommand, Expire, ModalExpires,
           Click, Submit, EnterModal, TurnedAway, StartChange, Replaces, OpenModal,
           ShowSelection, ReturnToList, EditFromDetail, AskTime, ResumeFromDetail,
           DeleteFromDetail, ContinueDelete, SubmitTime, Cancel, Look, Answer
  <2>4. /\ task[t].pc = "commit" /\ Revalidated(t)
        /\ effects' = [effects EXCEPT ![Acting(t)] = @ + 1]
    BY <2>2, <2>3 DEF Commit
  <2>5. f = Acting(t)
    BY <1>1, <2>1, <2>4
  <2>6. form[f].version = row.version
    BY <1>1, <2>4, <2>5, CommitsFresh
  <2> QED
    BY <2>1, <2>6 DEF OpenedOK
<1>2. IInv /\ [Next]_vars
        => [\A f \in Ids : effects'[f] > effects[f] /\ form[f].version # NoVersion
                           => form[f].seen = Shown]_vars
  BY <1>1
<1> QED
  BY <1>2, Initially, Inductive, PTL DEF Spec, ActsOnWhatWasShown
=============================================================================
