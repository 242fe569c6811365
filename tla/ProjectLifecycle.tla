--------------------------- MODULE ProjectLifecycle ---------------------------
(***************************************************************************)
(* Projects, the components they select and the Tasks they hold:           *)
(* src/ish/services/projects.py, with src/ish/components/base.py and       *)
(* registry.py, the handle of services/components.py and the Task          *)
(* lifecycle of services/tasks.py.                                         *)
(*                                                                         *)
(* An operation holds the workspace's lock from its checks to its end, so  *)
(* one runs at a time; but it is a sequence of writes to several files.    *)
(* Any write may raise, before or after it reached the disk, the process   *)
(* may die between two, and some operations undo what they began and some  *)
(* do not.  Names, titles and contents are abstracted to what a clone must *)
(* copy.  Every component a Project selects is registered.                 *)
(***************************************************************************)
EXTENDS Naturals, Sequences, FiniteSets

CONSTANTS
    Projects,      \* the IDs new_id() may draw
    Components,    \* the registered components
    Tasks,         \* the IDs of Tasks, per Project
    MaxMessages,   \* the most messages a Task's conversation gets
    MaxContents,   \* users and Runs fill or edit a file while fewer, of all Projects, are
    MaxFailures    \* the most writes that raise in one operation

ASSUME LifecycleAssumption == {MaxMessages, MaxContents, MaxFailures} \subseteq Nat

VARIABLES
    project,       \* [project -> project.json]
    data,          \* [project -> [component -> its directory]]
    task,          \* [project -> [task -> task.json and the conversation]]
    attached,      \* the Tasks with a runtime, of any TaskManager
    op,            \* the operation that holds the lock
    result,        \* how the last operation ended, until the next step
    opened,        \* history: Projects that create, clone or restore returned, whole
    erased,        \* history: <<project, component>>, whose configuration a permanent
                   \* delete of the Project, opened before, removed, and nobody
                   \* initialised since
    taken          \* history: Projects in use that a failed restore marked deleted

disk == <<project, data, task>>
history == <<opened, erased, taken>>
vars == <<disk, attached, op, result, history>>

-----------------------------------------------------------------------------
NoProject == [status |-> "none", selected |-> {}, edited |-> FALSE]
NoData == [config |-> "none", records |-> FALSE]
NoTask == [status |-> "none", edited |-> FALSE, messages |-> 0]

ProjectFile == [status : {"none", "active", "deleted"},
                selected : SUBSET Components, edited : BOOLEAN]
ComponentFiles == [config : {"none", "default", "edited"}, records : BOOLEAN]
TaskFiles == [status : {"none", "idle", "running", "deleted"},
              edited : BOOLEAN, messages : 0 .. MaxMessages]

Active(p) == project[p].status = "active"
Exists(p) == project[p].status # "none"
Listed(p) == {t \in Tasks : task[p][t].status # "none"}
Live(p) == {t \in Tasks : task[p][t].status \in {"idle", "running"}}
Configured(p) == {c \in Components : data[p][c].config # "none"}

\* Mutant: it trusts the registry of runtimes and forgets the persisted Run.
Inactive_Attached(p, t) == <<p, t>> \notin attached
Inactive(p, t) == <<p, t>> \notin attached /\ task[p][t].status # "running"

-----------------------------------------------------------------------------
(* Operations as programs of stages.                                         *)

\* Mutant: set_components publishes a selection before it initialises it.
Program_Published(kind) ==
    CASE kind = "create" -> <<"publish", "initialize">>
      [] kind = "clone" -> <<"publish", "initialize", "copy", "tasks">>
      [] kind = "select" -> <<"publish", "initialize">>
      [] kind = "disable" -> <<"publish">>
      [] kind = "purge" -> <<"publish", "erase">>
      [] kind = "delete" -> <<"publish">>
      [] kind = "destroy" -> <<"erase">>
      [] kind = "restore" -> <<"initialize", "publish", "initializers">>
      [] kind = "cloneTask" -> <<"tasks">>
      [] kind = "removeTask" -> <<"erase">>
Program(kind) ==
    CASE kind = "create" -> <<"publish", "initialize">>
      [] kind = "clone" -> <<"publish", "initialize", "copy", "tasks">>
      [] kind = "select" -> <<"initialize", "publish">>
      [] kind = "disable" -> <<"publish">>
      [] kind = "purge" -> <<"publish", "erase">>
      [] kind = "delete" -> <<"publish">>
      [] kind = "destroy" -> <<"erase">>
      [] kind = "restore" -> <<"initialize", "publish", "initializers">>
      [] kind = "cloneTask" -> <<"tasks">>
      [] kind = "removeTask" -> <<"erase">>

\* Mutant: clone copies outside its try block.
Caught_Initializing(kind, stage) ==
    \/ kind \in {"create", "clone"} /\ stage = "initialize"
    \/ kind = "restore" /\ stage = "initializers"
\* Whose exceptions reach the handler that marks the Project deleted.
Caught(kind, stage) ==
    \/ kind \in {"create", "clone"} /\ stage # "publish"
    \/ kind = "restore" /\ stage = "initializers"

Kinds == {"create", "clone", "select", "disable", "purge", "delete", "destroy",
          "restore", "cloneTask", "removeTask"}
Stages == {"publish", "initialize", "initializers", "copy", "tasks", "erase"}
Files ==
    {<<"project.json">>} \cup ({"component.json", "records"} \X Components)
        \cup ({"task.json", "conversation"} \X Tasks)

NoOp == [kind |-> "none"]
NoResult == [kind |-> "none"]
\* json is what publish writes; pairs are the Tasks to clone and the clones.
Operation(kind, from, p, json, pairs, erase) ==
    [kind |-> kind, project |-> p, source |-> from, at |-> 1, json |-> json,
     pairs |-> pairs, cloned |-> {}, erase |-> erase, failures |-> 0, failed |-> "none"]

Stage == Program(op.kind)[op.at]
\* The operation is undisturbed, in that stage.
In(stage) == op # NoOp /\ op.failed = "none" /\ Stage = stage
\* The handler runs: what was raised at op.failed is on its way to the caller.
Handling == op # NoOp /\ op.failed # "none"

Begin(o) ==
    /\ op = NoOp /\ op' = o /\ result' = NoResult
    /\ UNCHANGED <<disk, attached, history>>

-----------------------------------------------------------------------------
(* The calls, with the checks each makes before its first write.             *)

Create(p, names) ==
    /\ ~Exists(p)
    /\ LET json == [status |-> "active", selected |-> names, edited |-> FALSE]
       IN  Begin(Operation("create", p, p, json, {}, {}))

Clone(from, p) ==
    /\ Active(from) /\ \A t \in Live(from) : Inactive(from, t)
    /\ ~Exists(p)
    /\ Begin(Operation("clone", from, p, project[from], {<<t, t>> : t \in Live(from)}, {}))

SetComponents(p, names) ==
    /\ Active(p)
    /\ Begin(Operation("select", p, p, [project[p] EXCEPT !.selected = names], {}, {}))

\* The files of a component's directory, of a Task's, and of a Project's, that are there.
Directory(p, c) ==
    {<<"component.json", x>> : x \in {c} \cap Configured(p)}
        \cup {<<"records", x>> : x \in {y \in {c} : data[p][y].records}}
TaskTree(p, t) ==
    {<<"task.json", x>> : x \in {t} \cap Listed(p)}
        \cup {<<"conversation", x>> : x \in {y \in {t} : task[p][y].messages > 0}}
ProjectTree(p) ==
    {<<"project.json">>} \cup (UNION {Directory(p, c) : c \in Components})
        \cup (UNION {TaskTree(p, t) : t \in Tasks})

RemoveComponent(p, c, permanent) ==
    /\ Active(p)
    /\ permanent => \A t \in Listed(p) : Inactive(p, t)
    /\ LET json == [project[p] EXCEPT !.selected = @ \ {c}]
       IN  Begin(IF permanent THEN Operation("purge", p, p, json, {}, Directory(p, c))
                              ELSE Operation("disable", p, p, json, {}, {}))

Delete(p, permanent) ==
    /\ Exists(p) /\ \A t \in Listed(p) : Inactive(p, t)
    /\ LET json == [project[p] EXCEPT !.status = "deleted"]
       IN  Begin(IF permanent THEN Operation("destroy", p, p, json, {}, ProjectTree(p))
                              ELSE Operation("delete", p, p, json, {}, {}))

\* Neither a deleted Project nor detached Tasks are required.
Restore(p) ==
    /\ Exists(p)
    /\ Begin(Operation("restore", p, p, [project[p] EXCEPT !.status = "active"], {}, {}))

CloneTask(from, t, p, u) ==
    /\ Active(from) /\ t \in Live(from) /\ Inactive(from, t)
    /\ Active(p) /\ task[p][u] = NoTask
    /\ Begin(Operation("cloneTask", from, p, project[p], {<<t, u>>}, {}))

RemoveTask(p, t) ==
    /\ Exists(p) /\ t \in Listed(p) /\ Inactive(p, t)
    /\ Begin(Operation("removeTask", p, p, project[p], {}, TaskTree(p, t)))

-----------------------------------------------------------------------------
(* Their stages, one write a step.                                           *)

\* ProjectRepository.save.
Publish ==
    /\ In("publish") /\ project[op.project] # op.json
    /\ project' = [project EXCEPT ![op.project] = op.json]
    /\ taken' = IF op.json.status = "active" THEN taken \ {op.project} ELSE taken
    /\ result' = NoResult
    /\ UNCHANGED <<data, task, attached, op, opened, erased>>

\* Component.initialize: configuration that is there is kept.
InitializeComponent(c) ==
    /\ In("initialize") /\ c \in op.json.selected \ Configured(op.project)
    /\ data' = [data EXCEPT ![op.project][c].config = "default"]
    /\ erased' = erased \ {<<op.project, c>>}
    /\ result' = NoResult
    /\ UNCHANGED <<project, task, attached, op, opened, taken>>

\* Component.clone: the configuration, then the definitions.
CopyConfiguration(c) ==
    /\ In("copy") /\ c \in op.json.selected \cap Configured(op.source)
    /\ data[op.project][c].config # data[op.source][c].config
    /\ data' = [data EXCEPT ![op.project][c].config = data[op.source][c].config]
    /\ result' = NoResult
    /\ UNCHANGED <<project, task, attached, op, history>>

CopyRecords(c) ==
    /\ In("copy") /\ c \in op.json.selected
    /\ data[op.project][c].config = data[op.source][c].config
    /\ data[op.source][c].records /\ ~data[op.project][c].records
    /\ data' = [data EXCEPT ![op.project][c].records = TRUE]
    /\ result' = NoResult
    /\ UNCHANGED <<project, task, attached, op, history>>

\* TaskManager.clone: create with the Project's defaults, each message, save.
Unfinished == {pair \in op.pairs \ op.cloned : task[op.project][pair[2]] # NoTask}

OpenClone(pair) ==
    /\ In("tasks") /\ pair \in op.pairs \ op.cloned /\ Unfinished = {}
    /\ task' = [task EXCEPT ![op.project][pair[2]].status = "idle"]
    /\ result' = NoResult
    /\ UNCHANGED <<project, data, attached, op, history>>

\* Mutant: the last message is copied twice.
CopyMessage_Twice(pair) ==
    /\ In("tasks") /\ pair \in Unfinished
    /\ task[op.project][pair[2]].messages <= task[op.source][pair[1]].messages
    /\ task' = [task EXCEPT ![op.project][pair[2]].messages = @ + 1]
    /\ result' = NoResult
    /\ UNCHANGED <<project, data, attached, op, history>>
CopyMessage(pair) ==
    /\ In("tasks") /\ pair \in Unfinished
    /\ task[op.project][pair[2]].messages < task[op.source][pair[1]].messages
    /\ task' = [task EXCEPT ![op.project][pair[2]].messages = @ + 1]
    /\ result' = NoResult
    /\ UNCHANGED <<project, data, attached, op, history>>

\* Mutant: the clone is not saved with its source's configuration.
SaveClone_Unsaved(pair) ==
    /\ In("tasks") /\ pair \in Unfinished
    /\ task[op.project][pair[2]].messages = task[op.source][pair[1]].messages
    /\ op' = [op EXCEPT !.cloned = @ \cup {pair}]
    /\ result' = NoResult
    /\ UNCHANGED <<disk, attached, history>>
SaveClone(pair) ==
    /\ In("tasks") /\ pair \in Unfinished
    /\ task[op.project][pair[2]].messages = task[op.source][pair[1]].messages
    /\ task' = [task EXCEPT ![op.project][pair[2]].edited = task[op.source][pair[1]].edited]
    /\ op' = [op EXCEPT !.cloned = @ \cup {pair}]
    /\ result' = NoResult
    /\ UNCHANGED <<project, data, attached, history>>

\* rmtree, in the order the file system lists.  Once project.json is gone nothing
\* reads what is left of the tree, and its ID may stand for a new one.
Erase(f) ==
    /\ In("erase") /\ f \in op.erase /\ f # <<"project.json">>
    /\ op' = [op EXCEPT !.erase = @ \ {f}]
    /\ data' = CASE f[1] = "component.json" ->
                      [data EXCEPT ![op.project][f[2]].config = "none"]
                 [] f[1] = "records" ->
                      [data EXCEPT ![op.project][f[2]].records = FALSE]
                 [] OTHER -> data
    /\ task' = CASE f[1] = "task.json" -> [task EXCEPT ![op.project][f[2]] = NoTask]
                 [] f[1] = "conversation" ->
                      [task EXCEPT ![op.project][f[2]].messages = 0]
                 [] OTHER -> task
    /\ erased' = IF op.kind = "destroy" /\ op.project \in opened /\ f[1] = "component.json"
                 THEN erased \cup {<<op.project, f[2]>>} ELSE erased
    /\ result' = NoResult
    /\ UNCHANGED <<project, attached, opened, taken>>

EraseProject ==
    /\ In("erase") /\ <<"project.json">> \in op.erase
    /\ op' = [op EXCEPT !.erase = {}]
    /\ project' = [project EXCEPT ![op.project] = NoProject]
    /\ data' = [data EXCEPT ![op.project] = [c \in Components |-> NoData]]
    /\ task' = [task EXCEPT ![op.project] = [t \in Tasks |-> NoTask]]
    /\ opened' = opened \ {op.project} /\ taken' = taken \ {op.project}
    /\ erased' = {lost \in erased : lost[1] # op.project}
    /\ result' = NoResult
    /\ UNCHANGED attached

StageDone ==
    \/ In("publish") /\ project[op.project] = op.json
    \/ In("initialize") /\ op.json.selected \subseteq Configured(op.project)
    \/ In("initializers")
    \/ In("copy") /\ \A c \in op.json.selected :
                         data[op.project][c] = data[op.source][c]
    \/ In("tasks") /\ op.cloned = op.pairs
    \/ In("erase") /\ op.erase = {}

\* What the caller of a creation learns.
Outcome(o, how) ==
    IF o.kind \in {"create", "clone", "cloneTask"}
    THEN [kind |-> o.kind, project |-> o.project, source |-> o.source,
          pairs |-> o.pairs, how |-> how, failures |-> o.failures, failed |-> o.failed]
    ELSE NoResult

Advance ==
    /\ StageDone /\ op.at < Len(Program(op.kind))
    /\ op' = [op EXCEPT !.at = @ + 1]
    /\ result' = NoResult
    /\ UNCHANGED <<disk, attached, history>>

Return ==
    /\ StageDone /\ op.at = Len(Program(op.kind))
    /\ op' = NoOp /\ result' = Outcome(op, "returned")
    /\ opened' = IF op.kind \in {"create", "clone", "restore"}
                 THEN opened \cup {op.project} ELSE opened
    /\ UNCHANGED <<disk, attached, erased, taken>>

-----------------------------------------------------------------------------
(* Failures.                                                                 *)

Raise(o, cause) ==
    /\ IF Caught(o.kind, cause)
       THEN op' = [o EXCEPT !.failed = cause] /\ result' = NoResult
       ELSE op' = NoOp /\ result' = Outcome([o EXCEPT !.failed = cause], "raised")
    /\ UNCHANGED <<disk, attached, history>>

\* The next write raises, or the last one did after it reached the disk.
Fail ==
    /\ op # NoOp /\ op.failed = "none" /\ op.failures < MaxFailures
    /\ Raise([op EXCEPT !.failures = @ + 1], Stage)

\* The source's configuration is missing: its creation was cut short.
SourceUnreadable ==
    /\ In("copy") /\ \E c \in op.json.selected : data[op.source][c].config = "none"
    /\ Raise([op EXCEPT !.failures = @ + 1], "copy")

\* The handler: project.deleted = True, save, and the exception goes on.
Discard ==
    /\ Handling
    /\ project' = [project EXCEPT ![op.project] = [op.json EXCEPT !.status = "deleted"]]
    /\ taken' = IF \A t \in Tasks : Inactive(op.project, t)
                THEN taken ELSE taken \cup {op.project}
    /\ op' = NoOp /\ result' = Outcome(op, "raised")
    /\ UNCHANGED <<data, task, attached, opened, erased>>

DiscardFails ==
    /\ Handling /\ op.failures < MaxFailures
    /\ op' = NoOp
    /\ result' = Outcome([op EXCEPT !.failures = @ + 1], "raised")
    /\ UNCHANGED <<disk, attached, history>>

Crash ==
    /\ attached' = {} /\ op' = NoOp /\ result' = NoResult
    /\ UNCHANGED <<disk, history>>

-----------------------------------------------------------------------------
(* Operations of one write.                                                  *)

Quiet == op = NoOp /\ op' = NoOp /\ result' = NoResult /\ UNCHANGED history

\* The files of a Project that are not as created.
Contents(p) ==
    {<<"project.json">> : x \in {TRUE} \cap {project[p].edited}}
        \cup {<<"component.json", c>> : c \in {c \in Components : data[p][c].config = "edited"}}
        \cup {<<"records", c>> : c \in {c \in Components : data[p][c].records}}
        \cup {<<"task.json", t>> : t \in {t \in Tasks : task[p][t].edited}}
        \cup {<<"conversation", t>> : t \in {t \in Tasks : task[p][t].messages > 0}}
MayFill == Cardinality(UNION {{p} \X Contents(p) : p \in Projects}) < MaxContents

\* ProjectManager.save: title and configuration.
SaveProject(p) ==
    /\ Quiet /\ Active(p) /\ MayFill
    /\ project' = [project EXCEPT ![p].edited = TRUE]
    /\ UNCHANGED <<data, task, attached>>

\* ComponentData and configure_component: the selection is read anew.
Configure(p, c) ==
    /\ Quiet /\ Active(p) /\ c \in project[p].selected /\ MayFill
    /\ data' = [data EXCEPT ![p][c].config = "edited"]
    /\ UNCHANGED <<project, task, attached>>

Define(p, c, there) ==
    /\ Quiet /\ Active(p) /\ c \in project[p].selected /\ (there => MayFill)
    /\ data' = [data EXCEPT ![p][c].records = there]
    /\ UNCHANGED <<project, task, attached>>

SetTask(p, t, files) ==
    /\ task' = [task EXCEPT ![p][t] = files]
    /\ UNCHANGED <<project, data, attached>>

CreateTask(p, t) ==
    /\ Quiet /\ Active(p) /\ task[p][t] = NoTask
    /\ SetTask(p, t, [NoTask EXCEPT !.status = "idle"])

SaveTask(p, t) ==
    /\ Quiet /\ Active(p) /\ t \in Live(p) /\ Inactive(p, t) /\ MayFill
    /\ SetTask(p, t, [task[p][t] EXCEPT !.edited = TRUE])

\* A Task of a deleted Project may be deleted.
DeleteTask(p, t) ==
    /\ Quiet /\ Exists(p) /\ t \in Listed(p) /\ Inactive(p, t)
    /\ SetTask(p, t, [task[p][t] EXCEPT !.status = "deleted"])

RestoreTask(p, t) ==
    /\ Quiet /\ Active(p) /\ task[p][t].status = "deleted" /\ Inactive(p, t)
    /\ SetTask(p, t, [task[p][t] EXCEPT !.status = "idle"])

\* RunManager: attach and recover; begin and finish a Run; shut down.
Attach(p, t) ==
    /\ Quiet /\ Active(p) /\ t \in Live(p) /\ <<p, t>> \notin attached
    /\ attached' = attached \cup {<<p, t>>}
    /\ task' = [task EXCEPT ![p][t].status = "idle"]
    /\ UNCHANGED <<project, data>>

Run(p, t) ==
    /\ Quiet /\ Active(p) /\ <<p, t>> \in attached /\ task[p][t].status = "idle"
    /\ task[p][t].messages < MaxMessages /\ MayFill
    /\ SetTask(p, t, [task[p][t] EXCEPT !.status = "running", !.messages = @ + 1])

Rest(p, t) ==
    /\ Quiet /\ Active(p) /\ <<p, t>> \in attached /\ task[p][t].status = "running"
    /\ SetTask(p, t, [task[p][t] EXCEPT !.status = "idle"])

\* A worker whose last write failed leaves a running Task.
Detach(p, t) ==
    /\ Quiet /\ <<p, t>> \in attached
    /\ attached' = attached \ {<<p, t>>}
    /\ UNCHANGED disk

-----------------------------------------------------------------------------
Init ==
    /\ project = [p \in Projects |-> NoProject]
    /\ data = [p \in Projects |-> [c \in Components |-> NoData]]
    /\ task = [p \in Projects |-> [t \in Tasks |-> NoTask]]
    /\ attached = {} /\ opened = {} /\ erased = {} /\ taken = {}
    /\ op = NoOp /\ result = NoResult

Calls ==
    \E p \in Projects :
        \/ \E names \in SUBSET Components : Create(p, names) \/ SetComponents(p, names)
        \/ \E from \in Projects : Clone(from, p)
        \/ \E c \in Components, permanent \in BOOLEAN : RemoveComponent(p, c, permanent)
        \/ \E permanent \in BOOLEAN : Delete(p, permanent)
        \/ Restore(p)
        \/ \E from \in Projects, t, u \in Tasks : CloneTask(from, t, p, u)
        \/ \E t \in Tasks : RemoveTask(p, t)

Work ==
    \/ Publish \/ EraseProject \/ Advance \/ Return
    \/ \E c \in Components :
           InitializeComponent(c) \/ CopyConfiguration(c) \/ CopyRecords(c)
    \/ \E pair \in Tasks \X Tasks :
           OpenClone(pair) \/ CopyMessage(pair) \/ SaveClone(pair)
    \/ \E f \in Files : Erase(f)

Failure == Fail \/ SourceUnreadable \/ Discard \/ DiscardFails \/ Crash

Edits ==
    \E p \in Projects :
        \/ SaveProject(p)
        \/ \E c \in Components :
               Configure(p, c) \/ \E there \in BOOLEAN : Define(p, c, there)
        \/ \E t \in Tasks :
               \/ CreateTask(p, t) \/ SaveTask(p, t) \/ DeleteTask(p, t) \/ RestoreTask(p, t)
               \/ Attach(p, t) \/ Run(p, t) \/ Rest(p, t) \/ Detach(p, t)

Next == Calls \/ Work \/ Failure \/ Edits
Spec == Init /\ [][Next]_vars

-----------------------------------------------------------------------------
(* Properties.                                                               *)

OperationType ==
    [kind : Kinds, project : Projects, source : Projects, at : 1 .. 4,
     json : ProjectFile, pairs : SUBSET (Tasks \X Tasks),
     cloned : SUBSET (Tasks \X Tasks), erase : SUBSET Files,
     failures : 0 .. MaxFailures + 1, failed : Stages \cup {"none"}]

\* Each variable has its type, and an operation is in a stage of its program.
TypeOK ==
    /\ project \in [Projects -> ProjectFile]
    /\ data \in [Projects -> [Components -> ComponentFiles]]
    /\ task \in [Projects -> [Tasks -> TaskFiles]]
    /\ attached \subseteq Projects \X Tasks
    /\ opened \subseteq Projects /\ taken \subseteq Projects
    /\ erased \subseteq Projects \X Components
    /\ op # NoOp => op \in OperationType /\ op.at <= Len(Program(op.kind))

\* A Project that an operation has handed out whole, and that is active, selects no
\* component without configuration, whatever failed or crashed since, so that a Run
\* that opens it can resolve its capabilities (projects.py, the order of
\* initialisation, publication and removal); but for the configurations that a
\* permanent delete of the whole Project has removed before it was cut: the partial
\* tree keeps its active project.json until it is erased.
SelectionBacked ==
    \A p \in opened : Active(p) =>
        \A c \in project[p].selected \ Configured(p) : <<p, c>> \in erased

\* Active persisted Runs and attached runtimes block deletion: whoever has one has a
\* Task that is not deleted, in a Project that is active, also while another operation
\* is half done and after a crash (projects.py, require_inactive on every Task).  The
\* exception is restore(), which asks for neither: called on a Project that is in use,
\* it marks that Project deleted when an initialiser fails, until it is active again.
RuntimeBlocksDeletion ==
    \A p \in Projects, t \in Tasks :
        \/ <<p, t>> \in attached
        \/ task[p][t].status = "running"
        => t \in Live(p) /\ (Active(p) \/ p \in taken)

\* A create or clone that raised has left its Project deleted, so that no list shows
\* it, when what failed was one write after its first save.
SingleFailureHides ==
    /\ result # NoResult /\ result.kind \in {"create", "clone"} /\ result.how = "raised"
    /\ result.failures <= 1 /\ result.failed # "publish"
    => project[result.project].status = "deleted"

\* A clone that returned has all its source has: configuration, definitions of the
\* selected components, and of each Task the conversation and configuration.  The
\* clone of a Task likewise.  It may have come through any number of writes
\* (projects.py clone, components/base.py clone, tasks.py clone).
ReturnedIsWhole ==
    /\ result # NoResult /\ result.how = "returned"
    => /\ result.kind = "clone" =>
            /\ project[result.project] = project[result.source]
            /\ \A c \in project[result.source].selected :
                   data[result.project][c] = data[result.source][c]
            /\ {pair[1] : pair \in result.pairs} = Live(result.source)
       /\ result.kind \in {"clone", "cloneTask"} =>
            \A pair \in result.pairs :
                task[result.project][pair[2]] = task[result.source][pair[1]]

\* "Initialization/clone failures leave the new Project soft-deleted" (README.md),
\* without a bound on what fails.
FailedIsHidden ==
    /\ result # NoResult /\ result.kind \in {"create", "clone"} /\ result.how = "raised"
    /\ result.failed # "publish"
    => ~Active(result.project)

===============================================================================
