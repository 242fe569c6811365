------------------------ MODULE ProjectLifecycleProofs ------------------------
(***************************************************************************)
(* The safety of ProjectLifecycle for any number of Projects, components,  *)
(* Tasks, messages and failures.                                           *)
(*                                                                         *)
(* An operation checks for runtimes once, and writes many steps later.     *)
(* What it found stays true because the lock keeps runtimes from coming    *)
(* and Runs from beginning (Sound), and because only an operation that     *)
(* found the whole Project free may mark or erase it.  restore() looks for *)
(* none: it makes its Project active, or leaves it among those taken.      *)
(*                                                                         *)
(* For SelectionBacked the order of an operation's writes carries the      *)
(* proof: a selection is published by whoever has initialised it, or is    *)
(* part of one that was published, or nobody was handed the Project yet    *)
(* (Backed).                                                               *)
(*                                                                         *)
(* A clone that returns is whole because it writes its own Project only    *)
(* and its source rests: what it has copied stays copied (Copying).        *)
(***************************************************************************)
EXTENDS ProjectLifecycle, TLAPS

Free(p) == \A t \in Tasks : Inactive(p, t)
RuntimesHold == RuntimeBlocksDeletion /\ \A p \in taken : Exists(p)

\* The operations that may leave their Project deleted or gone.
Ending == {"create", "clone", "delete", "destroy", "restore"}

\* What an operation may rely on until it ends.
Sound(o) ==
    /\ o.kind \in Ending \ {"restore"} => Free(o.project)
    /\ o.kind \in {"select", "disable", "purge", "restore"} => o.json.status = "active"
    /\ o.json.status # "none"
    /\ <<"project.json">> \in o.erase => o.kind = "destroy"
    /\ \A t \in Tasks : <<"task.json", t>> \in o.erase => Inactive(o.project, t)
    /\ o.failed # "none" => o.kind \in Ending
    /\ o.failed = "none" => o.failures = 0

OpInv == op # NoOp => Sound(op)

LifeInv == TypeOK /\ OpInv /\ RuntimesHold

-----------------------------------------------------------------------------
(* Programs, and what leaves statuses alone.                                 *)

\* Which operations have which stages.
LEMMA StagesOf ==
    ASSUME NEW k \in Kinds
    PROVE  /\ Len(Program(k)) \in 1 .. 4 /\ 1 <= Len(Program(k))
           /\ \A i \in 1 .. Len(Program(k)) :
                  /\ Program(k)[i] \in Stages
                  /\ Program(k)[i] = "publish" =>
                         k \in Ending \cup {"select", "disable", "purge"}
                  /\ Program(k)[i] = "tasks" => k \in {"clone", "cloneTask"}
                  /\ Program(k)[i] = "erase" => k \in {"purge", "destroy", "removeTask"}
<1>1. CASE k = "create"
  <2>1. Program(k) = <<"publish", "initialize">>
    BY <1>1 DEF Program
  <2>2. Len(Program(k)) = 2
    BY <2>1
  <2>q. QED
    BY <1>1, <2>1, <2>2 DEF Ending, Stages
<1>2. CASE k = "clone"
  <2>1. Program(k) = <<"publish", "initialize", "copy", "tasks">>
    BY <1>2 DEF Program
  <2>2. Len(Program(k)) = 4
    BY <2>1
  <2>q. QED
    BY <1>2, <2>1, <2>2 DEF Ending, Stages
<1>3. CASE k = "select"
  <2>1. Program(k) = <<"initialize", "publish">>
    BY <1>3 DEF Program
  <2>2. Len(Program(k)) = 2
    BY <2>1
  <2>q. QED
    BY <1>3, <2>1, <2>2 DEF Ending, Stages
<1>4. CASE k = "disable"
  <2>1. Program(k) = <<"publish">>
    BY <1>4 DEF Program
  <2>2. Len(Program(k)) = 1
    BY <2>1
  <2>q. QED
    BY <1>4, <2>1, <2>2 DEF Ending, Stages
<1>5. CASE k = "purge"
  <2>1. Program(k) = <<"publish", "erase">>
    BY <1>5 DEF Program
  <2>2. Len(Program(k)) = 2
    BY <2>1
  <2>q. QED
    BY <1>5, <2>1, <2>2 DEF Ending, Stages
<1>6. CASE k = "delete"
  <2>1. Program(k) = <<"publish">>
    BY <1>6 DEF Program
  <2>2. Len(Program(k)) = 1
    BY <2>1
  <2>q. QED
    BY <1>6, <2>1, <2>2 DEF Ending, Stages
<1>7. CASE k = "destroy"
  <2>1. Program(k) = <<"erase">>
    BY <1>7 DEF Program
  <2>2. Len(Program(k)) = 1
    BY <2>1
  <2>q. QED
    BY <1>7, <2>1, <2>2 DEF Ending, Stages
<1>8. CASE k = "restore"
  <2>1. Program(k) = <<"initialize", "publish", "initializers">>
    BY <1>8 DEF Program
  <2>2. Len(Program(k)) = 3
    BY <2>1
  <2>q. QED
    BY <1>8, <2>1, <2>2, SMTT(30) DEF Ending, Stages
<1>9. CASE k = "cloneTask"
  <2>1. Program(k) = <<"tasks">>
    BY <1>9 DEF Program
  <2>2. Len(Program(k)) = 1
    BY <2>1
  <2>q. QED
    BY <1>9, <2>1, <2>2 DEF Ending, Stages
<1>10. CASE k = "removeTask"
  <2>1. Program(k) = <<"erase">>
    BY <1>10 DEF Program
  <2>2. Len(Program(k)) = 1
    BY <2>1
  <2>q. QED
    BY <1>10, <2>1, <2>2 DEF Ending, Stages
<1>q. QED
  BY <1>1, <1>2, <1>3, <1>4, <1>5, <1>6, <1>7, <1>8, <1>9, <1>10 DEF Kinds

\* A Project with a runtime or a Run is active or was taken, so an ID that stands for
\* none is free.
LEMMA UnusedIsFree ==
    ASSUME LifeInv, NEW p \in Projects, ~Exists(p)
    PROVE  Free(p)
BY DEF LifeInv, RuntimesHold, RuntimeBlocksDeletion, Free, Inactive, Active, Exists

\* Steps that touch no status and no runtime.
LEMMA StatusFrame ==
    ASSUME LifeInv, UNCHANGED <<attached, taken>>,
           \A p \in Projects : project'[p].status = project[p].status,
           \A p \in Projects, t \in Tasks : task'[p][t].status = task[p][t].status
    PROVE  /\ RuntimesHold'
           /\ \A o : o.project \in Projects /\ Sound(o) => Sound(o)'
<1>1. RuntimesHold'
  BY DEF LifeInv, TypeOK, RuntimesHold, RuntimeBlocksDeletion, Active, Live, Exists
<1>2. ASSUME NEW o, o.project \in Projects, Sound(o)
      PROVE  Sound(o)'
  BY <1>2 DEF Sound, Free, Inactive
<1>q. QED
  BY <1>1, <1>2

\* An operation in progress, its stage, and the stages of its kind.
LEMMA InProgress ==
    ASSUME LifeInv, op # NoOp
    PROVE  /\ op \in OperationType /\ Sound(op) /\ op.kind \in Kinds /\ op.project \in Projects
           /\ op.source \in Projects /\ op.at \in 1 .. Len(Program(op.kind))
           /\ Len(Program(op.kind)) \in 1 .. 4 /\ Stage \in Stages
           /\ Stage = "publish" => op.kind \in Ending \cup {"select", "disable", "purge"}
           /\ Stage = "tasks" => op.kind \in {"clone", "cloneTask"}
           /\ Stage = "erase" => op.kind \in {"purge", "destroy", "removeTask"}
<1>1. op \in OperationType /\ Sound(op) /\ op.at <= Len(Program(op.kind))
  BY DEF LifeInv, TypeOK, OpInv
<1>2. op.kind \in Kinds /\ op.project \in Projects /\ op.source \in Projects /\ op.at \in 1 .. 4
  BY <1>1 DEF OperationType
<1>3. Len(Program(op.kind)) \in 1 .. 4
  BY <1>2, StagesOf
<1>4. op.at \in 1 .. Len(Program(op.kind))
  BY <1>1, <1>2, <1>3
<1>q. QED
  BY <1>1, <1>2, <1>3, <1>4, StagesOf DEF Stage

-----------------------------------------------------------------------------
(* The calls.                                                                *)

LEMMA BeginKeeps ==
    ASSUME LifeInv, NEW o \in OperationType, o.at = 1, Sound(o), Begin(o)
    PROVE  LifeInv'
<1>o. o.kind \in Kinds /\ o.project \in Projects
  BY DEF OperationType
<1>1. 1 <= Len(Program(o.kind)) /\ o.project \in Projects
  BY <1>o, StagesOf
<1>2. TypeOK'
  BY <1>1 DEF LifeInv, TypeOK, Begin, disk, history
<1>3. RuntimesHold' /\ Sound(o)'
  BY <1>1, StatusFrame DEF Begin, disk, history
<1>q. QED
  BY <1>2, <1>3 DEF LifeInv, OpInv, Begin

\* An operation as it begins has the type of one.
LEMMA OperationTyped ==
    ASSUME NEW kind \in Kinds, NEW p \in Projects, NEW json \in ProjectFile,
           NEW from \in Projects, NEW pairs \in SUBSET (Tasks \X Tasks),
           NEW erase \in SUBSET Files
    PROVE  LET o == Operation(kind, from, p, json, pairs, erase)
           IN  /\ o \in OperationType /\ o.at = 1 /\ o.kind = kind /\ o.project = p /\ o.json = json
               /\ o.erase = erase /\ o.failed = "none" /\ o.failures = 0
<1>1. 0 \in 0 .. MaxFailures + 1 /\ {} \in SUBSET (Tasks \X Tasks)
  BY LifecycleAssumption
<1>q. QED
  BY <1>1 DEF OperationType, Operation

\* The Projects and Tasks an operation starts from have their types.
LEMMA FilesTyped ==
    ASSUME LifeInv, NEW p \in Projects
    PROVE  /\ project[p] \in ProjectFile
           /\ project[p].status \in {"none", "active", "deleted"}
           /\ project[p].selected \subseteq Components /\ project[p].edited \in BOOLEAN
           /\ \A t \in Tasks : task[p][t] \in TaskFiles
BY DEF LifeInv, TypeOK, ProjectFile

LEMMA CreateKeeps ==
    ASSUME LifeInv, NEW p \in Projects, NEW names \in SUBSET Components, Create(p, names)
    PROVE  LifeInv'
<1> DEFINE json == [status |-> "active", selected |-> names, edited |-> FALSE]
           o == Operation("create", p, p, json, {}, {})
<1>1. json \in ProjectFile /\ "create" \in Kinds
  BY DEF ProjectFile, Kinds
<1>2. o \in OperationType /\ o.at = 1 /\ o.kind = "create" /\ o.project = p
      /\ o.erase = {} /\ o.failed = "none" /\ o.failures = 0 /\ o.json = json
  <2> HIDE DEF json
  <2>q. QED
    BY <1>1, OperationTyped
<1>3. Free(p)
  BY UnusedIsFree DEF Create
<1>j. json.status = "active"
  OBVIOUS
<1>4. Sound(o)
  <2> HIDE DEF o, json
  <2>q. QED
    BY <1>2, <1>3, <1>j DEF Sound
<1>5. Begin(o)
  BY DEF Create
<1>q. QED
  BY <1>2, <1>4, <1>5, BeginKeeps

LEMMA CloneKeeps ==
    ASSUME LifeInv, NEW from \in Projects, NEW p \in Projects, Clone(from, p)
    PROVE  LifeInv'
<1> DEFINE pairs == {<<t, t>> : t \in Live(from)}
           o == Operation("clone", from, p, project[from], pairs, {})
<1>1. project[from] \in ProjectFile /\ "clone" \in Kinds /\ pairs \in SUBSET (Tasks \X Tasks)
  BY FilesTyped DEF Kinds, Live
<1>2. o \in OperationType /\ o.at = 1 /\ o.kind = "clone" /\ o.project = p
      /\ o.erase = {} /\ o.failed = "none" /\ o.failures = 0 /\ o.json = project[from]
  <2> HIDE DEF pairs
  <2>q. QED
    BY <1>1, OperationTyped
<1>3. Free(p)
  BY UnusedIsFree DEF Clone
<1>4. Sound(o)
  BY <1>2, <1>3 DEF Sound, Clone, Active
<1>5. Begin(o)
  BY DEF Clone
<1>q. QED
  BY <1>2, <1>4, <1>5, BeginKeeps

LEMMA SetComponentsKeeps ==
    ASSUME LifeInv, NEW p \in Projects, NEW names \in SUBSET Components, SetComponents(p, names)
    PROVE  LifeInv'
<1> DEFINE json == [project[p] EXCEPT !.selected = names]
           o == Operation("select", p, p, json, {}, {})
<1>1. json \in ProjectFile /\ json.status = "active" /\ "select" \in Kinds
  BY FilesTyped DEF ProjectFile, Kinds, SetComponents, Active
<1>2. o \in OperationType /\ o.at = 1 /\ o.kind = "select" /\ o.project = p /\ o.json = json
      /\ o.erase = {} /\ o.failed = "none" /\ o.failures = 0
  <2> HIDE DEF json
  <2>q. QED
    BY <1>1, OperationTyped
<1>3. Sound(o)
  BY <1>1, <1>2 DEF Sound, Ending
<1>4. Begin(o)
  BY DEF SetComponents
<1>q. QED
  BY <1>2, <1>3, <1>4, BeginKeeps

\* The files of a component are neither project.json nor a Task's.
LEMMA DirectoryFiles ==
    ASSUME NEW p \in Projects, NEW c \in Components
    PROVE  /\ Directory(p, c) \in SUBSET Files
           /\ <<"project.json">> \notin Directory(p, c)
           /\ \A t \in Tasks : <<"task.json", t>> \notin Directory(p, c)
BY DEF Directory, Files, Configured

\* A Task's are its own.
LEMMA TaskTreeFiles ==
    ASSUME NEW p \in Projects, NEW t \in Tasks
    PROVE  /\ TaskTree(p, t) \in SUBSET Files
           /\ <<"project.json">> \notin TaskTree(p, t)
           /\ \A u \in Tasks : <<"task.json", u>> \in TaskTree(p, t) => u = t /\ t \in Listed(p)
BY DEF TaskTree, Files, Listed

LEMMA ProjectTreeFiles ==
    ASSUME NEW p \in Projects
    PROVE  ProjectTree(p) \in SUBSET Files
<1> DEFINE components == UNION {Directory(p, c) : c \in Components}
           tasks == UNION {TaskTree(p, t) : t \in Tasks}
<1>1. ProjectTree(p) = {<<"project.json">>} \cup components \cup tasks
  BY DEF ProjectTree
<1>2. components \subseteq Files
  BY DirectoryFiles, Zenon
<1>3. tasks \subseteq Files
  <2>1. \A t \in Tasks : TaskTree(p, t) \subseteq Files
    BY TaskTreeFiles
  <2>q. QED
    BY <2>1, Zenon
<1>4. <<"project.json">> \in Files
  BY DEF Files
<1> HIDE DEF components, tasks
<1>q. QED
  BY <1>1, <1>2, <1>3, <1>4

LEMMA RemoveComponentKeeps ==
    ASSUME LifeInv, NEW p \in Projects, NEW c \in Components, NEW permanent \in BOOLEAN,
           RemoveComponent(p, c, permanent)
    PROVE  LifeInv'
<1> DEFINE json == [project[p] EXCEPT !.selected = @ \ {c}]
           kind == IF permanent THEN "purge" ELSE "disable"
           erase == IF permanent THEN Directory(p, c) ELSE {}
           o == Operation(kind, p, p, json, {}, erase)
<1>1. json \in ProjectFile /\ json.status = "active"
  BY FilesTyped DEF ProjectFile, RemoveComponent, Active
<1>2. kind \in Kinds /\ kind \in {"disable", "purge"} /\ erase \in SUBSET Files
  BY DirectoryFiles DEF Kinds
<1>3. o \in OperationType /\ o.at = 1 /\ o.kind = kind /\ o.project = p /\ o.json = json
      /\ o.erase = erase /\ o.failed = "none" /\ o.failures = 0
  <2> HIDE DEF json, kind, erase
  <2>q. QED
    BY <1>1, <1>2, OperationTyped
<1>4. <<"project.json">> \notin erase /\ \A t \in Tasks : <<"task.json", t>> \notin erase
  BY DirectoryFiles
<1>5. Sound(o)
  BY <1>1, <1>2, <1>3, <1>4 DEF Sound, Ending
<1>6. Begin(o)
  BY DEF RemoveComponent
<1>q. QED
  BY <1>3, <1>5, <1>6, BeginKeeps

\* A Project whose listed Tasks are inactive is free: the others have no files.
LEMMA ListedIsAll ==
    ASSUME LifeInv, NEW p \in Projects, \A t \in Listed(p) : Inactive(p, t)
    PROVE  Free(p)
BY DEF LifeInv, RuntimesHold, RuntimeBlocksDeletion, Free, Inactive, Listed, Live

LEMMA DeleteKeeps ==
    ASSUME LifeInv, NEW p \in Projects, NEW permanent \in BOOLEAN, Delete(p, permanent)
    PROVE  LifeInv'
<1> DEFINE json == [project[p] EXCEPT !.status = "deleted"]
           kind == IF permanent THEN "destroy" ELSE "delete"
           erase == IF permanent THEN ProjectTree(p) ELSE {}
           o == Operation(kind, p, p, json, {}, erase)
<1>1. json \in ProjectFile /\ json.status = "deleted"
  BY FilesTyped DEF ProjectFile
<1>2. kind \in Kinds /\ kind \in {"delete", "destroy"} /\ erase \in SUBSET Files
  BY ProjectTreeFiles DEF Kinds
<1>3. o \in OperationType /\ o.at = 1 /\ o.kind = kind /\ o.project = p /\ o.json = json
      /\ o.erase = erase /\ o.failed = "none" /\ o.failures = 0
  <2> HIDE DEF json, kind, erase
  <2>q. QED
    BY <1>1, <1>2, OperationTyped
<1>4. Free(p)
  BY ListedIsAll DEF Delete
<1>5. <<"project.json">> \in erase => kind = "destroy"
  OBVIOUS
<1>6. Sound(o)
  <2> HIDE DEF json, kind, erase
  <2>q. QED
    BY <1>1, <1>2, <1>3, <1>4, <1>5 DEF Sound, Free
<1>7. Begin(o)
  BY DEF Delete
<1>q. QED
  BY <1>3, <1>6, <1>7, BeginKeeps

LEMMA RestoreKeeps ==
    ASSUME LifeInv, NEW p \in Projects, Restore(p)
    PROVE  LifeInv'
<1> DEFINE json == [project[p] EXCEPT !.status = "active"]
           o == Operation("restore", p, p, json, {}, {})
<1>1. json \in ProjectFile /\ json.status = "active" /\ "restore" \in Kinds
  BY FilesTyped DEF ProjectFile, Kinds
<1>2. o \in OperationType /\ o.at = 1 /\ o.kind = "restore" /\ o.project = p /\ o.json = json
      /\ o.erase = {} /\ o.failed = "none" /\ o.failures = 0
  <2> HIDE DEF json
  <2>q. QED
    BY <1>1, OperationTyped
<1>4. Sound(o)
  BY <1>1, <1>2 DEF Sound, Ending
<1>5. Begin(o)
  BY DEF Restore
<1>q. QED
  BY <1>2, <1>4, <1>5, BeginKeeps

LEMMA CloneTaskKeeps ==
    ASSUME LifeInv, NEW from \in Projects, NEW t \in Tasks, NEW p \in Projects, NEW u \in Tasks,
           CloneTask(from, t, p, u)
    PROVE  LifeInv'
<1> DEFINE o == Operation("cloneTask", from, p, project[p], {<<t, u>>}, {})
<1>1. project[p] \in ProjectFile /\ "cloneTask" \in Kinds /\ {<<t, u>>} \in SUBSET (Tasks \X Tasks)
  BY FilesTyped DEF Kinds
<1>2. o \in OperationType /\ o.at = 1 /\ o.kind = "cloneTask" /\ o.project = p /\ o.json = project[p]
      /\ o.erase = {} /\ o.failed = "none" /\ o.failures = 0
  BY <1>1, OperationTyped
<1>3. Sound(o)
  BY <1>2 DEF Sound, Ending, CloneTask, Active
<1>4. Begin(o)
  BY DEF CloneTask
<1>q. QED
  BY <1>2, <1>3, <1>4, BeginKeeps

LEMMA RemoveTaskKeeps ==
    ASSUME LifeInv, NEW p \in Projects, NEW t \in Tasks, RemoveTask(p, t)
    PROVE  LifeInv'
<1> DEFINE o == Operation("removeTask", p, p, project[p], {}, TaskTree(p, t))
<1>1. project[p] \in ProjectFile /\ "removeTask" \in Kinds /\ TaskTree(p, t) \in SUBSET Files
  BY FilesTyped, TaskTreeFiles DEF Kinds
<1>2. o \in OperationType /\ o.at = 1 /\ o.kind = "removeTask" /\ o.project = p /\ o.json = project[p]
      /\ o.erase = TaskTree(p, t) /\ o.failed = "none" /\ o.failures = 0
  BY <1>1, OperationTyped
<1>3. Sound(o)
  BY <1>2, TaskTreeFiles DEF Sound, Ending, RemoveTask, Exists
<1>4. Begin(o)
  BY DEF RemoveTask
<1>q. QED
  BY <1>2, <1>3, <1>4, BeginKeeps

-----------------------------------------------------------------------------
(* The stages of an operation.                                               *)

\* What an operation relies on stays while no runtime comes and no Run begins.
LEMMA SoundStays ==
    ASSUME UNCHANGED attached, NEW o, o.project \in Projects, Sound(o),
           \A t \in Tasks : task'[o.project][t].status = "running"
                                => task[o.project][t].status = "running"
    PROVE  Sound(o)'
BY DEF Sound, Free, Inactive

\* Steps that only write a component's files.
LEMMA DataKeeps ==
    ASSUME LifeInv, UNCHANGED <<project, task, attached, op, opened, taken>>,
           data' \in [Projects -> [Components -> ComponentFiles]],
           erased' \subseteq erased
    PROVE  LifeInv'
BY DEF LifeInv, TypeOK, OpInv, RuntimesHold, RuntimeBlocksDeletion, Sound, Free, Inactive,
       Active, Live, Exists

LEMMA DataTyped ==
    ASSUME LifeInv, NEW p \in Projects, NEW c \in Components
    PROVE  /\ \A config \in {"none", "default", "edited"} :
                  [data EXCEPT ![p][c].config = config]
                      \in [Projects -> [Components -> ComponentFiles]]
           /\ \A records \in BOOLEAN :
                  [data EXCEPT ![p][c].records = records]
                      \in [Projects -> [Components -> ComponentFiles]]
           /\ data[p][c].config \in {"none", "default", "edited"}
<1>1. data \in [Projects -> [Components -> ComponentFiles]] /\ data[p][c] \in ComponentFiles
  BY DEF LifeInv, TypeOK
<1>2. ASSUME NEW files \in ComponentFiles
      PROVE  [data EXCEPT ![p][c] = files] \in [Projects -> [Components -> ComponentFiles]]
  BY <1>1
<1>3. ASSUME NEW config \in {"none", "default", "edited"}
      PROVE  [data[p][c] EXCEPT !.config = config] \in ComponentFiles
  BY <1>1 DEF ComponentFiles
<1>4. ASSUME NEW records \in BOOLEAN
      PROVE  [data[p][c] EXCEPT !.records = records] \in ComponentFiles
  BY <1>1 DEF ComponentFiles
<1>5. data[p][c].config \in {"none", "default", "edited"}
  BY <1>1 DEF ComponentFiles
<1>q. QED
  BY <1>2, <1>3, <1>4, <1>5

LEMMA PublishKeeps == ASSUME LifeInv, Publish PROVE LifeInv'
<1>1. /\ op \in OperationType /\ Sound(op) /\ op.project \in Projects
      /\ op.kind \in Ending \cup {"select", "disable", "purge"}
  BY InProgress DEF Publish, In
<1>2. op.json \in ProjectFile
  BY <1>1 DEF OperationType
<1>3. TypeOK'
  BY <1>1, <1>2 DEF LifeInv, TypeOK, Publish
<1>4. Sound(op)'
  BY <1>1 DEF Publish, Sound, Free, Inactive
<1>5. RuntimesHold'
  <2>1. /\ \A p \in Projects : p # op.project => project'[p] = project[p]
        /\ project'[op.project] = op.json
    BY <1>1 DEF LifeInv, TypeOK, Publish
  <2>2. /\ taken \subseteq Projects
        /\ \/ op.json.status = "active" /\ taken' = taken \ {op.project}
           \/ op.json.status # "active" /\ taken' = taken
    <3>1. taken \subseteq Projects
      BY DEF LifeInv, TypeOK
    <3>2. taken' = IF op.json.status = "active" THEN taken \ {op.project} ELSE taken
      BY DEF Publish
    <3>q. QED
      BY <3>1, <3>2
  <2>3. \A p \in taken' : project'[p].status # "none"
    <3>1. \A p \in taken : project[p].status # "none"
      BY DEF LifeInv, RuntimesHold, Exists
    <3>2. op.json.status # "none"
      BY <1>1 DEF Sound
    <3>q. QED
      BY <2>1, <2>2, <3>1, <3>2
  <2>4. ASSUME NEW p \in Projects, NEW t \in Tasks,
               <<p, t>> \in attached \/ task[p][t].status = "running"
        PROVE  t \in Live(p) /\ (project'[p].status = "active" \/ p \in taken')
    <3>1. t \in Live(p) /\ (project[p].status = "active" \/ p \in taken)
      BY <2>4 DEF LifeInv, RuntimesHold, RuntimeBlocksDeletion, Active
    <3>2. CASE p # op.project
      BY <2>1, <2>2, <3>1, <3>2
    <3>3. CASE p = op.project /\ op.json.status = "active"
      BY <2>1, <3>1, <3>3
    <3>4. CASE p = op.project /\ op.json.status # "active"
      <4>1. Free(op.project)
        BY <1>1, <3>4 DEF Sound, Ending
      <4>q. QED
        BY <2>4, <3>4, <4>1 DEF Free, Inactive
    <3>q. QED
      BY <3>2, <3>3, <3>4
  <2>5. UNCHANGED <<task, attached>>
    BY DEF Publish
  <2>q. QED
    BY <2>3, <2>4, <2>5 DEF RuntimesHold, RuntimeBlocksDeletion, Active, Exists, Live
<1>q. QED
  BY <1>3, <1>4, <1>5 DEF LifeInv, OpInv, Publish

LEMMA ComponentsKeep ==
    ASSUME LifeInv, NEW c \in Components,
           InitializeComponent(c) \/ CopyConfiguration(c) \/ CopyRecords(c)
    PROVE  LifeInv'
<1>1. op \in OperationType /\ op.project \in Projects /\ op.source \in Projects
  BY InProgress DEF InitializeComponent, CopyConfiguration, CopyRecords, In
<1>2. CASE InitializeComponent(c)
  BY <1>1, <1>2, DataTyped, DataKeeps DEF InitializeComponent
<1>3. CASE CopyConfiguration(c)
  BY <1>1, <1>3, DataTyped, DataKeeps DEF CopyConfiguration, history
<1>4. CASE CopyRecords(c)
  BY <1>1, <1>4, DataTyped, DataKeeps DEF CopyRecords, history
<1>q. QED
  BY <1>2, <1>3, <1>4

\* Writing one Task's files.
LEMMA TaskTyped ==
    ASSUME LifeInv, NEW p \in Projects, NEW t \in Tasks, NEW files \in TaskFiles
    PROVE  /\ [task EXCEPT ![p][t] = files] \in [Projects -> [Tasks -> TaskFiles]]
           /\ [task EXCEPT ![p][t] = files][p][t] = files
           /\ \A q \in Projects, u \in Tasks :
                  <<q, u>> # <<p, t>> => [task EXCEPT ![p][t] = files][q][u] = task[q][u]
BY DEF LifeInv, TypeOK

LEMMA OpenCloneKeeps ==
    ASSUME LifeInv, NEW pair \in Tasks \X Tasks, OpenClone(pair)
    PROVE  LifeInv'
<1> DEFINE p == op.project
           t == pair[2]
           files == [task[p][t] EXCEPT !.status = "idle"]
<1>1. op \in OperationType /\ Sound(op) /\ p \in Projects /\ t \in Tasks
  BY InProgress DEF OpenClone, In
<1>2. task[p][t] = NoTask
  BY DEF OpenClone, Unfinished
<1>3. files \in TaskFiles
  BY <1>1, FilesTyped DEF TaskFiles
<1>4. task' = [task EXCEPT ![p][t] = files]
  BY DEF OpenClone
<1>5. /\ task' \in [Projects -> [Tasks -> TaskFiles]] /\ task'[p][t].status = "idle"
      /\ \A q \in Projects, u \in Tasks : <<q, u>> # <<p, t>> => task'[q][u] = task[q][u]
  BY <1>1, <1>3, <1>4, TaskTyped, FilesTyped DEF TaskFiles
<1>6. TypeOK'
  BY <1>5 DEF LifeInv, TypeOK, OpenClone, history
<1>7. Sound(op)'
  BY <1>1, <1>5, SoundStays DEF OpenClone
<1>8. RuntimesHold'
  BY <1>1, <1>2, <1>5 DEF OpenClone, history, LifeInv, RuntimesHold, RuntimeBlocksDeletion,
                          Active, Exists, Live, NoTask
<1>q. QED
  BY <1>6, <1>7, <1>8 DEF LifeInv, OpInv, OpenClone

LEMMA CopyMessageKeeps ==
    ASSUME LifeInv, NEW pair \in Tasks \X Tasks, CopyMessage(pair)
    PROVE  LifeInv'
<1> DEFINE p == op.project
           t == pair[2]
           files == [task[p][t] EXCEPT !.messages = @ + 1]
<1>1. /\ op \in OperationType /\ Sound(op) /\ p \in Projects /\ op.source \in Projects
      /\ t \in Tasks /\ pair[1] \in Tasks
  BY InProgress DEF CopyMessage, In
<1>2. task[p][t] \in TaskFiles /\ task[op.source][pair[1]] \in TaskFiles
  BY <1>1, FilesTyped
<1>3. task[p][t].messages < task[op.source][pair[1]].messages
  BY DEF CopyMessage
<1>4. files \in TaskFiles /\ files.status = task[p][t].status
  BY <1>2, <1>3, LifecycleAssumption DEF TaskFiles
<1>5. task' = [task EXCEPT ![p][t] = files]
  BY DEF CopyMessage
<1>6. /\ task' \in [Projects -> [Tasks -> TaskFiles]]
      /\ \A q \in Projects, u \in Tasks : task'[q][u].status = task[q][u].status
  BY <1>1, <1>4, <1>5, TaskTyped
<1>7. TypeOK'
  BY <1>6 DEF LifeInv, TypeOK, CopyMessage, history
<1>8. RuntimesHold' /\ Sound(op)'
  BY <1>1, <1>6, StatusFrame DEF CopyMessage, history
<1>q. QED
  BY <1>7, <1>8 DEF LifeInv, OpInv, CopyMessage

LEMMA SaveCloneKeeps ==
    ASSUME LifeInv, NEW pair \in Tasks \X Tasks, SaveClone(pair)
    PROVE  LifeInv'
<1> DEFINE p == op.project
           t == pair[2]
           files == [task[p][t] EXCEPT !.edited = task[op.source][pair[1]].edited]
<1>1. /\ op \in OperationType /\ Sound(op) /\ p \in Projects /\ op.source \in Projects
      /\ t \in Tasks /\ pair[1] \in Tasks /\ op.at \in 1 .. Len(Program(op.kind))
  BY InProgress DEF SaveClone, In
<1>2. task[p][t] \in TaskFiles /\ task[op.source][pair[1]] \in TaskFiles
  BY <1>1, FilesTyped
<1>3. files \in TaskFiles /\ files.status = task[p][t].status
  BY <1>2 DEF TaskFiles
<1>4. task' = [task EXCEPT ![p][t] = files]
  BY DEF SaveClone
<1>5. /\ task' \in [Projects -> [Tasks -> TaskFiles]]
      /\ \A q \in Projects, u \in Tasks : task'[q][u].status = task[q][u].status
  BY <1>1, <1>3, <1>4, TaskTyped
<1>6. op' \in OperationType /\ Sound(op') /\ op'.project \in Projects
      /\ op'.kind = op.kind /\ op'.at = op.at
  BY <1>1 DEF SaveClone, OperationType, Sound
<1>7. TypeOK'
  BY <1>1, <1>5, <1>6 DEF LifeInv, TypeOK, SaveClone, history
<1>8. RuntimesHold' /\ (\A o : o.project \in Projects /\ Sound(o) => Sound(o)')
  BY <1>5, StatusFrame DEF SaveClone, history
<1>9. Sound(op)'
  BY <1>6, <1>8 DEF Sound, Free, Inactive
<1>q. QED
  BY <1>7, <1>8, <1>9 DEF LifeInv, OpInv

LEMMA EraseKeeps ==
    ASSUME LifeInv, NEW f \in Files, Erase(f)
    PROVE  LifeInv'
<1> DEFINE p == op.project
<1>1. /\ op \in OperationType /\ Sound(op) /\ p \in Projects
      /\ op.at \in 1 .. Len(Program(op.kind)) /\ op # NoOp
  BY InProgress DEF Erase, In
<1>2. /\ op' \in OperationType /\ op'.project = p /\ op'.kind = op.kind /\ op'.at = op.at
      /\ op'.erase \subseteq op.erase /\ op'.json = op.json
      /\ op'.failed = op.failed /\ op'.failures = op.failures
  BY <1>1 DEF Erase, OperationType
<1>3. f \in op.erase /\ UNCHANGED <<project, attached, opened, taken>>
  BY DEF Erase
<1>h. erased' \subseteq Projects \X Components
  <2>1. f[1] = "component.json" => f[2] \in Components
    BY DEF Files
  <2>q. QED
    BY <1>1, <2>1 DEF Erase, LifeInv, TypeOK
<1>4. Sound(op')
  BY <1>1, <1>2 DEF Sound
<1>5. ASSUME data' \in [Projects -> [Components -> ComponentFiles]],
             task' \in [Projects -> [Tasks -> TaskFiles]]
      PROVE  TypeOK'
  BY <1>1, <1>2, <1>3, <1>h, <1>5 DEF LifeInv, TypeOK
<1>6. ASSUME \A q \in Projects, u \in Tasks : task'[q][u].status = task[q][u].status
      PROVE  RuntimesHold' /\ Sound(op)'
  <2>1. RuntimesHold' /\ \A o : o.project \in Projects /\ Sound(o) => Sound(o)'
    BY <1>3, <1>6, StatusFrame
  <2>q. QED
    BY <1>1, <1>2, <1>4, <2>1 DEF Sound, Free, Inactive
<1>7. CASE f[1] \in {"component.json", "records"}
  <2>1. f[2] \in Components /\ task' = task
    BY <1>7 DEF Erase, Files
  <2>2. data' \in [Projects -> [Components -> ComponentFiles]]
    BY <1>1, <1>7, <2>1, DataTyped DEF Erase
  <2>3. TypeOK'
    BY <2>1, <2>2, <1>5 DEF LifeInv, TypeOK
  <2>q. QED
    BY <2>1, <2>3, <1>6 DEF LifeInv, OpInv
<1>8. CASE f[1] = "conversation"
  <2> DEFINE files == [task[p][f[2]] EXCEPT !.messages = 0]
  <2>1. f[2] \in Tasks /\ data' = data /\ task' = [task EXCEPT ![p][f[2]] = files]
    BY <1>8 DEF Erase, Files
  <2>2. files \in TaskFiles /\ files.status = task[p][f[2]].status
    BY <1>1, <2>1, FilesTyped, LifecycleAssumption DEF TaskFiles
  <2>3. /\ task' \in [Projects -> [Tasks -> TaskFiles]]
        /\ \A q \in Projects, u \in Tasks : task'[q][u].status = task[q][u].status
    BY <1>1, <2>1, <2>2, TaskTyped
  <2>4. TypeOK'
    BY <2>1, <2>3, <1>5 DEF LifeInv, TypeOK
  <2>q. QED
    BY <2>3, <2>4, <1>6 DEF LifeInv, OpInv
<1>9. CASE f[1] = "task.json"
  <2>1. /\ f = <<"task.json", f[2]>> /\ f[2] \in Tasks /\ data' = data
        /\ task' = [task EXCEPT ![p][f[2]] = NoTask]
    BY <1>9 DEF Erase, Files
  <2>2. NoTask \in TaskFiles /\ NoTask.status = "none"
    BY LifecycleAssumption DEF NoTask, TaskFiles
  <2>3. /\ task' \in [Projects -> [Tasks -> TaskFiles]] /\ task'[p][f[2]].status = "none"
        /\ \A q \in Projects, u \in Tasks :
               <<q, u>> # <<p, f[2]>> => task'[q][u] = task[q][u]
    BY <1>1, <2>1, <2>2, TaskTyped
  <2>4. TypeOK'
    BY <2>1, <2>3, <1>5 DEF LifeInv, TypeOK
  <2>5. Inactive(p, f[2])
    BY <1>1, <1>3, <2>1 DEF Sound
  <2>6. RuntimesHold'
    BY <1>1, <1>3, <2>1, <2>3, <2>5 DEF LifeInv, RuntimesHold, RuntimeBlocksDeletion,
                                        Inactive, Active, Live, Exists
  <2>7. Sound(op)'
    BY <1>1, <1>2, <1>3, <1>4, <2>1, <2>3 DEF Sound, Free, Inactive
  <2>q. QED
    BY <2>4, <2>6, <2>7 DEF LifeInv, OpInv
<1>q. QED
  BY <1>3, <1>7, <1>8, <1>9 DEF Erase, Files

LEMMA EraseProjectKeeps == ASSUME LifeInv, EraseProject PROVE LifeInv'
<1> DEFINE p == op.project
<1>1. /\ op \in OperationType /\ Sound(op) /\ p \in Projects
      /\ op.at \in 1 .. Len(Program(op.kind)) /\ op # NoOp
  BY InProgress DEF EraseProject, In
<1>2. /\ op' \in OperationType /\ op'.project = p /\ op'.kind = op.kind /\ op'.at = op.at
      /\ op'.erase = {} /\ op'.json = op.json
      /\ op'.failed = op.failed /\ op'.failures = op.failures
  BY <1>1 DEF EraseProject, OperationType
<1>3. Free(p) /\ op.kind = "destroy"
  BY <1>1 DEF EraseProject, Sound, Ending
<1>4. /\ NoTask \in TaskFiles /\ NoTask.status = "none"
      /\ NoData \in ComponentFiles /\ NoProject \in ProjectFile
  BY LifecycleAssumption DEF NoTask, TaskFiles, NoData, ComponentFiles, NoProject, ProjectFile
<1>5. /\ \A q \in Projects : q # p => project'[q] = project[q] /\ task'[q] = task[q]
      /\ task'[p] = [t \in Tasks |-> NoTask]
  BY <1>1 DEF EraseProject, LifeInv, TypeOK
<1>6. TypeOK'
  <2>1. [t \in Tasks |-> NoTask] \in [Tasks -> TaskFiles]
        /\ [c \in Components |-> NoData] \in [Components -> ComponentFiles]
    BY <1>4
  <2>2. /\ project' \in [Projects -> ProjectFile]
        /\ data' \in [Projects -> [Components -> ComponentFiles]]
        /\ task' \in [Projects -> [Tasks -> TaskFiles]]
    BY <1>1, <1>4, <2>1 DEF EraseProject, LifeInv, TypeOK
  <2>q. QED
    BY <1>1, <1>2, <2>2 DEF EraseProject, LifeInv, TypeOK
<1>7. RuntimesHold'
  <2>1. taken' = taken \ {p} /\ taken \subseteq Projects /\ UNCHANGED attached
    BY DEF EraseProject, LifeInv, TypeOK
  <2>2. \A q \in taken' : Exists(q)'
    BY <1>5, <2>1 DEF LifeInv, RuntimesHold, Exists
  <2>q. QED
    BY <1>1, <1>3, <1>4, <1>5, <2>1, <2>2
       DEF LifeInv, RuntimesHold, RuntimeBlocksDeletion, Free, Inactive, Active, Live
<1>8. Sound(op)'
  BY <1>1, <1>2, <1>4, <1>5 DEF EraseProject, Sound, Free, Inactive
<1>q. QED
  BY <1>6, <1>7, <1>8 DEF LifeInv, OpInv

\* Steps that leave the disk alone.
LEMMA AdvanceKeeps == ASSUME LifeInv, Advance PROVE LifeInv'
<1>1. /\ op \in OperationType /\ Sound(op) /\ op.project \in Projects
      /\ op.at \in 1 .. Len(Program(op.kind)) /\ Len(Program(op.kind)) \in 1 .. 4
  BY InProgress DEF Advance, StageDone, In
<1>2. /\ op' \in OperationType /\ op'.kind = op.kind /\ op'.at <= Len(Program(op'.kind))
      /\ op'.project = op.project /\ op'.erase = op.erase /\ op'.json = op.json
      /\ op'.failed = op.failed /\ op'.failures = op.failures
  <2>1. op.at + 1 \in 1 .. 4 /\ op.at + 1 <= Len(Program(op.kind))
    <3> DEFINE n == Len(Program(op.kind))
    <3>1. n \in 1 .. 4 /\ op.at \in 1 .. n /\ op.at < n
      BY <1>1 DEF Advance
    <3> HIDE DEF n
    <3>2. op.at + 1 \in 1 .. 4 /\ op.at + 1 <= n
      BY <3>1
    <3>q. QED
      BY <3>2 DEF n
  <2>2. op' = [op EXCEPT !.at = op.at + 1]
    BY DEF Advance
  <2>q. QED
    BY <1>1, <2>1, <2>2 DEF OperationType
<1>q. QED
  BY <1>1, <1>2 DEF Advance, disk, history, Exists, LifeInv, TypeOK, OpInv, RuntimesHold,
                    RuntimeBlocksDeletion, Sound, Free,
     Inactive, Active, Live

LEMMA ReturnKeeps == ASSUME LifeInv, Return PROVE LifeInv'
<1>1. op \in OperationType /\ op.project \in Projects
  BY InProgress DEF Return, StageDone, In
<1>q. QED
  BY <1>1 DEF Return, disk, Exists, LifeInv, TypeOK, OpInv, RuntimesHold, RuntimeBlocksDeletion,
              Active, Live

-----------------------------------------------------------------------------
(* Failures.                                                                 *)

\* An operation that raises ends, or is handled when it may end its Project.
LEMMA RaiseKeeps ==
    ASSUME LifeInv, op # NoOp, NEW cause \in Stages, op.failed = "none",
           Raise([op EXCEPT !.failures = @ + 1], cause)
    PROVE  LifeInv'
<1> DEFINE o == [op EXCEPT !.failures = @ + 1]
<1>1. /\ op \in OperationType /\ Sound(op) /\ op.project \in Projects
      /\ op.at \in 1 .. Len(Program(op.kind))
  BY InProgress
<1>2. op.failures = 0
  BY <1>1 DEF Sound
<1>3. CASE Caught(o.kind, cause)
  <2>1. op.kind \in Ending /\ cause # "none"
    BY <1>1, <1>3 DEF Caught, Ending, OperationType, Stages
  <2>2. /\ op' \in OperationType /\ op'.kind = op.kind /\ op'.at = op.at
        /\ op'.project = op.project /\ op'.erase = op.erase /\ op'.json = op.json
        /\ op'.failed = cause
    <3>1. 1 \in 0 .. MaxFailures + 1 /\ 0 + 1 = 1
      BY LifecycleAssumption
    <3>2. o \in OperationType
      BY <1>1, <1>2, <3>1 DEF OperationType
    <3>3. op' = [o EXCEPT !.failed = cause]
      BY <1>3 DEF Raise
    <3>4. /\ o.kind = op.kind /\ o.at = op.at /\ o.project = op.project
          /\ o.erase = op.erase /\ o.json = op.json
      BY <1>1 DEF OperationType
    <3> HIDE DEF o
    <3>q. QED
      BY <3>2, <3>3, <3>4 DEF OperationType
  <2>q. QED
    BY <1>1, <1>3, <2>1, <2>2 DEF Raise, disk, history, Exists, LifeInv, TypeOK, OpInv, RuntimesHold,
                                  RuntimeBlocksDeletion,
       Sound, Free, Inactive, Active, Live
<1>4. CASE ~Caught(o.kind, cause)
  BY <1>4 DEF Raise, disk, history, Exists, LifeInv, TypeOK, OpInv, RuntimesHold, RuntimeBlocksDeletion,
              Active, Live
<1>q. QED
  BY <1>3, <1>4

LEMMA FailuresKeep ==
    ASSUME LifeInv, Fail \/ SourceUnreadable
    PROVE  LifeInv'
<1>1. CASE Fail
  <2>1. op # NoOp /\ Stage \in Stages
    BY <1>1, InProgress DEF Fail
  <2>q. QED
    BY <1>1, <2>1, RaiseKeeps DEF Fail
<1>2. CASE SourceUnreadable
  <2>1. "copy" \in Stages
    BY DEF Stages
  <2>q. QED
    BY <1>2, <2>1, RaiseKeeps DEF SourceUnreadable, In
<1>q. QED
  BY <1>1, <1>2

LEMMA DiscardKeeps == ASSUME LifeInv, Discard PROVE LifeInv'
<1> DEFINE p == op.project
           json == [op.json EXCEPT !.status = "deleted"]
<1>1. op \in OperationType /\ Sound(op) /\ p \in Projects
  BY InProgress DEF Discard, Handling
<1>2. json \in ProjectFile
  BY <1>1 DEF OperationType, ProjectFile
<1>3. /\ UNCHANGED <<task, attached>> /\ taken \subseteq taken'
      /\ taken' \subseteq taken \cup {p} /\ (Free(p) \/ p \in taken')
  BY DEF Discard, Free
<1>4. /\ \A q \in Projects : q # p => project'[q] = project[q]
      /\ project'[p].status = "deleted"
  BY <1>1 DEF Discard, LifeInv, TypeOK, OperationType, ProjectFile
<1>5. TypeOK'
  BY <1>1, <1>2, <1>3 DEF Discard, LifeInv, TypeOK
<1>6. RuntimesHold'
  <2>1. taken \subseteq Projects
    BY DEF LifeInv, TypeOK
  <2>2. \A q \in taken' : Exists(q)'
    BY <1>1, <1>3, <1>4, <2>1 DEF LifeInv, RuntimesHold, Exists
  <2>q. QED
    BY <1>1, <1>3, <1>4, <2>2
       DEF LifeInv, RuntimesHold, RuntimeBlocksDeletion, Free, Inactive, Active, Live
<1>q. QED
  BY <1>5, <1>6 DEF Discard, LifeInv, OpInv

LEMMA StopsKeep == ASSUME LifeInv, DiscardFails \/ Crash PROVE LifeInv'
<1>1. CASE DiscardFails
  BY <1>1 DEF DiscardFails, disk, history, Exists, LifeInv, TypeOK, OpInv, RuntimesHold,
              RuntimeBlocksDeletion, Active, Live
<1>2. CASE Crash
  BY <1>2 DEF Crash, disk, history, Exists, LifeInv, TypeOK, OpInv, RuntimesHold, RuntimeBlocksDeletion,
              Active, Live
<1>q. QED
  BY <1>1, <1>2

-----------------------------------------------------------------------------
(* Operations of one write, made while no other holds the lock.               *)

LEMMA SaveProjectKeeps == ASSUME LifeInv, NEW p \in Projects, SaveProject(p) PROVE LifeInv'
<1>1. [project[p] EXCEPT !.edited = TRUE] \in ProjectFile
      /\ [project[p] EXCEPT !.edited = TRUE].status = project[p].status
  BY FilesTyped DEF ProjectFile
<1>2. project' = [project EXCEPT ![p] = [project[p] EXCEPT !.edited = TRUE]]
  BY DEF SaveProject
<1>3. /\ project' \in [Projects -> ProjectFile]
      /\ \A q \in Projects : project'[q].status = project[q].status
  BY <1>1, <1>2 DEF LifeInv, TypeOK
<1>4. RuntimesHold'
  BY <1>3, StatusFrame DEF SaveProject, Quiet, history
<1>q. QED
  BY <1>3, <1>4 DEF SaveProject, Quiet, history, LifeInv, TypeOK, OpInv

LEMMA ComponentEditsKeep ==
    ASSUME LifeInv, NEW p \in Projects, NEW c \in Components,
           Configure(p, c) \/ \E there \in BOOLEAN : Define(p, c, there)
    PROVE  LifeInv'
<1>1. CASE Configure(p, c)
  BY <1>1, DataTyped, DataKeeps DEF Configure, Quiet, history
<1>2. ASSUME NEW there \in BOOLEAN, Define(p, c, there)
      PROVE  LifeInv'
  BY <1>2, DataTyped, DataKeeps DEF Define, Quiet, history
<1>q. QED
  BY <1>1, <1>2

\* One that writes a Task, and attaches a runtime to it at most.
LEMMA SetTaskKeeps ==
    ASSUME LifeInv, Quiet, UNCHANGED <<project, data>>, NEW p \in Projects, NEW t \in Tasks,
           NEW files \in TaskFiles, task' = [task EXCEPT ![p][t] = files],
           attached \subseteq attached', attached' \subseteq attached \cup {<<p, t>>},
           \/ ~(<<p, t>> \in attached') /\ files.status # "running"
           \/ Active(p) /\ files.status \in {"idle", "running"}
    PROVE  LifeInv'
<1>1. /\ task' \in [Projects -> [Tasks -> TaskFiles]] /\ task'[p][t] = files
      /\ \A q \in Projects, u \in Tasks : <<q, u>> # <<p, t>> => task'[q][u] = task[q][u]
  BY TaskTyped
<1>2. TypeOK'
  BY <1>1 DEF LifeInv, TypeOK, Quiet, history
<1>3. RuntimesHold'
  BY <1>1 DEF Quiet, history, LifeInv, RuntimesHold, RuntimeBlocksDeletion, Active, Live, Exists
<1>q. QED
  BY <1>2, <1>3 DEF LifeInv, OpInv, Quiet

LEMMA TaskEditsKeep ==
    ASSUME LifeInv, NEW p \in Projects, NEW t \in Tasks,
           CreateTask(p, t) \/ SaveTask(p, t) \/ DeleteTask(p, t) \/ RestoreTask(p, t)
    PROVE  LifeInv'
<1>t. task[p][t] \in TaskFiles
  BY FilesTyped
<1>1. CASE CreateTask(p, t)
  <2> DEFINE files == [NoTask EXCEPT !.status = "idle"]
  <2>0. 0 \in 0 .. MaxMessages
    BY LifecycleAssumption
  <2>1. files \in TaskFiles /\ files.status = "idle"
    <3>1. NoTask \in TaskFiles
      BY <2>0 DEF NoTask, TaskFiles
    <3>q. QED
      BY <3>1 DEF TaskFiles
  <2> HIDE DEF files
  <2>q. QED
    BY <1>1, <2>1, SetTaskKeeps DEF CreateTask, SetTask, Quiet, files
<1>2. CASE SaveTask(p, t)
  <2> DEFINE files == [task[p][t] EXCEPT !.edited = TRUE]
  <2>1. files \in TaskFiles /\ files.status = task[p][t].status
    BY <1>t DEF TaskFiles
  <2> HIDE DEF files
  <2>q. QED
    BY <1>2, <2>1, SetTaskKeeps DEF SaveTask, SetTask, Quiet, Inactive, files
<1>3. CASE DeleteTask(p, t)
  <2> DEFINE files == [task[p][t] EXCEPT !.status = "deleted"]
  <2>1. files \in TaskFiles /\ files.status = "deleted"
    BY <1>t DEF TaskFiles
  <2> HIDE DEF files
  <2>q. QED
    BY <1>3, <2>1, SetTaskKeeps DEF DeleteTask, SetTask, Quiet, Inactive, files
<1>4. CASE RestoreTask(p, t)
  <2> DEFINE files == [task[p][t] EXCEPT !.status = "idle"]
  <2>1. files \in TaskFiles /\ files.status = "idle"
    BY <1>t DEF TaskFiles
  <2> HIDE DEF files
  <2>q. QED
    BY <1>4, <2>1, SetTaskKeeps DEF RestoreTask, SetTask, Quiet, Inactive, files
<1>q. QED
  BY <1>1, <1>2, <1>3, <1>4

LEMMA RuntimeKeeps ==
    ASSUME LifeInv, NEW p \in Projects, NEW t \in Tasks,
           Attach(p, t) \/ Run(p, t) \/ Rest(p, t) \/ Detach(p, t)
    PROVE  LifeInv'
<1>t. task[p][t] \in TaskFiles
  BY FilesTyped
<1>1. CASE Attach(p, t)
  <2> DEFINE files == [task[p][t] EXCEPT !.status = "idle"]
  <2>1. files \in TaskFiles /\ files.status = "idle"
    BY <1>t DEF TaskFiles
  <2>2. task' = [task EXCEPT ![p][t] = files]
    BY <1>1 DEF Attach
  <2> HIDE DEF files
  <2>q. QED
    BY <1>1, <2>1, <2>2, SetTaskKeeps DEF Attach
<1>2. CASE Run(p, t)
  <2> DEFINE files == [task[p][t] EXCEPT !.status = "running", !.messages = @ + 1]
  <2>0. task[p][t].messages + 1 \in 0 .. MaxMessages
    BY <1>t, <1>2, LifecycleAssumption DEF TaskFiles, Run
  <2>1. files \in TaskFiles /\ files.status = "running"
    <3> DEFINE started == [task[p][t] EXCEPT !.status = "running"]
    <3>1. started \in TaskFiles /\ started.status = "running"
          /\ started.messages = task[p][t].messages
      BY <1>t DEF TaskFiles
    <3>2. files = [started EXCEPT !.messages = task[p][t].messages + 1]
      BY <1>t DEF TaskFiles
    <3> HIDE DEF started, files
    <3>q. QED
      BY <2>0, <3>1, <3>2 DEF TaskFiles
  <2> HIDE DEF files
  <2>q. QED
    BY <1>2, <2>1, SetTaskKeeps DEF Run, SetTask, files
<1>3. CASE Rest(p, t)
  <2> DEFINE files == [task[p][t] EXCEPT !.status = "idle"]
  <2>1. files \in TaskFiles /\ files.status = "idle"
    BY <1>t DEF TaskFiles
  <2> HIDE DEF files
  <2>q. QED
    BY <1>3, <2>1, SetTaskKeeps DEF Rest, SetTask, files
<1>4. CASE Detach(p, t)
  BY <1>4 DEF Detach, Quiet, disk, history, Exists, LifeInv, TypeOK, OpInv, RuntimesHold,
              RuntimeBlocksDeletion, Active, Live
<1>q. QED
  BY <1>1, <1>2, <1>3, <1>4

-----------------------------------------------------------------------------
(* The theorems.                                                             *)

LEMMA LifeInvInit == ASSUME Init PROVE LifeInv
<1>1. NoTask \in TaskFiles /\ NoData \in ComponentFiles /\ NoProject \in ProjectFile
  BY LifecycleAssumption DEF NoTask, TaskFiles, NoData, ComponentFiles, NoProject, ProjectFile
<1>2. TypeOK
  BY <1>1 DEF Init, TypeOK
<1>3. RuntimesHold
  BY DEF Init, RuntimesHold, RuntimeBlocksDeletion, NoTask
<1>q. QED
  BY <1>2, <1>3 DEF LifeInv, OpInv, Init

LEMMA LifeInvStep ==
    ASSUME LifeInv, [Next]_vars
    PROVE  LifeInv'
<1>1. CASE Calls
  BY <1>1, CreateKeeps, CloneKeeps, SetComponentsKeeps, RemoveComponentKeeps, DeleteKeeps,
     RestoreKeeps, CloneTaskKeeps, RemoveTaskKeeps DEF Calls
<1>2. CASE Work
  BY <1>2, PublishKeeps, EraseProjectKeeps, AdvanceKeeps, ReturnKeeps, ComponentsKeep,
     OpenCloneKeeps, CopyMessageKeeps, SaveCloneKeeps, EraseKeeps DEF Work
<1>3. CASE Failure
  BY <1>3, FailuresKeep, DiscardKeeps, StopsKeep DEF Failure
<1>4. CASE Edits
  BY <1>4, SaveProjectKeeps, ComponentEditsKeep, TaskEditsKeep, RuntimeKeeps DEF Edits
<1>5. CASE UNCHANGED vars
  BY <1>5
     DEF vars, disk, history, LifeInv, TypeOK, OpInv, RuntimesHold, RuntimeBlocksDeletion,
         Sound, Free, Inactive, Active, Live, Exists
<1>q. QED
  BY <1>1, <1>2, <1>3, <1>4, <1>5 DEF Next

\* The inductive invariant: types, what an operation relies on until it ends, and the
\* runtimes' hold on their Projects.
THEOREM LifeInvHolds == Spec => []LifeInv
<1>1. Init => LifeInv
  BY LifeInvInit
<1>2. LifeInv /\ [Next]_vars => LifeInv'
  BY LifeInvStep
<1>q. QED
  BY <1>1, <1>2, PTL DEF Spec

\* Active persisted Runs and attached runtimes block deletion: whatever is created,
\* cloned or removed meanwhile, fails or is cut short, their Task is not deleted, and
\* their Project stays active (projects.py delete, tasks.py require_inactive); but a
\* Project that restore() was called on while it is in use is deleted if that fails
\* (projects.py restore, which requires no inactive Task), and is then in taken.
THEOREM RuntimesBlockDeletion == Spec => []RuntimeBlocksDeletion
<1>1. LifeInv => RuntimeBlocksDeletion
  BY DEF LifeInv, RuntimesHold
<1>q. QED
  BY <1>1, LifeInvHolds, PTL

-----------------------------------------------------------------------------
(* What a Project selects.                                                   *)

\* The operations that make a Project, before they hand it out.
Making == {"create", "clone"}

\* How far an operation has come: its initialisation is done, its Project published.
Initialized(o) ==
    \/ o.kind \in Making /\ o.at > 2
    \/ o.kind \in {"select", "restore"} /\ o.at > 1
Published(o) ==
    \/ o.kind \in Making \cup {"purge"} /\ o.at > 1
    \/ o.kind = "restore" /\ o.at > 2

\* What an operation has ensured by its order, and may rely on.
Backed(o) ==
    /\ o.kind \in Making => o.project \notin opened
    /\ o.kind = "clone" => o.source # o.project
    /\ Initialized(o) => o.json.selected \subseteq Configured(o.project)
    /\ Published(o) => project[o.project] = o.json
    /\ o.kind \in {"disable", "purge"} =>
           Active(o.project) /\ o.json.selected \subseteq project[o.project].selected
    /\ o.kind = "purge" =>
           \A c \in o.json.selected : <<"component.json", c>> \notin o.erase
    /\ o.kind = "removeTask" =>
           \A c \in Components : <<"component.json", c>> \notin o.erase
    /\ o.json.status # "none"
    /\ o.kind = "delete" => o.json.status = "deleted"

\* The components of a Project that are configured, or that a permanent delete took.
Accounted(p) == Configured(p) \cup {c \in Components : <<p, c>> \in erased}
SelectionHeld == \A p \in opened : Active(p) => project[p].selected \subseteq Accounted(p)

SelInv ==
    /\ SelectionHeld
    /\ \A p \in opened : Exists(p)
    /\ op # NoOp => Backed(op)

-----------------------------------------------------------------------------
(* What steps leave alone.                                                   *)

\* A Project loses no component while what is erased of it is on record.
LEMMA AccountedFrame ==
    ASSUME NEW p, Configured(p) \subseteq Configured(p)',
           \A c \in Components : <<p, c>> \in erased =>
               <<p, c>> \in erased' \/ c \in Configured(p)'
    PROVE  Accounted(p) \subseteq Accounted(p)'
BY DEF Accounted

\* Projects are as they were and lose no component.
LEMMA ProjectsFrame ==
    ASSUME SelInv, opened' \subseteq opened, UNCHANGED project,
           \A p \in opened' : Accounted(p) \subseteq Accounted(p)'
    PROVE  SelectionHeld' /\ \A p \in opened' : Exists(p)'
BY DEF SelInv, SelectionHeld, Active, Exists

\* The operation is where it was, and its Project loses no configuration.
LEMMA OperationFrame ==
    ASSUME Backed(op), opened' \subseteq opened, UNCHANGED project,
           /\ op'.kind = op.kind /\ op'.at = op.at /\ op'.json = op.json
           /\ op'.project = op.project /\ op'.source = op.source
           /\ op'.erase \subseteq op.erase,
           Configured(op.project) \subseteq Configured(op.project)'
    PROVE  Backed(op)'
BY DEF Backed, Initialized, Published, Active

\* Both of these, when nothing is erased and the operation stays or ends.
LEMMA QuietFrame ==
    ASSUME LifeInv, SelInv, UNCHANGED <<project, opened>>,
           UNCHANGED op \/ op' = NoOp,
           \A p \in Projects : Configured(p) \subseteq Configured(p)',
           \A p \in Projects, c \in Components : <<p, c>> \in erased =>
               <<p, c>> \in erased' \/ c \in Configured(p)'
    PROVE  SelInv'
<1>1. opened \subseteq Projects /\ (op # NoOp => op.project \in Projects)
  BY InProgress DEF LifeInv, TypeOK
<1>2. SelectionHeld' /\ \A p \in opened' : Exists(p)'
  <2>1. \A p \in Projects : Accounted(p) \subseteq Accounted(p)'
    BY AccountedFrame
  <2>q. QED
    BY <1>1, <2>1, ProjectsFrame
<1>3. ASSUME op' # NoOp
      PROVE  Backed(op)'
  <2>1. UNCHANGED op /\ op # NoOp /\ Backed(op)
    BY <1>3 DEF SelInv
  <2>q. QED
    BY <1>1, <2>1, OperationFrame
<1>q. QED
  BY <1>2, <1>3 DEF SelInv

\* A component's configuration is written.
LEMMA ConfigurationWritten ==
    ASSUME LifeInv, NEW p \in Projects, NEW c \in Components, NEW v \in {"default", "edited"},
           data' = [data EXCEPT ![p][c].config = v]
    PROVE  /\ \A q \in Projects : Configured(q) \subseteq Configured(q)'
           /\ c \in Configured(p)'
<1>1. data \in [Projects -> [Components -> ComponentFiles]]
  BY DEF LifeInv, TypeOK
<1>2. \A q \in Projects, d \in Components :
          data[q][d].config # "none" => data'[q][d].config # "none"
  BY <1>1 DEF ComponentFiles
<1>3. data'[p][c].config = v
  BY <1>1 DEF ComponentFiles
<1>q. QED
  BY <1>2, <1>3 DEF Configured

\* Its definitions are written or erased.
LEMMA RecordsWritten ==
    ASSUME LifeInv, NEW p \in Projects, NEW c \in Components, NEW v,
           data' = [data EXCEPT ![p][c].records = v]
    PROVE  \A q \in Projects : Configured(q) \subseteq Configured(q)'
<1>1. data \in [Projects -> [Components -> ComponentFiles]]
  BY DEF LifeInv, TypeOK
<1>2. \A q \in Projects, d \in Components : data'[q][d].config = data[q][d].config
  BY <1>1 DEF ComponentFiles
<1>q. QED
  BY <1>2 DEF Configured

-----------------------------------------------------------------------------
(* The calls: what an operation relies on when it begins.                    *)

LEMMA BeginBacked ==
    ASSUME LifeInv, SelInv, NEW o, Begin(o), Backed(o)
    PROVE  SelInv'
<1>1. UNCHANGED <<project, data, opened, erased>> /\ op' = o
  BY DEF Begin, disk, history
<1>2. Backed(op)'
  BY <1>1 DEF Backed, Initialized, Published, Active, Configured
<1>3. SelectionHeld' /\ \A p \in opened' : Exists(p)'
  BY <1>1 DEF SelInv, SelectionHeld, Accounted, Active, Exists, Configured
<1>q. QED
  BY <1>2, <1>3 DEF SelInv

LEMMA OperationFields ==
    ASSUME NEW kind, NEW from, NEW p, NEW json, NEW pairs, NEW erase
    PROVE  LET o == Operation(kind, from, p, json, pairs, erase)
           IN  /\ o.kind = kind /\ o.source = from /\ o.project = p /\ o.json = json
               /\ o.erase = erase /\ o.at = 1
BY DEF Operation

LEMMA CreateBacked ==
    ASSUME LifeInv, SelInv, NEW p \in Projects, NEW names \in SUBSET Components, Create(p, names)
    PROVE  SelInv'
<1> DEFINE json == [status |-> "active", selected |-> names, edited |-> FALSE]
           o == Operation("create", p, p, json, {}, {})
<1>1. o.kind = "create" /\ o.project = p /\ o.at = 1 /\ o.json = json
  BY OperationFields
<1>j. json.status = "active"
  OBVIOUS
<1>2. p \notin opened
  BY DEF Create, SelInv
<1>3. Backed(o)
  <2> HIDE DEF o, json
  <2>q. QED
    BY <1>1, <1>j, <1>2 DEF Backed, Initialized, Published, Making
<1>4. Begin(o)
  BY DEF Create
<1>q. QED
  BY <1>3, <1>4, BeginBacked

LEMMA CloneBacked ==
    ASSUME LifeInv, SelInv, NEW from \in Projects, NEW p \in Projects, Clone(from, p)
    PROVE  SelInv'
<1> DEFINE o == Operation("clone", from, p, project[from], {<<t, t>> : t \in Live(from)}, {})
<1>1. o.kind = "clone" /\ o.project = p /\ o.source = from /\ o.at = 1
      /\ o.json = project[from]
  BY OperationFields
<1>2. p \notin opened /\ p # from /\ project[from].status = "active"
  BY DEF Clone, SelInv, Active, Exists
<1>3. Backed(o)
  <2> HIDE DEF o
  <2>q. QED
    BY <1>1, <1>2 DEF Backed, Initialized, Published, Making
<1>4. Begin(o)
  BY DEF Clone
<1>q. QED
  BY <1>3, <1>4, BeginBacked

\* Those that have nothing to rely on yet.
LEMMA PlainBacked ==
    ASSUME LifeInv, SelInv, NEW p \in Projects,
           \/ \E names \in SUBSET Components : SetComponents(p, names)
           \/ Restore(p)
           \/ \E from \in Projects, t, u \in Tasks : CloneTask(from, t, p, u)
    PROVE  SelInv'
<1>1. ASSUME NEW kind \in {"select", "restore", "cloneTask"},
             NEW from, NEW json, json.status # "none", NEW pairs,
             Begin(Operation(kind, from, p, json, pairs, {}))
      PROVE  SelInv'
  <2> DEFINE o == Operation(kind, from, p, json, pairs, {})
  <2>1. o.kind = kind /\ o.at = 1 /\ o.json = json /\ Begin(o)
    BY <1>1, OperationFields
  <2> HIDE DEF o
  <2>2. Backed(o)
    BY <1>1, <2>1 DEF Backed, Initialized, Published, Making
  <2>q. QED
    BY <2>1, <2>2, BeginBacked
<1>2. CASE Restore(p)
  <2>1. [project[p] EXCEPT !.status = "active"].status = "active"
    BY FilesTyped DEF ProjectFile
  <2>q. QED
    BY <1>1, <1>2, <2>1 DEF Restore
<1>3. ASSUME NEW names \in SUBSET Components, SetComponents(p, names)
      PROVE  SelInv'
  <2>1. [project[p] EXCEPT !.selected = names].status = "active"
    BY <1>3, FilesTyped DEF ProjectFile, SetComponents, Active
  <2>q. QED
    BY <1>1, <1>3, <2>1 DEF SetComponents
<1>4. ASSUME NEW from \in Projects, NEW t \in Tasks, NEW u \in Tasks, CloneTask(from, t, p, u)
      PROVE  SelInv'
  BY <1>1, <1>4 DEF CloneTask, Active
<1>q. QED
  BY <1>2, <1>3, <1>4

LEMMA RemoveComponentBacked ==
    ASSUME LifeInv, SelInv, NEW p \in Projects, NEW c \in Components, NEW permanent \in BOOLEAN,
           RemoveComponent(p, c, permanent)
    PROVE  SelInv'
<1> DEFINE json == [project[p] EXCEPT !.selected = @ \ {c}]
<1>1. /\ json.selected = project[p].selected \ {c} /\ Active(p)
      /\ json.status # "none"
  BY FilesTyped DEF RemoveComponent, ProjectFile, Active
<1>2. \A d \in json.selected : <<"component.json", d>> \notin Directory(p, c)
  BY <1>1 DEF Directory
<1>3. ASSUME NEW kind \in {"disable", "purge"}, NEW erase,
             Begin(Operation(kind, p, p, json, {}, erase)),
             kind = "purge" => erase = Directory(p, c)
      PROVE  SelInv'
  <2> DEFINE o == Operation(kind, p, p, json, {}, erase)
  <2>1. /\ o.kind = kind /\ o.at = 1 /\ o.project = p /\ o.json = json /\ o.erase = erase
        /\ Begin(o)
    BY <1>3, OperationFields
  <2> HIDE DEF o, json
  <2>2. Backed(o)
    BY <1>1, <1>2, <1>3, <2>1 DEF Backed, Initialized, Published, Making
  <2>q. QED
    BY <2>1, <2>2, BeginBacked
<1>q. QED
  BY <1>3 DEF RemoveComponent

LEMMA DeleteBacked ==
    ASSUME LifeInv, SelInv, NEW p \in Projects, NEW permanent \in BOOLEAN, Delete(p, permanent)
    PROVE  SelInv'
<1> DEFINE json == [project[p] EXCEPT !.status = "deleted"]
<1>1. json.status = "deleted"
  BY FilesTyped DEF ProjectFile
<1>2. ASSUME NEW kind \in {"delete", "destroy"}, NEW erase,
             Begin(Operation(kind, p, p, json, {}, erase))
      PROVE  SelInv'
  <2> DEFINE o == Operation(kind, p, p, json, {}, erase)
  <2>1. o.kind = kind /\ o.at = 1 /\ o.json = json /\ Begin(o)
    BY <1>2, OperationFields
  <2> HIDE DEF o, json
  <2>2. Backed(o)
    BY <1>1, <2>1 DEF Backed, Initialized, Published, Making
  <2>q. QED
    BY <2>1, <2>2, BeginBacked
<1>q. QED
  BY <1>2 DEF Delete

LEMMA RemoveTaskBacked ==
    ASSUME LifeInv, SelInv, NEW p \in Projects, NEW t \in Tasks, RemoveTask(p, t)
    PROVE  SelInv'
<1> DEFINE o == Operation("removeTask", p, p, project[p], {}, TaskTree(p, t))
<1>1. o.kind = "removeTask" /\ o.at = 1 /\ o.erase = TaskTree(p, t)
      /\ o.json = project[p] /\ project[p].status # "none"
  BY OperationFields DEF RemoveTask, Exists
<1>2. \A c \in Components : <<"component.json", c>> \notin TaskTree(p, t)
  BY DEF TaskTree
<1>3. Begin(o)
  BY DEF RemoveTask
<1> HIDE DEF o
<1>4. Backed(o)
  BY <1>1, <1>2 DEF Backed, Initialized, Published, Making
<1>q. QED
  BY <1>3, <1>4, BeginBacked

-----------------------------------------------------------------------------
(* The stages of an operation.                                               *)

\* Where each stage is in its program: what Initialized and Published count by.
LEMMA StagePlaces ==
    ASSUME NEW k \in Kinds, NEW i \in 1 .. Len(Program(k))
    PROVE  /\ Program(k)[i] = "publish" =>
                  \/ k \in Making \cup {"disable", "purge", "delete"} /\ i = 1
                  \/ k \in {"select", "restore"} /\ i = 2
           /\ Program(k)[i] = "erase" => k = "purge" \/ k = "destroy" \/ k = "removeTask"
           /\ Program(k)[i] = "copy" => k = "clone" /\ i > 2
           /\ k \in Making /\ i = 1 => Program(k)[i] = "publish"
           /\ k \in Making /\ i = 2 => Program(k)[i] = "initialize"
           /\ k = "purge" => (i = 1 => Program(k)[i] = "publish") /\ i \in {1, 2}
           /\ k = "purge" /\ i = 2 => Program(k)[i] = "erase"
           /\ k \in {"select", "restore"} /\ i = 1 => Program(k)[i] = "initialize"
           /\ k \in {"select", "restore"} /\ i = 2 => Program(k)[i] = "publish"
           /\ i = Len(Program(k)) =>
                  /\ k = "create" => i > 1
                  /\ k \in {"clone", "restore"} => i > 2
<1>1. CASE k = "create"
  <2>1. Program(k) = <<"publish", "initialize">>
    BY <1>1 DEF Program
  <2>2. Len(Program(k)) = 2
    BY <2>1
  <2>q. QED
    BY <1>1, <2>1, <2>2 DEF Making
<1>2. CASE k = "clone"
  <2>1. Program(k) = <<"publish", "initialize", "copy", "tasks">>
    BY <1>2 DEF Program
  <2>2. Len(Program(k)) = 4
    BY <2>1
  <2>3. i = 1 \/ i = 2 \/ i = 3 \/ i = 4
    BY <2>2
  <2>q. QED
    BY <1>2, <2>1, <2>2, <2>3 DEF Making
<1>3. CASE k = "select"
  <2>1. Program(k) = <<"initialize", "publish">>
    BY <1>3 DEF Program
  <2>2. Len(Program(k)) = 2
    BY <2>1
  <2>q. QED
    BY <1>3, <2>1, <2>2 DEF Making
<1>4. CASE k \in {"disable", "delete"}
  <2>1. Program(k) = <<"publish">>
    BY <1>4 DEF Program
  <2>q. QED
    BY <1>4, <2>1 DEF Making
<1>5. CASE k = "purge"
  <2>1. Program(k) = <<"publish", "erase">>
    BY <1>5 DEF Program
  <2>2. Len(Program(k)) = 2
    BY <2>1
  <2>3. i = 1 \/ i = 2
    BY <2>2
  <2>q. QED
    BY <1>5, <2>1, <2>2, <2>3 DEF Making
<1>6. CASE k \in {"destroy", "removeTask"}
  <2>1. Program(k) = <<"erase">>
    BY <1>6 DEF Program
  <2>q. QED
    BY <1>6, <2>1 DEF Making
<1>7. CASE k = "restore"
  <2>1. Program(k) = <<"initialize", "publish", "initializers">>
    BY <1>7 DEF Program
  <2>2. Len(Program(k)) = 3
    BY <2>1
  <2>q. QED
    BY <1>7, <2>1, <2>2 DEF Making
<1>8. CASE k = "cloneTask"
  <2>1. Program(k) = <<"tasks">>
    BY <1>8 DEF Program
  <2>q. QED
    BY <1>8, <2>1 DEF Making
<1>q. QED
  BY <1>1, <1>2, <1>3, <1>4, <1>5, <1>6, <1>7, <1>8 DEF Kinds

\* The operation in progress and what it relies on.
LEMMA InBacked ==
    ASSUME LifeInv, SelInv, op # NoOp
    PROVE  /\ Backed(op) /\ op.kind \in Kinds /\ op.at \in 1 .. Len(Program(op.kind))
           /\ op.at \in Nat /\ op \in OperationType /\ op.project \in Projects /\ op.source \in Projects
           /\ op.json \in ProjectFile /\ opened \subseteq Projects
           /\ project \in [Projects -> ProjectFile]
<1>1. /\ op \in OperationType /\ op.kind \in Kinds /\ op.at \in 1 .. Len(Program(op.kind))
      /\ op.project \in Projects /\ op.source \in Projects
  BY InProgress
<1>q. QED
  BY <1>1 DEF OperationType, SelInv, LifeInv, TypeOK

LEMMA PublishBacked == ASSUME LifeInv, SelInv, Publish PROVE SelInv'
<1> DEFINE p == op.project
<1>1. op # NoOp /\ Stage = "publish"
  BY DEF Publish, In
<1>2. /\ Backed(op) /\ p \in Projects /\ opened \subseteq Projects
      /\ project \in [Projects -> ProjectFile] /\ UNCHANGED <<op, opened, data, erased>>
  BY <1>1, InBacked DEF Publish
<1>3. /\ project'[p] = op.json
      /\ \A q \in Projects : q # p => project'[q] = project[q]
  BY <1>2 DEF Publish
<1>4. \/ op.kind \in Making \cup {"disable", "purge", "delete"} /\ op.at = 1
      \/ op.kind \in {"select", "restore"} /\ op.at = 2
  BY <1>1, InBacked, StagePlaces DEF Stage
<1>5. p \in opened =>
          \/ op.json.status = "deleted"
          \/ op.json.selected \subseteq Configured(p)
          \/ Active(p) /\ op.json.selected \subseteq project[p].selected
  BY <1>2, <1>4 DEF Backed, Initialized
<1>6. SelectionHeld'
  <2>1. ASSUME NEW q \in opened, project'[q].status = "active"
        PROVE  project'[q].selected \subseteq Accounted(q)
    BY <1>2, <1>3, <1>5, <2>1 DEF SelInv, SelectionHeld, Accounted, Active
  <2>2. \A q : Accounted(q)' = Accounted(q)
    BY <1>2 DEF Accounted, Configured
  <2>q. QED
    BY <1>2, <2>1, <2>2 DEF SelectionHeld, Active
<1>7. \A q \in opened' : Exists(q)'
  <2>1. op.json.status # "none"
    BY <1>2 DEF Backed
  <2>q. QED
    BY <1>2, <1>3, <2>1 DEF SelInv, Exists
<1>8. Backed(op)'
  <2>1. op.kind \in {"disable", "purge"} => op.json.status = "active"
    BY <1>1, InProgress DEF Sound
  <2>q. QED
    BY <1>2, <1>3, <2>1 DEF Backed, Initialized, Published, Active, Configured
<1>q. QED
  BY <1>6, <1>7, <1>8 DEF SelInv

LEMMA ComponentsBacked ==
    ASSUME LifeInv, SelInv, NEW c \in Components,
           InitializeComponent(c) \/ CopyConfiguration(c) \/ CopyRecords(c)
    PROVE  SelInv'
<1>1. op # NoOp
  BY DEF InitializeComponent, CopyConfiguration, CopyRecords, In
<1>2. op.project \in Projects /\ op.source \in Projects
  BY <1>1, InBacked
<1>3. UNCHANGED <<project, op, opened>>
  BY DEF InitializeComponent, CopyConfiguration, CopyRecords, history
<1>4. CASE InitializeComponent(c)
  <2>p. PICK p \in Projects : p = op.project
    BY <1>2
  <2>1. data' = [data EXCEPT ![p][c].config = "default"] /\ erased' = erased \ {<<p, c>>}
    BY <1>4, <2>p DEF InitializeComponent
  <2>2. (\A q \in Projects : Configured(q) \subseteq Configured(q)') /\ c \in Configured(p)'
    BY <2>1, ConfigurationWritten
  <2>3. \A q \in Projects, d \in Components : <<q, d>> \in erased =>
            <<q, d>> \in erased' \/ d \in Configured(q)'
    BY <2>1, <2>2
  <2>q. QED
    BY <1>3, <2>2, <2>3, QuietFrame
<1>5. CASE CopyConfiguration(c)
  <2> DEFINE v == data[op.source][c].config
  <2>1. data' = [data EXCEPT ![op.project][c].config = v] /\ UNCHANGED erased
    BY <1>5 DEF CopyConfiguration, history
  <2>2. v \in {"default", "edited"}
    BY <1>2, <1>5, DataTyped DEF CopyConfiguration, Configured
  <2> HIDE DEF v
  <2>q. QED
    BY <1>2, <1>3, <2>1, <2>2, ConfigurationWritten, QuietFrame
<1>6. CASE CopyRecords(c)
  <2>1. data' = [data EXCEPT ![op.project][c].records = TRUE] /\ UNCHANGED erased
    BY <1>6 DEF CopyRecords, history
  <2>q. QED
    BY <1>2, <1>3, <2>1, RecordsWritten, QuietFrame
<1>q. QED
  BY <1>4, <1>5, <1>6

\* Steps of a clone that write its Tasks.
LEMMA ClonesBacked ==
    ASSUME LifeInv, SelInv, NEW pair \in Tasks \X Tasks,
           OpenClone(pair) \/ CopyMessage(pair) \/ SaveClone(pair)
    PROVE  SelInv'
<1>1. op # NoOp /\ UNCHANGED <<project, data, opened, erased>>
  BY DEF OpenClone, CopyMessage, SaveClone, In, history
<1>2. Backed(op) /\ op \in OperationType
  BY <1>1, InBacked
<1>3. /\ op'.kind = op.kind /\ op'.at = op.at /\ op'.json = op.json
      /\ op'.project = op.project /\ op'.source = op.source /\ op'.erase = op.erase
  BY <1>2 DEF OpenClone, CopyMessage, SaveClone, OperationType
<1>4. Configured(op.project) \subseteq Configured(op.project)'
  BY <1>1, <1>3 DEF Configured
<1>5. Backed(op)'
  BY <1>1, <1>2, <1>3, <1>4, OperationFrame
<1>6. SelectionHeld' /\ \A p \in opened' : Exists(p)'
  BY <1>1 DEF SelInv, SelectionHeld, Accounted, Active, Exists, Configured
<1>q. QED
  BY <1>5, <1>6 DEF SelInv

\* One file goes, of the operation's Project.
LEMMA EraseData ==
    ASSUME LifeInv, NEW f \in Files, Erase(f)
    PROVE  \A q \in Projects, d \in Components :
               \/ data'[q][d].config = data[q][d].config
               \/ q = op.project /\ f = <<"component.json", d>>
<1>1. data \in [Projects -> [Components -> ComponentFiles]]
  BY DEF LifeInv, TypeOK
<1>2. CASE f[1] = "component.json"
  <2>1. f = <<"component.json", f[2]>> /\ f[2] \in Components
    BY <1>2 DEF Files
  <2>2. data' = [data EXCEPT ![op.project][f[2]].config = "none"]
    BY <1>2 DEF Erase
  <2>q. QED
    BY <1>1, <2>1, <2>2 DEF ComponentFiles
<1>3. CASE f[1] = "records"
  <2>1. data' = [data EXCEPT ![op.project][f[2]].records = FALSE]
    BY <1>3 DEF Erase
  <2>q. QED
    BY <1>1, <2>1 DEF ComponentFiles
<1>4. CASE f[1] \notin {"component.json", "records"}
  BY <1>4 DEF Erase
<1>q. QED
  BY <1>2, <1>3, <1>4

LEMMA EraseBacked == ASSUME LifeInv, SelInv, NEW f \in Files, Erase(f) PROVE SelInv'
<1> DEFINE p == op.project
<1>1. op # NoOp /\ Stage = "erase" /\ f \in op.erase /\ UNCHANGED <<project, opened>>
  BY DEF Erase, In
<1>2. /\ Backed(op) /\ p \in Projects /\ opened \subseteq Projects /\ op \in OperationType
      /\ op.at \in 1 .. Len(Program(op.kind)) /\ op.kind \in Kinds /\ op.json \in ProjectFile
  BY <1>1, InBacked
<1>3. /\ op.kind \in {"purge", "destroy", "removeTask"}
      /\ op.kind = "purge" => op.at > 1
  BY <1>1, <1>2, StagePlaces DEF Stage
<1>4. /\ op'.kind = op.kind /\ op'.at = op.at /\ op'.json = op.json
      /\ op'.project = p /\ op'.source = op.source /\ op'.erase \subseteq op.erase
  BY <1>2 DEF Erase, OperationType
<1>5. \A q \in Projects, d \in Components :
          \/ data'[q][d].config = data[q][d].config
          \/ q = p /\ f = <<"component.json", d>>
  BY EraseData
<1>6. CASE op.kind = "destroy"
  <2>1. erased' = IF p \in opened /\ f[1] = "component.json"
                  THEN erased \cup {<<p, f[2]>>} ELSE erased
    BY <1>6 DEF Erase
  <2>2. ASSUME NEW q \in opened, NEW d \in Accounted(q)
        PROVE  d \in Accounted(q)'
    <3>1. q \in Projects /\ d \in Components
      BY <1>2, <2>2 DEF Accounted, Configured
    <3>2. CASE q = p /\ f = <<"component.json", d>>
      BY <2>1, <3>1, <3>2 DEF Accounted
    <3>3. CASE data'[q][d].config = data[q][d].config
      BY <2>1, <2>2, <3>1, <3>3 DEF Accounted, Configured
    <3>q. QED
      BY <1>5, <3>1, <3>2, <3>3
  <2>3. Backed(op)'
    BY <1>2, <1>4, <1>6 DEF Backed, Initialized, Published, Making
  <2>q. QED
    BY <1>1, <1>2, <2>2, <2>3, ProjectsFrame DEF SelInv
<1>7. CASE op.kind \in {"purge", "removeTask"}
  <2>1. UNCHANGED erased
    BY <1>7 DEF Erase
  <2>2. \A d \in Components : f = <<"component.json", d>> =>
            op.kind = "purge" /\ d \notin project[p].selected
    BY <1>1, <1>2, <1>3, <1>7 DEF Backed, Published
  <2>3. SelectionHeld'
    <3>1. ASSUME NEW q \in opened, Active(q), NEW d \in project[q].selected
          PROVE  d \in Accounted(q)'
      <4>1. q \in Projects /\ d \in Components /\ d \in Accounted(q)
        BY <1>2, <3>1, FilesTyped DEF SelInv, SelectionHeld
      <4>2. data'[q][d].config = data[q][d].config
        BY <1>5, <2>2, <3>1, <4>1
      <4>q. QED
        BY <2>1, <4>1, <4>2 DEF Accounted, Configured
    <3>q. QED
      BY <1>1, <3>1 DEF SelectionHeld, Active
  <2>4. Backed(op)'
    BY <1>1, <1>2, <1>4, <1>7 DEF Backed, Initialized, Published, Making, Active
  <2>q. QED
    BY <1>1, <2>3, <2>4 DEF SelInv, Exists
<1>q. QED
  BY <1>3, <1>6, <1>7

LEMMA EraseProjectBacked == ASSUME LifeInv, SelInv, EraseProject PROVE SelInv'
<1> DEFINE p == op.project
<1>1. op # NoOp /\ <<"project.json">> \in op.erase
  BY DEF EraseProject, In
<1>2. /\ Backed(op) /\ p \in Projects /\ opened \subseteq Projects /\ op \in OperationType
      /\ project \in [Projects -> ProjectFile]
  BY <1>1, InBacked
<1>3. op.kind = "destroy"
  BY <1>1, InProgress DEF Sound
<1>4. /\ op'.kind = op.kind /\ op'.json = op.json
  BY <1>2 DEF EraseProject, OperationType
<1>5. /\ opened' = opened \ {p}
      /\ \A q \in Projects : q # p => project'[q] = project[q] /\ data'[q] = data[q]
  BY <1>2 DEF EraseProject, LifeInv, TypeOK
<1>e. \A q \in Projects, c \in Components :
          q # p => (<<q, c>> \in erased' <=> <<q, c>> \in erased)
  BY DEF EraseProject
<1>6. SelectionHeld' /\ \A q \in opened' : Exists(q)'
  <2>1. \A q \in Projects : q # p => Accounted(q)' = Accounted(q)
    BY <1>5, <1>e DEF Accounted, Configured
  <2>q. QED
    BY <1>2, <1>5, <2>1 DEF SelInv, SelectionHeld, Active, Exists
<1>7. Backed(op)'
  BY <1>2, <1>3, <1>4 DEF Backed, Initialized, Published, Making
<1>q. QED
  BY <1>6, <1>7 DEF SelInv

\* What the end of a stage establishes.
LEMMA StageEnds ==
    ASSUME StageDone
    PROVE  /\ op # NoOp
           /\ Stage = "publish" => project[op.project] = op.json
           /\ Stage = "initialize" => op.json.selected \subseteq Configured(op.project)
BY DEF StageDone, In

LEMMA AdvanceBacked == ASSUME LifeInv, SelInv, Advance PROVE SelInv'
<1>1. StageDone /\ UNCHANGED <<project, data, opened, erased>>
  BY DEF Advance, disk, history
<1>2. /\ Backed(op) /\ op \in OperationType /\ op.kind \in Kinds
      /\ op.at \in 1 .. Len(Program(op.kind)) /\ op.at \in Nat
  BY <1>1, StageEnds, InBacked
<1>3. /\ op'.kind = op.kind /\ op'.at = op.at + 1 /\ op'.json = op.json
      /\ op'.project = op.project /\ op'.source = op.source /\ op'.erase = op.erase
  BY <1>2 DEF Advance, OperationType
<1>4. /\ op.kind \in Making \cup {"purge"} /\ op.at = 1 => project[op.project] = op.json
      /\ op.kind = "restore" /\ op.at = 2 => project[op.project] = op.json
  BY <1>1, <1>2, StageEnds, StagePlaces DEF Stage
<1>5. \/ op.kind \in Making /\ op.at = 2
      \/ op.kind \in {"select", "restore"} /\ op.at = 1
      => op.json.selected \subseteq Configured(op.project)
  BY <1>1, <1>2, StageEnds, StagePlaces DEF Stage
<1>6. Initialized(op)' => op.json.selected \subseteq Configured(op.project)
  <2>1. Initialized(op)' => \/ Initialized(op)
                            \/ op.kind \in Making /\ op.at = 2
                            \/ op.kind \in {"select", "restore"} /\ op.at = 1
    BY <1>2, <1>3 DEF Initialized
  <2>q. QED
    BY <1>2, <1>5, <2>1 DEF Backed
<1>7. Published(op)' => project[op.project] = op.json
  <2>1. Published(op)' => \/ Published(op)
                          \/ op.kind \in Making \cup {"purge"} /\ op.at = 1
                          \/ op.kind = "restore" /\ op.at = 2
    BY <1>2, <1>3 DEF Published
  <2>q. QED
    BY <1>2, <1>4, <2>1 DEF Backed
<1>8. Backed(op)'
  BY <1>1, <1>2, <1>3, <1>6, <1>7 DEF Backed, Configured, Active
<1>q. QED
  BY <1>1, <1>8 DEF SelInv, SelectionHeld, Accounted, Active, Exists, Configured

LEMMA ReturnBacked == ASSUME LifeInv, SelInv, Return PROVE SelInv'
<1> DEFINE p == op.project
<1>1. StageDone /\ UNCHANGED <<project, data, erased>> /\ op' = NoOp
  BY DEF Return, disk
<1>2. /\ Backed(op) /\ op \in OperationType /\ op.kind \in Kinds
      /\ op.at \in 1 .. Len(Program(op.kind)) /\ op.at \in Nat
  BY <1>1, StageEnds, InBacked
<1>3. ASSUME op.kind \in {"create", "clone", "restore"}
      PROVE  Exists(p) /\ project[p].selected \subseteq Configured(p)
  <2>1. /\ op.kind = "create" => op.at > 1
        /\ op.kind \in {"clone", "restore"} => op.at > 2
    BY <1>2, StagePlaces DEF Return
  <2>2. Published(op)
    BY <1>2, <1>3, <2>1 DEF Published, Making
  <2>3. op.json.selected \subseteq Configured(p)
    <3>1. CASE op.kind = "create" /\ op.at = 2
      BY <1>1, <1>2, <3>1, StageEnds, StagePlaces DEF Stage, Making
    <3>2. CASE ~(op.kind = "create" /\ op.at = 2)
      BY <1>2, <1>3, <2>1, <3>2 DEF Backed, Initialized, Making
    <3>q. QED
      BY <3>1, <3>2
  <2>q. QED
    BY <1>2, <2>2, <2>3 DEF Backed, Exists
<1>4. \A q \in opened' : q \in opened \/ (q = p /\ op.kind \in {"create", "clone", "restore"})
  <2>1. opened' = IF op.kind \in {"create", "clone", "restore"}
                  THEN opened \cup {p} ELSE opened
    BY DEF Return
  <2>q. QED
    BY <2>1
<1>q. QED
  BY <1>1, <1>3, <1>4 DEF SelInv, SelectionHeld, Accounted, Active, Exists, Configured

-----------------------------------------------------------------------------
(* Failures.                                                                 *)

LEMMA FailuresBacked == ASSUME LifeInv, SelInv, Fail \/ SourceUnreadable PROVE SelInv'
<1>1. ASSUME op # NoOp, NEW cause, Raise([op EXCEPT !.failures = @ + 1], cause)
      PROVE  SelInv'
  <2>1. /\ Backed(op) /\ op \in OperationType
        /\ UNCHANGED <<project, data, opened, erased>>
    BY <1>1, InBacked DEF Raise, disk, history
  <2>2. \/ op' = NoOp
        \/ /\ op'.kind = op.kind /\ op'.at = op.at /\ op'.json = op.json
           /\ op'.project = op.project /\ op'.source = op.source /\ op'.erase = op.erase
    BY <1>1, <2>1 DEF Raise, OperationType
  <2>3. op' = NoOp \/ Backed(op)'
    BY <2>1, <2>2 DEF Backed, Initialized, Published, Active, Configured
  <2>q. QED
    BY <2>1, <2>3 DEF SelInv, SelectionHeld, Accounted, Active, Exists, Configured
<1>q. QED
  BY <1>1 DEF Fail, SourceUnreadable, In

LEMMA DiscardBacked == ASSUME LifeInv, SelInv, Discard PROVE SelInv'
<1> DEFINE p == op.project
<1>1. op # NoOp /\ op' = NoOp /\ UNCHANGED <<data, opened, erased>>
  BY DEF Discard, Handling
<1>2. /\ p \in Projects /\ op.json \in ProjectFile /\ opened \subseteq Projects
      /\ project \in [Projects -> ProjectFile]
  BY <1>1, InBacked
<1>3. /\ project'[p].status = "deleted"
      /\ \A q \in Projects : q # p => project'[q] = project[q]
  BY <1>2 DEF Discard, ProjectFile
<1>q. QED
  BY <1>1, <1>2, <1>3 DEF SelInv, SelectionHeld, Accounted, Active, Exists, Configured

-----------------------------------------------------------------------------
(* Operations of one write.                                                  *)

LEMMA SaveProjectBacked ==
    ASSUME LifeInv, SelInv, NEW p \in Projects, SaveProject(p)
    PROVE  SelInv'
<1>1. op' = NoOp /\ UNCHANGED <<data, opened, erased>> /\ opened \subseteq Projects
  BY DEF SaveProject, Quiet, history, LifeInv, TypeOK
<1>2. \A q \in Projects : /\ project'[q].status = project[q].status
                          /\ project'[q].selected = project[q].selected
  BY DEF SaveProject, LifeInv, TypeOK, ProjectFile
<1>q. QED
  BY <1>1, <1>2 DEF SelInv, SelectionHeld, Accounted, Active, Exists, Configured

LEMMA ComponentEditsBacked ==
    ASSUME LifeInv, SelInv, NEW p \in Projects, NEW c \in Components,
           Configure(p, c) \/ \E there \in BOOLEAN : Define(p, c, there)
    PROVE  SelInv'
<1>1. op' = NoOp /\ UNCHANGED <<project, opened, erased>>
  BY DEF Configure, Define, Quiet, history
<1>2. CASE Configure(p, c)
  BY <1>1, <1>2, ConfigurationWritten, QuietFrame DEF Configure
<1>3. CASE \E there \in BOOLEAN : Define(p, c, there)
  BY <1>1, <1>3, RecordsWritten, QuietFrame DEF Define
<1>q. QED
  BY <1>2, <1>3

\* Steps that touch neither a Project nor a component, and stop an operation at most.
LEMMA OthersBacked ==
    ASSUME LifeInv, SelInv, UNCHANGED <<project, data, opened, erased>>,
           UNCHANGED op \/ op' = NoOp
    PROVE  SelInv'
BY QuietFrame DEF Configured

LEMMA TasksBacked ==
    ASSUME LifeInv, SelInv, NEW p \in Projects, NEW t \in Tasks,
           \/ CreateTask(p, t) \/ SaveTask(p, t) \/ DeleteTask(p, t) \/ RestoreTask(p, t)
           \/ Attach(p, t) \/ Run(p, t) \/ Rest(p, t) \/ Detach(p, t)
    PROVE  SelInv'
<1>1. op' = NoOp /\ UNCHANGED <<project, data, opened, erased>>
  BY DEF CreateTask, SaveTask, DeleteTask, RestoreTask, Attach, Run, Rest, Detach, SetTask,
         Quiet, disk, history
<1>q. QED
  BY <1>1, OthersBacked

-----------------------------------------------------------------------------
(* The theorem.                                                              *)

LEMMA SelInvStep ==
    ASSUME LifeInv, SelInv, [Next]_vars
    PROVE  SelInv'
<1>1. CASE Calls
  BY <1>1, CreateBacked, CloneBacked, PlainBacked, RemoveComponentBacked, DeleteBacked,
     RemoveTaskBacked DEF Calls
<1>2. CASE Work
  BY <1>2, PublishBacked, EraseProjectBacked, AdvanceBacked, ReturnBacked, ComponentsBacked,
     ClonesBacked, EraseBacked DEF Work
<1>3. CASE Failure
  <2>1. CASE DiscardFails \/ Crash
    BY <2>1, OthersBacked DEF DiscardFails, Crash, disk, history
  <2>q. QED
    BY <1>3, <2>1, FailuresBacked, DiscardBacked DEF Failure
<1>4. CASE Edits
  BY <1>4, SaveProjectBacked, ComponentEditsBacked, TasksBacked DEF Edits
<1>5. CASE UNCHANGED vars
  BY <1>5, OthersBacked DEF vars, disk, history
<1>q. QED
  BY <1>1, <1>2, <1>3, <1>4, <1>5 DEF Next

\* A Project that was handed out whole and is active never selects a component without
\* configuration, whatever operations on it are half done, failed or cut by a crash: the
\* order in which projects.py and components/registry.py initialise, publish, copy and
\* erase is enough.  The exception is what a permanent delete of the Project has removed:
\* rmtree may take a configuration before project.json, and be cut between the two.
THEOREM SelectionIsBacked == Spec => []SelectionBacked
<1>1. Init => SelInv
  BY DEF Init, SelInv, SelectionHeld
<1>2. LifeInv /\ SelInv /\ [Next]_vars => SelInv'
  BY SelInvStep
<1>3. SelInv => SelectionBacked
  BY DEF SelInv, SelectionHeld, SelectionBacked, Accounted
<1>q. QED
  BY <1>1, <1>2, <1>3, LifeInvHolds, PTL DEF Spec

-----------------------------------------------------------------------------
(* What a creation that returned or raised has left.                         *)

\* How far the copy of one Task has come: not begun, begun with no more than its source
\* has, or done.
Copied(o, pair) ==
    LET mine == task[o.project][pair[2]]
        source == task[o.source][pair[1]]
    IN  /\ source.status = "idle"
        /\ IF pair \in o.cloned THEN mine = source
                                ELSE mine = NoTask \/ mine.status = "idle"

\* A clone writes its own Project only, and never reads what it wrote.
Apart(o) ==
    /\ \A a, b \in o.pairs : <<o.project, a[2]>> # <<o.source, b[1]>> /\ (a[2] = b[2] => a = b)
    /\ o.kind = "clone" => o.project # o.source
    /\ o.kind = "cloneTask" => Exists(o.project)

Copying(o) ==
    /\ Apart(o)
    /\ \A pair \in o.pairs : Copied(o, pair)
    /\ o.kind = "clone" =>
           /\ o.json = project[o.source]
           /\ {pair[1] : pair \in o.pairs} = Live(o.source)
           /\ o.at > 1 => project[o.project] = o.json
           /\ o.at > 3 => \A c \in o.json.selected : data[o.project][c] = data[o.source][c]

\* A Project without project.json has no Task left over.
NothingLeft == \A p \in Projects : ~Exists(p) => \A t \in Tasks : task[p][t] = NoTask

WholeInv ==
    /\ NothingLeft
    /\ op # NoOp =>
           /\ op.failed # "none" => op.failures >= 1
           /\ op.failed = "none" /\ op.kind \in {"clone", "cloneTask"} => Copying(op)
    /\ SingleFailureHides
    /\ ReturnedIsWhole

-----------------------------------------------------------------------------
(* Frames.                                                                   *)

\* Where a clone's stages are.
LEMMA CloneStages ==
    /\ Len(Program("clone")) = 4 /\ Len(Program("cloneTask")) = 1
    /\ Program("clone")[1] = "publish" /\ Program("clone")[2] = "initialize"
    /\ Program("clone")[3] = "copy" /\ Program("clone")[4] = "tasks"
    /\ Program("cloneTask")[1] = "tasks"
<1>1. Program("clone") = <<"publish", "initialize", "copy", "tasks">>
  BY DEF Program
<1>2. Program("cloneTask") = <<"tasks">>
  BY DEF Program
<1>q. QED
  BY <1>1, <1>2

\* The place and the stage of a clone in progress.
LEMMA ClonePlace ==
    ASSUME LifeInv, op # NoOp
    PROVE  /\ op.at \in Nat
           /\ op.kind = "clone" =>
                  \/ op.at = 1 /\ Stage = "publish"
                  \/ op.at = 2 /\ Stage = "initialize"
                  \/ op.at = 3 /\ Stage = "copy"
                  \/ op.at = 4 /\ Stage = "tasks"
           /\ op.kind = "cloneTask" => op.at = 1 /\ Stage = "tasks"
<1>1. op.at \in 1 .. Len(Program(op.kind)) /\ Len(Program(op.kind)) \in 1 .. 4
  BY InProgress
<1>2. CASE op.kind = "clone"
  <2>1. Len(Program(op.kind)) = 4
    BY <1>2, CloneStages
  <2>2. op.at = 1 \/ op.at = 2 \/ op.at = 3 \/ op.at = 4
    BY <1>1, <2>1
  <2>3. Program(op.kind) = Program("clone")
    BY <1>2
  <2>4. Stage = Program("clone")[op.at]
    BY <2>3 DEF Stage
  <2>q. QED
    BY <1>1, <1>2, <2>2, <2>4, CloneStages
<1>3. CASE op.kind = "cloneTask"
  <2>1. Len(Program(op.kind)) = 1
    BY <1>3, CloneStages
  <2>2. op.at = 1
    BY <1>1, <2>1
  <2>q. QED
    BY <1>3, <2>2, CloneStages DEF Stage
<1>q. QED
  BY <1>1, <1>2, <1>3

\* What is asked of an operation in WholeInv.
Going(o) ==
    /\ o.failed # "none" => o.failures >= 1
    /\ o.failed = "none" /\ o.kind \in {"clone", "cloneTask"} => Copying(o)

\* Every step but an operation's last clears the result.
LEMMA StepOn ==
    ASSUME NothingLeft', result' = NoResult, op' # NoOp => Going(op)'
    PROVE  WholeInv'
BY DEF WholeInv, Going, SingleFailureHides, ReturnedIsWhole

LEMMA WholeParts ==
    ASSUME WholeInv
    PROVE  NothingLeft /\ (op # NoOp => Going(op))
BY DEF WholeInv, Going

\* Projects that stay are the only ones that must.
LEMMA NothingFrame ==
    ASSUME NothingLeft,
           \A p \in Projects : Exists(p) => project'[p].status # "none",
           \A p \in Projects, t \in Tasks : Exists(p) \/ task'[p][t] = task[p][t]
    PROVE  NothingLeft'
BY DEF NothingLeft, Exists

\* A clone that is past its copy has no component left to write.
LEMMA CopyingFrame ==
    ASSUME Copying(op), UNCHANGED <<project, task, op>>,
           op.kind = "clone" => UNCHANGED data \/ ~(op.at > 3)
    PROVE  Copying(op)'
<1>1. Apart(op)' /\ \A pair \in op'.pairs : Copied(op, pair)'
  BY DEF Copying, Apart, Copied, Exists
<1>2. op'.kind = "clone" =>
           /\ op'.json = project'[op'.source]
           /\ {pair[1] : pair \in op'.pairs} = Live(op.source)'
           /\ op'.at > 1 => project'[op'.project] = op'.json
           /\ op'.at > 3 => \A c \in op'.json.selected :
                                data'[op'.project][c] = data'[op'.source][c]
  BY DEF Copying, Live
<1>q. QED
  BY <1>1, <1>2 DEF Copying

-----------------------------------------------------------------------------
(* The calls.                                                                *)

LEMMA BeginWhole ==
    ASSUME LifeInv, WholeInv, NEW o, Begin(o), o.failed = "none",
           o.kind \in {"clone", "cloneTask"} => Copying(o)
    PROVE  WholeInv'
<1>1. UNCHANGED <<project, data, task>> /\ op' = o /\ result' = NoResult
  BY DEF Begin, disk
<1>2. NothingLeft'
  BY <1>1, WholeParts DEF NothingLeft, Exists
<1>3. o.kind \in {"clone", "cloneTask"} => Copying(op)'
  BY <1>1 DEF Copying, Copied, Apart, Exists, Live
<1>4. Going(op)'
  BY <1>1, <1>3 DEF Going
<1>q. QED
  BY <1>1, <1>2, <1>4, StepOn

\* What begins with copies still to come, and what does not clone at all.
LEMMA OperationBegins ==
    ASSUME NEW kind, NEW from, NEW p, NEW json, NEW pairs, NEW erase
    PROVE  LET o == Operation(kind, from, p, json, pairs, erase)
           IN  /\ o.kind = kind /\ o.source = from /\ o.project = p /\ o.json = json
               /\ o.pairs = pairs /\ o.cloned = {} /\ o.at = 1 /\ o.failed = "none"
BY DEF Operation

LEMMA OthersBegin ==
    ASSUME LifeInv, WholeInv, NEW p \in Projects,
           \/ \E names \in SUBSET Components : Create(p, names) \/ SetComponents(p, names)
           \/ \E c \in Components, permanent \in BOOLEAN : RemoveComponent(p, c, permanent)
           \/ \E permanent \in BOOLEAN : Delete(p, permanent)
           \/ Restore(p)
           \/ \E t \in Tasks : RemoveTask(p, t)
    PROVE  WholeInv'
<1>1. ASSUME NEW kind, kind \notin {"clone", "cloneTask"}, NEW json, NEW erase,
             Begin(Operation(kind, p, p, json, {}, erase))
      PROVE  WholeInv'
  <2> DEFINE o == Operation(kind, p, p, json, {}, erase)
  <2>1. o.kind = kind /\ o.failed = "none" /\ Begin(o)
    BY <1>1, OperationBegins
  <2> HIDE DEF o
  <2>q. QED
    BY <1>1, <2>1, BeginWhole
<1>2. ASSUME NEW names \in SUBSET Components, Create(p, names) \/ SetComponents(p, names)
      PROVE  WholeInv'
  BY <1>1, <1>2 DEF Create, SetComponents
<1>3. ASSUME NEW c \in Components, NEW permanent \in BOOLEAN, RemoveComponent(p, c, permanent)
      PROVE  WholeInv'
  BY <1>1, <1>3 DEF RemoveComponent
<1>4. ASSUME NEW permanent \in BOOLEAN, Delete(p, permanent)
      PROVE  WholeInv'
  BY <1>1, <1>4 DEF Delete
<1>5. CASE Restore(p)
  BY <1>1, <1>5 DEF Restore
<1>6. ASSUME NEW t \in Tasks, RemoveTask(p, t)
      PROVE  WholeInv'
  BY <1>1, <1>6 DEF RemoveTask
<1>q. QED
  BY <1>2, <1>3, <1>4, <1>5, <1>6

\* A live Task that is inactive has the status idle.
LEMMA LiveIsIdle ==
    ASSUME NEW p, NEW t, t \in Live(p), Inactive(p, t)
    PROVE  t \in Tasks /\ task[p][t].status = "idle"
BY DEF Live, Inactive

LEMMA CloneBegins ==
    ASSUME LifeInv, WholeInv, NEW from \in Projects, NEW p \in Projects, Clone(from, p)
    PROVE  WholeInv'
<1> DEFINE pairs == {<<t, t>> : t \in Live(from)}
           o == Operation("clone", from, p, project[from], pairs, {})
<1>1. /\ o.kind = "clone" /\ o.source = from /\ o.project = p /\ o.json = project[from]
      /\ o.pairs = pairs /\ o.cloned = {} /\ o.at = 1 /\ o.failed = "none"
  BY OperationBegins
<1>2. Begin(o)
  BY DEF Clone
<1>3. from # p /\ ~Exists(p)
  BY DEF Clone, Active, Exists
<1>4. \A t \in Live(from) : task[from][t].status = "idle" /\ task[p][t] = NoTask
  BY <1>3, LiveIsIdle, WholeParts DEF Clone, NothingLeft
<1>5. \A pair \in pairs : pair = <<pair[1], pair[1]>> /\ pair[2] = pair[1] /\ pair[1] \in Live(from)
  OBVIOUS
<1>6. {pair[1] : pair \in pairs} = Live(from)
  <2>1. \A t \in Live(from) : <<t, t>> \in pairs /\ <<t, t>>[1] = t
    OBVIOUS
  <2> HIDE DEF pairs
  <2>q. QED
    BY <1>5, <2>1
<1> HIDE DEF o, pairs
<1>7. Apart(o)
  BY <1>1, <1>3, <1>5 DEF Apart
<1>8. \A pair \in o.pairs : Copied(o, pair)
  BY <1>1, <1>4, <1>5 DEF Copied
<1>9. Copying(o)
  BY <1>1, <1>6, <1>7, <1>8 DEF Copying
<1>q. QED
  BY <1>1, <1>2, <1>9, BeginWhole

LEMMA CloneTaskBegins ==
    ASSUME LifeInv, WholeInv, NEW from \in Projects, NEW t \in Tasks,
           NEW p \in Projects, NEW u \in Tasks, CloneTask(from, t, p, u)
    PROVE  WholeInv'
<1> DEFINE o == Operation("cloneTask", from, p, project[p], {<<t, u>>}, {})
<1>1. /\ o.kind = "cloneTask" /\ o.source = from /\ o.project = p
      /\ o.pairs = {<<t, u>>} /\ o.cloned = {} /\ o.failed = "none"
  BY OperationBegins
<1>2. Begin(o)
  BY DEF CloneTask
<1>3. task[from][t].status = "idle" /\ task[p][u] = NoTask /\ Exists(p)
  BY LiveIsIdle DEF CloneTask, Active, Exists
<1>4. NoTask.status = "none"
  BY DEF NoTask
<1> HIDE DEF o
<1>5. <<p, u>> # <<from, t>>
  BY <1>3, <1>4
<1>6. Apart(o)
  BY <1>1, <1>3, <1>5 DEF Apart
<1>7. \A pair \in o.pairs : Copied(o, pair)
  BY <1>1, <1>3 DEF Copied
<1>8. Copying(o)
  BY <1>1, <1>6, <1>7 DEF Copying
<1>q. QED
  BY <1>1, <1>2, <1>8, BeginWhole

-----------------------------------------------------------------------------
(* The stages of an operation.                                               *)

\* An operation that nothing has disturbed, and what it relies on.
LEMMA Undisturbed ==
    ASSUME LifeInv, SelInv, WholeInv, NEW stage, In(stage)
    PROVE  /\ op # NoOp /\ op.failed = "none" /\ Stage = stage
           /\ op \in OperationType /\ op.project \in Projects /\ op.source \in Projects
           /\ Backed(op) /\ op.json.status # "none" /\ NothingLeft
           /\ op.kind \in {"clone", "cloneTask"} => Copying(op)
<1>1. op # NoOp /\ op.failed = "none" /\ Stage = stage
  BY DEF In
<1>2. Going(op) /\ NothingLeft
  BY <1>1, WholeParts
<1>q. QED
  BY <1>1, <1>2, InBacked DEF Going, Backed

LEMMA PublishWhole == ASSUME LifeInv, SelInv, WholeInv, Publish PROVE WholeInv'
<1> DEFINE p == op.project
<1>1. /\ op # NoOp /\ op.failed = "none" /\ Stage = "publish" /\ Backed(op)
      /\ p \in Projects /\ op.json.status # "none" /\ NothingLeft
      /\ op.kind \in {"clone", "cloneTask"} => Copying(op)
  BY Undisturbed DEF Publish
<1>2. /\ project' = [project EXCEPT ![p] = op.json] /\ project \in [Projects -> ProjectFile]
      /\ UNCHANGED <<data, task, op>> /\ result' = NoResult
  BY DEF Publish, LifeInv, TypeOK
<1>3. project'[p] = op.json /\ \A q \in Projects : q # p => project'[q] = project[q]
  BY <1>1, <1>2
<1>4. NothingLeft'
  BY <1>1, <1>2, <1>3, NothingFrame DEF Exists
<1>5. ASSUME op.kind \in {"clone", "cloneTask"}
      PROVE  Copying(op)'
  <2>1. op.kind = "clone" /\ op.at = 1 /\ op.source \in Projects /\ op.source # p
    BY <1>1, <1>5, ClonePlace, InProgress DEF Backed
  <2>2. project'[op.source] = project[op.source]
    BY <1>3, <2>1
  <2>3. Apart(op)' /\ \A pair \in op'.pairs : Copied(op, pair)'
    BY <1>1, <1>2, <1>5, <2>1 DEF Copying, Apart, Copied
  <2>4. op.json = project'[op.source] /\ {pair[1] : pair \in op.pairs} = Live(op.source)'
    BY <1>1, <1>2, <1>5, <2>1, <2>2 DEF Copying, Live
  <2>q. QED
    BY <1>2, <2>1, <2>3, <2>4 DEF Copying
<1>6. Going(op)'
  BY <1>1, <1>2, <1>5 DEF Going
<1>q. QED
  BY <1>2, <1>4, <1>6, StepOn

LEMMA ComponentsWhole ==
    ASSUME LifeInv, SelInv, WholeInv, NEW c \in Components,
           InitializeComponent(c) \/ CopyConfiguration(c) \/ CopyRecords(c)
    PROVE  WholeInv'
<1>1. /\ op # NoOp /\ op.failed = "none" /\ Stage \in {"initialize", "copy"} /\ NothingLeft
      /\ op.kind \in {"clone", "cloneTask"} => Copying(op)
  BY Undisturbed DEF InitializeComponent, CopyConfiguration, CopyRecords
<1>2. UNCHANGED <<project, task, op>> /\ result' = NoResult
  BY DEF InitializeComponent, CopyConfiguration, CopyRecords
<1>3. op.kind \in {"clone", "cloneTask"} => op.kind = "clone" /\ ~(op.at > 3)
  BY <1>1, ClonePlace
<1>4. Going(op)'
  BY <1>1, <1>2, <1>3, CopyingFrame DEF Going
<1>5. NothingLeft'
  BY <1>1, <1>2 DEF NothingLeft, Exists
<1>q. QED
  BY <1>2, <1>4, <1>5, StepOn

\* A clone of Tasks writes one of its own; what it reads and the other clones stay.
LEMMA ClonesFrame ==
    ASSUME LifeInv, SelInv, WholeInv, NEW pair \in op.pairs, In("tasks"),
           op' = op \/ op' = [op EXCEPT !.cloned = @ \cup {pair}],
           NEW files \in TaskFiles, files.status = "idle",
           op' = op => pair \notin op.cloned,
           op' # op => files = task[op.source][pair[1]],
           task' = [task EXCEPT ![op.project][pair[2]] = files],
           UNCHANGED <<project, data>>, result' = NoResult
    PROVE  WholeInv'
<1> DEFINE p == op.project
           t == pair[2]
<1>1. /\ op # NoOp /\ op.failed = "none" /\ Stage = "tasks" /\ Backed(op)
      /\ op \in OperationType /\ p \in Projects /\ op.source \in Projects /\ NothingLeft
      /\ op.kind \in {"clone", "cloneTask"} => Copying(op)
  BY Undisturbed
<1>2. /\ op.kind \in {"clone", "cloneTask"} /\ Copying(op) /\ Apart(op)
      /\ op.kind = "clone" => op.at = 4
  BY <1>1, InProgress, ClonePlace DEF Copying
<1>3. op.pairs \subseteq Tasks \X Tasks /\ t \in Tasks
  BY <1>1 DEF OperationType
<1>4. /\ task'[p][t] = files
      /\ \A q \in Projects, u \in Tasks : <<q, u>> # <<p, t>> => task'[q][u] = task[q][u]
  BY <1>1, <1>3, TaskTyped
<1>5. /\ op'.kind = op.kind /\ op'.at = op.at /\ op'.json = op.json /\ op'.pairs = op.pairs
      /\ op'.project = p /\ op'.source = op.source /\ op'.failed = op.failed
      /\ op'.cloned = op.cloned \/ op'.cloned = op.cloned \cup {pair}
      /\ op'.cloned = op.cloned => op' = op \/ pair \in op.cloned
      /\ op' # op => op'.cloned = op.cloned \cup {pair}
  BY <1>1 DEF OperationType
<1>6. \A b \in op.pairs : task'[op.source][b[1]] = task[op.source][b[1]]
  BY <1>1, <1>2, <1>3, <1>4 DEF Apart
<1>7. \A b \in op.pairs : b # pair => task'[p][b[2]] = task[p][b[2]]
  BY <1>1, <1>2, <1>3, <1>4 DEF Apart
<1>8. ASSUME NEW b \in op.pairs
      PROVE  Copied(op, b)'
  <2>1. Copied(op, b) /\ Copied(op, pair)
    BY <1>2 DEF Copying
  <2>2. CASE b = pair
    <3>1. CASE op' = op
      BY <1>4, <1>5, <1>6, <2>1, <2>2, <3>1 DEF Copied
    <3>2. CASE op' # op
      BY <1>4, <1>5, <1>6, <2>1, <2>2, <3>2 DEF Copied
    <3>q. QED
      BY <3>1, <3>2
  <2>3. CASE b # pair
    <3>1. b \in op'.cloned <=> b \in op.cloned
      BY <1>5, <2>3
    <3>q. QED
      BY <1>5, <1>6, <1>7, <2>1, <2>3, <3>1 DEF Copied
  <2>q. QED
    BY <2>2, <2>3
<1>9. Exists(p)
  BY <1>1, <1>2, <1>5 DEF Copying, Apart, Exists, Backed
<1>10. NothingLeft'
  BY <1>1, <1>4, <1>9, NothingFrame DEF Exists
<1>11. Apart(op)'
  BY <1>2, <1>5 DEF Apart, Exists
<1>12. ASSUME op.kind = "clone"
       PROVE  Live(op.source)' = Live(op.source)
  <2>1. op.source # p
    BY <1>2, <1>12 DEF Apart
  <2>2. \A u \in Tasks : task'[op.source][u] = task[op.source][u]
    BY <1>1, <1>4, <2>1
  <2>q. QED
    BY <1>5, <2>2 DEF Live
<1>13. Copying(op)'
  BY <1>2, <1>5, <1>8, <1>11, <1>12 DEF Copying
<1>q. QED
  BY <1>1, <1>5, <1>10, <1>13, StepOn DEF Going

LEMMA ClonesWhole ==
    ASSUME LifeInv, SelInv, WholeInv, NEW pair \in Tasks \X Tasks,
           OpenClone(pair) \/ CopyMessage(pair) \/ SaveClone(pair)
    PROVE  WholeInv'
<1> DEFINE p == op.project
           t == pair[2]
           mine == task[p][t]
           source == task[op.source][pair[1]]
<1>1. In("tasks") /\ pair \in op.pairs \ op.cloned /\ UNCHANGED <<project, data>>
      /\ result' = NoResult
  BY DEF OpenClone, CopyMessage, SaveClone, Unfinished
<1>2. op \in OperationType /\ p \in Projects /\ op.source \in Projects /\ Stage = "tasks"
      /\ op # NoOp /\ (op.kind \in {"clone", "cloneTask"} => Copying(op))
  BY <1>1, Undisturbed
<1>3. Copied(op, pair)
  BY <1>1, <1>2, InProgress DEF Copying
<1>4. mine \in TaskFiles /\ source \in TaskFiles
  BY <1>2, FilesTyped
<1>5. source.status = "idle" /\ (mine = NoTask \/ mine.status = "idle")
  BY <1>1, <1>3 DEF Copied
<1>6. CASE OpenClone(pair)
  <2> DEFINE files == [mine EXCEPT !.status = "idle"]
  <2>1. files \in TaskFiles /\ files.status = "idle"
    BY <1>4 DEF TaskFiles
  <2>2. task' = [task EXCEPT ![p][t] = files] /\ op' = op
    BY <1>6 DEF OpenClone
  <2> HIDE DEF files
  <2>q. QED
    BY <1>1, <2>1, <2>2, ClonesFrame
<1>7. CASE CopyMessage(pair)
  <2> DEFINE files == [mine EXCEPT !.messages = @ + 1]
  <2>1. mine # NoTask /\ mine.messages < source.messages
    BY <1>7 DEF CopyMessage, Unfinished
  <2>2. files \in TaskFiles /\ files.status = "idle"
    BY <1>4, <1>5, <2>1, LifecycleAssumption DEF TaskFiles
  <2>3. task' = [task EXCEPT ![p][t] = files] /\ op' = op
    BY <1>7 DEF CopyMessage
  <2> HIDE DEF files
  <2>q. QED
    BY <1>1, <2>2, <2>3, ClonesFrame
<1>8. CASE SaveClone(pair)
  <2> DEFINE files == [mine EXCEPT !.edited = source.edited]
  <2>1. mine # NoTask /\ mine.messages = source.messages
    BY <1>8 DEF SaveClone, Unfinished
  <2>2. files = source
    <3>1. /\ files.status = source.status /\ files.edited = source.edited
          /\ files.messages = source.messages /\ files \in TaskFiles
      BY <1>4, <1>5, <2>1 DEF TaskFiles
    <3> HIDE DEF files, source
    <3>q. QED
      BY <1>4, <3>1 DEF TaskFiles
  <2>3. task' = [task EXCEPT ![p][t] = files] /\ op' = [op EXCEPT !.cloned = @ \cup {pair}]
    BY <1>8 DEF SaveClone
  <2>4. op' # op
    BY <1>1, <1>2, <2>3 DEF OperationType
  <2> HIDE DEF files
  <2>q. QED
    BY <1>1, <1>4, <1>5, <2>2, <2>3, <2>4, ClonesFrame
<1>q. QED
  BY <1>6, <1>7, <1>8

\* What is erased is of a Project that is there, or was no longer there.
LEMMA EraseWhole ==
    ASSUME LifeInv, SelInv, WholeInv, NEW f \in Files, Erase(f)
    PROVE  WholeInv'
<1> DEFINE p == op.project
<1>1. /\ op # NoOp /\ op.failed = "none" /\ Stage = "erase" /\ op \in OperationType
      /\ p \in Projects /\ NothingLeft
  BY Undisturbed DEF Erase
<1>2. op.kind \notin {"clone", "cloneTask"}
  BY <1>1, InProgress
<1>3. op'.kind = op.kind /\ op'.failed = op.failed /\ UNCHANGED project /\ result' = NoResult
  BY <1>1 DEF Erase, OperationType
<1>4. ASSUME NEW q \in Projects, ~Exists(q), NEW u \in Tasks
      PROVE  task'[q][u] = NoTask
  <2>1. task[q][u] = NoTask
    BY <1>1, <1>4 DEF NothingLeft
  <2>2. CASE f[1] = "task.json"
    <3>1. f[2] \in Tasks /\ task' = [task EXCEPT ![p][f[2]] = NoTask]
      BY <2>2 DEF Erase, Files
    <3>2. NoTask \in TaskFiles
      BY LifecycleAssumption DEF NoTask, TaskFiles
    <3>q. QED
      BY <1>1, <2>1, <3>1, <3>2, TaskTyped
  <2>3. CASE f[1] = "conversation"
    <3> DEFINE files == [task[p][f[2]] EXCEPT !.messages = 0]
    <3>1. f[2] \in Tasks /\ task' = [task EXCEPT ![p][f[2]] = files]
      BY <2>3 DEF Erase, Files
    <3>2. files \in TaskFiles
      BY <1>1, <3>1, FilesTyped, LifecycleAssumption DEF TaskFiles
    <3>3. <<p, f[2]>> = <<q, u>> => files = NoTask
      BY <2>1 DEF NoTask
    <3> HIDE DEF files
    <3>q. QED
      BY <1>1, <2>1, <3>1, <3>2, <3>3, TaskTyped
  <2>4. CASE f[1] \notin {"task.json", "conversation"}
    BY <2>1, <2>4 DEF Erase
  <2>q. QED
    BY <2>2, <2>3, <2>4
<1>5. NothingLeft'
  BY <1>3, <1>4 DEF NothingLeft, Exists
<1>6. Going(op)'
  BY <1>1, <1>2, <1>3 DEF Going
<1>q. QED
  BY <1>3, <1>5, <1>6, StepOn

LEMMA EraseProjectWhole == ASSUME LifeInv, SelInv, WholeInv, EraseProject PROVE WholeInv'
<1> DEFINE p == op.project
<1>1. /\ op # NoOp /\ op.failed = "none" /\ Stage = "erase" /\ op \in OperationType
      /\ p \in Projects /\ NothingLeft
  BY Undisturbed DEF EraseProject
<1>2. op.kind \notin {"clone", "cloneTask"}
  BY <1>1, InProgress
<1>3. op'.kind = op.kind /\ op'.failed = op.failed /\ result' = NoResult
  BY <1>1 DEF EraseProject, OperationType
<1>4. \A q \in Projects : \/ q = p /\ \A t \in Tasks : task'[q][t] = NoTask
                          \/ project'[q] = project[q] /\ task'[q] = task[q]
  BY <1>1 DEF EraseProject, LifeInv, TypeOK
<1>5. NothingLeft'
  BY <1>1, <1>4 DEF NothingLeft, Exists
<1>6. Going(op)'
  BY <1>1, <1>2, <1>3 DEF Going
<1>q. QED
  BY <1>3, <1>5, <1>6, StepOn

\* A stage ends: what a clone has written so far is whole.
LEMMA AdvanceWhole == ASSUME LifeInv, SelInv, WholeInv, Advance PROVE WholeInv'
<1>1. StageDone /\ UNCHANGED <<project, data, task>> /\ result' = NoResult
  BY DEF Advance, disk
<1>2. /\ op # NoOp /\ op.failed = "none" /\ op \in OperationType /\ NothingLeft
      /\ op.kind \in {"clone", "cloneTask"} => Copying(op)
  BY <1>1, Undisturbed DEF StageDone
<1>3. /\ op'.kind = op.kind /\ op'.at = op.at + 1 /\ op'.json = op.json /\ op'.pairs = op.pairs
      /\ op'.project = op.project /\ op'.source = op.source /\ op'.cloned = op.cloned
      /\ op'.failed = op.failed
  BY <1>2 DEF Advance, OperationType
<1>4. ASSUME op.kind \in {"clone", "cloneTask"}
      PROVE  Copying(op)'
  <2>1. op.kind = "clone" /\ op.at \in Nat
    <3>1. ASSUME op.kind = "cloneTask"
          PROVE  FALSE
      <4>1. op.at = 1 /\ Len(Program(op.kind)) = 1
        BY <1>2, <3>1, ClonePlace, CloneStages
      <4>q. QED
        BY <4>1 DEF Advance
    <3>q. QED
      BY <1>2, <1>4, <3>1, ClonePlace
  <2>2. op.at = 1 => project[op.project] = op.json
    BY <1>1, <1>2, <2>1, ClonePlace, StageEnds
  <2>3. op.at = 3 => \A c \in op.json.selected : data[op.project][c] = data[op.source][c]
    BY <1>1, <1>2, <2>1, ClonePlace DEF StageDone, In
  <2>4. Apart(op)' /\ \A pair \in op'.pairs : Copied(op, pair)'
    BY <1>1, <1>2, <1>3, <1>4 DEF Copying, Apart, Copied, Exists
  <2>5. op'.json = project'[op'.source] /\ {pair[1] : pair \in op'.pairs} = Live(op.source)'
    BY <1>1, <1>2, <1>3, <2>1 DEF Copying, Live
  <2>6. op.at + 1 > 1 => op.at = 1 \/ op.at > 1
    BY <1>2, <2>1, ClonePlace
  <2>7. op.at + 1 > 3 => op.at = 3 \/ op.at > 3
    BY <1>2, <2>1, ClonePlace
  <2>8. op'.at > 1 => project'[op'.project] = op'.json
    BY <1>1, <1>2, <1>3, <2>1, <2>2, <2>6 DEF Copying
  <2>9. op'.at > 3 => \A c \in op'.json.selected :
                          data'[op'.project][c] = data'[op'.source][c]
    BY <1>1, <1>2, <1>3, <2>1, <2>3, <2>7 DEF Copying
  <2>q. QED
    BY <2>4, <2>5, <2>8, <2>9 DEF Copying
<1>5. Going(op)'
  BY <1>2, <1>3, <1>4 DEF Going
<1>6. NothingLeft'
  BY <1>1, <1>2 DEF NothingLeft, Exists
<1>q. QED
  BY <1>1, <1>5, <1>6, StepOn

-----------------------------------------------------------------------------
(* Ends.                                                                     *)

\* What the caller of an operation learns of it.
LEMMA OutcomeFields ==
    ASSUME NEW o, NEW how
    PROVE  \/ Outcome(o, how) = NoResult
           \/ /\ o.kind \in {"create", "clone", "cloneTask"}
              /\ Outcome(o, how).kind = o.kind /\ Outcome(o, how).project = o.project
              /\ Outcome(o, how).source = o.source /\ Outcome(o, how).pairs = o.pairs
              /\ Outcome(o, how).how = how /\ Outcome(o, how).failures = o.failures
              /\ Outcome(o, how).failed = o.failed
BY DEF Outcome

LEMMA ReturnWhole == ASSUME LifeInv, SelInv, WholeInv, Return PROVE WholeInv'
<1>1. /\ StageDone /\ UNCHANGED <<project, data, task>> /\ op' = NoOp
      /\ result' = Outcome(op, "returned")
  BY DEF Return, disk
<1>2. /\ op # NoOp /\ op \in OperationType /\ NothingLeft
      /\ op.kind \in {"clone", "cloneTask"} => Copying(op)
  BY <1>1, Undisturbed DEF StageDone
<1>3. NothingLeft'
  BY <1>1, <1>2 DEF NothingLeft, Exists
<1>4. PICK r : r = Outcome(op, "returned")
  OBVIOUS
<1>5. \/ r = NoResult
      \/ /\ op.kind \in {"create", "clone", "cloneTask"}
         /\ r.kind = op.kind /\ r.project = op.project /\ r.source = op.source
         /\ r.pairs = op.pairs /\ r.how = "returned"
  BY <1>4, OutcomeFields
<1>6. SingleFailureHides'
  BY <1>1, <1>4, <1>5 DEF SingleFailureHides
<1>7. ASSUME op.kind \in {"clone", "cloneTask"}
      PROVE  \A pair \in op.pairs :
                 task[op.project][pair[2]] = task[op.source][pair[1]]
  <2>1. Stage = "tasks"
    BY <1>2, <1>7, ClonePlace, CloneStages DEF Return
  <2>2. op.cloned = op.pairs
    BY <1>1, <2>1 DEF StageDone, In
  <2>q. QED
    BY <1>2, <1>7, <2>2 DEF Copying, Copied
<1>8. ASSUME op.kind = "clone"
      PROVE  /\ project[op.project] = project[op.source]
             /\ \A c \in project[op.source].selected :
                    data[op.project][c] = data[op.source][c]
             /\ {pair[1] : pair \in op.pairs} = Live(op.source)
  <2>1. op.at = 4
    BY <1>2, <1>8, CloneStages DEF Return
  <2>q. QED
    BY <1>2, <1>8, <2>1 DEF Copying
<1>9. ReturnedIsWhole'
  <2>1. CASE r = NoResult
    BY <1>1, <1>4, <2>1 DEF ReturnedIsWhole
  <2>2. CASE r # NoResult
    <3>1. /\ result' = r /\ r.kind = op.kind /\ r.project = op.project
          /\ r.source = op.source /\ r.pairs = op.pairs
      BY <1>1, <1>4, <1>5, <2>2
    <3>2. r.kind \in {"clone", "cloneTask"} =>
              \A pair \in r.pairs : task'[r.project][pair[2]] = task'[r.source][pair[1]]
      BY <1>1, <1>7, <3>1
    <3>3. r.kind = "clone" =>
              /\ project'[r.project] = project'[r.source]
              /\ \A c \in project'[r.source].selected : data'[r.project][c] = data'[r.source][c]
              /\ {pair[1] : pair \in r.pairs} = Live(r.source)'
      BY <1>1, <1>8, <3>1 DEF Live
    <3>q. QED
      BY <3>1, <3>2, <3>3 DEF ReturnedIsWhole
  <2>q. QED
    BY <2>1, <2>2
<1>q. QED
  BY <1>1, <1>3, <1>6, <1>9 DEF WholeInv

\* An operation that ends by raising: its Project is deleted, or more than one write
\* failed, or the first.
LEMMA RaisedWhole ==
    ASSUME NothingLeft', op' = NoOp, NEW o, result' = Outcome(o, "raised"),
           \/ o.kind \notin {"create", "clone"}
           \/ o.failed = "publish"
           \/ ~(o.failures <= 1)
           \/ project'[o.project].status = "deleted"
    PROVE  WholeInv'
<1>1. PICK r : r = Outcome(o, "raised")
  OBVIOUS
<1>2. \/ r = NoResult
      \/ /\ r.kind = o.kind /\ r.project = o.project /\ r.how = "raised"
         /\ r.failures = o.failures /\ r.failed = o.failed
  BY <1>1, OutcomeFields
<1>3. SingleFailureHides' /\ ReturnedIsWhole'
  BY <1>1, <1>2 DEF SingleFailureHides, ReturnedIsWhole
<1>q. QED
  BY <1>3 DEF WholeInv

LEMMA FailuresWhole ==
    ASSUME LifeInv, SelInv, WholeInv, Fail \/ SourceUnreadable
    PROVE  WholeInv'
<1>1. PICK cause \in Stages :
          Raise([op EXCEPT !.failures = @ + 1], cause)
  BY InProgress DEF Fail, SourceUnreadable, In, Stages
<1>2. op # NoOp /\ op.failed = "none"
  BY DEF Fail, SourceUnreadable, In
<1>3. op \in OperationType /\ op.failures \in Nat /\ op.failures = 0
  BY <1>2, InProgress DEF Sound
<1>4. UNCHANGED <<project, data, task>> /\ NothingLeft
  BY <1>1, WholeParts DEF Raise, disk
<1>5. NothingLeft'
  BY <1>4 DEF NothingLeft, Exists
<1> DEFINE o == [op EXCEPT !.failures = @ + 1]
<1>6. o.kind = op.kind /\ o.failures = 1
  BY <1>3 DEF OperationType
<1>7. CASE Caught(o.kind, cause)
  <2>1. op' = [o EXCEPT !.failed = cause] /\ result' = NoResult
    BY <1>1, <1>7 DEF Raise
  <2>2. op'.failed = cause /\ op'.failures = 1 /\ cause # "none"
    BY <1>3, <1>6, <2>1 DEF OperationType, Stages
  <2>3. Going(op)'
    BY <2>2 DEF Going
  <2>q. QED
    BY <1>5, <2>1, <2>3, StepOn
<1>8. CASE ~Caught(o.kind, cause)
  <2> DEFINE raised == [o EXCEPT !.failed = cause]
  <2>1. op' = NoOp /\ result' = Outcome(raised, "raised")
    BY <1>1, <1>8 DEF Raise
  <2>2. raised.kind = o.kind /\ raised.failed = cause
    BY <1>3 DEF OperationType
  <2>3. o.kind \notin {"create", "clone"} \/ cause = "publish"
    BY <1>8 DEF Caught
  <2> HIDE DEF raised, o
  <2>q. QED
    BY <1>5, <2>1, <2>2, <2>3, RaisedWhole
<1>q. QED
  BY <1>7, <1>8

LEMMA DiscardWhole == ASSUME LifeInv, SelInv, WholeInv, Discard \/ DiscardFails PROVE WholeInv'
<1>1. op # NoOp /\ op.failed # "none" /\ op' = NoOp
  BY DEF Discard, DiscardFails, Handling
<1>2. /\ op \in OperationType /\ op.project \in Projects /\ op.json \in ProjectFile
      /\ project \in [Projects -> ProjectFile] /\ Going(op) /\ NothingLeft
  BY <1>1, InBacked, WholeParts
<1>3. CASE Discard
  <2>1. /\ project'[op.project].status = "deleted" /\ UNCHANGED task
        /\ \A q \in Projects : q # op.project => project'[q] = project[q]
    BY <1>2, <1>3 DEF Discard, ProjectFile
  <2>2. NothingLeft'
    BY <1>2, <2>1, NothingFrame DEF Exists
  <2>3. result' = Outcome(op, "raised")
    BY <1>3 DEF Discard
  <2>q. QED
    BY <1>1, <2>1, <2>2, <2>3, RaisedWhole
<1>4. CASE DiscardFails
  <2> DEFINE o == [op EXCEPT !.failures = @ + 1]
  <2>1. op.failures \in 0 .. MaxFailures + 1 /\ op.failures >= 1
    BY <1>1, <1>2 DEF Going, OperationType
  <2>2. o.failures = op.failures + 1
    BY <1>2 DEF OperationType
  <2>3. ~(o.failures <= 1)
    BY <2>1, <2>2, LifecycleAssumption
  <2>4. NothingLeft'
    BY <1>2, <1>4 DEF DiscardFails, disk, NothingLeft, Exists
  <2>5. result' = Outcome(o, "raised")
    BY <1>4 DEF DiscardFails
  <2> HIDE DEF o
  <2>q. QED
    BY <1>1, <2>3, <2>4, <2>5, RaisedWhole
<1>q. QED
  BY <1>3, <1>4

-----------------------------------------------------------------------------
(* Operations of one write.                                                  *)

LEMMA EditsWhole ==
    ASSUME LifeInv, SelInv, WholeInv, Edits
    PROVE  WholeInv'
<1>1. op' = NoOp /\ result' = NoResult /\ NothingLeft
  BY WholeParts DEF Edits, SaveProject, Configure, Define, CreateTask, SaveTask, DeleteTask,
     RestoreTask, Attach, Run, Rest, Detach, Quiet
<1>2. ASSUME NEW p \in Projects, NEW t \in Tasks, NEW files, Exists(p), UNCHANGED project,
             task' = [task EXCEPT ![p][t] = files]
      PROVE  NothingLeft'
  <2>1. \A q \in Projects : q # p => task'[q] = task[q]
    BY <1>2 DEF LifeInv, TypeOK
  <2>q. QED
    BY <1>1, <1>2, <2>1, NothingFrame DEF Exists
<1>3. ASSUME NEW p \in Projects, SaveProject(p)
      PROVE  NothingLeft'
  <2>1. \A q \in Projects : project'[q].status = project[q].status
    BY <1>3 DEF SaveProject, LifeInv, TypeOK, ProjectFile
  <2>q. QED
    BY <1>1, <1>3, <2>1 DEF SaveProject, NothingLeft, Exists
<1>4. ASSUME UNCHANGED <<project, task>>
      PROVE  NothingLeft'
  BY <1>1, <1>4 DEF NothingLeft, Exists
<1>5. ASSUME NEW p \in Projects, NEW t \in Tasks,
             \/ CreateTask(p, t) \/ SaveTask(p, t) \/ DeleteTask(p, t) \/ RestoreTask(p, t)
             \/ Attach(p, t) \/ Run(p, t) \/ Rest(p, t)
      PROVE  NothingLeft'
  BY <1>2, <1>5 DEF CreateTask, SaveTask, DeleteTask, RestoreTask, Attach, Run, Rest, SetTask,
                    Active, Exists
<1>6. NothingLeft'
  BY <1>3, <1>4, <1>5 DEF Edits, Configure, Define, Detach, disk
<1>q. QED
  BY <1>1, <1>6, StepOn

-----------------------------------------------------------------------------
(* The theorems.                                                             *)

LEMMA WholeInvStep ==
    ASSUME LifeInv, SelInv, WholeInv, [Next]_vars
    PROVE  WholeInv'
<1>1. CASE Calls
  BY <1>1, OthersBegin, CloneBegins, CloneTaskBegins DEF Calls
<1>2. CASE Work
  BY <1>2, PublishWhole, EraseProjectWhole, AdvanceWhole, ReturnWhole, ComponentsWhole,
     ClonesWhole, EraseWhole DEF Work
<1>3. CASE Failure
  <2>1. CASE Crash
    BY <2>1, WholeParts, StepOn DEF Crash, disk, NothingLeft, Exists
  <2>q. QED
    BY <1>3, <2>1, FailuresWhole, DiscardWhole DEF Failure
<1>4. CASE Edits
  BY <1>4, EditsWhole
<1>5. CASE UNCHANGED vars
  BY <1>5 DEF vars, disk, WholeInv, NothingLeft, Exists, Copying, Apart, Copied, Live,
              SingleFailureHides, ReturnedIsWhole
<1>q. QED
  BY <1>1, <1>2, <1>3, <1>4, <1>5 DEF Next

\* The inductive invariant of what creations leave: LifeInv and SelInv carry it.
THEOREM WholeInvHolds == Spec => []WholeInv
<1>1. Init => SelInv
  BY DEF Init, SelInv, SelectionHeld
<1>2. Init => WholeInv
  BY DEF Init, WholeInv, NothingLeft, SingleFailureHides, ReturnedIsWhole
<1>3. LifeInv /\ SelInv /\ [Next]_vars => SelInv'
  BY SelInvStep
<1>4. LifeInv /\ SelInv /\ WholeInv /\ [Next]_vars => WholeInv'
  BY WholeInvStep
<1>q. QED
  BY <1>1, <1>2, <1>3, <1>4, LifeInvHolds, PTL DEF Spec

\* A create or clone that raised has left its Project deleted when what failed was one
\* write after its first save: whichever write it was, wherever the operation stood, and
\* whatever was done to other Projects before (projects.py create, clone).
THEOREM OneFailureHides == Spec => []SingleFailureHides
<1>1. WholeInv => SingleFailureHides
  BY DEF WholeInv
<1>q. QED
  BY <1>1, WholeInvHolds, PTL

\* A clone that returned has all its source has, of a Project or of a Task: nothing it
\* has copied is written by the copies that follow, and its source rests meanwhile
\* (projects.py clone, components/base.py clone, tasks.py clone).
THEOREM ClonesAreWhole == Spec => []ReturnedIsWhole
<1>1. WholeInv => ReturnedIsWhole
  BY DEF WholeInv
<1>q. QED
  BY <1>1, WholeInvHolds, PTL

=============================================================================
