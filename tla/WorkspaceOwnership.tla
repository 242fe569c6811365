-------------------------- MODULE WorkspaceOwnership --------------------------
(***************************************************************************)
(* Who may touch a workspace: src/ish/services/locking.py, with the Task   *)
(* lifecycle of src/ish/services/tasks.py that it guards.                  *)
(*                                                                         *)
(* An owner is a WorkspaceOwnership, one per ProjectRepository; owners may *)
(* be in different processes.  It counts its references and holds the      *)
(* operating system's lock while there are any.  A manager is a TaskManager*)
(* and the thread that calls it; managers of one owner share its mutex.    *)
(* Each operation is a transaction in a scope: enter, retain, what it      *)
(* reads, what it writes, release.                                         *)
(***************************************************************************)
EXTENDS Naturals, FiniteSets

CONSTANTS
    Owners,      \* WorkspaceOwnership instances
    Managers,    \* TaskManagers
    Tasks,       \* the Tasks of the workspace
    Nobody,      \* neither an owner nor a manager
    OwnerOf      \* [manager -> its owner]

ASSUME OwnersAssumption ==
    /\ OwnerOf \in [Managers -> Owners] /\ IsFiniteSet(Tasks)
    /\ Nobody \notin Owners \cup Managers

VARIABLES
    lock,        \* the owner that holds the operating system's lock
    mutex,       \* [owner -> the manager whose thread is in its mutex]
    refs,        \* [owner -> _references]
    claimed,     \* [owner -> _tasks]
    attached,    \* [manager -> _attached]
    disk,        \* [task -> status in task.json; "gone" when its tree is removed]
    doing        \* [manager -> the transaction of its thread]

vars == <<lock, mutex, refs, claimed, attached, disk, doing>>

-----------------------------------------------------------------------------
TaskStatus == {"idle", "running", "deleted", "gone"}
Lifecycle == {"save", "delete", "remove", "restore"}
Runtime == {"attach", "run", "rest", "detach"}
Idle == [at |-> "idle"]
Places == {"entered", "held", "checked", "leaving"}
Transaction == [at : Places, kind : Lifecycle \cup Runtime, task : Tasks]

Goto(m, at) == doing' = [doing EXCEPT ![m].at = at]
At(m, at) == doing[m] # Idle /\ doing[m].at = at

Init ==
    /\ lock = Nobody /\ mutex = [o \in Owners |-> Nobody]
    /\ refs = [o \in Owners |-> 0] /\ claimed = [o \in Owners |-> {}]
    /\ attached = [m \in Managers |-> {}]
    /\ disk = [t \in Tasks |-> "idle"]
    /\ doing = [m \in Managers |-> Idle]

-----------------------------------------------------------------------------
(* scope: the mutex, then retain.                                            *)

Enter(m, kind, t) ==
    /\ doing[m] = Idle /\ mutex[OwnerOf[m]] = Nobody
    /\ mutex' = [mutex EXCEPT ![OwnerOf[m]] = m]
    /\ doing' = [doing EXCEPT ![m] = [at |-> "entered", kind |-> kind, task |-> t]]
    /\ UNCHANGED <<lock, refs, claimed, attached, disk>>

\* The first reference takes the lock, if nobody has it.
Retain(m) ==
    LET o == OwnerOf[m]
    IN  /\ At(m, "entered")
        /\ refs[o] = 0 => lock = Nobody
        /\ lock' = o
        /\ refs' = [refs EXCEPT ![o] = @ + 1]
        /\ Goto(m, "held")
        /\ UNCHANGED <<mutex, claimed, attached, disk>>

\* WorkspaceBusyError.
Busy(m) ==
    LET o == OwnerOf[m]
    IN  /\ At(m, "entered")
        /\ refs[o] = 0 /\ lock # Nobody
        /\ mutex' = [mutex EXCEPT ![o] = Nobody]
        /\ doing' = [doing EXCEPT ![m] = Idle]
        /\ UNCHANGED <<lock, refs, claimed, attached, disk>>

\* Mutant: the scope that ends gives the lock up whoever else holds a reference.
Release_Always(m) ==
    LET o == OwnerOf[m]
    IN  /\ At(m, "leaving")
        /\ refs' = [refs EXCEPT ![o] = @ - 1]
        /\ lock' = Nobody
        /\ mutex' = [mutex EXCEPT ![o] = Nobody]
        /\ doing' = [doing EXCEPT ![m] = Idle]
        /\ UNCHANGED <<claimed, attached, disk>>

\* The last reference gives the lock up, and the mutex is left.
Release(m) ==
    LET o == OwnerOf[m]
    IN  /\ At(m, "leaving")
        /\ refs' = [refs EXCEPT ![o] = @ - 1]
        /\ lock' = IF refs[o] = 1 THEN Nobody ELSE lock
        /\ mutex' = [mutex EXCEPT ![o] = Nobody]
        /\ doing' = [doing EXCEPT ![m] = Idle]
        /\ UNCHANGED <<claimed, attached, disk>>

-----------------------------------------------------------------------------
(* What the transactions read.  One that may not go on leaves its scope.     *)

\* Mutant: a manager looks only at the runtimes of its own TaskManager.
Inactive_OwnManager(m, t) == t \notin attached[m] /\ disk[t] \notin {"running", "gone"}

\* require_inactive; attach_runtime with claim_task; _save_runtime.
Inactive(m, t) == t \notin claimed[OwnerOf[m]] /\ disk[t] \notin {"running", "gone"}
Attachable(m, t) == t \notin claimed[OwnerOf[m]] /\ disk[t] \notin {"deleted", "gone"}
Executable(m, t) == t \in attached[m] /\ disk[t] \notin {"deleted", "gone"}

Allowed(m) ==
    LET t == doing[m].task
    IN  \/ doing[m].kind = "attach" /\ Attachable(m, t)
        \/ doing[m].kind \in {"run", "rest"} /\ Executable(m, t)
        \/ doing[m].kind = "detach" /\ t \in attached[m]
        \/ doing[m].kind = "save" /\ Inactive(m, t) /\ disk[t] # "deleted"
        \/ doing[m].kind = "restore" /\ Inactive(m, t) /\ disk[t] = "deleted"
        \/ doing[m].kind \in {"delete", "remove"} /\ Inactive(m, t)

Check(m) ==
    /\ At(m, "held")
    /\ Goto(m, IF Allowed(m) THEN "checked" ELSE "leaving")
    /\ UNCHANGED <<lock, mutex, refs, claimed, attached, disk>>

-----------------------------------------------------------------------------
(* What they write.                                                          *)

\* claim_task retains a reference of its own.
Attach(m) ==
    LET o == OwnerOf[m]
        t == doing[m].task
    IN  /\ At(m, "checked") /\ doing[m].kind = "attach"
        /\ refs' = [refs EXCEPT ![o] = @ + 1]
        /\ claimed' = [claimed EXCEPT ![o] = @ \cup {t}]
        /\ attached' = [attached EXCEPT ![m] = @ \cup {t}]
        /\ Goto(m, "leaving")
        /\ UNCHANGED <<lock, mutex, disk>>

\* Mutant: the Task is forgotten and its reference kept.
Detach_KeepsReference(m) ==
    LET o == OwnerOf[m]
        t == doing[m].task
    IN  /\ At(m, "checked") /\ doing[m].kind = "detach"
        /\ claimed' = [claimed EXCEPT ![o] = @ \ {t}]
        /\ attached' = [attached EXCEPT ![m] = @ \ {t}]
        /\ Goto(m, "leaving")
        /\ UNCHANGED <<lock, mutex, refs, disk>>

\* Mutant: detach_runtime gives back its scope's reference too.
Detach_Twice(m) ==
    LET o == OwnerOf[m]
        t == doing[m].task
    IN  /\ At(m, "checked") /\ doing[m].kind = "detach"
        /\ refs' = [refs EXCEPT ![o] = @ - 2]
        /\ claimed' = [claimed EXCEPT ![o] = @ \ {t}]
        /\ attached' = [attached EXCEPT ![m] = @ \ {t}]
        /\ Goto(m, "leaving")
        /\ UNCHANGED <<lock, mutex, disk>>

\* release_task gives it back; the scope still has its own.
Detach(m) ==
    LET o == OwnerOf[m]
        t == doing[m].task
    IN  /\ At(m, "checked") /\ doing[m].kind = "detach"
        /\ refs' = [refs EXCEPT ![o] = @ - 1]
        /\ claimed' = [claimed EXCEPT ![o] = @ \ {t}]
        /\ attached' = [attached EXCEPT ![m] = @ \ {t}]
        /\ Goto(m, "leaving")
        /\ UNCHANGED <<lock, mutex, disk>>

\* The status each kind of transaction leaves in task.json.
Written(m) ==
    CASE doing[m].kind = "run" -> "running"
      [] doing[m].kind \in {"rest", "restore"} -> "idle"
      [] doing[m].kind = "delete" -> "deleted"
      [] doing[m].kind = "remove" -> "gone"
      [] OTHER -> disk[doing[m].task]

Save(m) ==
    /\ At(m, "checked") /\ doing[m].kind \notin {"attach", "detach"}
    /\ disk' = [disk EXCEPT ![doing[m].task] = Written(m)]
    /\ Goto(m, "leaving")
    /\ UNCHANGED <<lock, mutex, refs, claimed, attached>>

\* The write of a transaction fails and it leaves its scope.
SaveFails(m) ==
    /\ At(m, "checked") /\ doing[m].kind \notin {"attach", "detach"}
    /\ Goto(m, "leaving")
    /\ UNCHANGED <<lock, mutex, refs, claimed, attached, disk>>

-----------------------------------------------------------------------------
\* The owner's process dies; the system closes its handles, and another process
\* takes its place.
Crash(o) ==
    LET dead == {m \in Managers : OwnerOf[m] = o}
    IN  /\ lock' = IF lock = o THEN Nobody ELSE lock
        /\ mutex' = [mutex EXCEPT ![o] = Nobody]
        /\ refs' = [refs EXCEPT ![o] = 0]
        /\ claimed' = [claimed EXCEPT ![o] = {}]
        /\ attached' = [m \in Managers |-> IF m \in dead THEN {} ELSE attached[m]]
        /\ doing' = [m \in Managers |-> IF m \in dead THEN Idle ELSE doing[m]]
        /\ UNCHANGED disk

Step(m) == Retain(m) \/ Busy(m) \/ Check(m) \/ Attach(m) \/ Detach(m) \/ Save(m)
             \/ SaveFails(m) \/ Release(m)

Next ==
    \/ \E m \in Managers, kind \in Lifecycle \cup Runtime, t \in Tasks : Enter(m, kind, t)
    \/ \E m \in Managers : Step(m)
    \/ \E o \in Owners : Crash(o)

Spec == Init /\ [][Next]_vars

-----------------------------------------------------------------------------
(* Properties.                                                               *)

TypeOK ==
    /\ lock \in Owners \cup {Nobody} /\ mutex \in [Owners -> Managers \cup {Nobody}]
    /\ refs \in [Owners -> Nat] /\ claimed \in [Owners -> SUBSET Tasks]
    /\ attached \in [Managers -> SUBSET Tasks] /\ disk \in [Tasks -> TaskStatus]
    /\ doing \in [Managers -> Transaction \cup {Idle}]

\* The reference count is exactly what keeps it: the Tasks that are attached and the
\* transaction in the mutex.  So the lock is held while it must be, and let go after.
InScope(o) == {m \in Managers : OwnerOf[m] = o /\ doing[m] # Idle
                                  /\ doing[m].at \in {"held", "checked", "leaving"}}
ReferencesExact ==
    \A o \in Owners :
        /\ refs[o] = Cardinality(claimed[o]) + Cardinality(InScope(o))
        /\ refs[o] > 0 <=> lock = o

\* Two owners are never both inside the workspace, and a Task never has two runtimes,
\* in one process or in two.
OneRuntime ==
    /\ \A m, n \in Managers : m # n => attached[m] \cap attached[n] = {}
    /\ \A m \in Managers : \A t \in attached[m] :
           lock = OwnerOf[m] /\ t \in claimed[OwnerOf[m]]

\* No lifecycle operation, decided on what it read some steps earlier, changes a Task
\* that a runtime anywhere is attached to.
AttachedUntouched ==
    [][\A t \in Tasks : disk'[t] # disk[t] =>
          \/ \A m \in Managers : t \notin attached[m]
          \/ \E m \in Managers : t \in attached[m] /\ doing[m] # Idle
                                   /\ doing[m].kind \in {"run", "rest"}
                                   /\ doing[m].task = t]_vars

=============================================================================
