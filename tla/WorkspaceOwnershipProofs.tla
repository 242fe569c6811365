----------------------- MODULE WorkspaceOwnershipProofs -----------------------
(***************************************************************************)
(* ReferencesExact, OneRuntime and AttachedUntouched of WorkspaceOwnership *)
(* for any number of owners, managers and Tasks.                           *)
(*                                                                         *)
(* A manager whose transaction is in its scope is alone in the workspace:  *)
(* its owner has the lock, and it has its owner's mutex (Exclusive).  So   *)
(* what its transaction found stays true until it writes (CheckInv).       *)
(***************************************************************************)
EXTENDS WorkspaceOwnership, FiniteSetTheorems, TLAPS

\* The manager's transaction is in its scope.
Inside(m) == doing[m] # Idle /\ doing[m].at \in {"held", "checked", "leaving"}
Occupied(o) == \E m \in Managers : OwnerOf[m] = o /\ Inside(m)

MutexInv == \A m \in Managers : doing[m] # Idle => mutex[OwnerOf[m]] = m
CheckInv == \A m \in Managers : At(m, "checked") => Allowed(m)
CountInv ==
    \A o \in Owners : refs[o] = Cardinality(claimed[o]) + (IF Occupied(o) THEN 1 ELSE 0)
LockInv == \A o \in Owners : refs[o] > 0 <=> lock = o
ClaimInv ==
    /\ \A m \in Managers : attached[m] \subseteq claimed[OwnerOf[m]]
    /\ \A m, n \in Managers : m # n => attached[m] \cap attached[n] = {}

OwnInv == TypeOK /\ MutexInv /\ CheckInv /\ CountInv /\ LockInv /\ ClaimInv

-----------------------------------------------------------------------------
(* Counting, and the records of transactions.                                *)

LEMMA Counts ==
    ASSUME NEW S \in SUBSET Tasks
    PROVE  /\ Cardinality(S) \in Nat
           /\ S = {} <=> Cardinality(S) = 0
           /\ \A t \in Tasks : t \notin S => Cardinality(S \cup {t}) = Cardinality(S) + 1
           /\ \A t \in S : Cardinality(S \ {t}) = Cardinality(S) - 1 /\ Cardinality(S) > 0
<1>1. IsFiniteSet(S)
  BY OwnersAssumption, FS_Subset
<1>2. Cardinality(S) \in Nat /\ (S = {} <=> Cardinality(S) = 0)
  BY <1>1, FS_CardinalityType, FS_EmptySet
<1>3. \A t \in Tasks : t \notin S => Cardinality(S \cup {t}) = Cardinality(S) + 1
  BY <1>1, FS_AddElement
<1>4. \A t \in S : Cardinality(S \ {t}) = Cardinality(S) - 1
  BY <1>1, FS_RemoveElement
<1>5. \A t \in S : Cardinality(S) > 0
  BY <1>2
<1>q. QED
  BY <1>2, <1>3, <1>4, <1>5

\* A transaction that goes on stays the same transaction, and is not the others'.
LEMMA Goes ==
    ASSUME TypeOK, NEW m \in Managers, NEW p \in Places, doing[m] # Idle, Goto(m, p)
    PROVE  /\ doing' \in [Managers -> Transaction \cup {Idle}]
           /\ doing'[m] # Idle /\ doing'[m].at = p
           /\ doing'[m].kind = doing[m].kind /\ doing'[m].task = doing[m].task
           /\ \A n \in Managers : n # m => doing'[n] = doing[n]
<1>1. doing[m] \in Transaction
  BY DEF TypeOK
<1>2. [doing[m] EXCEPT !.at = p] \in Transaction
  BY <1>1 DEF Transaction
<1>3. [doing[m] EXCEPT !.at = p] # Idle
  BY DEF Places, Idle
<1>4. doing' = [doing EXCEPT ![m] = [doing[m] EXCEPT !.at = p]]
  BY DEF Goto
<1>5. doing'[m] = [doing[m] EXCEPT !.at = p] /\ \A n \in Managers : n # m => doing'[n] = doing[n]
  BY <1>4 DEF TypeOK
<1>q. QED
  BY <1>1, <1>2, <1>3, <1>4, <1>5 DEF TypeOK, Transaction

\* A manager inside its scope is the only one inside the workspace.
LEMMA Exclusive ==
    ASSUME OwnInv, NEW m \in Managers, Inside(m)
    PROVE  /\ OwnerOf[m] \in Owners /\ lock = OwnerOf[m]
           /\ refs[OwnerOf[m]] = Cardinality(claimed[OwnerOf[m]]) + 1
           /\ \A n \in Managers : Inside(n) => n = m
           /\ \A n \in Managers : OwnerOf[n] # OwnerOf[m] => attached[n] = {}
<1>1. OwnerOf[m] \in Owners /\ \A n \in Managers : OwnerOf[n] \in Owners
  BY OwnersAssumption
<1>2. \A o \in Owners : Cardinality(claimed[o]) \in Nat /\ (claimed[o] = {} <=> Cardinality(claimed[o]) = 0)
  BY Counts DEF OwnInv, TypeOK
<1>3. \A n \in Managers : Inside(n) =>
          lock = OwnerOf[n] /\ refs[OwnerOf[n]] = Cardinality(claimed[OwnerOf[n]]) + 1
  BY <1>1, <1>2 DEF OwnInv, CountInv, LockInv, Occupied
<1>4. \A n \in Managers : Inside(n) => n = m
  BY <1>3 DEF OwnInv, MutexInv, Inside
<1>5. ASSUME NEW n \in Managers, OwnerOf[n] # OwnerOf[m]
      PROVE  attached[n] = {}
  <2>1. refs[OwnerOf[n]] \in Nat /\ ~(refs[OwnerOf[n]] > 0)
    BY <1>1, <1>3, <1>5 DEF OwnInv, LockInv, TypeOK
  <2>2. claimed[OwnerOf[n]] = {}
    BY <1>1, <1>2, <2>1 DEF OwnInv, CountInv
  <2>q. QED
    BY <2>2 DEF OwnInv, ClaimInv
<1>q. QED
  BY <1>1, <1>3, <1>4, <1>5

\* Whether a transaction may go on depends on its kind, its Task, what its owner has
\* claimed, what it has attached, and the Task's status.
LEMMA StillAllowed ==
    ASSUME OwnInv, NEW n \in Managers, At(n, "checked"), doing'[n] = doing[n],
           claimed'[OwnerOf[n]] = claimed[OwnerOf[n]], attached'[n] = attached[n], UNCHANGED disk
    PROVE  Allowed(n)'
BY DEF OwnInv, CheckInv, Allowed, Attachable, Executable, Inactive

-----------------------------------------------------------------------------
(* Each step keeps OwnInv.                                                   *)

\* The count is of who is inside and what is claimed.
LEMMA SameCount ==
    ASSUME OwnInv, UNCHANGED <<refs, claimed>>, \A n \in Managers : Inside(n)' <=> Inside(n)
    PROVE  CountInv'
BY DEF OwnInv, CountInv, Occupied

\* A transaction that only has the mutex is not inside.
LEMMA EnterKeeps ==
    ASSUME OwnInv, NEW m \in Managers, NEW kind \in Lifecycle \cup Runtime, NEW t \in Tasks,
           Enter(m, kind, t)
    PROVE  OwnInv'
<1> USE DEF OwnInv
<1>o. \A n \in Managers : OwnerOf[n] \in Owners
  BY OwnersAssumption
<1>d. /\ doing'[m] = [at |-> "entered", kind |-> kind, task |-> t]
      /\ \A n \in Managers : n # m => doing'[n] = doing[n]
      /\ doing[m] = Idle /\ doing'[m].at = "entered"
  BY DEF Enter, TypeOK
<1>1. TypeOK'
  <2>1. [at |-> "entered", kind |-> kind, task |-> t] \in Transaction
    BY DEF Transaction, Places
  <2>q. QED
    BY <2>1, <1>o DEF Enter, TypeOK
<1>2. MutexInv'
  BY <1>o, <1>d, OwnersAssumption DEF Enter, TypeOK, MutexInv
<1>3. CheckInv'
  BY <1>d, StillAllowed DEF Enter, CheckInv, At
<1>4. CountInv'
  BY <1>d, SameCount DEF Enter, Inside
<1>5. LockInv' /\ ClaimInv'
  BY DEF Enter, LockInv, ClaimInv
<1>q. QED
  BY <1>1, <1>2, <1>3, <1>4, <1>5

\* The first reference finds the lock free; a later one has it.
LEMMA RetainKeeps == ASSUME OwnInv, NEW m \in Managers, Retain(m) PROVE OwnInv'
<1> USE DEF OwnInv
<1>o. \A n \in Managers : OwnerOf[n] \in Owners
  BY OwnersAssumption
<1>d. /\ doing' \in [Managers -> Transaction \cup {Idle}]
      /\ doing[m] # Idle /\ doing'[m] # Idle /\ doing'[m].at = "held"
      /\ \A n \in Managers : n # m => doing'[n] = doing[n]
  BY Goes DEF Retain, At, Places
<1>1. TypeOK'
  BY <1>o, <1>d DEF Retain, TypeOK
<1>2. MutexInv'
  BY <1>d DEF Retain, MutexInv
<1>3. CheckInv'
  BY <1>d, StillAllowed DEF Retain, CheckInv, At
<1>r. /\ \A o \in Owners : refs'[o] = IF o = OwnerOf[m] THEN refs[o] + 1 ELSE refs[o]
      /\ \A o \in Owners : refs[o] \in Nat
      /\ \A o \in Owners : Cardinality(claimed[o]) \in Nat
  BY Counts DEF Retain, TypeOK
<1>4. CountInv'
  <2>1. ~Occupied(OwnerOf[m])
    BY <1>d DEF Retain, At, Occupied, Inside, MutexInv
  <2>2. Occupied(OwnerOf[m])' /\ \A o \in Owners : o # OwnerOf[m] => (Occupied(o)' <=> Occupied(o))
    BY <1>d DEF Occupied, Inside
  <2>q. QED
    BY <1>o, <1>r, <2>1, <2>2 DEF Retain, CountInv
<1>5. LockInv'
  BY <1>o, <1>r, OwnersAssumption DEF Retain, LockInv
<1>6. ClaimInv'
  BY DEF Retain, ClaimInv
<1>q. QED
  BY <1>1, <1>2, <1>3, <1>4, <1>5, <1>6

\* The owner that could not take the lock has no reference to give back.
LEMMA BusyKeeps == ASSUME OwnInv, NEW m \in Managers, Busy(m) PROVE OwnInv'
<1> USE DEF OwnInv
<1>o. \A n \in Managers : OwnerOf[n] \in Owners
  BY OwnersAssumption
<1>d. /\ doing'[m] = Idle /\ ~Inside(m)
      /\ \A n \in Managers : n # m => doing'[n] = doing[n]
  BY DEF Busy, TypeOK, Inside, At
<1>1. TypeOK'
  BY <1>o DEF Busy, TypeOK
<1>2. MutexInv'
  BY <1>o, <1>d DEF Busy, At, TypeOK, MutexInv
<1>3. CheckInv'
  BY <1>d, StillAllowed DEF Busy, CheckInv, At
<1>4. CountInv'
  BY <1>d, SameCount DEF Busy, Inside
<1>5. LockInv' /\ ClaimInv'
  BY DEF Busy, LockInv, ClaimInv
<1>q. QED
  BY <1>1, <1>2, <1>3, <1>4, <1>5

\* Whoever leaves was alone inside, so only what is claimed still counts.
LEMMA ReleaseKeeps == ASSUME OwnInv, NEW m \in Managers, Release(m) PROVE OwnInv'
<1> USE DEF OwnInv
<1>i. Inside(m)
  BY DEF Release, At, Inside
<1>o. \A n \in Managers : OwnerOf[n] \in Owners
  BY OwnersAssumption
<1>d. /\ doing'[m] = Idle /\ doing[m] # Idle
      /\ \A n \in Managers : n # m => doing'[n] = doing[n]
  BY DEF Release, TypeOK, At
<1>c. /\ \A o \in Owners : refs[o] \in Nat /\ Cardinality(claimed[o]) \in Nat
      /\ refs[OwnerOf[m]] = Cardinality(claimed[OwnerOf[m]]) + 1 /\ lock = OwnerOf[m]
      /\ \A n \in Managers : Inside(n) => n = m
  BY <1>i, Exclusive, Counts DEF TypeOK
<1>r. \A o \in Owners : refs'[o] = IF o = OwnerOf[m] THEN refs[o] - 1 ELSE refs[o]
  BY DEF Release, TypeOK
<1>1. TypeOK'
  <2>1. refs' \in [Owners -> Nat]
    BY <1>o, <1>c DEF Release, TypeOK
  <2>q. QED
    BY <1>o, <2>1 DEF Release, TypeOK
<1>2. MutexInv'
  BY <1>o, <1>d DEF Release, TypeOK, MutexInv
<1>3. CheckInv'
  BY <1>d, StillAllowed DEF Release, CheckInv, At
<1>4. CountInv'
  <2>1. \A o \in Owners : ~Occupied(o)'
    BY <1>c, <1>d DEF Occupied, Inside
  <2>2. \A o \in Owners : o # OwnerOf[m] => ~Occupied(o)
    BY <1>c DEF Occupied
  <2>3. SUFFICES ASSUME NEW o \in Owners PROVE refs'[o] = Cardinality(claimed[o])
    BY <1>c, <2>1 DEF Release, CountInv
  <2>4. CASE o = OwnerOf[m]
    BY <1>c, <1>r, <2>4
  <2>5. CASE o # OwnerOf[m]
    BY <1>c, <1>r, <2>2, <2>5 DEF CountInv
  <2>q. QED
    BY <2>4, <2>5
<1>5. LockInv'
  BY <1>o, <1>c, <1>r, OwnersAssumption DEF Release, LockInv
<1>6. ClaimInv'
  BY DEF Release, ClaimInv
<1>q. QED
  BY <1>1, <1>2, <1>3, <1>4, <1>5, <1>6

\* What Check has read is still so after the step, which changes nothing else.
LEMMA CheckKeeps == ASSUME OwnInv, NEW m \in Managers, Check(m) PROVE OwnInv'
<1> USE DEF OwnInv
<1>d. /\ doing' \in [Managers -> Transaction \cup {Idle}]
      /\ doing[m] # Idle /\ doing'[m] # Idle
      /\ doing'[m].at = IF Allowed(m) THEN "checked" ELSE "leaving"
      /\ doing'[m].kind = doing[m].kind /\ doing'[m].task = doing[m].task
      /\ \A n \in Managers : n # m => doing'[n] = doing[n]
  BY Goes DEF Check, At, Places
<1>1. TypeOK' /\ MutexInv'
  BY <1>d DEF Check, TypeOK, MutexInv
<1>2. CheckInv'
  <2>1. At(m, "checked")' => Allowed(m)
    BY <1>d DEF At
  <2>2. Allowed(m) => Allowed(m)'
    BY <1>d DEF Check, Allowed, Attachable, Executable, Inactive
  <2>3. \A n \in Managers : n # m /\ At(n, "checked")' => Allowed(n)'
    BY <1>d, StillAllowed DEF Check, CheckInv, At
  <2>q. QED
    BY <2>1, <2>2, <2>3 DEF CheckInv
<1>3. CountInv'
  BY <1>d, SameCount DEF Check, At, Inside
<1>4. LockInv' /\ ClaimInv'
  BY DEF Check, LockInv, ClaimInv
<1>q. QED
  BY <1>1, <1>2, <1>3, <1>4

\* A write that fails changes nothing but where the transaction is.
LEMMA SaveFailsKeeps == ASSUME OwnInv, NEW m \in Managers, SaveFails(m) PROVE OwnInv'
<1> USE DEF OwnInv
<1>d. /\ doing' \in [Managers -> Transaction \cup {Idle}]
      /\ doing[m] # Idle /\ doing'[m] # Idle /\ doing'[m].at = "leaving"
      /\ \A n \in Managers : n # m => doing'[n] = doing[n]
  BY Goes DEF SaveFails, At, Places
<1>1. TypeOK' /\ MutexInv'
  BY <1>d DEF SaveFails, TypeOK, MutexInv
<1>2. CheckInv'
  BY <1>d, StillAllowed DEF SaveFails, CheckInv, At
<1>3. CountInv'
  BY <1>d, SameCount DEF SaveFails, At, Inside
<1>4. LockInv' /\ ClaimInv'
  BY DEF SaveFails, LockInv, ClaimInv
<1>q. QED
  BY <1>1, <1>2, <1>3, <1>4

\* What a transaction does inside its scope: nobody else has anything to go on with.
LEMMA AloneChecked ==
    ASSUME OwnInv, NEW m \in Managers, Inside(m), doing'[m].at = "leaving",
           \A n \in Managers : n # m => doing'[n] = doing[n]
    PROVE  CheckInv'
BY Exclusive DEF CheckInv, At, Inside

\* The write falls to the one manager inside.
LEMMA SaveKeeps == ASSUME OwnInv, NEW m \in Managers, Save(m) PROVE OwnInv'
<1> USE DEF OwnInv
<1>i. Inside(m)
  BY DEF Save, At, Inside
<1>d. /\ doing' \in [Managers -> Transaction \cup {Idle}]
      /\ doing[m] # Idle /\ doing'[m] # Idle /\ doing'[m].at = "leaving"
      /\ \A n \in Managers : n # m => doing'[n] = doing[n]
  BY Goes DEF Save, At, Places
<1>1. TypeOK'
  <2>1. doing[m].task \in Tasks
    BY <1>d DEF TypeOK, Transaction
  <2>2. Written(m) \in TaskStatus
    BY <2>1 DEF Written, TaskStatus, TypeOK
  <2>q. QED
    BY <1>d, <2>1, <2>2 DEF Save, TypeOK
<1>2. MutexInv'
  BY <1>d DEF Save, MutexInv
<1>3. CheckInv'
  BY <1>d, <1>i, AloneChecked
<1>4. CountInv'
  BY <1>d, <1>i, SameCount DEF Save, Inside
<1>5. LockInv' /\ ClaimInv'
  BY DEF Save, LockInv, ClaimInv
<1>q. QED
  BY <1>1, <1>2, <1>3, <1>4, <1>5

\* The new Task was claimed by no other runtime: none of this owner, by the check, and
\* none of another, which has no claim while this one has the lock.
LEMMA AttachKeeps == ASSUME OwnInv, NEW m \in Managers, Attach(m) PROVE OwnInv'
<1> USE DEF OwnInv
<1> DEFINE a == OwnerOf[m]
           t == doing[m].task
<1>i. Inside(m)
  BY DEF Attach, At, Inside
<1>o. \A n \in Managers : OwnerOf[n] \in Owners
  BY OwnersAssumption
<1>d. /\ doing' \in [Managers -> Transaction \cup {Idle}]
      /\ doing[m] # Idle /\ doing'[m] # Idle /\ doing'[m].at = "leaving"
      /\ \A n \in Managers : n # m => doing'[n] = doing[n]
  BY Goes DEF Attach, At, Places
<1>t. t \in Tasks /\ t \notin claimed[a]
  <2>1. t \in Tasks
    BY <1>d DEF TypeOK, Transaction
  <2>q. QED
    BY <2>1 DEF Attach, CheckInv, Allowed, Attachable
<1>r. /\ \A o \in Owners : refs'[o] = IF o = a THEN refs[o] + 1 ELSE refs[o]
      /\ \A o \in Owners : claimed'[o] = IF o = a THEN claimed[o] \cup {t} ELSE claimed[o]
      /\ \A n \in Managers : attached'[n] = IF n = m THEN attached[n] \cup {t} ELSE attached[n]
      /\ \A o \in Owners : refs[o] \in Nat /\ claimed[o] \in SUBSET Tasks
  BY DEF Attach, TypeOK
<1>1. TypeOK'
  <2>1. refs' \in [Owners -> Nat]
    BY <1>o DEF Attach, TypeOK
  <2>2. claimed' \in [Owners -> SUBSET Tasks]
    BY <1>o, <1>t DEF Attach, TypeOK
  <2>3. attached' \in [Managers -> SUBSET Tasks]
    BY <1>t DEF Attach, TypeOK
  <2>q. QED
    BY <1>d, <2>1, <2>2, <2>3 DEF Attach, TypeOK
<1>2. MutexInv'
  BY <1>d DEF Attach, MutexInv
<1>3. CheckInv'
  BY <1>d, <1>i, AloneChecked
<1>4. CountInv'
  <2>1. \A o \in Owners : Occupied(o)' <=> Occupied(o)
    BY <1>d, <1>i DEF Occupied, Inside
  <2>2. SUFFICES ASSUME NEW o \in Owners
                 PROVE  refs'[o] = Cardinality(claimed'[o]) + (IF Occupied(o) THEN 1 ELSE 0)
    BY <2>1 DEF CountInv
  <2>3. CASE o = a
    <3>1. Cardinality(claimed'[a]) = Cardinality(claimed[a]) + 1 /\ Cardinality(claimed[a]) \in Nat
      <4>1. claimed'[a] = claimed[a] \cup {t} /\ claimed[a] \in SUBSET Tasks
        BY <1>o, <1>r
      <4>q. QED
        BY <1>t, <4>1, Counts
    <3>2. refs'[a] = refs[a] + 1
      BY <1>o, <1>r
    <3>3. refs[a] = Cardinality(claimed[a]) + (IF Occupied(a) THEN 1 ELSE 0)
      BY <1>o DEF CountInv
    <3>q. QED
      BY <2>3, <3>1, <3>2, <3>3
  <2>4. CASE o # a
    BY <1>r, <2>4 DEF CountInv
  <2>q. QED
    BY <2>3, <2>4
<1>5. LockInv'
  <2>1. lock = a /\ lock' = lock
    BY <1>i, Exclusive DEF Attach
  <2>q. QED
    BY <1>r, <2>1 DEF LockInv
<1>6. ClaimInv'
  <2>1. \A n \in Managers : n # m => t \notin attached[n]
    BY <1>i, <1>t, Exclusive DEF ClaimInv
  <2>2. ASSUME NEW n \in Managers
        PROVE  attached'[n] \subseteq claimed'[OwnerOf[n]]
    <3>1. attached[n] \subseteq claimed[OwnerOf[n]]
      BY DEF ClaimInv
    <3>q. QED
      BY <1>o, <1>r, <2>1, <3>1
  <2>3. ASSUME NEW k \in Managers, NEW n \in Managers, k # n
        PROVE  attached'[k] \cap attached'[n] = {}
    <3>1. attached[k] \cap attached[n] = {}
      BY <2>3 DEF ClaimInv
    <3>q. QED
      BY <1>r, <2>1, <2>3, <3>1
  <2>q. QED
    BY <2>2, <2>3 DEF ClaimInv
<1>q. QED
  BY <1>1, <1>2, <1>3, <1>4, <1>5, <1>6

\* The scope's own reference keeps the lock when the Task's is given back.
LEMMA DetachKeeps == ASSUME OwnInv, NEW m \in Managers, Detach(m) PROVE OwnInv'
<1> USE DEF OwnInv
<1> DEFINE a == OwnerOf[m]
           t == doing[m].task
<1>i. Inside(m)
  BY DEF Detach, At, Inside
<1>o. \A n \in Managers : OwnerOf[n] \in Owners
  BY OwnersAssumption
<1>d. /\ doing' \in [Managers -> Transaction \cup {Idle}]
      /\ doing[m] # Idle /\ doing'[m] # Idle /\ doing'[m].at = "leaving"
      /\ \A n \in Managers : n # m => doing'[n] = doing[n]
  BY Goes DEF Detach, At, Places
<1>t. t \in attached[m] /\ t \in claimed[a]
  BY DEF Detach, CheckInv, Allowed, ClaimInv
<1>r. /\ \A o \in Owners : refs'[o] = IF o = a THEN refs[o] - 1 ELSE refs[o]
      /\ \A o \in Owners : claimed'[o] = IF o = a THEN claimed[o] \ {t} ELSE claimed[o]
      /\ \A n \in Managers : attached'[n] = IF n = m THEN attached[n] \ {t} ELSE attached[n]
      /\ \A o \in Owners : refs[o] \in Nat /\ claimed[o] \in SUBSET Tasks
  BY DEF Detach, TypeOK
<1>c. /\ lock = a /\ refs[a] = Cardinality(claimed[a]) + 1
      /\ Cardinality(claimed[a]) \in Nat /\ Cardinality(claimed[a]) > 0
      /\ Cardinality(claimed[a] \ {t}) = Cardinality(claimed[a]) - 1
  BY <1>i, <1>o, <1>t, <1>r, Exclusive, Counts
<1>1. TypeOK'
  <2>1. refs' \in [Owners -> Nat]
    BY <1>o, <1>c, <1>r DEF Detach, TypeOK
  <2>q. QED
    BY <1>o, <1>d, <2>1 DEF Detach, TypeOK
<1>2. MutexInv'
  BY <1>d DEF Detach, MutexInv
<1>3. CheckInv'
  BY <1>d, <1>i, AloneChecked
<1>4. CountInv'
  <2>1. \A o \in Owners : Occupied(o)' <=> Occupied(o)
    BY <1>d, <1>i DEF Occupied, Inside
  <2>2. SUFFICES ASSUME NEW o \in Owners
                 PROVE  refs'[o] = Cardinality(claimed'[o]) + (IF Occupied(o) THEN 1 ELSE 0)
    BY <2>1 DEF CountInv
  <2>3. CASE o = a
    <3>1. Occupied(a)
      BY <1>i DEF Occupied
    <3>2. refs'[a] = refs[a] - 1 /\ claimed'[a] = claimed[a] \ {t}
      BY <1>o, <1>r
    <3>q. QED
      BY <1>c, <2>3, <3>1, <3>2
  <2>4. CASE o # a
    BY <1>r, <2>4 DEF CountInv
  <2>q. QED
    BY <2>3, <2>4
<1>5. LockInv'
  BY <1>o, <1>r, <1>c DEF Detach, LockInv
<1>6. ClaimInv'
  <2>1. \A n \in Managers : n # m => t \notin attached[n]
    BY <1>t DEF ClaimInv
  <2>2. ASSUME NEW n \in Managers
        PROVE  attached'[n] \subseteq claimed'[OwnerOf[n]]
    <3>1. attached[n] \subseteq claimed[OwnerOf[n]]
      BY DEF ClaimInv
    <3>q. QED
      BY <1>o, <1>r, <2>1, <3>1
  <2>3. ASSUME NEW k \in Managers, NEW n \in Managers, k # n
        PROVE  attached'[k] \cap attached'[n] = {}
    <3>1. attached[k] \cap attached[n] = {}
      BY <2>3 DEF ClaimInv
    <3>q. QED
      BY <1>r, <2>1, <2>3, <3>1
  <2>q. QED
    BY <2>2, <2>3 DEF ClaimInv
<1>q. QED
  BY <1>1, <1>2, <1>3, <1>4, <1>5, <1>6

\* A process that dies takes every claim and transaction of its owner with it.
LEMMA CrashKeeps == ASSUME OwnInv, NEW a \in Owners, Crash(a) PROVE OwnInv'
<1> USE DEF OwnInv
<1>o. \A n \in Managers : OwnerOf[n] \in Owners
  BY OwnersAssumption
<1>d. /\ \A n \in Managers : doing'[n] = IF OwnerOf[n] = a THEN Idle ELSE doing[n]
      /\ \A n \in Managers : attached'[n] = IF OwnerOf[n] = a THEN {} ELSE attached[n]
  BY DEF Crash
<1>r. /\ \A o \in Owners : refs'[o] = IF o = a THEN 0 ELSE refs[o]
      /\ \A o \in Owners : claimed'[o] = IF o = a THEN {} ELSE claimed[o]
      /\ \A o \in Owners : mutex'[o] = IF o = a THEN Nobody ELSE mutex[o]
      /\ \A o \in Owners : refs[o] \in Nat
  BY DEF Crash, TypeOK
<1>1. TypeOK'
  <2>1. refs' \in [Owners -> Nat] /\ claimed' \in [Owners -> SUBSET Tasks]
    BY DEF Crash, TypeOK
  <2>2. doing' \in [Managers -> Transaction \cup {Idle}]
    BY DEF Crash, TypeOK
  <2>3. attached' \in [Managers -> SUBSET Tasks]
    BY DEF Crash, TypeOK
  <2>q. QED
    BY <2>1, <2>2, <2>3 DEF Crash, TypeOK
<1>2. MutexInv'
  BY <1>o, <1>d, <1>r DEF MutexInv
<1>3. CheckInv'
  <2>1. SUFFICES ASSUME NEW n \in Managers, At(n, "checked")'
                 PROVE  Allowed(n)'
    BY DEF CheckInv
  <2>2. OwnerOf[n] # a
    BY <1>d, <2>1 DEF At
  <2>q. QED
    BY <1>o, <1>d, <1>r, <2>1, <2>2, StillAllowed DEF Crash, At
<1>4. CountInv'
  <2>1. ~Occupied(a)' /\ \A o \in Owners : o # a => (Occupied(o)' <=> Occupied(o))
    BY <1>d DEF Occupied, Inside
  <2>2. Cardinality({}) = 0
    BY FS_EmptySet
  <2>q. QED
    BY <1>r, <2>1, <2>2 DEF CountInv
<1>5. LockInv'
  BY <1>r, OwnersAssumption DEF Crash, LockInv
<1>6. ClaimInv'
  BY <1>o, <1>d, <1>r DEF ClaimInv
<1>q. QED
  BY <1>1, <1>2, <1>3, <1>4, <1>5, <1>6

-----------------------------------------------------------------------------
(* The theorems.                                                             *)

LEMMA OwnInvInit == Init => OwnInv
<1> SUFFICES ASSUME Init
             PROVE  OwnInv
  OBVIOUS
<1>1. TypeOK
  BY DEF Init, TypeOK, TaskStatus
<1>2. \A m \in Managers : doing[m] = Idle
  BY DEF Init
<1>3. MutexInv /\ CheckInv
  BY <1>2 DEF MutexInv, CheckInv, At
<1>4. CountInv
  <2>1. Cardinality({}) = 0
    BY FS_EmptySet
  <2>q. QED
    BY <1>2, <2>1 DEF Init, CountInv, Occupied, Inside
<1>5. LockInv /\ ClaimInv
  BY OwnersAssumption DEF Init, LockInv, ClaimInv
<1>q. QED
  BY <1>1, <1>3, <1>4, <1>5 DEF OwnInv

LEMMA OwnInvStep == OwnInv /\ [Next]_vars => OwnInv'
<1> SUFFICES ASSUME OwnInv, [Next]_vars
             PROVE  OwnInv'
  OBVIOUS
<1>1. CASE \E m \in Managers, kind \in Lifecycle \cup Runtime, t \in Tasks : Enter(m, kind, t)
  BY <1>1, EnterKeeps
<1>2. ASSUME NEW m \in Managers, Step(m)
      PROVE  OwnInv'
  BY <1>2, RetainKeeps, BusyKeeps, CheckKeeps, AttachKeeps, DetachKeeps, SaveKeeps,
     SaveFailsKeeps, ReleaseKeeps DEF Step
<1>3. CASE \E o \in Owners : Crash(o)
  BY <1>3, CrashKeeps
<1>4. CASE UNCHANGED vars
  BY <1>4 DEF vars, OwnInv, TypeOK, MutexInv, CheckInv, CountInv, LockInv, ClaimInv, At,
     Allowed, Attachable, Executable, Inactive, Occupied, Inside
<1>q. QED
  BY <1>1, <1>2, <1>3, <1>4 DEF Next

\* The inductive invariant of every execution.
THEOREM OwnInvHolds == Spec => []OwnInv
<1>q. QED
  BY OwnInvInit, OwnInvStep, PTL DEF Spec

\* Every variable of the workspace keeps its type: a reference count is never negative.
THEOREM TypeCorrect == Spec => []TypeOK
<1>1. OwnInv => TypeOK
  BY DEF OwnInv
<1>q. QED
  BY <1>1, OwnInvHolds, PTL

\* The reference count of WorkspaceOwnership is what keeps the lock, neither more nor less.
THEOREM ReferencesAreExact == Spec => []ReferencesExact
<1>1. OwnInv => ReferencesExact
  <2> SUFFICES ASSUME OwnInv, NEW o \in Owners
               PROVE  /\ refs[o] = Cardinality(claimed[o]) + Cardinality(InScope(o))
                      /\ refs[o] > 0 <=> lock = o
    BY DEF ReferencesExact
  <2>1. Cardinality(InScope(o)) = IF Occupied(o) THEN 1 ELSE 0
    <3>1. CASE Occupied(o)
      <4>1. PICK m \in Managers : OwnerOf[m] = o /\ Inside(m)
        BY <3>1 DEF Occupied
      <4>2. InScope(o) = {m}
        BY <4>1, Exclusive DEF InScope, Inside
      <4>q. QED
        BY <3>1, <4>2, FS_Singleton
    <3>2. CASE ~Occupied(o)
      <4>1. InScope(o) = {}
        BY <3>2 DEF Occupied, InScope, Inside
      <4>q. QED
        BY <3>2, <4>1, FS_EmptySet
    <3>q. QED
      BY <3>1, <3>2
  <2>q. QED
    BY <2>1 DEF OwnInv, CountInv, LockInv
<1>q. QED
  BY <1>1, OwnInvHolds, PTL

\* A Task never has two runtimes, and its runtime's owner holds the lock.
THEOREM OneRuntimePerTask == Spec => []OneRuntime
<1>1. OwnInv => OneRuntime
  <2> SUFFICES ASSUME OwnInv, NEW m \in Managers, NEW t \in attached[m]
               PROVE  lock = OwnerOf[m] /\ t \in claimed[OwnerOf[m]]
    BY DEF OneRuntime, OwnInv, ClaimInv
  <2>1. OwnerOf[m] \in Owners /\ t \in claimed[OwnerOf[m]]
    BY OwnersAssumption DEF OwnInv, ClaimInv
  <2>2. Cardinality(claimed[OwnerOf[m]]) \in Nat /\ Cardinality(claimed[OwnerOf[m]]) > 0
    BY <2>1, Counts DEF OwnInv, TypeOK
  <2>3. refs[OwnerOf[m]] > 0
    BY <2>1, <2>2 DEF OwnInv, CountInv
  <2>q. QED
    BY <2>1, <2>3 DEF OwnInv, LockInv
<1>q. QED
  BY <1>1, OwnInvHolds, PTL

\* What a lifecycle operation has found some steps before still holds when it writes:
\* it changes no Task that a runtime, of its process or of another, is attached to.
THEOREM AttachedIsUntouched == Spec => AttachedUntouched
<1> DEFINE Untouched ==
      \A t \in Tasks : disk'[t] # disk[t] =>
          \/ \A m \in Managers : t \notin attached[m]
          \/ \E m \in Managers : t \in attached[m] /\ doing[m] # Idle
                                   /\ doing[m].kind \in {"run", "rest"}
                                   /\ doing[m].task = t
<1>1. ASSUME OwnInv, NEW m \in Managers, Save(m)
      PROVE  Untouched
  <2>1. SUFFICES ASSUME NEW t \in Tasks, disk'[t] # disk[t], doing[m].kind \notin {"run", "rest"}
                 PROVE  \A n \in Managers : t \notin attached[n]
    <3>1. ASSUME NEW t \in Tasks, disk'[t] # disk[t], doing[m].kind \in {"run", "rest"}
          PROVE  t \in attached[m] /\ doing[m] # Idle /\ doing[m].task = t
      BY <1>1, <3>1 DEF Save, At, OwnInv, TypeOK, CheckInv, Allowed, Executable
    <3>q. QED
      BY <3>1
  <2>2. Inside(m) /\ t = doing[m].task
    BY <1>1, <2>1 DEF Save, At, Inside, OwnInv, TypeOK
  <2>3. t \notin claimed[OwnerOf[m]]
    BY <1>1, <2>1, <2>2 DEF Save, OwnInv, CheckInv, Allowed, Inactive
  <2>q. QED
    BY <1>1, <2>2, <2>3, Exclusive DEF OwnInv, ClaimInv
<1>2. OwnInv /\ [Next]_vars => [Untouched]_vars
  <2> SUFFICES ASSUME OwnInv, Next
               PROVE  Untouched
    OBVIOUS
  <2>1. CASE UNCHANGED disk
    BY <2>1
  <2>2. CASE \E m \in Managers : Save(m)
    BY <1>1, <2>2
  <2>q. QED
    BY <2>1, <2>2 DEF Next, Step, Enter, Retain, Busy, Check, Attach, Detach, SaveFails,
       Release, Crash
<1>q. QED
  BY <1>2, OwnInvHolds, PTL DEF Spec, AttachedUntouched

=============================================================================
