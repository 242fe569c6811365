------------------------------ MODULE StepEvents ------------------------------
(***************************************************************************)
(* One Run's execution, from the Engine's events to its Steps and its      *)
(* completion observations on disk: BaseEngine (src/ish/engines/base.py),  *)
(* PipelineEngine (src/ish/engines/pipeline.py), RunManager._consume,      *)
(* _record_completion and _finish, StepEventRecorder with StepManager      *)
(* (src/ish/services/steps.py) and CompletionResult                        *)
(* (src/ish/core/results.py).                                              *)
(*                                                                         *)
(* A stage is a BaseEngine or a developer's own Engine, which may emit any *)
(* Step event it likes.  Generators are pulled: a stage advances only when *)
(* the consumer has recorded its last event.  A cancellation may arrive at *)
(* any await.  Text deltas are left out, and of an observation only its    *)
(* status is kept and whether its usage is complete.                       *)
(***************************************************************************)
EXTENDS Naturals, Sequences

CONSTANTS
    MaxStages,   \* bound on the stages of an Engine
    Plans,       \* the Engines of this instance: sequences of "base" and "custom"
    CustomIds,   \* the Step IDs a custom Engine uses
    MaxCalls     \* bound on the completions a Run asks its provider for

ASSUME PlansAssumption ==
    /\ MaxStages \in Nat /\ MaxCalls \in Nat
    /\ \A p \in Plans : p \in Seq({"base", "custom"}) /\ Len(p) \in 1..MaxStages
    /\ CustomIds \cap Nat = {}

VARIABLES
    plan,        \* the stages of this Run's Engine
    piped,       \* they are composed by a PipelineEngine
    stage,       \* the stage being executed
    gen,         \* where its generator is
    active,      \* the pipeline's set of started, uncompleted Steps
    event,       \* the event the generator has yielded last
    run,         \* where the Run is
    outcome,     \* how the execution ended
    disk,        \* [Step ID -> status in step.json]
    provider,    \* [call -> what became of it at the provider]
    noted,       \* [call -> its observation in Run.metadata, in memory]
    saved        \* [call -> its observation in run.json]

calls == <<provider, noted, saved>>
vars == <<plan, piped, stage, gen, active, event, run, outcome, disk, calls>>

-----------------------------------------------------------------------------
Open == {"pending", "running"}
Ended == {"completed", "failed", "interrupted", "cancelled"}
EndEvents == {"completed", "failed", "interrupted", "cancelled"}   \* STEP_COMPLETED, ...
NoEvent == [type |-> "none"]

\* A BaseEngine takes a fresh ID for each execution: its stage number will do.
Ids == CustomIds \cup (1..MaxStages)
Custom == plan[stage] = "custom"

Calls == 1..MaxCalls
Unseen == [status |-> "none", whole |-> FALSE]

Init ==
    /\ plan \in Plans /\ piped \in {TRUE, Len(plan) > 1}
    /\ stage = 1 /\ gen = "new" /\ active = {} /\ event = NoEvent
    /\ run = "pull" /\ outcome = "none"
    /\ disk = [s \in Ids |-> "none"]
    /\ provider = [c \in Calls |-> "none"]
    /\ noted = [c \in Calls |-> Unseen] /\ saved = [c \in Calls |-> Unseen]

End(how) == run' = "closing" /\ outcome' = how

-----------------------------------------------------------------------------
(* A stage yields.                                                           *)

\* What the pipeline notes of an event that passes through it.
Tracked(type, id) ==
    IF type = "started" THEN active \cup {id}
    ELSE IF type = "completed" THEN active \ {id}
    ELSE active

Yield(type, id) ==
    /\ event' = [type |-> type, id |-> id]
    /\ active' = Tracked(type, id)
    /\ run' = "record"
    /\ UNCHANGED <<plan, piped, stage, outcome, disk, calls>>

\* The pipeline raises once the event of a Step that did not complete was recorded.
MayPull == run = "pull" /\ ~(piped /\ event.type \in EndEvents \ {"completed"})

\* execute(): STEP_STARTED, the operation, then STEP_COMPLETED or STEP_FAILED.
BaseStarts == MayPull /\ ~Custom /\ gen = "new" /\ gen' = "operating" /\ Yield("started", stage)
BaseCompletes ==
    MayPull /\ ~Custom /\ gen = "operating" /\ gen' = "completed" /\ Yield("completed", stage)

\* The operation raises, or its deadline turns a cancellation into TimeoutError.
BaseFails ==
    /\ MayPull /\ ~Custom /\ gen \in {"operating", "asked", "calling"}
    /\ gen' = "failed" /\ Yield("failed", stage)

CustomYields ==
    /\ MayPull /\ Custom /\ gen \in {"new", "operating"} /\ gen' = "operating"
    /\ \E id \in CustomIds, type \in {"started"} \cup EndEvents : Yield(type, id)

-----------------------------------------------------------------------------
(* The operation of a BaseEngine streams completions.  Each is observed       *)
(* before the provider is called and again when the stream is over; the       *)
(* operation may catch the error of one and go on.                            *)

Observe(c, status, whole) ==
    /\ event' = [type |-> "completion", call |-> c,
                 seen |-> [status |-> status, whole |-> whole]]
    /\ run' = "record"
    /\ UNCHANGED <<plan, piped, stage, active, outcome, disk, noted, saved>>

InCall(c) == MayPull /\ gen \in {"asked", "calling"} /\ event.type = "completion" /\ event.call = c

\* Mutant: the provider is called first.
BaseAsks_Late(c) ==
    /\ MayPull /\ ~Custom /\ gen = "operating" /\ provider[c] = "none"
    /\ gen' = "asked" /\ provider' = [provider EXCEPT ![c] = "called"]
    /\ Observe(c, "running", FALSE)
BaseAsks(c) ==
    /\ MayPull /\ ~Custom /\ gen = "operating" /\ noted[c] = Unseen
    /\ gen' = "asked" /\ Observe(c, "running", FALSE) /\ UNCHANGED provider

CallProvider(c) ==
    /\ InCall(c) /\ gen = "asked"
    /\ gen' = "calling" /\ provider' = [provider EXCEPT ![c] = "called"]
    /\ UNCHANGED <<plan, piped, stage, active, event, run, outcome, disk, noted, saved>>

\* A chunk brings the model, usage so far or a finish reason.
ChunkObserved(c) ==
    /\ InCall(c) /\ gen = "calling"
    /\ Observe(c, "running", FALSE) /\ UNCHANGED <<gen, provider>>

\* The stream is over, with usage or without; what it brought is then accepted or not.
StreamOver(c, status, whole) ==
    /\ InCall(c) /\ gen = "calling"
    /\ gen' = "operating" /\ provider' = [provider EXCEPT ![c] = "answered"]
    /\ Observe(c, status, whole)

\* Its parameters are refused, or the provider or a chunk fails.
CallBreaks(c) ==
    /\ InCall(c)
    /\ gen' = "operating" /\ Observe(c, "failed", FALSE) /\ UNCHANGED provider

-----------------------------------------------------------------------------
(* A stage ends.                                                             *)

\* Its exception reaches _consume; an Engine, its context or its capabilities that
\* cannot be prepared end the Run before the first stage begins.
StageRaises ==
    /\ MayPull /\ (Custom \/ gen = "failed" \/ (stage = 1 /\ gen = "new"))
    /\ gen' = "closed" /\ End("failed")
    /\ UNCHANGED <<plan, piped, stage, active, event, disk, calls>>

\* Mutant: a stage that ends is taken to have completed its Steps.
StageEnds_Unchecked ==
    /\ MayPull /\ (Custom \/ gen = "completed")
    /\ IF stage < Len(plan)
       THEN stage' = stage + 1 /\ gen' = "new" /\ active' = {} /\ event' = NoEvent
              /\ UNCHANGED <<run, outcome>>
       ELSE gen' = "closed" /\ run' = "verify" /\ UNCHANGED <<stage, active, event, outcome>>
    /\ UNCHANGED <<plan, piped, disk, calls>>

\* It returns: the pipeline refuses unfinished Steps, or goes on to the next stage.
StageEnds ==
    /\ MayPull /\ (Custom \/ gen = "completed")
    /\ IF piped /\ active # {}
       THEN gen' = "closed" /\ End("failed") /\ UNCHANGED <<stage, active, event>>
       ELSE IF stage < Len(plan)
       THEN stage' = stage + 1 /\ gen' = "new" /\ active' = {} /\ event' = NoEvent
              /\ UNCHANGED <<run, outcome>>
       ELSE gen' = "closed" /\ run' = "verify" /\ UNCHANGED <<stage, active, event, outcome>>
    /\ UNCHANGED <<plan, piped, disk, calls>>

\* PipelineError after a Step that did not complete; the stage is closed.
PipelineStops ==
    /\ run = "pull" /\ ~MayPull
    /\ gen' = "closed" /\ End("failed")
    /\ UNCHANGED <<plan, piped, stage, active, event, disk, calls>>

-----------------------------------------------------------------------------
(* record(): refused events raise in _consume, which closes the stages.      *)

\* Mutant: any known Step may be ended, terminal ones too.
Acceptable_AnyEnd ==
    \/ event.type = "started" /\ disk[event.id] = "none"
    \/ event.type \in EndEvents /\ disk[event.id] # "none"

Acceptable ==
    \/ event.type = "started" /\ disk[event.id] = "none"
    \/ event.type = "completed" /\ disk[event.id] = "running"
    \/ event.type \in {"failed", "interrupted", "cancelled"} /\ disk[event.id] \in Open

Recorded == IF event.type = "started" THEN "pending" ELSE event.type

Record ==
    /\ run = "record" /\ Acceptable
    /\ disk' = [disk EXCEPT ![event.id] = Recorded]
    /\ run' = IF event.type = "started" THEN "start" ELSE "pull"
    /\ UNCHANGED <<plan, piped, stage, gen, active, event, outcome, calls>>

RecordStart ==
    /\ run = "start"
    /\ disk' = [disk EXCEPT ![event.id] = "running"] /\ run' = "pull"
    /\ UNCHANGED <<plan, piped, stage, gen, active, event, outcome, calls>>

\* _record_completion: in Run.metadata, then run.json.
Observing == run = "record" /\ event.type = "completion"
Noted == [noted EXCEPT ![event.call] = event.seen]

RecordCompletion ==
    /\ Observing
    /\ noted' = Noted /\ saved' = Noted /\ run' = "pull"
    /\ UNCHANGED <<plan, piped, stage, gen, active, event, outcome, disk, provider>>

\* The recorder refuses the event, or a write of it fails; a completion's is noted
\* in memory by then, and the write may have reached the disk.
RecordRaises ==
    /\ run \in {"record", "start"}
    /\ IF Observing THEN noted' = Noted /\ saved' \in {saved, Noted}
                    ELSE UNCHANGED <<noted, saved>>
    /\ gen' = "closed" /\ End("failed")
    /\ UNCHANGED <<plan, piped, stage, active, event, disk, provider>>

\* A cancellation: one that comes while an event is recorded waits for the writes.
Cancelled ==
    /\ \/ run \in {"pull", "verify"} /\ UNCHANGED <<disk, noted, saved>>
       \/ Observing /\ noted' = Noted /\ saved' = Noted /\ UNCHANGED disk
       \/ /\ run = "record" /\ Acceptable /\ UNCHANGED <<noted, saved>>
          /\ disk' = [disk EXCEPT ![event.id] =
                          IF event.type = "started" THEN "running" ELSE Recorded]
    /\ gen' = "closed" /\ End("interrupted")
    /\ UNCHANGED <<plan, piped, stage, active, event, provider>>

-----------------------------------------------------------------------------
(* The end of _consume, and _finish.                                         *)

\* Mutant: only Steps that are still running are looked at.
Verified_NoFailed == \A s \in Ids : disk[s] \notin Open

Verified == \A s \in Ids : disk[s] \notin Open \cup {"failed"}

Verify ==
    /\ run = "verify"
    /\ End(IF Verified THEN "completed" ELSE "failed")
    /\ UNCHANGED <<plan, piped, stage, gen, active, event, disk, calls>>

CloseStep(s) ==
    /\ run = "closing" /\ disk[s] \in Open
    /\ disk' = [disk EXCEPT ![s] = IF outcome = "failed" THEN "failed" ELSE "interrupted"]
    /\ UNCHANGED <<plan, piped, stage, gen, active, event, run, outcome, calls>>

\* ExecutionResult.from_run: the usage of all completions, or None.
TotalKnown ==
    LET counted == {c \in Calls : saved[c] # Unseen}
    IN  counted # {} /\ \A c \in counted : saved[c].whole

\* CompletionResult.for_run: an observation does not outlive its Run.
Settled(seen) ==
    [c \in Calls |->
        IF seen[c].status = "running"
        THEN [seen[c] EXCEPT !.status = IF outcome = "completed" THEN "interrupted" ELSE outcome]
        ELSE seen[c]]

Finish ==
    /\ run = "closing" /\ \A s \in Ids : disk[s] \notin Open
    /\ run' = outcome /\ noted' = Settled(noted) /\ saved' = Settled(noted)
    /\ UNCHANGED <<plan, piped, stage, gen, active, event, outcome, disk, provider>>

\* The process dies; the next one's recovery interrupts the Run and its Steps, from
\* what run.json has.
Crash ==
    /\ run \notin Ended
    /\ gen' = "closed" /\ End("interrupted") /\ noted' = saved
    /\ UNCHANGED <<plan, piped, stage, active, event, disk, provider, saved>>

-----------------------------------------------------------------------------
Next ==
    \/ BaseStarts \/ BaseCompletes \/ BaseFails \/ CustomYields
    \/ \E c \in Calls :
        \/ BaseAsks(c) \/ CallProvider(c) \/ ChunkObserved(c) \/ CallBreaks(c)
        \/ \E status \in {"completed", "failed"}, whole \in BOOLEAN : StreamOver(c, status, whole)
    \/ StageRaises \/ StageEnds \/ PipelineStops
    \/ Record \/ RecordStart \/ RecordCompletion \/ RecordRaises \/ Cancelled
    \/ Verify \/ (\E s \in Ids : CloseStep(s)) \/ Finish \/ Crash

Spec == Init /\ [][Next]_vars

-----------------------------------------------------------------------------
(* Properties.                                                               *)

\* A Run that completed has no Step that is open or failed; a pipeline that completed
\* has been through every stage and completed every Step.  However a Run ended, no
\* Step of it is left open.
RunAgreesWithSteps ==
    /\ run = "completed" =>
        /\ \A s \in Ids : disk[s] \notin Open \cup {"failed"}
        /\ piped => stage = Len(plan) /\ \A s \in Ids : disk[s] \in {"none", "completed"}
    /\ run \in Ended => \A s \in Ids : disk[s] \notin Open

\* A pipeline never begins a stage while a Step of an earlier one is open on disk or
\* ended otherwise than completed, whatever its Engine swallowed.
NoStageAfterFailure ==
    [][stage' # stage => \A s \in Ids : disk[s] \in {"none", "completed"}]_vars

\* A Step is ended once: no event, late or repeated, and no closing of the Run changes
\* how it ended, and none starts it again.
EndedOnce ==
    [][\A s \in Ids : disk[s] \in Ended => disk'[s] = disk[s]]_vars

\* What a query of the Run's results may believe.  At every instant, a total of usage
\* is known only if each completion that was asked of the provider has ended and is
\* counted in full; once the Run has ended, each has an observation that has ended,
\* and says completed only of a stream that came to its end (core/results.py,
\* from_run and for_run; a custom Engine's own completions are not counted).
UsageIsWhole ==
    /\ TotalKnown => \A c \in Calls : provider[c] # "none" => saved[c].whole /\ provider[c] = "answered"
    /\ run \in Ended => \A c \in Calls :
        /\ provider[c] # "none" => saved[c] # Unseen
        /\ saved[c].status # "running"
        /\ saved[c].status = "completed" => provider[c] = "answered"

=============================================================================
