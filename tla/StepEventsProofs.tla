---------------------------- MODULE StepEventsProofs ----------------------------
(***************************************************************************)
(* The properties of StepEvents for any Engines, pipelines of any length,  *)
(* Step IDs and numbers of completions: EndedOnce, NoStageAfterFailure,    *)
(* RunAgreesWithSteps and UsageIsWhole.                                    *)
(*                                                                         *)
(* The pipeline looks at events and never at the disk; PipeInv ties the    *)
(* two: a Step that is not in its active set has not begun or has          *)
(* completed, except for the one whose event is being recorded.  CallInv   *)
(* says that an observation reaches run.json before the provider is        *)
(* called, and says completed or whole only of a stream that is over.      *)
(***************************************************************************)
EXTENDS StepEvents, TLAPS

StepTypes == {"started"} \cup EndEvents
Observation ==
    {Unseen} \cup [status : {"running", "completed", "failed", "interrupted"}, whole : BOOLEAN]

EventOK ==
    /\ event.type \in StepTypes \cup {"none", "completion"}
    /\ event.type \in StepTypes => event.id \in Ids
    /\ event.type = "completion" => event.call \in Calls /\ event.seen \in Observation \ {Unseen}
TypeOK ==
    /\ plan \in Plans /\ piped \in BOOLEAN /\ (Len(plan) > 1 => piped)
    /\ stage \in 1..Len(plan)
    /\ gen \in {"new", "operating", "asked", "calling", "completed", "failed", "closed"}
    /\ run \in {"pull", "record", "start", "verify", "closing"} \cup Ended
    /\ outcome \in {"none"} \cup Ended
    /\ disk \in [Ids -> {"none"} \cup Open \cup Ended]
    /\ provider \in [Calls -> {"none", "called", "answered"}]
    /\ noted \in [Calls -> Observation] /\ saved \in [Calls -> Observation]
    /\ EventOK

Clean(s) == disk[s] \in {"none", "completed"}

\* A Step whose start is being recorded is pending.
StartInv == run = "start" => event.type = "started" /\ disk[event.id] = "pending"

\* What the pipeline's active set says about the disk.
PipeInv == piped =>
    /\ run \in {"pull", "start"} /\ event.type \notin EndEvents \ {"completed"} =>
           \A s \in Ids \ active : Clean(s)
    /\ run = "record" =>
           /\ event.type = "started" => event.id \in active
           /\ \A s \in Ids \ active : Clean(s) \/ (event.type \in EndEvents /\ s = event.id)
    /\ run = "verify" => stage = Len(plan) /\ \A s \in Ids : Clean(s)

\* How the Run may end.
EndInv ==
    /\ run = "closing" => outcome \in {"completed", "failed", "interrupted"}
    /\ run \in Ended => run = outcome /\ \A s \in Ids : disk[s] \notin Open
    /\ outcome = "completed" =>
        /\ run \in {"closing", "completed"}
        /\ \A s \in Ids : disk[s] \notin Open \cup {"failed"}
        /\ piped => stage = Len(plan) /\ \A s \in Ids : Clean(s)

\* What an observation may say of a call.
Honest(o, c) == o.whole \/ o.status = "completed" => provider[c] = "answered"
CallInv ==
    /\ \A c \in Calls :
        /\ provider[c] # "none" => saved[c] # Unseen /\ noted[c] # Unseen
        /\ Honest(saved[c], c) /\ Honest(noted[c], c)
        /\ run \in Ended => saved[c].status # "running"
    /\ run = "record" /\ event.type = "completion" => Honest(event.seen, event.call)
    /\ run \in {"record", "start", "pull"} /\ gen \in {"asked", "calling"} =>
           event.type = "completion" /\ (provider[event.call] = "none" <=> gen = "asked")
    /\ run = "pull" /\ gen = "asked" => saved[event.call] # Unseen /\ noted[event.call] # Unseen

StepInv == TypeOK /\ StartInv /\ PipeInv /\ EndInv /\ CallInv

-----------------------------------------------------------------------------
(* Types.                                                                    *)

LEMMA Stages ==
    ASSUME TypeOK
    PROVE  stage \in Ids /\ Len(plan) \in Nat /\ CustomIds \subseteq Ids
<1>1. Len(plan) \in 1..MaxStages /\ MaxStages \in Nat
  BY PlansAssumption DEF TypeOK
<1>q. QED
  BY <1>1 DEF TypeOK, Ids

LEMMA Observed ==
    ASSUME NEW o \in Observation
    PROVE  /\ o = Unseen => o.status = "none" /\ o.whole = FALSE
           /\ o # Unseen => o.status \in {"running", "completed", "failed", "interrupted"}
BY DEF Observation, Unseen

LEMMA Seen ==
    ASSUME NEW status \in {"running", "completed", "failed"}, NEW whole \in BOOLEAN
    PROVE  [status |-> status, whole |-> whole] \in Observation \ {Unseen}
BY DEF Observation, Unseen

LEMMA StepInit == Init => StepInv
<1> SUFFICES ASSUME Init
             PROVE  StepInv
  OBVIOUS
<1>1. Unseen \in Observation /\ Unseen.whole = FALSE /\ Unseen.status = "none"
  BY DEF Observation, Unseen
<1>2. plan \in Plans /\ Len(plan) \in 1..MaxStages /\ MaxStages \in Nat
  BY PlansAssumption DEF Init
<1>3. piped \in BOOLEAN /\ (Len(plan) > 1 => piped)
  <2> DEFINE long == Len(plan) > 1
  <2>1. long \in BOOLEAN
    BY <1>2, SMT
  <2>2. piped = TRUE \/ piped = long
    BY DEF Init
  <2> HIDE DEF long
  <2>q. QED
    BY <2>1, <2>2, Zenon DEF long
<1>4. EventOK
  BY DEF Init, EventOK, NoEvent, StepTypes, EndEvents
<1>5. /\ run = "pull" /\ outcome = "none" /\ gen = "new" /\ stage = 1
      /\ disk = [s \in Ids |-> "none"] /\ provider = [c \in Calls |-> "none"]
      /\ noted = [c \in Calls |-> Unseen] /\ saved = [c \in Calls |-> Unseen]
  BY DEF Init
<1>6. TypeOK
  BY <1>1, <1>2, <1>3, <1>4, <1>5 DEF TypeOK, Open, Ended
<1>7. StartInv /\ PipeInv /\ EndInv
  BY <1>5 DEF StartInv, PipeInv, EndInv, Clean, Ended, Open
<1>8. CallInv
  BY <1>1, <1>5 DEF CallInv, Honest, Ended
<1>q. QED
  BY <1>6, <1>7, <1>8 DEF StepInv

-----------------------------------------------------------------------------
(* A stage yields.                                                           *)

LEMMA YieldKeeps ==
    ASSUME StepInv, MayPull, NEW type \in StepTypes, NEW id \in Ids, Yield(type, id),
           gen' \in {"operating", "completed", "failed"}
    PROVE  StepInv'
<1>1. /\ event' = [type |-> type, id |-> id] /\ active' = Tracked(type, id) /\ run' = "record"
      /\ plan' = plan /\ piped' = piped /\ stage' = stage /\ outcome' = outcome /\ disk' = disk
      /\ provider' = provider /\ noted' = noted /\ saved' = saved
  BY DEF Yield, calls
<1>2. TypeOK /\ run = "pull" /\ ~(piped /\ event.type \in EndEvents \ {"completed"})
  BY DEF StepInv, MayPull
<1>3. event'.type = type /\ event'.id = id
  BY <1>1
<1>4. EventOK'
  BY <1>3 DEF EventOK, StepTypes, EndEvents
<1>5. TypeOK'
  BY <1>1, <1>2, <1>4 DEF TypeOK
<1>6. StartInv'
  BY <1>1 DEF StartInv
<1>7. PipeInv'
  <2>1. type = "started" => id \in active'
    BY <1>1 DEF Tracked
  <2>2. ASSUME piped, NEW s \in Ids \ active'
        PROVE  Clean(s) \/ (type \in EndEvents /\ s = id)
    <3>1. s \notin active \/ (type = "completed" /\ s = id)
      BY <2>2, <1>1 DEF Tracked
    <3>2. s \notin active => Clean(s)
      BY <2>2, <1>2 DEF StepInv, PipeInv
    <3>q. QED
      BY <3>1, <3>2 DEF EndEvents
  <2>q. QED
    BY <1>1, <1>3, <2>1, <2>2 DEF PipeInv, Clean
<1>8. EndInv'
  BY <1>1, <1>2 DEF StepInv, EndInv, Ended
<1>9. CallInv'
  BY <1>1, <1>2, <1>3 DEF StepInv, CallInv, Honest, Ended, StepTypes, EndEvents
<1>q. QED
  BY <1>5, <1>6, <1>7, <1>8, <1>9 DEF StepInv

LEMMA StageYieldsKeeps ==
    ASSUME StepInv, BaseStarts \/ BaseCompletes \/ BaseFails \/ CustomYields
    PROVE  StepInv'
<1>1. TypeOK /\ stage \in Ids /\ CustomIds \subseteq Ids
  BY Stages DEF StepInv
<1>2. \E type \in StepTypes, id \in Ids :
          MayPull /\ Yield(type, id) /\ gen' \in {"operating", "completed", "failed"}
  BY <1>1 DEF BaseStarts, BaseCompletes, BaseFails, CustomYields, StepTypes, EndEvents
<1>q. QED
  BY <1>2, YieldKeeps

-----------------------------------------------------------------------------
(* Completions.                                                              *)

\* What every observation has in common.
LEMMA ObserveKeeps ==
    ASSUME StepInv, MayPull, NEW c \in Calls, NEW status \in {"running", "completed", "failed"},
           NEW whole \in BOOLEAN, Observe(c, status, whole),
           gen' \in {"operating", "asked", "calling"},
           provider' \in [Calls -> {"none", "called", "answered"}],
           \A d \in Calls : provider'[d] # "none" => provider[d] # "none",
           \A d \in Calls : provider[d] = "answered" => provider'[d] = "answered",
           whole \/ status = "completed" => provider'[c] = "answered",
           gen' \in {"asked", "calling"} => (provider'[c] = "none" <=> gen' = "asked")
    PROVE  StepInv'
<1>1. /\ run' = "record" /\ event'.type = "completion" /\ event'.call = c
      /\ event'.seen = [status |-> status, whole |-> whole]
      /\ plan' = plan /\ piped' = piped /\ stage' = stage /\ active' = active
      /\ outcome' = outcome /\ disk' = disk /\ noted' = noted /\ saved' = saved
  BY DEF Observe
<1>2. TypeOK /\ run = "pull" /\ ~(piped /\ event.type \in EndEvents \ {"completed"})
  BY DEF StepInv, MayPull
<1>3. [status |-> status, whole |-> whole] \in Observation \ {Unseen}
  BY Seen
<1>4. EventOK'
  BY <1>1, <1>3 DEF EventOK, StepTypes, EndEvents
<1>5. TypeOK'
  BY <1>1, <1>2, <1>4 DEF TypeOK
<1>6. StartInv'
  BY <1>1 DEF StartInv
<1>7. PipeInv'
  BY <1>1, <1>2 DEF StepInv, PipeInv, Clean
<1>8. EndInv'
  BY <1>1, <1>2 DEF StepInv, EndInv, Ended
<1>9. CallInv'
  <2>1. Honest(event.seen, event.call)'
    BY <1>1 DEF Honest
  <2>2. ASSUME NEW d \in Calls
        PROVE  /\ provider'[d] # "none" => saved'[d] # Unseen /\ noted'[d] # Unseen
               /\ Honest(saved[d], d)' /\ Honest(noted[d], d)'
    BY <1>1 DEF StepInv, CallInv, Honest
  <2>q. QED
    BY <1>1, <2>1, <2>2 DEF CallInv, Ended
<1>q. QED
  BY <1>5, <1>6, <1>7, <1>8, <1>9 DEF StepInv

LEMMA AsksKeeps == ASSUME StepInv, NEW c \in Calls, BaseAsks(c) PROVE StepInv'
<1>1. MayPull /\ noted[c] = Unseen /\ gen' = "asked" /\ Observe(c, "running", FALSE)
      /\ provider' = provider
  BY DEF BaseAsks
<1>2. provider[c] = "none" /\ provider \in [Calls -> {"none", "called", "answered"}]
  BY <1>1 DEF StepInv, CallInv, TypeOK
<1>q. QED
  BY <1>1, <1>2, ObserveKeeps

LEMMA ChunkKeeps ==
    ASSUME StepInv, NEW c \in Calls, ChunkObserved(c) \/ CallBreaks(c)
    PROVE  StepInv'
<1>1. PICK status \in {"running", "failed"} :
          /\ MayPull /\ gen' \in {"calling", "operating"} /\ Observe(c, status, FALSE)
          /\ provider' = provider
  BY DEF ChunkObserved, CallBreaks, InCall
<1>2. provider \in [Calls -> {"none", "called", "answered"}]
  BY DEF StepInv, TypeOK
<1>3. gen' = "calling" => provider[c] # "none"
  BY DEF ChunkObserved, CallBreaks, InCall, MayPull, StepInv, CallInv
<1>q. QED
  BY <1>1, <1>2, <1>3, ObserveKeeps

LEMMA StreamOverKeeps ==
    ASSUME StepInv, NEW c \in Calls, NEW status \in {"completed", "failed"},
           NEW whole \in BOOLEAN, StreamOver(c, status, whole)
    PROVE  StepInv'
<1>1. /\ MayPull /\ gen' = "operating" /\ Observe(c, status, whole)
      /\ provider' = [provider EXCEPT ![c] = "answered"]
  BY DEF StreamOver, InCall
<1>2. provider \in [Calls -> {"none", "called", "answered"}]
  BY DEF StepInv, TypeOK
<1>3. provider[c] # "none"
  BY DEF StreamOver, InCall, MayPull, StepInv, CallInv
<1>4. /\ provider' \in [Calls -> {"none", "called", "answered"}] /\ provider'[c] = "answered"
      /\ \A d \in Calls : d # c => provider'[d] = provider[d]
  BY <1>1, <1>2
<1>q. QED
  BY <1>1, <1>3, <1>4, ObserveKeeps

LEMMA CallProviderKeeps == ASSUME StepInv, NEW c \in Calls, CallProvider(c) PROVE StepInv'
<1>1. /\ gen = "asked" /\ gen' = "calling" /\ run = "pull"
      /\ event.type = "completion" /\ event.call = c
      /\ provider' = [provider EXCEPT ![c] = "called"]
      /\ plan' = plan /\ piped' = piped /\ stage' = stage /\ active' = active /\ event' = event
      /\ run' = run /\ outcome' = outcome /\ disk' = disk /\ noted' = noted /\ saved' = saved
  BY DEF CallProvider, InCall, MayPull
<1>2. TypeOK /\ provider[c] = "none" /\ saved[c] # Unseen /\ noted[c] # Unseen
  BY <1>1 DEF StepInv, CallInv
<1>3. provider'[c] = "called" /\ \A d \in Calls : d # c => provider'[d] = provider[d]
  BY <1>1, <1>2 DEF TypeOK
<1>4. TypeOK'
  BY <1>1, <1>2 DEF TypeOK, EventOK
<1>5. StartInv' /\ PipeInv' /\ EndInv'
  BY <1>1 DEF StepInv, StartInv, PipeInv, EndInv, Clean, Ended
<1>6. ASSUME NEW d \in Calls
      PROVE  /\ provider'[d] # "none" => saved'[d] # Unseen /\ noted'[d] # Unseen
             /\ Honest(saved[d], d)' /\ Honest(noted[d], d)'
  BY <1>1, <1>2, <1>3 DEF StepInv, CallInv, Honest
<1>7. CallInv'
  BY <1>1, <1>3, <1>6 DEF CallInv, Ended
<1>q. QED
  BY <1>4, <1>5, <1>7 DEF StepInv

-----------------------------------------------------------------------------
(* The Run closes.                                                           *)

\* Whatever ended the execution before its last stage did.
LEMMA ClosingKeeps ==
    ASSUME StepInv, NEW how \in {"failed", "interrupted"}, End(how),
           UNCHANGED <<plan, piped, stage, active, event, provider>>, gen' = "closed",
           disk' \in [Ids -> {"none"} \cup Open \cup Ended],
           noted' \in [Calls -> Observation], saved' \in [Calls -> Observation],
           \A c \in Calls :
               /\ provider[c] # "none" => saved'[c] # Unseen /\ noted'[c] # Unseen
               /\ Honest(saved'[c], c) /\ Honest(noted'[c], c)
    PROVE  StepInv'
<1>1. run' = "closing" /\ outcome' = how /\ gen' = "closed"
  BY DEF End
<1>2. TypeOK'
  BY <1>1 DEF StepInv, TypeOK, EventOK, Ended
<1>3. StartInv' /\ PipeInv' /\ EndInv'
  BY <1>1 DEF StartInv, PipeInv, EndInv, Ended
<1>4. CallInv'
  BY <1>1 DEF CallInv, Honest, Ended
<1>q. QED
  BY <1>2, <1>3, <1>4 DEF StepInv

LEMMA EndsEarlyKeeps == ASSUME StepInv, StageRaises \/ PipelineStops PROVE StepInv'
<1>1. /\ End("failed") /\ gen' = "closed"
      /\ UNCHANGED <<plan, piped, stage, active, event, provider>>
      /\ disk' = disk /\ noted' = noted /\ saved' = saved
  BY DEF StageRaises, PipelineStops, calls
<1>2. /\ disk \in [Ids -> {"none"} \cup Open \cup Ended]
      /\ noted \in [Calls -> Observation] /\ saved \in [Calls -> Observation]
  BY DEF StepInv, TypeOK
<1>3. \A c \in Calls :
          /\ provider[c] # "none" => saved[c] # Unseen /\ noted[c] # Unseen
          /\ Honest(saved[c], c) /\ Honest(noted[c], c)
  BY DEF StepInv, CallInv
<1>q. QED
  BY <1>1, <1>2, <1>3, ClosingKeeps

\* What may be known of the completions once the pending observation is noted.
LEMMA NotedHonest ==
    ASSUME StepInv, Observing
    PROVE  /\ Noted \in [Calls -> Observation]
           /\ Noted[event.call] = event.seen /\ event.call \in Calls /\ event.seen # Unseen
           /\ \A c \in Calls : c # event.call => Noted[c] = noted[c]
           /\ \A c \in Calls : provider[c] # "none" => Noted[c] # Unseen
           /\ \A c \in Calls : Honest(Noted[c], c)
<1>1. /\ event.call \in Calls /\ event.seen \in Observation \ {Unseen}
      /\ noted \in [Calls -> Observation]
  BY DEF Observing, StepInv, TypeOK, EventOK
<1>2. /\ Noted \in [Calls -> Observation] /\ Noted[event.call] = event.seen
      /\ \A c \in Calls : c # event.call => Noted[c] = noted[c]
  BY <1>1 DEF Noted
<1>3. Honest(event.seen, event.call)
  BY DEF Observing, StepInv, CallInv
<1>4. \A c \in Calls : /\ provider[c] # "none" => noted[c] # Unseen
                       /\ Honest(noted[c], c)
  BY DEF StepInv, CallInv
<1>q. QED
  BY <1>1, <1>2, <1>3, <1>4

LEMMA RaisesKeeps == ASSUME StepInv, RecordRaises PROVE StepInv'
<1>1. /\ End("failed") /\ gen' = "closed"
      /\ UNCHANGED <<plan, piped, stage, active, event, provider>> /\ disk' = disk
  BY DEF RecordRaises
<1>2. /\ disk \in [Ids -> {"none"} \cup Open \cup Ended]
      /\ noted \in [Calls -> Observation] /\ saved \in [Calls -> Observation]
  BY DEF StepInv, TypeOK
<1>3. \A c \in Calls :
          /\ provider[c] # "none" => saved[c] # Unseen /\ noted[c] # Unseen
          /\ Honest(saved[c], c) /\ Honest(noted[c], c)
  BY DEF StepInv, CallInv
<1>4. CASE Observing
  <2>1. noted' = Noted /\ saved' \in {saved, Noted}
    BY <1>4 DEF RecordRaises
  <2>2. /\ Noted \in [Calls -> Observation]
        /\ \A c \in Calls : provider[c] # "none" => Noted[c] # Unseen
        /\ \A c \in Calls : Honest(Noted[c], c)
    BY <1>4, NotedHonest
  <2>q. QED
    BY <1>1, <1>2, <1>3, <2>1, <2>2, ClosingKeeps
<1>5. CASE ~Observing
  <2>1. noted' = noted /\ saved' = saved
    BY <1>5 DEF RecordRaises
  <2>q. QED
    BY <1>1, <1>2, <1>3, <2>1, ClosingKeeps
<1>q. QED
  BY <1>4, <1>5

LEMMA AcceptedTyped ==
    ASSUME TypeOK, Acceptable
    PROVE  /\ event.type \in StepTypes /\ event.id \in Ids
           /\ disk[event.id] \in {"none"} \cup Open
           /\ Recorded \in {"pending"} \cup EndEvents
BY DEF TypeOK, EventOK, Acceptable, StepTypes, EndEvents, Open, Recorded

LEMMA CancelledKeeps == ASSUME StepInv, Cancelled PROVE StepInv'
<1>1. /\ End("interrupted") /\ gen' = "closed"
      /\ UNCHANGED <<plan, piped, stage, active, event, provider>>
  BY DEF Cancelled
<1>2. /\ disk \in [Ids -> {"none"} \cup Open \cup Ended]
      /\ noted \in [Calls -> Observation] /\ saved \in [Calls -> Observation] /\ TypeOK
  BY DEF StepInv, TypeOK
<1>3. \A c \in Calls :
          /\ provider[c] # "none" => saved[c] # Unseen /\ noted[c] # Unseen
          /\ Honest(saved[c], c) /\ Honest(noted[c], c)
  BY DEF StepInv, CallInv
<1>4. CASE UNCHANGED <<disk, noted, saved>>
  BY <1>1, <1>2, <1>3, <1>4, ClosingKeeps
<1>5. CASE Observing /\ noted' = Noted /\ saved' = Noted /\ disk' = disk
  <2>1. /\ Noted \in [Calls -> Observation]
        /\ \A c \in Calls : provider[c] # "none" => Noted[c] # Unseen
        /\ \A c \in Calls : Honest(Noted[c], c)
    BY <1>5, NotedHonest
  <2>q. QED
    BY <1>1, <1>2, <1>5, <2>1, ClosingKeeps
<1>6. CASE /\ run = "record" /\ Acceptable /\ UNCHANGED <<noted, saved>>
           /\ disk' = [disk EXCEPT ![event.id] =
                           IF event.type = "started" THEN "running" ELSE Recorded]
  <2>1. disk' \in [Ids -> {"none"} \cup Open \cup Ended]
    BY <1>2, <1>6, AcceptedTyped DEF Open, Ended, EndEvents
  <2>q. QED
    BY <1>1, <1>2, <1>3, <1>6, <2>1, ClosingKeeps
<1>q. QED
  BY <1>4, <1>5, <1>6 DEF Cancelled

LEMMA CrashKeeps == ASSUME StepInv, Crash PROVE StepInv'
<1>1. /\ End("interrupted") /\ gen' = "closed" /\ noted' = saved /\ saved' = saved
      /\ UNCHANGED <<plan, piped, stage, active, event, provider>> /\ disk' = disk
  BY DEF Crash
<1>2. /\ disk \in [Ids -> {"none"} \cup Open \cup Ended]
      /\ saved \in [Calls -> Observation]
  BY DEF StepInv, TypeOK
<1>3. \A c \in Calls : /\ provider[c] # "none" => saved[c] # Unseen
                       /\ Honest(saved[c], c)
  BY DEF StepInv, CallInv
<1>q. QED
  BY <1>1, <1>2, <1>3, ClosingKeeps

-----------------------------------------------------------------------------
(* A stage ends, and events are recorded.                                    *)

LEMMA StageEndsKeeps == ASSUME StepInv, StageEnds PROVE StepInv'
<1>1. /\ run = "pull" /\ ~(piped /\ event.type \in EndEvents \ {"completed"})
      /\ plan' = plan /\ piped' = piped /\ disk' = disk
      /\ provider' = provider /\ noted' = noted /\ saved' = saved
  BY DEF StageEnds, MayPull, calls
<1>2. TypeOK /\ Len(plan) \in Nat /\ stage \in 1..Len(plan)
  BY Stages DEF StepInv, TypeOK
<1>3. piped => \A s \in Ids \ active : Clean(s)
  BY <1>1 DEF StepInv, PipeInv
<1>4. CASE piped /\ active # {}
  <2>1. End("failed") /\ gen' = "closed" /\ stage' = stage /\ active' = active /\ event' = event
    BY <1>4 DEF StageEnds
  <2>2. /\ disk \in [Ids -> {"none"} \cup Open \cup Ended]
        /\ noted \in [Calls -> Observation] /\ saved \in [Calls -> Observation]
    BY <1>2 DEF TypeOK
  <2>3. \A c \in Calls :
            /\ provider[c] # "none" => saved[c] # Unseen /\ noted[c] # Unseen
            /\ Honest(saved[c], c) /\ Honest(noted[c], c)
    BY DEF StepInv, CallInv
  <2>q. QED
    BY <1>1, <2>1, <2>2, <2>3, ClosingKeeps
<1>5. CASE ~(piped /\ active # {}) /\ stage < Len(plan)
  <2>1. /\ stage' = stage + 1 /\ gen' = "new" /\ active' = {} /\ event' = NoEvent
        /\ run' = run /\ outcome' = outcome
    BY <1>5 DEF StageEnds
  <2>2. event'.type = "none"
    BY <2>1 DEF NoEvent
  <2>3. EventOK'
    BY <2>2 DEF EventOK, StepTypes, EndEvents
  <2>4. stage' \in 1..Len(plan)
    BY <1>2, <1>5, <2>1
  <2>5. TypeOK'
    BY <1>1, <1>2, <2>1, <2>3, <2>4 DEF TypeOK
  <2>6. PipeInv'
    BY <1>1, <1>3, <1>5, <2>1 DEF PipeInv, Clean
  <2>7. StartInv' /\ EndInv'
    BY <1>1, <2>1 DEF StepInv, StartInv, EndInv, Ended
  <2>8. CallInv'
    BY <1>1, <2>1 DEF StepInv, CallInv, Honest, Ended
  <2>q. QED
    BY <2>5, <2>6, <2>7, <2>8 DEF StepInv
<1>6. CASE ~(piped /\ active # {}) /\ ~(stage < Len(plan))
  <2>1. /\ gen' = "closed" /\ run' = "verify" /\ stage' = stage /\ active' = active
        /\ event' = event /\ outcome' = outcome
    BY <1>6 DEF StageEnds
  <2>2. stage = Len(plan)
    BY <1>2, <1>6
  <2>3. TypeOK'
    BY <1>1, <1>2, <2>1 DEF TypeOK, EventOK
  <2>4. PipeInv'
    BY <1>1, <1>3, <1>6, <2>1, <2>2 DEF PipeInv, Clean
  <2>5. StartInv' /\ EndInv'
    BY <1>1, <2>1 DEF StepInv, StartInv, EndInv, Ended
  <2>6. CallInv'
    BY <1>1, <2>1 DEF StepInv, CallInv, Honest, Ended
  <2>q. QED
    BY <2>3, <2>4, <2>5, <2>6 DEF StepInv
<1>q. QED
  BY <1>4, <1>5, <1>6

LEMMA RecordKeeps == ASSUME StepInv, Record PROVE StepInv'
<1>1. /\ run = "record" /\ Acceptable /\ disk' = [disk EXCEPT ![event.id] = Recorded]
      /\ run' = IF event.type = "started" THEN "start" ELSE "pull"
      /\ plan' = plan /\ piped' = piped /\ stage' = stage /\ gen' = gen /\ active' = active
      /\ event' = event /\ outcome' = outcome
      /\ provider' = provider /\ noted' = noted /\ saved' = saved
  BY DEF Record, calls
<1>2. TypeOK /\ event.type \in StepTypes /\ event.id \in Ids /\ event.type # "completion"
  BY <1>1, AcceptedTyped DEF StepInv, StepTypes, EndEvents
<1>3. Recorded \in {"none"} \cup Open \cup Ended
  BY <1>1, <1>2, AcceptedTyped DEF Open, Ended, EndEvents
<1>4. disk'[event.id] = Recorded /\ \A s \in Ids : s # event.id => disk'[s] = disk[s]
  BY <1>1, <1>2 DEF TypeOK
<1>5. TypeOK'
  BY <1>1, <1>2, <1>3 DEF TypeOK, EventOK
<1>6. StartInv'
  <2> SUFFICES ASSUME event.type = "started"
               PROVE  disk'[event.id] = "pending"
    BY <1>1 DEF StartInv, Recorded
  <2>q. QED
    BY <1>4 DEF Recorded
<1>7. PipeInv'
  <2> SUFFICES ASSUME piped, event.type \notin EndEvents \ {"completed"}, NEW s \in Ids \ active
               PROVE  Clean(s)'
    BY <1>1 DEF PipeInv
  <2>1. CASE s # event.id
    BY <2>1, <1>1, <1>4 DEF StepInv, PipeInv, Clean
  <2>2. CASE s = event.id /\ event.type = "completed"
    BY <2>2, <1>4 DEF Recorded, Clean
  <2>3. CASE s = event.id /\ event.type = "started"
    BY <2>3, <1>1 DEF StepInv, PipeInv
  <2>q. QED
    BY <2>1, <2>2, <2>3, <1>2 DEF StepTypes, EndEvents
<1>8. EndInv'
  BY <1>1 DEF StepInv, EndInv, Ended
<1>9. CallInv'
  BY <1>1, <1>2 DEF StepInv, CallInv, Honest, Ended
<1>q. QED
  BY <1>5, <1>6, <1>7, <1>8, <1>9 DEF StepInv

LEMMA RecordStartKeeps == ASSUME StepInv, RecordStart PROVE StepInv'
<1>1. /\ run = "start" /\ run' = "pull" /\ disk' = [disk EXCEPT ![event.id] = "running"]
      /\ plan' = plan /\ piped' = piped /\ stage' = stage /\ gen' = gen /\ active' = active
      /\ event' = event /\ outcome' = outcome
      /\ provider' = provider /\ noted' = noted /\ saved' = saved
  BY DEF RecordStart, calls
<1>2. TypeOK /\ event.type = "started" /\ event.id \in Ids /\ disk[event.id] = "pending"
  BY <1>1 DEF StepInv, TypeOK, StartInv, EventOK, StepTypes
<1>3. disk'[event.id] = "running" /\ \A s \in Ids : s # event.id => disk'[s] = disk[s]
  BY <1>1, <1>2 DEF TypeOK
<1>4. TypeOK'
  BY <1>1, <1>2 DEF TypeOK, EventOK, Open
<1>5. StartInv'
  BY <1>1 DEF StartInv
<1>6. PipeInv'
  <2> SUFFICES ASSUME piped, NEW s \in Ids \ active
               PROVE  Clean(s)'
    BY <1>1 DEF PipeInv
  <2>1. Clean(s)
    BY <1>1, <1>2 DEF StepInv, PipeInv, EndEvents
  <2>2. s # event.id
    BY <1>2, <2>1 DEF Clean
  <2>q. QED
    BY <1>3, <2>1, <2>2 DEF Clean
<1>7. EndInv'
  BY <1>1 DEF StepInv, EndInv, Ended
<1>8. CallInv'
  BY <1>1, <1>2 DEF StepInv, CallInv, Honest, Ended
<1>q. QED
  BY <1>4, <1>5, <1>6, <1>7, <1>8 DEF StepInv

LEMMA RecordCompletionKeeps == ASSUME StepInv, RecordCompletion PROVE StepInv'
<1>1. /\ Observing /\ run' = "pull" /\ noted' = Noted /\ saved' = Noted
      /\ plan' = plan /\ piped' = piped /\ stage' = stage /\ gen' = gen /\ active' = active
      /\ event' = event /\ outcome' = outcome /\ disk' = disk /\ provider' = provider
  BY DEF RecordCompletion
<1>2. TypeOK /\ run = "record" /\ event.type = "completion"
  BY <1>1 DEF StepInv, Observing
<1>3. /\ Noted \in [Calls -> Observation]
      /\ Noted[event.call] = event.seen /\ event.seen # Unseen
      /\ \A c \in Calls : provider[c] # "none" => Noted[c] # Unseen
      /\ \A c \in Calls : Honest(Noted[c], c)
  BY <1>1, NotedHonest
<1>4. TypeOK'
  BY <1>1, <1>2, <1>3 DEF TypeOK, EventOK
<1>5. StartInv' /\ EndInv'
  BY <1>1, <1>2 DEF StepInv, StartInv, EndInv, Ended
<1>6. PipeInv'
  BY <1>1, <1>2 DEF StepInv, PipeInv, Clean, EndEvents
<1>7. noted'[event.call] # Unseen /\ saved'[event.call] # Unseen
  BY <1>1, <1>3
<1>8. CallInv'
  BY <1>1, <1>2, <1>3, <1>7 DEF StepInv, CallInv, Honest, Ended
<1>q. QED
  BY <1>4, <1>5, <1>6, <1>8 DEF StepInv

-----------------------------------------------------------------------------
(* The end of the Run.                                                       *)

LEMMA VerifyKeeps == ASSUME StepInv, Verify PROVE StepInv'
<1>1. /\ run = "verify" /\ run' = "closing"
      /\ outcome' = IF Verified THEN "completed" ELSE "failed"
      /\ plan' = plan /\ piped' = piped /\ stage' = stage /\ gen' = gen /\ active' = active
      /\ event' = event /\ disk' = disk
      /\ provider' = provider /\ noted' = noted /\ saved' = saved
  BY DEF Verify, End, calls
<1>2. TypeOK'
  BY <1>1 DEF StepInv, TypeOK, EventOK, Ended
<1>3. StartInv' /\ PipeInv'
  BY <1>1 DEF StartInv, PipeInv
<1>4. EndInv'
  BY <1>1 DEF StepInv, PipeInv, EndInv, Clean, Verified, Ended
<1>5. CallInv'
  BY <1>1 DEF StepInv, CallInv, Honest, Ended
<1>q. QED
  BY <1>2, <1>3, <1>4, <1>5 DEF StepInv

LEMMA CloseStepKeeps == ASSUME StepInv, NEW s \in Ids, CloseStep(s) PROVE StepInv'
<1>1. /\ run = "closing" /\ run' = run /\ outcome' = outcome /\ disk[s] \in Open
      /\ disk' = [disk EXCEPT ![s] = IF outcome = "failed" THEN "failed" ELSE "interrupted"]
      /\ plan' = plan /\ piped' = piped /\ stage' = stage /\ gen' = gen /\ active' = active
      /\ event' = event
      /\ provider' = provider /\ noted' = noted /\ saved' = saved
  BY DEF CloseStep, calls
<1>2. TypeOK'
  BY <1>1 DEF StepInv, TypeOK, EventOK, Ended
<1>3. StartInv' /\ PipeInv'
  BY <1>1 DEF StartInv, PipeInv
<1>4. outcome # "completed"
  BY <1>1 DEF StepInv, EndInv
<1>5. EndInv'
  BY <1>1, <1>4 DEF StepInv, EndInv, Ended
<1>6. CallInv'
  BY <1>1 DEF StepInv, CallInv, Honest, Ended
<1>q. QED
  BY <1>2, <1>3, <1>5, <1>6 DEF StepInv

LEMMA FinishKeeps == ASSUME StepInv, Finish PROVE StepInv'
<1> DEFINE end == IF outcome = "completed" THEN "interrupted" ELSE outcome
<1>1. /\ run = "closing" /\ run' = outcome /\ \A s \in Ids : disk[s] \notin Open
      /\ noted' = Settled(noted) /\ saved' = Settled(noted)
      /\ plan' = plan /\ piped' = piped /\ stage' = stage /\ gen' = gen /\ active' = active
      /\ event' = event /\ outcome' = outcome /\ disk' = disk /\ provider' = provider
  BY DEF Finish
<1>2. TypeOK /\ outcome \in {"completed", "failed", "interrupted"}
  BY <1>1 DEF StepInv, EndInv
<1>3. end \in {"failed", "interrupted"}
  BY <1>2
<1>4. Settled(noted) =
          [c \in Calls |-> IF noted[c].status = "running" THEN [noted[c] EXCEPT !.status = end]
                                                          ELSE noted[c]]
  BY DEF Settled
<1> HIDE DEF end
<1>5. ASSUME NEW c \in Calls
      PROVE  /\ noted'[c] \in Observation /\ noted'[c].status # "running"
             /\ noted[c] # Unseen => noted'[c] # Unseen
             /\ Honest(noted'[c], c)
  <2>1. noted[c] \in Observation /\ Honest(noted[c], c)
    BY <1>2 DEF TypeOK, StepInv, CallInv
  <2>2. CASE noted[c].status = "running"
    <3>1. noted[c].whole \in BOOLEAN /\ noted[c] = [status |-> "running", whole |-> noted[c].whole]
      BY <2>1, <2>2 DEF Observation, Unseen
    <3>2. noted'[c] = [noted[c] EXCEPT !.status = end]
      BY <1>1, <1>4, <2>2
    <3>3. noted'[c] = [status |-> end, whole |-> noted[c].whole]
      BY <3>1, <3>2
    <3>4. noted'[c] \in Observation \ {Unseen} /\ noted'[c].status = end
      BY <1>3, <3>1, <3>3 DEF Observation, Unseen
    <3>5. noted'[c].whole = noted[c].whole
      BY <3>3
    <3>q. QED
      BY <1>3, <2>1, <3>4, <3>5 DEF Honest
  <2>3. CASE noted[c].status # "running"
    <3>1. noted'[c] = noted[c]
      BY <1>1, <1>4, <2>3
    <3>q. QED
      BY <2>1, <2>3, <3>1
  <2>q. QED
    BY <2>2, <2>3
<1>6. noted' \in [Calls -> Observation] /\ saved' = noted'
  <2>1. noted' = [c \in Calls |-> noted'[c]]
    BY <1>1, <1>4
  <2>q. QED
    BY <1>1, <1>5, <2>1
<1>7. TypeOK'
  BY <1>1, <1>2, <1>6 DEF TypeOK, EventOK, Ended
<1>8. StartInv' /\ PipeInv'
  BY <1>1, <1>2 DEF StartInv, PipeInv
<1>9. EndInv'
  BY <1>1, <1>2 DEF StepInv, EndInv, Ended, Open, Clean
<1>10. CallInv'
  <2>1. ASSUME NEW c \in Calls
        PROVE  /\ provider'[c] # "none" => saved'[c] # Unseen /\ noted'[c] # Unseen
               /\ Honest(saved[c], c)' /\ Honest(noted[c], c)'
               /\ saved'[c].status # "running"
    BY <1>1, <1>5, <1>6 DEF StepInv, CallInv, Honest
  <2>q. QED
    BY <1>1, <1>2, <2>1 DEF CallInv
<1>q. QED
  BY <1>7, <1>8, <1>9, <1>10 DEF StepInv

LEMMA StepStep == StepInv /\ [Next]_vars => StepInv'
<1> SUFFICES ASSUME StepInv, [Next]_vars
             PROVE  StepInv'
  OBVIOUS
<1>1. CASE UNCHANGED vars
  <2>1. /\ plan' = plan /\ piped' = piped /\ stage' = stage /\ gen' = gen /\ active' = active
        /\ event' = event /\ run' = run /\ outcome' = outcome /\ disk' = disk
        /\ provider' = provider /\ noted' = noted /\ saved' = saved
    BY <1>1 DEF vars, calls
  <2>2. TypeOK'
    BY <2>1 DEF StepInv, TypeOK, EventOK
  <2>3. StartInv' /\ PipeInv' /\ EndInv'
    BY <2>1 DEF StepInv, StartInv, PipeInv, EndInv, Clean
  <2>4. CallInv'
    BY <2>1 DEF StepInv, CallInv, Honest
  <2>q. QED
    BY <2>2, <2>3, <2>4 DEF StepInv
<1>2. ASSUME NEW c \in Calls,
             \/ BaseAsks(c) \/ CallProvider(c) \/ ChunkObserved(c) \/ CallBreaks(c)
             \/ \E status \in {"completed", "failed"}, whole \in BOOLEAN :
                    StreamOver(c, status, whole)
      PROVE  StepInv'
  BY <1>2, AsksKeeps, CallProviderKeeps, ChunkKeeps, StreamOverKeeps
<1>3. CASE BaseStarts \/ BaseCompletes \/ BaseFails \/ CustomYields
  BY <1>3, StageYieldsKeeps
<1>4. CASE StageRaises \/ StageEnds \/ PipelineStops
  BY <1>4, EndsEarlyKeeps, StageEndsKeeps
<1>5. CASE Record \/ RecordStart \/ RecordCompletion \/ RecordRaises \/ Cancelled
  BY <1>5, RecordKeeps, RecordStartKeeps, RecordCompletionKeeps, RaisesKeeps, CancelledKeeps
<1>6. CASE Verify \/ (\E s \in Ids : CloseStep(s)) \/ Finish \/ Crash
  BY <1>6, VerifyKeeps, CloseStepKeeps, FinishKeeps, CrashKeeps
<1>q. QED
  BY <1>1, <1>2, <1>3, <1>4, <1>5, <1>6 DEF Next

\* The inductive invariant: types, the pipeline's view of the disk, how the Run may end,
\* and what an observation may say of a completion.
THEOREM StepInvHolds == Spec => []StepInv
<1>1. Init => StepInv
  BY StepInit
<1>q. QED
  BY <1>1, StepStep, PTL DEF Spec

-----------------------------------------------------------------------------
(* The properties.                                                           *)

\* Every variable keeps its type, an event's Step and call included.
THEOREM TypeCorrect == Spec => []TypeOK
<1>1. StepInv => TypeOK
  BY DEF StepInv
<1>q. QED
  BY <1>1, StepInvHolds, PTL

\* A Run that completed has no Step that is open or failed, and has been through every
\* stage of its pipeline; no Step of a Run that ended is left open (_consume, _finish).
THEOREM RunsAgree == Spec => []RunAgreesWithSteps
<1>1. StepInv => RunAgreesWithSteps
  BY DEF StepInv, EndInv, RunAgreesWithSteps, Clean, Ended
<1>q. QED
  BY <1>1, StepInvHolds, PTL

\* A total of usage counts every completion that was asked of the provider, in full,
\* and no observation outlives its Run or claims a stream that did not end
\* (_record_completion, from_run, for_run).
THEOREM UsageCounts == Spec => []UsageIsWhole
<1>1. StepInv => UsageIsWhole
  <2> SUFFICES ASSUME StepInv
               PROVE  UsageIsWhole
    OBVIOUS
  <2>1. ASSUME TotalKnown, NEW c \in Calls, provider[c] # "none"
        PROVE  saved[c].whole /\ provider[c] = "answered"
    <3>1. saved[c] # Unseen /\ Honest(saved[c], c)
      BY <2>1 DEF StepInv, CallInv
    <3>2. saved[c].whole
      BY <2>1, <3>1 DEF TotalKnown
    <3>q. QED
      BY <3>1, <3>2 DEF Honest
  <2>2. ASSUME run \in Ended, NEW c \in Calls
        PROVE  /\ provider[c] # "none" => saved[c] # Unseen
               /\ saved[c].status # "running"
               /\ saved[c].status = "completed" => provider[c] = "answered"
    BY <2>2 DEF StepInv, CallInv, Honest
  <2>q. QED
    BY <2>1, <2>2 DEF UsageIsWhole
<1>q. QED
  BY <1>1, StepInvHolds, PTL

\* A stage begins only when every Step of the earlier ones has completed: the pipeline
\* sees it in the events alone, and the disk bears it out (PipelineEngine.execute).
THEOREM StagesFollowSuccess == Spec => NoStageAfterFailure
<1>1. StepInv /\ [Next]_vars =>
          [stage' # stage => \A s \in Ids : disk[s] \in {"none", "completed"}]_vars
  <2> SUFFICES ASSUME StepInv, Next, stage' # stage
               PROVE  \A s \in Ids : Clean(s)
    BY DEF Clean, vars
  <2>1. StageEnds
    BY DEF Next, BaseStarts, BaseCompletes, BaseFails, CustomYields, Yield, BaseAsks, CallProvider,
           ChunkObserved, CallBreaks, StreamOver, Observe, StageRaises, PipelineStops, Record,
           RecordStart, RecordCompletion, RecordRaises, Cancelled, Verify, CloseStep, Finish, Crash
  <2>2. stage < Len(plan) /\ ~(piped /\ active # {})
    BY <2>1 DEF StageEnds
  <2>3. piped
    <3>1. stage \in 1..Len(plan) /\ Len(plan) \in Nat /\ (Len(plan) > 1 => piped)
      BY Stages DEF StepInv, TypeOK
    <3>q. QED
      BY <2>2, <3>1
  <2>4. run = "pull" /\ event.type \notin EndEvents \ {"completed"}
    BY <2>1, <2>3 DEF StageEnds, MayPull
  <2>q. QED
    BY <2>2, <2>3, <2>4 DEF StepInv, PipeInv
<1>q. QED
  BY <1>1, StepInvHolds, PTL DEF NoStageAfterFailure, Spec

\* No event, late or repeated, no cancellation, no closing and no recovery changes how a
\* Step ended (StepManager, StepEventRecorder.record).
THEOREM StepsEndOnce == Spec => EndedOnce
<1>1. StepInv /\ [Next]_vars => [\A s \in Ids : disk[s] \in Ended => disk'[s] = disk[s]]_vars
  <2> SUFFICES ASSUME StepInv, Next, NEW s \in Ids, disk[s] \in Ended
               PROVE  disk'[s] = disk[s]
    BY DEF vars
  <2>1. TypeOK /\ disk[s] # "none" /\ disk[s] \notin Open
    BY DEF StepInv, Ended, Open
  <2>2. CASE UNCHANGED disk
    BY <2>2
  <2>3. CASE Acceptable /\ \E v : disk' = [disk EXCEPT ![event.id] = v]
    <3>1. s # event.id
      BY <2>1, <2>3, AcceptedTyped
    <3>q. QED
      BY <2>1, <2>3, <3>1 DEF TypeOK
  <2>4. CASE RecordStart
    <3>1. s # event.id
      BY <2>1, <2>4 DEF RecordStart, StepInv, StartInv, Open
    <3>q. QED
      BY <2>1, <2>4, <3>1 DEF RecordStart, TypeOK
  <2>5. CASE \E r \in Ids : CloseStep(r)
    BY <2>1, <2>5 DEF CloseStep, TypeOK
  <2>6. \/ UNCHANGED disk \/ RecordStart \/ \E r \in Ids : CloseStep(r)
        \/ Acceptable /\ \E v : disk' = [disk EXCEPT ![event.id] = v]
    BY DEF Next, BaseStarts, BaseCompletes, BaseFails, CustomYields, Yield, BaseAsks, CallProvider,
           ChunkObserved, CallBreaks, StreamOver, Observe, StageRaises, StageEnds, PipelineStops,
           Record, RecordCompletion, RecordRaises, Cancelled, Verify, Finish, Crash
  <2>q. QED
    BY <2>2, <2>3, <2>4, <2>5, <2>6
<1>q. QED
  BY <1>1, StepInvHolds, PTL DEF EndedOnce, Spec

=============================================================================
