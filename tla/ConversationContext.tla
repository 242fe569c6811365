-------------------------- MODULE ConversationContext --------------------------
(***************************************************************************)
(* What an Engine is shown of a conversation: the selection and ordering   *)
(* of src/ish/services/context.py, over the conversations RunManager and   *)
(* TaskManager.clone write.  Inputs are appended when they are submitted   *)
(* and answers when a Run begins, so the file is not in the order of the   *)
(* turns.  A message is known by its request and its role; a Run by the    *)
(* request it claimed (RunManager!AtMostOneRun).                           *)
(***************************************************************************)
EXTENDS Naturals, Sequences, FiniteSets, FiniteSetsExt, SequencesExt

CONSTANT Requests

VARIABLES
    messages,   \* the projection of the Task's conversation
    marked,     \* task.json has status RUNNING
    run,        \* the request of the Run whose record is active on disk
    at,         \* what the RunManager is doing; "down" when there is none
    queue,      \* its queue of inputs
    turns,      \* history: the inputs committed and the answers opened, in their order
    shown       \* history: the last context an Engine was given

vars == <<messages, marked, run, at, queue, turns, shown>>

-----------------------------------------------------------------------------
None == "none"
ASSUME RequestsAssumption == None \notin Requests

Ended == {"completed", "interrupted", "failed"}
Message(of, role, status, r) == [of |-> of, role |-> role, status |-> status, run |-> r]
User(r) == <<r, "user">>
Assistant(r) == <<r, "assistant">>
Id(m) == <<m.of, m.role>>

\* sorted(): the members of S from the least on, the n-th having n - 1 before it.
Listed(S, order) ==
    [n \in 1..Cardinality(S) |->
        CHOOSE i \in S : Cardinality({j \in S : <<j, i>> \in order}) = n - 1]

AsWritten(ms) == {p \in (DOMAIN ms) \X (DOMAIN ms) : p[1] < p[2]}

\* inputs.get(message.run_id, index): a message stands where the input of its Run does.
Place(ms, i) ==
    LET inputs == {j \in DOMAIN ms : ms[j].role = "user" /\ ms[j].run # None /\ ms[j].run = ms[i].run}
    IN  IF inputs = {} THEN i ELSE Max(inputs)

\* Mutant: the messages in the order of the file.
Ordered_AsWritten(ms) == AsWritten(ms)

\* By place, an answer after its input, and otherwise as written.
Ordered(ms) ==
    LET Late(i) == IF ms[i].role = "assistant" THEN 1 ELSE 0
        Before(i, j) ==
            \/ Place(ms, i) < Place(ms, j)
            \/ Place(ms, i) = Place(ms, j) /\ Late(i) < Late(j)
            \/ Place(ms, i) = Place(ms, j) /\ Late(i) = Late(j) /\ i < j
    IN  {p \in (DOMAIN ms) \X (DOMAIN ms) : Before(p[1], p[2])}

\* A committed input, or an answer that has ended and whose input is committed.
Selected(ms, m) ==
    IF m.role = "user" THEN m.status = "committed"
    ELSE /\ m.status \in Ended
         /\ m.run = None \/ \E c \in ToSet(ms) : c.role = "user" /\ c.status = "committed" /\ c.run = m.run

\* The positions for_run picks: those selected that are before the Run's input, and the input.
ForRun(ms, r) ==
    LET input == CHOOSE i \in DOMAIN ms : Id(ms[i]) = User(r)
    IN  {i \in DOMAIN ms : <<i, input>> \in Ordered(ms) /\ Selected(ms, ms[i])} \cup {input}

\* The Loop selects once more, by status.
ForLoop(ms, picked) ==
    {i \in picked : IF ms[i].role = "user" THEN ms[i].status = "committed" ELSE ms[i].status \in Ended}

Context(r) ==
    LET order == Listed(ForLoop(messages, ForRun(messages, r)), Ordered(messages))
    IN  [n \in DOMAIN order |-> Id(messages[order[n]])]

\* A message of a clone: no Run, nothing waiting, nothing open.
Copied(m) ==
    LET status == CASE m.status = "queued" -> "cancelled"
                    [] m.status = "streaming" -> "interrupted"
                    [] OTHER -> m.status
    IN  Message(m.of, m.role, status, None)

\* Mutant: the snapshot of a clone keeps the order of the file.
ForClone_AsWritten(ms) == [n \in DOMAIN ms |-> Copied(ms[n])]

ForClone(ms) ==
    LET order == Listed(DOMAIN ms, Ordered(ms)) IN [n \in DOMAIN ms |-> Copied(ms[order[n]])]

-----------------------------------------------------------------------------
(* The conversation's writers, one durable write a step.                     *)

WithStatus(ms, id, status) ==
    [n \in DOMAIN ms |-> IF Id(ms[n]) = id THEN [ms[n] EXCEPT !.status = status] ELSE ms[n]]
Bound(ms, r) == [n \in DOMAIN ms |-> IF Id(ms[n]) = User(r) THEN [ms[n] EXCEPT !.run = r] ELSE ms[n]]

\* The requests whose input waits, in the order of the file.
Queued(ms) ==
    LET queued == Listed({i \in DOMAIN ms : ms[i].status = "queued"}, AsWritten(ms))
    IN  [n \in DOMAIN queued |-> ms[queued[n]].of]

Bind == messages' = Bound(messages, run)
Commit(r) ==
    messages' = WithStatus(messages, User(r), "committed") /\ turns' = Append(turns, User(r))

Init ==
    /\ messages = <<>> /\ marked = FALSE /\ run = None /\ at = "idle" /\ queue = <<>>
    /\ turns = <<>> /\ shown = <<>>

Submit(r) ==
    /\ at # "down" /\ \A m \in ToSet(messages) : m.of # r
    /\ messages' = Append(messages, Message(r, "user", "queued", None))
    /\ queue' = Append(queue, r)
    /\ UNCHANGED <<marked, run, at, turns, shown>>

\* _begin.
SaveRun ==
    /\ at = "idle" /\ queue # <<>>
    /\ at' = "bind" /\ run' = Head(queue) /\ queue' = Tail(queue)
    /\ UNCHANGED <<messages, marked, turns, shown>>
BindInput ==
    /\ at = "bind" /\ at' = "commit" /\ Bind
    /\ UNCHANGED <<marked, run, queue, turns, shown>>
CommitInput ==
    /\ at = "commit" /\ at' = "open" /\ Commit(run)
    /\ UNCHANGED <<marked, run, queue, shown>>
OpenAnswer ==
    /\ at = "open" /\ at' = "mark"
    /\ messages' = Append(messages, Message(run, "assistant", "streaming", run))
    /\ turns' = Append(turns, Assistant(run))
    /\ UNCHANGED <<marked, run, queue, shown>>
MarkTask ==
    /\ at = "mark" /\ at' = "context" /\ marked' = TRUE
    /\ UNCHANGED <<messages, run, queue, turns, shown>>

\* _context: what the Engine is given.
ShowContext ==
    /\ at = "context" /\ at' = "execute" /\ shown' = Context(run)
    /\ UNCHANGED <<messages, marked, run, queue, turns>>

\* _finish.  A Run that is interrupted may end before its context is built.
EndAnswer(status) ==
    /\ at = "execute" \/ (at = "context" /\ status # "completed")
    /\ at' = "settle" /\ messages' = WithStatus(messages, Assistant(run), status)
    /\ UNCHANGED <<marked, run, queue, turns, shown>>
Settle ==
    /\ at = "settle" /\ at' = "idle" /\ run' = None /\ marked' = FALSE
    /\ UNCHANGED <<messages, queue, turns, shown>>

\* The process dies, the manager is shut down between two Runs, or a write fails and
\* ends the worker.
Down ==
    /\ at # "down" /\ at' = "down" /\ queue' = <<>>
    /\ UNCHANGED <<messages, marked, run, turns, shown>>

\* _recover: a claimed input is committed, an open answer ends, the Task is released.
RecoverBind ==
    /\ at = "down"
    /\ \E m \in ToSet(messages) : Id(m) = User(run) /\ m.status = "queued" /\ m.run = None
    /\ Bind
    /\ UNCHANGED <<marked, run, at, queue, turns, shown>>
RecoverCommit ==
    /\ at = "down"
    /\ \E m \in ToSet(messages) : Id(m) = User(run) /\ m.status = "queued" /\ m.run = run
    /\ Commit(run)
    /\ UNCHANGED <<marked, run, at, queue, shown>>
RecoverAnswer ==
    /\ at = "down"
    /\ \E m \in ToSet(messages) :
           m.status = "streaming" /\ messages' = WithStatus(messages, Id(m), "interrupted")
    /\ UNCHANGED <<marked, run, at, queue, turns, shown>>
Attach ==
    /\ at = "down"
    /\ \A m \in ToSet(messages) : m.status # "streaming" /\ ~(Id(m) = User(run) /\ m.status = "queued")
    /\ at' = "idle" /\ run' = None /\ marked' = FALSE
    /\ queue' = Queued(messages)
    /\ UNCHANGED <<messages, turns, shown>>

\* TaskManager.clone of a Task that is not running: the clone is the Task from now on.
\* It has no Runs.
CloneTask ==
    /\ at = "down" /\ ~marked
    /\ messages' = ForClone(messages) /\ run' = None
    /\ UNCHANGED <<marked, at, queue, turns, shown>>

Next ==
    \/ \E r \in Requests : Submit(r)
    \/ SaveRun \/ BindInput \/ CommitInput \/ OpenAnswer \/ MarkTask \/ ShowContext
    \/ \E status \in Ended : EndAnswer(status)
    \/ Settle \/ Down \/ RecoverBind \/ RecoverCommit \/ RecoverAnswer \/ Attach \/ CloneTask

Spec == Init /\ [][Next]_vars

-----------------------------------------------------------------------------
(* Properties.                                                               *)

\* An Engine is given exactly the committed turns in their order, each input followed
\* by its answer if it has one, and its own input last, before the answer that is
\* being written: whatever was queued meanwhile, whichever Runs were cut off, and in
\* a clone as in its source.
ContextIsTurns == at \in {"context", "execute"} => Context(run) = Front(turns)

\* A conversation is never rewritten under an Engine: each context extends the one
\* before, in the clone too.
ContextGrows == [][shown' # shown => IsStrictPrefix(shown, shown')]_vars

=============================================================================
