------------------------------ MODULE LoopEngine ------------------------------
(***************************************************************************)
(* The completion/tool loop of src/ish/engines/loop.py over the streamed   *)
(* completions that BaseEngine._stream_completion (src/ish/engines/base.py)*)
(* assembles.  A tool call is known by its ID; a provider is external and  *)
(* may stream any chunks.  Text, names and arguments are left out: whether *)
(* a call is complete and whether its tool accepts it are choices.         *)
(***************************************************************************)
EXTENDS Naturals, Sequences, FiniteSets

CONSTANTS
    CallIds,        \* the IDs a provider gives tool calls
    MaxToolCalls,   \* max_tool_calls, the bound on a call's index
    MaxIterations   \* max_iterations

ASSUME LoopAssumption == MaxToolCalls \in Nat \ {0} /\ MaxIterations \in Nat \ {0}

VARIABLES
    at,          \* where the loop is
    iteration,   \* of range(1, max_iterations + 1)
    calls,       \* [index -> the call assembled so far: its ID, once complete]
    finish,      \* finish_reason
    batch,       \* the calls of the response whose tools are still to run
    seen,        \* seen_call_ids
    messages,    \* the messages added to the request so far
    executed     \* history: the calls whose tool handler was started

vars == <<at, iteration, calls, finish, batch, seen, messages, executed>>
stream == <<calls, finish>>

-----------------------------------------------------------------------------
\* A call that has its ID and its name is its ID.
Absent == "absent"
Incomplete == "incomplete"
Reasons == {"stop", "tool_calls", "length"}
Over == {"answered", "failed", "cancelled", "exhausted"}

Assistant(ids) == [role |-> "assistant", ids |-> ids]
Result(id) == [role |-> "tool", ids |-> <<id>>]

Fresh == calls' = [i \in 0..(MaxToolCalls - 1) |-> Absent] /\ finish' = "none"

Init ==
    /\ at = "configure" /\ iteration = 1 /\ batch = <<>> /\ seen = {}
    /\ calls = [i \in 0..(MaxToolCalls - 1) |-> Absent] /\ finish = "none"
    /\ messages = <<>> /\ executed = <<>>

Stop(how) == at' = how /\ UNCHANGED <<iteration, stream, batch, seen, messages, executed>>

-----------------------------------------------------------------------------
(* The parameters, limits and prompt of the Run, from its Project and from   *)
(* the Engine's factories, on a worker of its own.                           *)

Configure ==
    /\ at = "configure" /\ at' = "stream"
    /\ UNCHANGED <<iteration, stream, batch, seen, messages, executed>>

\* A factory raises, or they are refused.
Misconfigured == at = "configure" /\ Stop("failed")

-----------------------------------------------------------------------------
(* The chunks of a completion.  One that breaks the protocol raises.         *)

\* A fragment may open a call, complete it, or add to its ID, which makes another.
Fragment(i, call) ==
    /\ at = "stream" /\ finish = "none"
    /\ call = Incomplete => calls[i] \notin CallIds
    /\ calls' = [calls EXCEPT ![i] = call]
    /\ UNCHANGED <<at, iteration, finish, batch, seen, messages, executed>>

FinishReason(reason) ==
    /\ at = "stream" /\ finish = "none"
    /\ finish' = reason
    /\ UNCHANGED <<at, iteration, calls, batch, seen, messages, executed>>

\* The request is refused (its model, its API base, its tools); content or a second
\* reason after the first, an index out of range, a limit, a
\* transport error, or the Step's deadline.
StreamRaises == at = "stream" /\ Stop("failed")

\* The indices at which a call was opened.
Present == {i \in DOMAIN calls : calls[i] # Absent}

\* Mutant: two calls of one response may have the same ID.
Assembled_Duplicates ==
    /\ finish \in {"stop", "tool_calls"}
    /\ \A i \in DOMAIN calls : calls[i] # Incomplete
    /\ Present # {} <=> finish = "tool_calls"

\* What makes a response of a stream that has ended.
Assembled ==
    /\ finish \in {"stop", "tool_calls"}
    /\ \A i \in DOMAIN calls : calls[i] # Incomplete
    /\ Present # {} <=> finish = "tool_calls"
    /\ \A i, j \in Present : calls[i] = calls[j] => i = j

\* A response lists its calls in the order of their indices, which may have gaps.
Sorted == {order \in [1..Cardinality(Present) -> Present] :
               \A m, n \in DOMAIN order : m < n => order[m] < order[n]}
Response(order) == [n \in DOMAIN order |-> calls[order[n]]]

\* Mutant: calls that come with the last completion are executed.
Executable_Always == \A i \in Present : calls[i] \notin seen

Executable ==
    /\ iteration < MaxIterations
    /\ \A i \in Present : calls[i] \notin seen

-----------------------------------------------------------------------------
(* The end of a completion: answered, refused, or a batch whose every call   *)
(* has been prepared before the first tool runs.                             *)

Answer ==
    /\ at = "stream" /\ Assembled /\ Present = {}
    /\ Stop("answered")

Prepare ==
    /\ at = "stream" /\ Assembled /\ Present # {} /\ Executable
    /\ at' = "tools"
    /\ \E order \in Sorted :
           /\ batch' = Response(order)
           /\ messages' = Append(messages, Assistant(Response(order)))
    /\ UNCHANGED <<iteration, stream, seen, executed>>

\* The stream ends without a proper response; or there are calls and a repeated ID,
\* the iteration limit, or a tool that is not registered or does not accept its
\* arguments.
Refuse ==
    /\ at = "stream" /\ (~Assembled \/ Present # {})
    /\ Stop("failed")

-----------------------------------------------------------------------------
(* The tools of a batch, one after the other.                                *)

StartTool ==
    /\ at = "tools" /\ batch # <<>>
    /\ at' = "tool"
    /\ seen' = seen \cup {Head(batch)}
    /\ executed' = Append(executed, Head(batch))
    /\ UNCHANGED <<iteration, stream, batch, messages>>

\* Mutant: a result that cannot be encoded is left out of the transcript.
ToolReturns_Lossy ==
    /\ at = "tool" /\ at' = "tools" /\ batch' = Tail(batch)
    /\ messages' \in {messages, Append(messages, Result(Head(batch)))}
    /\ UNCHANGED <<iteration, stream, seen, executed>>

ToolReturns ==
    /\ at = "tool" /\ at' = "tools" /\ batch' = Tail(batch)
    /\ messages' = Append(messages, Result(Head(batch)))
    /\ UNCHANGED <<iteration, stream, seen, executed>>

\* The handler raises, its deadline passes, or its result is too long.
ToolRaises == at = "tool" /\ Stop("failed")

\* The next completion, with a fresh response; a range that is used up would end the
\* loop without an answer.
NextIteration ==
    /\ at = "tools" /\ batch = <<>>
    /\ at' = IF iteration < MaxIterations THEN "stream" ELSE "exhausted"
    /\ iteration' = iteration + 1 /\ Fresh
    /\ UNCHANGED <<batch, seen, messages, executed>>

\* The Run is interrupted or its Engine closed.
Cancel == at \notin Over /\ Stop("cancelled")

-----------------------------------------------------------------------------
Chunk ==
    \/ \E i \in DOMAIN calls, call \in CallIds \cup {Incomplete} : Fragment(i, call)
    \/ \E reason \in Reasons : FinishReason(reason)
EndOfStream == StreamRaises \/ Answer \/ Prepare \/ Refuse
Tools == StartTool \/ ToolReturns \/ ToolRaises \/ NextIteration
Next == Configure \/ Misconfigured \/ Chunk \/ EndOfStream \/ Tools \/ Cancel

Spec == Init /\ [][Next]_vars

-----------------------------------------------------------------------------
(* Properties.                                                               *)

\* No tool call is executed twice in a Run, whatever IDs the provider repeats, in one
\* response or in two: a side effect is not repeated.
NoCallTwice == \A m, n \in DOMAIN executed : executed[m] = executed[n] => m = n

\* Every request after the first is a whole transcript: each response with calls is
\* followed by exactly their results, in their order.
Whole ==
    /\ \A m \in DOMAIN messages : messages[m].role = "assistant" =>
           \A k \in DOMAIN messages[m].ids :
               m + k \in DOMAIN messages /\ messages[m + k] = Result(messages[m].ids[k])
    /\ \A n \in DOMAIN messages :
           messages[n].role = "tool" =>
               \E m \in DOMAIN messages :
                   messages[m].role = "assistant" /\ n - m \in DOMAIN messages[m].ids
RequestWellFormed == at = "stream" => Whole

\* The loop never just runs out, having executed tools whose results no completion
\* sees; and when it answers, it has executed exactly the calls it was asked for, each
\* in its turn: the results of the transcript are those of the calls executed.
AskedUpTo(n) == {m \in 1..n : messages[m].role = "assistant"}
ResultsAreOfExecuted ==
    /\ Len(messages) = Len(executed) + Cardinality(AskedUpTo(Len(messages)))
    /\ \A n \in DOMAIN messages : messages[n].role = "tool" =>
           messages[n] = Result(executed[n - Cardinality(AskedUpTo(n))])
ToolsAreSeen == at # "exhausted" /\ (at = "answered" => Whole /\ ResultsAreOfExecuted)

=============================================================================
