----------------------------- MODULE AgentLoop -----------------------------
(***************************************************************************)
(* The agentic runtime (src/agent/runner.py, src/agent/tools.py): a        *)
(* bounded loop in which the model asks for provider lookups by native     *)
(* tool calls, until it finalizes an assessment or a limit is reached; the *)
(* merge, the verifier and the policy of the pipeline then decide.         *)
(*                                                                         *)
(* The model is not trusted: a turn may hold any sequence of calls, with   *)
(* missing or repeated identifiers, unknown tools or observables, several  *)
(* finalizations.  The trace, the counters of refusals and the texts of    *)
(* the messages are left out.                                              *)
(***************************************************************************)
EXTENDS Policy, Verifier, Sequences

CONSTANTS
    Observables,       \* the registry of the parsed email
    Recipients,        \* the observables that are a recipient
    Exposed,           \* the investigation tools of the profile
    CallIds,           \* identifiers a provider gives to tool calls
    Calls,             \* the calls a turn can hold
    MaxCallsPerTurn,   \* bound of the model: calls in one turn
    MaxTurns,          \* MAX_LLM_TURNS
    MaxToolCalls       \* MAX_TOOL_CALLS

\* AgentLimits refuses any other value.
MaxUrlscanCalls == 1

AllInvestigationTools ==
    {"lookup_virustotal", "lookup_opencti", "scan_urlscan", "lookup_osint"}

\* A tool call as the client parsed it.  malformed: arguments_error is set,
\* which does not mean that the arguments are absent.
ToolCall ==
    [id: CallIds \cup {Null},
     tool: AllInvestigationTools \cup {"finalize_assessment", "unknown"},
     observable: Observables \cup {Null},
     assessment: Assessment \cup {Null},
     malformed: BOOLEAN]

ASSUME NullAssumption ==
    /\ Null \notin Assessment
    /\ Null \notin CallIds
    /\ Null \notin Observables
    /\ Null \notin ToolCall

ASSUME AgentAssumption ==
    /\ Recipients \subseteq Observables
    /\ Exposed \subseteq AllInvestigationTools
    /\ Calls \subseteq ToolCall
    /\ MaxTurns \in Nat /\ MaxToolCalls \in Nat

VARIABLES
    phase,            \* where the run stands
    rag,              \* the RAG preprocessing: "off", "ok" or "error"
    turn,             \* turn_index
    calls,            \* the calls of the turn that are still to be handled
    exchange,         \* the messages appended since the last request
    orphans,          \* calls of the turn refused without an identifier
    executed,         \* (tool, observable) pairs sent to a provider
    results,          \* the tool results, in order
    provider_calls, urlscan_calls,
    assessment,       \* the finalized assessment | None
    finalizer,        \* history: the call that finalized it
    status,           \* finalized | incomplete | error
    agent_error,      \* why the run ended without an assessment
    evidence,         \* provenances present in the evidence registry
    merge,            \* none | ok | refused
    action,
    artifacts

vars == <<phase, rag, turn, calls, exchange, orphans, executed,
          results, provider_calls, urlscan_calls, assessment, finalizer, status,
          agent_error, evidence, merge, action, artifacts>>

dialogue == <<turn, calls, exchange, orphans>>
executor == <<executed, results, provider_calls, urlscan_calls>>
verdict  == <<assessment, finalizer, status, agent_error>>
outcome  == <<evidence, merge, action, artifacts>>

Queries == AllInvestigationTools \X Observables

\* "confirmed" is an ok result that carries a malicious confirmation;
\* "exception" is an adapter that raised, turned into unavailable.
ResultStatus == {"ok", "confirmed", "not_found", "unavailable", "skipped", "exception"}

ToolResult == [query: Queries, status: ResultStatus]

\* An assistant message echoes the calls that have an identifier; a tool
\* message answers one of them; a user message reports a protocol error or
\* the absence of calls.
Message ==
    [role: {"assistant"}, ids: Seq(CallIds)]
    \cup [role: {"tool"}, id: CallIds]
    \cup [role: {"user"}, about: {"protocol_error", "no_tool_calls"}]

AgentError ==
    {"none", "parse_error", "llm_not_configured", "llm_turn_error",
     "deadline_exceeded", "turn_budget_exhausted"}

TypeOK ==
    /\ phase \in {"start", "loop", "calls", "merge", "policy", "write", "end", "failed"}
    /\ rag \in {"off", "ok", "error"}
    /\ turn \in 0..MaxTurns
    /\ calls \in Seq(Calls)
    /\ exchange \in Seq(Message)
    /\ orphans \in Nat
    /\ executed \in SUBSET Queries
    /\ results \in Seq(ToolResult)
    /\ provider_calls \in Nat /\ urlscan_calls \in Nat
    /\ assessment \in Assessment \cup {Null}
    /\ finalizer \in Calls \cup {Null}
    /\ status \in {"finalized", "incomplete", "error"}
    /\ agent_error \in AgentError
    /\ evidence \in SUBSET {"parser", "external", "confirmation"}
    /\ merge \in {"none", "ok", "refused"}
    /\ action \in Actions
    /\ artifacts \in {"none", "partial", "complete"}

Init ==
    /\ phase = "start" /\ rag = "off"
    /\ turn = 0 /\ calls = <<>> /\ exchange = <<>> /\ orphans = 0
    /\ executed = {} /\ results = <<>> /\ provider_calls = 0 /\ urlscan_calls = 0
    /\ assessment = Null /\ finalizer = Null /\ status = "incomplete"
    /\ agent_error = "none"
    /\ evidence = {} /\ merge = "none" /\ action = "REVIEW"
    /\ artifacts = "none"

(***************************************************************************)
(* Preparation: parser, then the RAG and visual preprocessing.             *)
(***************************************************************************)
ParseFails ==
    /\ phase = "start" /\ phase' = "merge"
    /\ status' = "error" /\ agent_error' = "parse_error"
    /\ UNCHANGED <<rag, dialogue, executor, assessment, finalizer, outcome>>

\* A failed RAG retrieval leaves an empty context and is traced.
Prepare ==
    /\ phase = "start" /\ phase' = "loop"
    /\ rag' \in {"off", "ok", "error"}
    /\ UNCHANGED <<dialogue, executor, verdict, outcome>>

NotConfigured ==
    /\ phase = "start" /\ phase' = "merge"
    /\ rag' \in {"off", "ok", "error"}
    /\ status' = "error" /\ agent_error' = "llm_not_configured"
    /\ UNCHANGED <<dialogue, executor, assessment, finalizer, outcome>>

(***************************************************************************)
(* The turns of the loop.                                                  *)
(***************************************************************************)

\* The identifiers of the calls that can be answered, in order.
Ids[s \in Seq(Calls)] ==
    IF s = <<>> THEN <<>>
    ELSE (IF Head(s).id = Null THEN <<>> ELSE <<Head(s).id>>) \o Ids[Tail(s)]

\* The calls of one response of the model.
Responses == UNION {[1..n -> Calls] : n \in 0..MaxCallsPerTurn}

ModelAnswers ==
    /\ phase = "loop" /\ turn < MaxTurns
    /\ turn' = turn + 1
    /\ calls' \in Responses
    /\ exchange' = <<[role |-> "assistant", ids |-> Ids[calls']]>>
    /\ orphans' = 0
    /\ phase' = "calls"
    /\ UNCHANGED <<rag, executor, verdict, outcome>>

\* Transport error, refusal, abnormal finish, substituted model: no retry.
ModelFails ==
    /\ phase = "loop" /\ turn < MaxTurns
    /\ turn' = turn + 1
    /\ status' = "error" /\ agent_error' = "llm_turn_error"
    /\ phase' = "merge"
    /\ UNCHANGED <<rag, calls, exchange, orphans, executor, assessment,
                   finalizer, outcome>>

\* No turn is left, or the agent's deadline has passed before the next one.
GiveUp ==
    /\ phase = "loop" /\ phase' = "merge"
    /\ agent_error' = IF turn < MaxTurns THEN "deadline_exceeded"
                                         ELSE "turn_budget_exhausted"
    /\ UNCHANGED <<rag, dialogue, executor, assessment, finalizer, status, outcome>>

(***************************************************************************)
(* One call of the turn.  Every branch pops the call; a refused call is    *)
(* answered when it has an identifier, and reported with the others at the *)
(* end of the turn when it has none.                                       *)
(***************************************************************************)
Handling(call) ==
    /\ phase = "calls" /\ calls # <<>>
    /\ call = Head(calls)

Answer(call) == exchange' = Append(exchange, [role |-> "tool", id |-> call.id])

Refuse(call) ==
    IF call.id # Null
    THEN Answer(call) /\ UNCHANGED orphans
    ELSE orphans' = orphans + 1 /\ UNCHANGED exchange

\* A valid assessment; arguments_error is not looked at.
Finalizes(call) ==
    /\ call.tool = "finalize_assessment"
    /\ call.id # Null
    /\ call.assessment # Null

\* Faulty variant: the loop over the calls goes on after a finalization.
FinalizeWithoutBreak(call) ==
    /\ Handling(call) /\ Finalizes(call)
    /\ assessment' = call.assessment /\ finalizer' = call
    /\ status' = "finalized"
    /\ calls' = Tail(calls) /\ UNCHANGED phase
    /\ UNCHANGED <<rag, turn, exchange, orphans, executor, agent_error, outcome>>

\* The calls that follow in the turn are ignored.
Finalize(call) ==
    /\ Handling(call) /\ Finalizes(call)
    /\ assessment' = call.assessment /\ finalizer' = call
    /\ status' = "finalized"
    /\ calls' = <<>> /\ phase' = "merge"
    /\ UNCHANGED <<rag, turn, exchange, orphans, executor, agent_error, outcome>>

\* Faulty variant: a rejected finalization is not answered.
FinalizeRejectedQuietly(call) ==
    /\ Handling(call)
    /\ call.tool = "finalize_assessment" /\ ~Finalizes(call)
    /\ calls' = Tail(calls)
    /\ UNCHANGED <<phase, rag, turn, exchange, orphans, executor, verdict, outcome>>

FinalizeRejected(call) ==
    /\ Handling(call)
    /\ call.tool = "finalize_assessment" /\ ~Finalizes(call)
    /\ Refuse(call)
    /\ calls' = Tail(calls)
    /\ UNCHANGED <<phase, rag, turn, executor, verdict, outcome>>

\* Faulty variant: a pair is forgotten, and a later duplicate not refused.
AcceptsAgain(call) ==
    /\ call.id # Null
    /\ call.tool \in Exposed
    /\ ~call.malformed
    /\ call.observable \in Observables \ Recipients
    /\ provider_calls < MaxToolCalls
    /\ call.tool = "scan_urlscan" => urlscan_calls < MaxUrlscanCalls

\* The typed refusals of ProviderToolExecutor.execute, all of them.
Accepts(call) ==
    /\ call.id # Null
    /\ call.tool \in Exposed
    /\ ~call.malformed
    /\ call.observable \in Observables \ Recipients
    /\ <<call.tool, call.observable>> \notin executed
    /\ provider_calls < MaxToolCalls
    /\ call.tool = "scan_urlscan" => urlscan_calls < MaxUrlscanCalls

\* The pair and the budgets are spent before the adapter is called: also
\* when it raises or finds its provider unavailable.
Execute(call) ==
    /\ Handling(call)
    /\ call.tool # "finalize_assessment" /\ Accepts(call)
    /\ executed' = executed \cup {<<call.tool, call.observable>>}
    /\ provider_calls' = provider_calls + 1
    /\ urlscan_calls' = urlscan_calls + (IF call.tool = "scan_urlscan" THEN 1 ELSE 0)
    /\ \E s \in ResultStatus :
          /\ s = "confirmed" => call.tool = "scan_urlscan"
          /\ results' = Append(results,
                               [query |-> <<call.tool, call.observable>>, status |-> s])
    /\ Answer(call) /\ UNCHANGED orphans
    /\ calls' = Tail(calls)
    /\ UNCHANGED <<phase, rag, turn, verdict, outcome>>

ExecuteRefused(call) ==
    /\ Handling(call)
    /\ call.tool # "finalize_assessment" /\ ~Accepts(call)
    /\ Refuse(call)
    /\ calls' = Tail(calls)
    /\ UNCHANGED <<phase, rag, turn, executor, verdict, outcome>>

\* One protocol-error message for all the calls without an identifier; a
\* nudge when the model called nothing and may still be asked.
EndTurn ==
    /\ phase = "calls" /\ calls = <<>>
    /\ phase' = "loop"
    /\ exchange' = exchange
          \o (IF orphans > 0 THEN <<[role |-> "user", about |-> "protocol_error"]>> ELSE <<>>)
          \o (IF exchange = <<[role |-> "assistant", ids |-> <<>>]>> /\ orphans = 0
                 /\ turn < MaxTurns
              THEN <<[role |-> "user", about |-> "no_tool_calls"]>> ELSE <<>>)
    /\ UNCHANGED <<rag, turn, calls, orphans, executor, verdict, outcome>>

(***************************************************************************)
(* Merge, verifier and policy; the artifacts.                              *)
(***************************************************************************)
parse_error == agent_error = "parse_error"

llm_error == agent_error \in {"llm_not_configured", "llm_turn_error"}

Statuses == {results[i].status : i \in DOMAIN results}

MergedEvidence ==
    {"parser"}
    \cup (IF Statuses \cap {"ok", "confirmed"} # {} THEN {"external"} ELSE {})
    \cup (IF "confirmed" \in Statuses THEN {"confirmation"} ELSE {})

\* Faulty variant: only a finalized investigation is merged.
MergeFinalizedOnly ==
    /\ phase = "merge" /\ phase' = "policy"
    /\ \/ /\ evidence' = IF parse_error THEN {}
                          ELSE IF status = "finalized" THEN MergedEvidence ELSE {"parser"}
          /\ merge' = "ok"
       \/ /\ MergedEvidence # {"parser"}
          /\ evidence' = {"parser"} /\ merge' = "refused"
    /\ UNCHANGED <<rag, dialogue, executor, verdict, action, artifacts>>

\* A refused merge keeps the parser's registries.
Merge ==
    /\ phase = "merge" /\ phase' = "policy"
    /\ \/ /\ evidence' = IF parse_error THEN {} ELSE MergedEvidence
          /\ merge' = "ok"
       \/ /\ MergedEvidence # {"parser"}
          /\ evidence' = {"parser"} /\ merge' = "refused"
    /\ UNCHANGED <<rag, dialogue, executor, verdict, action, artifacts>>

\* Faulty variant: an adapter that raised is only an unavailable provider.
AgentErrorsOfTheLoop ==
    (IF merge = "refused" THEN {"agent_evidence_merge_refused"} ELSE {})
    \cup (IF parse_error THEN {"agent_parse_error"} ELSE {})
    \cup (IF llm_error THEN {"agent_llm_error"} ELSE {})
    \cup (IF status = "incomplete" THEN {"agent_incomplete_no_final_assessment"} ELSE {})

AgentErrors ==
    (IF merge = "refused" THEN {"agent_evidence_merge_refused"} ELSE {})
    \cup (IF parse_error THEN {"agent_parse_error"} ELSE {})
    \cup (IF llm_error THEN {"agent_llm_error"} ELSE {})
    \cup (IF status = "incomplete" THEN {"agent_incomplete_no_final_assessment"} ELSE {})
    \cup (IF "exception" \in Statuses THEN {"agent_adapter_exception"} ELSE {})

\* The verifier's findings on the content of an answer and of the RAG cases.
ContentIssues ==
    (IF assessment # Null
     THEN {"recipient_as_ioc", "insufficient_malicious_confirmation"} ELSE {})
    \cup (IF rag = "ok" THEN {"rag_contamination"} ELSE {})

PolicyInputs(found) ==
    [assessment |-> assessment,
     issues |-> AssessmentIssues(assessment, evidence) \cup found \cup AgentErrors,
     final_source |-> IF assessment # Null THEN "final_llm" ELSE "none",
     parser_error |-> parse_error,
     llm_error |-> llm_error,
     tool_unavailable |-> Statuses \cap {"unavailable", "exception"} # {},
     admissible_confirmation |-> "confirmation" \in evidence,
     confirmation_contradicted |-> Contradicts(assessment, evidence)]

DecidePolicy ==
    /\ phase = "policy" /\ phase' = "write"
    /\ \E found \in SUBSET ContentIssues : action' = decide_policy(PolicyInputs(found))
    /\ UNCHANGED <<rag, dialogue, executor, verdict, evidence, merge, artifacts>>

\* manifest, trace, final and summary, written one after the other in place.
WriteArtifacts ==
    /\ phase = "write" /\ phase' = "end"
    /\ artifacts' = "complete"
    /\ UNCHANGED <<rag, dialogue, executor, verdict, evidence, merge, action>>

\* An exception that nothing catches, or the death of the process.
Abort ==
    /\ phase \notin {"end", "failed"} /\ phase' = "failed"
    /\ artifacts' \in IF phase = "write" THEN {"none", "partial"} ELSE {"none"}
    /\ UNCHANGED <<rag, dialogue, executor, verdict, evidence, merge, action>>

Finished == phase \in {"end", "failed"} /\ UNCHANGED vars

HandleCall ==
    \E call \in Calls :
        \/ Finalize(call)
        \/ FinalizeRejected(call)
        \/ Execute(call)
        \/ ExecuteRefused(call)

Next ==
    \/ ParseFails \/ Prepare \/ NotConfigured
    \/ ModelAnswers \/ ModelFails \/ GiveUp
    \/ HandleCall \/ EndTurn
    \/ Merge \/ DecidePolicy \/ WriteArtifacts
    \/ Abort
    \/ Finished

Spec == Init /\ [][Next]_vars

\* A sequential program whose every wait has a timeout.
FairSpec == Spec /\ WF_vars(Next)

-----------------------------------------------------------------------------
(***************************************************************************)
(* Properties.                                                             *)
(***************************************************************************)

Query(i) == results[i].query

\* What the providers see of a run, however the model insists: at most
\* MaxToolCalls requests and one urlscan submission, never the same
\* lookup twice, never about a recipient, never with a tool the profile
\* hides.
ProvidersAreSpared ==
    /\ Len(results) <= MaxToolCalls
    /\ \A i, j \in 1..Len(results) :
          Query(i)[1] = "scan_urlscan" /\ Query(j)[1] = "scan_urlscan" => i = j
    /\ \A i, j \in 1..Len(results) : Query(i) = Query(j) => i = j
    /\ \A i \in 1..Len(results) :
          Query(i)[1] \in Exposed /\ Query(i)[2] \notin Recipients

\* The provider's protocol: when the model is asked again, its last message
\* is followed by exactly one tool message per call it identified, in the
\* order of the calls, and by a protocol error if a call had no identifier.
ProtocolKept ==
    phase = "loop" /\ exchange # <<>> =>
        LET ids == Head(exchange).ids
            n   == Len(ids)
        IN /\ Head(exchange).role = "assistant"
           /\ Len(exchange) >= n + 1
           /\ \A i \in 1..n : exchange[i + 1] = [role |-> "tool", id |-> ids[i]]
           /\ \A i \in (n + 2)..Len(exchange) : exchange[i].role = "user"
           /\ orphans > 0 => \E i \in (n + 2)..Len(exchange) :
                            exchange[i].about = "protocol_error"

\* A finalization ends the investigation: no lookup, no second assessment
\* and no further turn, also when other calls follow it in the same turn.
NothingAfterFinalize ==
    [][status = "finalized" => UNCHANGED <<turn, exchange, executor, verdict>>]_vars

\* The confirmation of a scan escalates the run whatever became of the loop:
\* also when the model failed, gave up or was cut afterwards.
AgentConfirmationEscalates ==
    /\ phase \in {"write", "end"} /\ "confirmed" \in Statuses
    /\ ~Contradicts(assessment, evidence)
    => action = "ESCALATE"

Stage ==
    CASE phase = "end"    -> "archived"
      [] phase = "failed" -> "failed"
      [] phase = "write"  -> "recommended"
      [] OTHER            -> "analysing"

\* The faults of the run, as they become final.
AgentFaults == {"parse", "llm", "exception", "merge", "incomplete"}

FaultsSoFar ==
    {f \in AgentFaults :
        \/ f = "parse" /\ parse_error
        \/ f = "llm" /\ llm_error
        \/ f = "exception" /\ "exception" \in Statuses
        \/ f = "merge" /\ merge = "refused"
        \/ f = "incomplete" /\ agent_error \in {"deadline_exceeded", "turn_budget_exhausted"}}

Contract == INSTANCE TriageContract
            WITH stage <- Stage, faults <- FaultsSoFar, Faults <- AgentFaults

\* The agentic runtime keeps the contract of the pipeline: one
\* recommendation, never AUTO after a fault (nor without a finalized
\* assessment), and every run ends.
ImplementsContract == Contract!FairSpec

\* src/agent/client.py, _parse_tool_calls: "any malformed value is recorded in
\* arguments_error and refused downstream".
MalformedNeverFinalizes == status = "finalized" => ~finalizer.malformed
=============================================================================
