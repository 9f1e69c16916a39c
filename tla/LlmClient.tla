------------------------------ MODULE LlmClient ------------------------------
(***************************************************************************)
(* The calls to the model of one email (src/llm.py) and what they leave on *)
(* disk.  INTERNAL and FINAL of the pipeline share one capture directory;  *)
(* the control B of an evaluation (scripts/evaluate.py) has its own.  Each *)
(* call retries within its own phase budget, refuses every answer that is  *)
(* not of the requested model, and archives one input audit and one error  *)
(* per attempt.  The evaluation reads those files back: to prove that B    *)
(* and C were the requests they claim to be, and to count the refusals.    *)
(***************************************************************************)
EXTENDS Naturals, Sequences, FiniteSets

CONSTANTS MAX_LLM_ATTEMPTS,   \* attempts of one call
          PHASE_SECONDS,      \* budget of one call, in ticks
          MaxLag              \* an attempt lasts at most this many ticks

ASSUME LlmAssumption ==
  /\ MAX_LLM_ATTEMPTS \in Nat \ {0}
  /\ PHASE_SECONDS \in Nat \ {0}
  /\ MaxLag \in Nat

Calls == <<"internal", "final", "control_b">>
CallSet == {Calls[i] : i \in 1 .. Len(Calls)}
Attempts == 1 .. MAX_LLM_ATTEMPTS

(* The control B is a call of the FINAL phase too: only its capture         *)
(* directory tells its files from those of the pipeline.                    *)
Phase(call) == IF call = "internal" THEN "internal" ELSE "final"

\* Faulty variant: control B captures into the directory of the run.
SharedDirectory(call) == "responses"
Dir(call) == IF call = "control_b" THEN "responses_control_b" ELSE "responses"
Dirs == {"responses", "responses_control_b"}

-----------------------------------------------------------------------------
(* What one POST can come back with.                                        *)

Unsent == {"timeout", "transport"}          \* no body: _post_bytes raises
BadBody == {"status", "invalid", "refused"} \* a body, no valid document
WrongModel == {"wrong_model"}               \* a valid document, of another or no model
Good == {"ok", "fenced"}
(* A body cut short raises http.client.IncompleteRead, which is none of the *)
(* exceptions _post_bytes converts: it leaves complete_json.                *)
Escaping == {"incomplete_read"}
Answers == Unsent \cup BadBody \cup WrongModel \cup Good \cup Escaping

HasBody(answer) == answer \in BadBody \cup WrongModel \cup Good
ValidDocument(answer) == answer \in WrongModel \cup Good

(* The class written as the first line of attempt_<n>_error.txt.            *)
ErrorClass(answer) ==
  CASE answer = "timeout" -> "LLMTimeout"
    [] answer \in {"transport", "status"} -> "LLMTransportError"
    [] answer = "refused" -> "LLMRefused"
    [] OTHER -> "LLMInvalidResponse"

-----------------------------------------------------------------------------
VARIABLES
  pc,        \* "ready", "attempting", "waiting", "answered", "over", "aborted"
  turn,      \* index in Calls of the call in progress
  attempt,   \* the attempt of complete_json's loop
  elapsed,   \* time since the phase began: the deadline is at PHASE_SECONDS
  record,    \* the CallRecord of every call
  disk,      \* contents of the files of each capture directory, by name
  wire       \* history: the answers every call really got, in order

vars == <<pc, turn, attempt, elapsed, record, disk, wire>>

Current == Calls[turn]
NewRecord == [status |-> "error", attempts |-> 0, first |-> "none", refs |-> {}]
NoRecord == [NewRecord EXCEPT !.status = "none"]

File(kind, owner, n) == <<kind, owner, n>>
\* Faulty variant: the audit of a request does not carry its phase.
UnnamedAudit(call, n) == File("input_audit", "any", n)
AuditFile(call, n) == File("input_audit", Phase(call), n)
(* These names carry no phase: FINAL writes over INTERNAL's.                *)
ErrorFile(n) == File("error", "any", n)
MetaFile(n) == File("response_meta", "any", n)
TraceFile(n) == File("trace", "any", n)
RejectFile(call) == File("validation_reject", Phase(call), 0)
ProjectionError(call) == File("projection_error", Phase(call), 0)

FileNames ==
  {"input_audit", "error", "response_meta", "trace", "validation_reject", "projection_error"}
    \X {"any", "internal", "final"} \X Nat

Written(files, name, content) ==
  [f \in DOMAIN files \cup {name} |-> IF f = name THEN content ELSE files[f]]

(* _attempt_artifact_names: every "*attempt_*" file, whoever wrote it.      *)
AttemptFiles(files) ==
  {f \in DOMAIN files : f[1] \in {"input_audit", "error", "response_meta", "trace"}}

Init ==
  /\ pc = "ready" /\ turn = 1 /\ attempt = 1 /\ elapsed = 0
  /\ record = [c \in CallSet |-> NoRecord]
  /\ disk = [d \in Dirs |-> << >>]
  /\ wire = [c \in CallSet |-> << >>]

-----------------------------------------------------------------------------
NextCall(r) ==
  /\ record' = [record EXCEPT ![Current] = r]
  /\ turn' = turn + 1
  /\ attempt' = 1 /\ elapsed' = 0
  /\ pc' = IF turn = Len(Calls) THEN "over" ELSE "ready"

(* The node or the control makes no call: no key, no parsed email, a simple *)
(* email.                                                                   *)
NoCall ==
  /\ pc = "ready"
  /\ NextCall(NoRecord)
  /\ UNCHANGED <<disk, wire>>

(* An empty projection is refused before any request.                       *)
RefuseEnvelope ==
  /\ pc = "ready"
  /\ disk' = [disk EXCEPT ![Dir(Current)] =
                Written(@, ProjectionError(Current), Current)]
  /\ NextCall(NewRecord)
  /\ UNCHANGED wire

Begin ==
  /\ pc = "ready"
  /\ pc' = "attempting"
  /\ record' = [record EXCEPT ![Current] = NewRecord]
  /\ UNCHANGED <<turn, attempt, elapsed, disk, wire>>

(* One attempt: the audit of the exact bytes is archived, then sent.        *)
MayAttempt == attempt <= MAX_LLM_ATTEMPTS /\ elapsed < PHASE_SECONDS

Post ==
  /\ pc = "attempting" /\ MayAttempt
  /\ record' = [record EXCEPT ![Current].attempts = attempt]
  /\ disk' = [disk EXCEPT ![Dir(Current)] =
                Written(@, AuditFile(Current, attempt), Current)]
  /\ pc' = "waiting"
  /\ UNCHANGED <<turn, attempt, elapsed, wire>>

(* The attempts or the budget are exhausted: the record says error and      *)
(* lists the artifacts of the directory.                                    *)
GiveUp ==
  /\ pc = "attempting" /\ ~MayAttempt
  /\ NextCall([record[Current] EXCEPT !.refs = AttemptFiles(disk[Dir(Current)])])
  /\ UNCHANGED <<disk, wire>>

\* Faulty variant: every attempt settles the first.
FirstOfAnyAttempt(answer) ==
  IF ~HasBody(answer) THEN record[Current].first
  ELSE IF ValidDocument(answer) THEN "valid" ELSE "invalid"

(* first_attempt_schema_valid, settled by the first attempt only.           *)
FirstAttempt(answer) ==
  IF attempt # 1 \/ ~HasBody(answer) \/ answer = "status" THEN record[Current].first
  ELSE IF ValidDocument(answer) THEN "valid" ELSE "invalid"

\* Faulty variant: the model that answers is not looked at.
AnyModel(answer) == answer \in WrongModel \cup Good
Accepted(answer) == answer \in Good

(* The files an answer leaves: the metadata of a body, the error of a       *)
(* refused answer, the trace of a fence.                                    *)
Captured(files, answer) ==
  LET meta == IF HasBody(answer)
              THEN Written(files, MetaFile(attempt), Current) ELSE files
      error == IF Accepted(answer) THEN meta
               ELSE Written(meta, ErrorFile(attempt), ErrorClass(answer))
  IN IF answer = "fenced" THEN Written(error, TraceFile(attempt), Current) ELSE error

(* An attempt may last longer than the time left: the timeout of urlopen    *)
(* bounds one socket operation, not the whole answer.  A timeout means that *)
(* at least the time left went by.                                          *)
Answer(answer, lag) ==
  /\ pc = "waiting"
  /\ answer = "timeout" => elapsed + lag >= PHASE_SECONDS
  /\ wire' = [wire EXCEPT ![Current] = Append(@, answer)]
  /\ elapsed' = elapsed + lag
  /\ IF answer \in Escaping
     THEN pc' = "aborted" /\ UNCHANGED <<record, disk, attempt>>
     ELSE LET files == Captured(disk[Dir(Current)], answer)
              first == [record[Current] EXCEPT !.first = FirstAttempt(answer)]
          IN /\ disk' = [disk EXCEPT ![Dir(Current)] = files]
             /\ IF Accepted(answer)
                THEN /\ record' = [record EXCEPT ![Current] =
                           [first EXCEPT !.status = "ok", !.refs = AttemptFiles(files)]]
                     /\ pc' = "answered"
                     /\ UNCHANGED attempt
                ELSE /\ record' = [record EXCEPT ![Current] = first]
                     /\ attempt' = attempt + 1
                     /\ pc' = "attempting"
  /\ UNCHANGED turn

(* assess_internal and assess_final validate the document against the       *)
(* registries sent; an invalid one turns the record into an error.          *)
Accept ==
  /\ pc = "answered"
  /\ NextCall(record[Current])
  /\ UNCHANGED <<disk, wire>>

Reject ==
  /\ pc = "answered"
  /\ disk' = [disk EXCEPT ![Dir(Current)] = Written(@, RejectFile(Current), Current)]
  /\ NextCall([record[Current] EXCEPT !.status = "error", !.refs = @ \cup {RejectFile(Current)}])
  /\ UNCHANGED wire

Next ==
  \/ NoCall \/ RefuseEnvelope \/ Begin \/ Post \/ GiveUp \/ Accept \/ Reject
  \/ \E answer \in Answers, lag \in 0 .. MaxLag : Answer(answer, lag)

Spec == Init /\ [][Next]_vars

-----------------------------------------------------------------------------
(* The evaluation reads the files back.                                     *)

InputAudits(dir, phase) ==
  {f \in DOMAIN disk[dir] : f[1] = "input_audit" /\ f[2] = phase}

(* The external evidence of the email: whether the merged bundle has some,  *)
(* and whether the budgets of the FINAL envelope left it in the request.    *)
Bundles == {b \in [external : BOOLEAN, sent : BOOLEAN] : b.sent => b.external}

(* What one audit file says: the control B sends no external evidence.      *)
ExternalSent(call, bundle) == call = "final" /\ bundle.sent

(* validate_control_audits: B without any external evidence, C with some    *)
(* when the bundle has some.                                                *)
ControlAuditsValid(bundle) ==
  LET b == InputAudits("responses_control_b", "final")
      c == InputAudits("responses", "final")
  IN /\ b # {} /\ c # {}
     /\ \A f \in b : ~ExternalSent(disk["responses_control_b"][f], bundle)
     /\ bundle.external => \A f \in c : ExternalSent(disk["responses"][f], bundle)

(* count_attempt_refusals over the two directories.                         *)
CountedRefusals ==
  {e \in Dirs \X {ErrorFile(n) : n \in Attempts} :
     e[2] \in DOMAIN disk[e[1]] /\ disk[e[1]][e[2]] = "LLMRefused"}

RefusedAttempts ==
  {e \in CallSet \X Attempts :
     e[2] <= Len(wire[e[1]]) /\ wire[e[1]][e[2]] = "refused"}

-----------------------------------------------------------------------------
CallRecords ==
  [status : {"none", "error", "ok"}, attempts : 0 .. MAX_LLM_ATTEMPTS,
   first : {"none", "valid", "invalid"}, refs : SUBSET FileNames]

(* Every variable stays in its domain; a file is named after what it holds. *)
TypeOK ==
  /\ pc \in {"ready", "attempting", "waiting", "answered", "over", "aborted"}
  /\ turn \in 1 .. Len(Calls) + 1 /\ attempt \in 1 .. MAX_LLM_ATTEMPTS + 1
  /\ elapsed \in 0 .. PHASE_SECONDS + MaxLag
  /\ record \in [CallSet -> CallRecords]
  /\ wire \in [CallSet -> Seq(Answers)]
  /\ DOMAIN disk = Dirs /\ \A d \in Dirs : DOMAIN disk[d] \subseteq FileNames

FirstVerdict(exchanges) ==
  LET first == IF exchanges = << >> THEN "transport" ELSE exchanges[1]
  IN CASE first \in {"invalid", "refused"} -> "invalid"
       [] first \in {"wrong_model", "ok", "fenced"} -> "valid"
       [] OTHER -> "none"

TellsTheWire(r, exchanges, unanswered) ==
  /\ r.attempts = Len(exchanges) + unanswered
  /\ r.status = "ok" =>
       exchanges # << >> /\ exchanges[Len(exchanges)] \in {"ok", "fenced"}
  /\ \A i \in 1 .. Len(exchanges) - 1 : exchanges[i] \notin {"ok", "fenced"}
  /\ r.first = FirstVerdict(exchanges)

InProgress(c) == turn <= Len(Calls) /\ c = Current
Unanswered(c) == IF InProgress(c) /\ pc = "waiting" THEN 1 ELSE 0

(* A record says ok only when the last exchange of that very call returned  *)
(* a valid document of the requested model; and every record tells what     *)
(* went over the wire: as many attempts as requests, none of them sent      *)
(* after an accepted answer or beyond MAX_LLM_ATTEMPTS, and a first attempt *)
(* judged by the first answer alone, not at all when it had no document.    *)
RecordTellsTheWire ==
  \A c \in CallSet : TellsTheWire(record[c], wire[c], Unanswered(c))

(* The comparison of the arms B and C is declared valid only when both      *)
(* requests were really sent and each audit read is of the request of its   *)
(* own arm, C carrying the external evidence whenever the bundle has some;  *)
(* and it is never declared invalid when all of that holds.                 *)
ControlProofIsSound ==
  pc = "over" => \A bundle \in Bundles :
    ( ControlAuditsValid(bundle) <=>
        /\ wire["final"] # << >> /\ wire["control_b"] # << >>
        /\ bundle.external => bundle.sent )

(* docs/contracts.md:136 keeps the evidence of every attempt, refusals      *)
(* included, and count_attempt_refusals counts them: a refused attempt is   *)
(* still on disk at the end.  (FINAL writes over INTERNAL's error files.)   *)
EveryRefusalIsKept ==
  pc = "over" => Cardinality(CountedRefusals) = Cardinality(RefusedAttempts)
=============================================================================
