------------------------------- MODULE Lookups -------------------------------
(***************************************************************************)
(* The read-only lookups of the enrichment: VirusTotal, OpenCTI and the    *)
(* public OSINT sources (src/tools/virustotal.py, opencti.py, osint.py).   *)
(* A caller opens a context with a deadline, the node of the graph for all *)
(* its targets and the agent's executor for each call, and an adapter      *)
(* answers one observable with one ToolResult.  An OSINT lookup asks up to *)
(* four sources in order, RDAP in one or two requests and DNS in up to     *)
(* five; VirusTotal and OpenCTI are one source and one request.            *)
(* Every budget is nested: the socket's timeout in the source's, in the    *)
(* lookup's, in the context's, in the email's.                             *)
(***************************************************************************)
EXTENDS Integers, Sequences, FiniteSets, SequencesExt

CONSTANTS EmailSeconds,   \* MAX_EMAIL_SECONDS, in ticks
          PhaseSeconds,   \* phase_timeout_s of each tool
          SourceSeconds,  \* *_timeout_s of each source
          MinBudget,      \* _MIN_REQUEST_BUDGET_S
          MaxOverrun,     \* an answer may trickle in this long after its timeout
          DnsTypes,       \* number of record types asked (_DNS_TYPES)
          MaxTargets,     \* lookups of one context
          MaxContexts,    \* bound of the model: contexts opened
          Settings        \* what the operator may have configured

Tools == {"virustotal", "opencti", "osint"}
Kinds == {"hash", "url", "ip", "domain", "subdomain", "suffix", "reserved"}
SourceNames == {"virustotal", "opencti", "threatfox", "rdap", "dns", "ct"}
Earlier(a, b) == IF a < b THEN a ELSE b

(* The key is VT_API_KEY, OPENCTI_API_KEY or ABUSECH_API_KEY; consent is    *)
(* VT_ACCESS_AUTHORIZED, or OpenCTI in the approved services; urls whether  *)
(* the egress policy lets this URL out; transport whether vt-py and pycti   *)
(* are installed.                                                           *)
ASSUME LookupAssumption ==
  /\ EmailSeconds \in Nat /\ MinBudget \in Nat /\ MaxOverrun \in Nat
  /\ PhaseSeconds \in [Tools -> Nat] /\ SourceSeconds \in [SourceNames -> Nat]
  /\ DnsTypes \in Nat \ {0} /\ MaxTargets \in Nat \ {0} /\ MaxContexts \in Nat
  /\ Settings \subseteq [key : BOOLEAN, consent : BOOLEAN, urls : BOOLEAN, transport : BOOLEAN]

(* The sources of a lookup, in order (_applicable_sources).                 *)
Sources(tool, kind) ==
  IF tool # "osint" THEN <<tool>>
  ELSE CASE kind \in {"domain", "subdomain", "suffix"} -> <<"threatfox", "rdap", "dns", "ct">>
         [] kind = "ip" -> <<"threatfox", "rdap">>
         [] OTHER -> <<"threatfox">>

RequestCap == [virustotal |-> 1, opencti |-> 1, threatfox |-> 1, rdap |-> 2,
               dns |-> DnsTypes, ct |-> 1]

(* The first gate that refuses, in the code's order, or "open".  A disabled *)
(* tool skips everything, as it does a reserved observable; the quotas of   *)
(* VirusTotal are VTLimiter.                                                *)
VirusTotalGate(kind, s) ==
  IF kind = "url" /\ ~s.transport THEN "unavailable"     \* vt-py missing
  ELSE IF kind = "reserved" THEN "skipped"               \* no endpoint, reserved host
  ELSE IF kind = "url" /\ ~s.urls THEN "skipped"         \* url_send_refusal
  ELSE IF ~s.key \/ ~s.consent THEN "unavailable"
  ELSE "open"
\* Faulty variant: OpenCTI needs no network switch and no consent.
OpenCTIGateOfKey(kind, s) ==
  IF kind = "reserved" THEN "skipped" ELSE IF s.key THEN "open" ELSE "unavailable"
OpenCTIGate(kind, s) ==
  IF kind = "reserved" THEN "skipped"                    \* search_value_for
  ELSE IF ~s.transport \/ ~s.key THEN "unavailable"      \* pycti, not_configured
  ELSE IF ~s.consent \/ (kind = "url" /\ ~s.urls)
       THEN "skipped"                           \* service_send_refusal, url_send_refusal
  ELSE "open"
OsintGate(kind, s) == IF kind \in {"url", "reserved"} THEN "skipped" ELSE "open"
Gate(tool, kind, s) ==
  CASE tool = "virustotal" -> VirusTotalGate(kind, s)
    [] tool = "opencti" -> OpenCTIGate(kind, s)
    [] OTHER -> OsintGate(kind, s)

(* A source that sends nothing whatever the time left: ThreatFox without    *)
(* its key; RDAP and CT for a name with no registrable domain.              *)
LocalStatus(source, kind, s) ==
  IF source = "threatfox" /\ ~s.key THEN "unavailable"
  ELSE IF source \in {"rdap", "ct"} /\ kind = "suffix" THEN "skipped"
  ELSE "asks"

-----------------------------------------------------------------------------
(* What one request can come back with.                                     *)

NoAnswer == {"timeout", "failure"}   \* nothing came back in time, or at all
(* 401, 403, 429, 5xx, a GraphQL error, a body over its limit or not of the *)
(* expected form, a redirect that is not allowed.                           *)
Refused == {"refused"}
Plain == NoAnswer \cup Refused \cup {"nothing", "hit"}

VirusTotalAnswers(kind) ==        \* "bare": an object without statistics
  Plain \cup {"bare"} \cup (IF kind = "url" THEN {"near"} ELSE {})
OpenCTIAnswers == Plain \cup {"near"}  \* candidates of the search, none exact
RdapAnswers == Plain \cup {"redirect"}
DnsAnswers == NoAnswer \cup {"nothing", "hit"}
Answers(source, kind) ==
  CASE source = "virustotal" -> VirusTotalAnswers(kind)
    [] source = "opencti" -> OpenCTIAnswers
    [] source = "rdap" -> RdapAnswers
    [] source = "dns" -> DnsAnswers
    [] OTHER -> Plain

(* The status one answer gives its source.                                  *)
VirusTotalStatus(answer) ==
  CASE answer \in {"hit", "near", "bare"} -> "ok"
    [] answer = "nothing" -> "not_found"
    [] OTHER -> "unavailable"
\* Faulty variant: a hit of the search is a match, equal value or not.
OpenCTIStatusOfTheSearch(answer) == VirusTotalStatus(answer)
OpenCTIStatus(answer) ==
  CASE answer = "hit" -> "ok"
    [] answer \in {"near", "nothing"} -> "not_found"
    [] OTHER -> "unavailable"
ThreatFoxStatus(answer) ==
  CASE answer = "hit" -> "ok" [] answer = "nothing" -> "not_found" [] OTHER -> "unavailable"
RdapStatus(answer) ==          \* a second redirect is over the limit
  CASE answer = "hit" -> "ok" [] answer = "nothing" -> "not_found" [] OTHER -> "unavailable"
CtStatus(answer) ==
  CASE answer = "hit" -> "ok" [] answer = "nothing" -> "not_found" [] OTHER -> "unavailable"
StatusOf(source, answer) ==
  CASE source = "virustotal" -> VirusTotalStatus(answer)
    [] source = "opencti" -> OpenCTIStatus(answer)
    [] source = "threatfox" -> ThreatFoxStatus(answer)
    [] source = "rdap" -> RdapStatus(answer)
    [] source = "ct" -> CtStatus(answer)
    [] OTHER -> IF answer = "hit" THEN "ok" ELSE "not_found"

(* The match level of the evidence of a source: RDAP and CT ask about the   *)
(* registrable parent; VirusTotal may answer about another URL.             *)
LevelOf(source, kind, answer) ==
  IF (source = "virustotal" /\ answer = "near")
     \/ (source \in {"rdap", "ct"} /\ kind = "subdomain")
  THEN "GENERIC" ELSE "EXACT"
GivesEvidence(source, answer) == StatusOf(source, answer) = "ok" /\ answer # "bare"

-----------------------------------------------------------------------------
VARIABLES
  now, settings,
  pc,        \* "closed", "open", "asking" (between requests), "waiting", "aborted"
  context,   \* the calls being made: tool, caller, deadline, lookups so far
  opened,    \* contexts opened so far
  lookup,    \* the lookup in progress
  result     \* the ToolResult just handed over

vars == <<now, settings, pc, context, opened, lookup, result>>

(* A lookup: its observable, the end of its budget, the source it asks, the *)
(* requests of that source, the timeout of the last; what the ToolResult    *)
(* will hold; and as history the requests really sent and what came back.   *)
NoLookup == [kind |-> "hash", end |-> 0, at |-> 1, asked |-> 0, sourceEnd |-> 0,
             until |-> 0, statuses |-> << >>, evidence |-> {}, claimed |-> 0,
             sent |-> 0, heard |-> {}]
NoResult == [status |-> "none", tool |-> "virustotal", lookup |-> NoLookup, raised |-> FALSE]

Init ==
  /\ now = 0 /\ settings \in Settings
  /\ pc = "closed" /\ opened = 0
  /\ context = [tool |-> "virustotal", caller |-> "graph", deadline |-> 0, targets |-> 0]
  /\ lookup = NoLookup /\ result = NoResult

Source == Sources(context.tool, lookup.kind)[lookup.at]

(* _tool_context of the graph and of the executor: only the agent reaches   *)
(* the OSINT adapter, and it opens a context for every call.                *)
Open(tool, caller) ==
  /\ pc \in {"closed", "open"} /\ opened < MaxContexts
  /\ tool = "osint" => caller = "agent"
  /\ opened' = opened + 1
  /\ context' = [tool |-> tool, caller |-> caller, targets |-> 0,
                 deadline |-> Earlier(EmailSeconds, now + PhaseSeconds[tool])]
  /\ pc' = "open" /\ result' = NoResult
  /\ UNCHANGED <<now, settings, lookup>>

(* The other nodes take time too, the two calls to the model among them.    *)
TimePasses ==
  /\ pc \in {"closed", "open"} /\ now < EmailSeconds
  /\ now' = now + 1 /\ result' = NoResult
  /\ UNCHANGED <<settings, pc, context, opened, lookup>>

-----------------------------------------------------------------------------
(* The ToolResult is handed over.  An exception leaves the graph's node and *)
(* ends the run; the agent's executor turns it into a result of its own.    *)
Give(status, final, raised) ==
  /\ result' = [status |-> status, tool |-> context.tool, lookup |-> final, raised |-> raised]
  /\ lookup' = NoLookup
  /\ context' = [context EXCEPT !.targets = @ + 1]
  /\ pc' = IF raised /\ context.caller = "graph" THEN "aborted" ELSE "open"

(* lookup: the gates, the deadline, then the first source.  The phase of an *)
(* OSINT lookup is counted again from its start, within the context's.      *)
Lookup(kind) ==
  LET tool == context.tool
      gate == Gate(tool, kind, settings)
      end == Earlier(context.deadline, now + PhaseSeconds[tool])
      tooLate == end - now < (IF tool = "osint" THEN 1 ELSE MinBudget)
      begun == [NoLookup EXCEPT !.kind = kind, !.end = end]
  IN /\ pc = "open"
     /\ context.targets < (IF context.caller = "graph" THEN MaxTargets ELSE 1)
     /\ IF gate # "open" THEN Give(gate, begun, FALSE)
        ELSE IF tooLate THEN Give("unavailable", begun, FALSE)
        ELSE lookup' = begun /\ pc' = "asking" /\ result' = NoResult /\ UNCHANGED context
     /\ UNCHANGED <<now, settings, opened>>

(* The time a source has when it starts, and has left at each request.      *)
SourceBudget == Earlier(SourceSeconds[Source], lookup.end - now)
\* Faulty variant: every request gets the whole budget of the source.
FullBudgetEachTime == SourceBudget
BudgetLeft == IF lookup.asked = 0 THEN SourceBudget ELSE lookup.sourceEnd - now

(* DNS once its loop is over: values count even if a later type timed out.  *)
DnsStatus(after, timedOut) ==
  IF \E e \in after.evidence : e[1] = "dns" THEN "ok"
  ELSE IF timedOut THEN "unavailable" ELSE "not_found"

\* Faulty variant: the first source speaks for all.
AggregateOfFirst(statuses) == statuses[1]

(* The status of the whole lookup: "skipped" for any mixture left over.     *)
Aggregate(statuses) ==
  IF Contains(statuses, "ok") THEN "ok"
  ELSE IF Contains(statuses, "unavailable") THEN "unavailable"
  ELSE IF \A i \in DOMAIN statuses : statuses[i] = "not_found" THEN "not_found"
  ELSE "skipped"

(* A source is settled: the next one, or the end of the lookup.             *)
Settle(after, status) ==
  LET final == [after EXCEPT !.statuses = Append(@, status)]
  IN IF lookup.at = Len(Sources(context.tool, lookup.kind))
     THEN Give(Aggregate(final.statuses), final, FALSE)
     ELSE /\ lookup' = [final EXCEPT !.at = @ + 1, !.asked = 0, !.sourceEnd = 0, !.until = 0]
          /\ pc' = "asking"
          /\ UNCHANGED <<result, context>>

SkipSource ==
  /\ pc = "asking"
  /\ LocalStatus(Source, lookup.kind, settings) # "asks"
  /\ Settle(lookup, LocalStatus(Source, lookup.kind, settings))
  /\ UNCHANGED <<now, settings, opened>>

(* Too little time for a request: DNS keeps what it has.                    *)
OutOfTime ==
  /\ pc = "asking"
  /\ LocalStatus(Source, lookup.kind, settings) = "asks"
  /\ BudgetLeft < MinBudget
  /\ Settle(lookup, IF Source = "dns" THEN DnsStatus(lookup, TRUE) ELSE "unavailable")
  /\ UNCHANGED <<now, settings, opened>>

Ask ==
  /\ pc = "asking"
  /\ LocalStatus(Source, lookup.kind, settings) = "asks"
  /\ BudgetLeft >= MinBudget
  /\ lookup' = [lookup EXCEPT
       !.asked = @ + 1,
       !.until = now + BudgetLeft,
       !.sourceEnd = IF lookup.asked = 0 THEN now + BudgetLeft ELSE @]
  /\ pc' = "waiting"
  /\ UNCHANGED <<now, settings, opened, context, result>>

(* Where an answer leads: the other hop of RDAP, the next type of DNS, or   *)
(* the status of the source.                                                *)
AsksAgain(answer) ==
  \/ Source = "rdap" /\ answer = "redirect" /\ lookup.asked < RequestCap["rdap"]
  \/ Source = "dns" /\ answer # "timeout" /\ lookup.asked < RequestCap["dns"]

(* A request that failed may never have left; the adapters count it.        *)
Heard(answer, left) ==
  [lookup EXCEPT
     !.claimed = @ + 1,
     !.sent = @ + (IF left THEN 1 ELSE 0),
     !.heard = @ \cup {<<Source, answer>>},
     !.evidence = IF GivesEvidence(Source, answer)
                  THEN @ \cup {<<Source, LevelOf(Source, lookup.kind, answer)>>} ELSE @]

(* OpenCTI is bounded by the wall clock; elsewhere the timeout bounds one   *)
(* socket operation and the answer may trickle in later.                    *)
InTime(answer, lag) ==
  /\ now + lag <= lookup.until + (IF Source = "opencti" THEN 0 ELSE MaxOverrun)
  /\ answer = "timeout" => now + lag >= lookup.until

Reply(answer, left, lag) ==
  LET after == Heard(answer, left)
  IN /\ pc = "waiting"
     /\ answer \in Answers(Source, lookup.kind)
     /\ ~left => answer = "failure"
     /\ InTime(answer, lag)
     /\ now' = now + lag
     /\ IF AsksAgain(answer)
        THEN lookup' = after /\ pc' = "asking" /\ UNCHANGED <<context, result>>
        ELSE Settle(after, IF Source = "dns" THEN DnsStatus(after, answer = "timeout")
                           ELSE StatusOf(Source, answer))
     /\ UNCHANGED <<settings, opened>>

(* The answer arrived and could not be archived: the adapter raises, and    *)
(* the executor's own result claims no request and no evidence.             *)
ArchiveFails ==
  /\ pc = "waiting"
  /\ Give("unavailable", [lookup EXCEPT !.sent = @ + 1, !.claimed = 0, !.evidence = {}], TRUE)
  /\ UNCHANGED <<now, settings, opened>>

Next ==
  \/ \E tool \in Tools, caller \in {"graph", "agent"} : Open(tool, caller)
  \/ TimePasses
  \/ \E kind \in Kinds : Lookup(kind)
  \/ SkipSource \/ OutOfTime \/ Ask \/ ArchiveFails
  \/ \E answer \in Plain \cup {"redirect", "near", "bare"},
        left \in BOOLEAN, lag \in 0 .. EmailSeconds + MaxOverrun : Reply(answer, left, lag)

Spec == Init /\ [][Next]_vars

-----------------------------------------------------------------------------
Statuses == {"ok", "not_found", "unavailable", "skipped"}
LookupRecords ==
  [kind : Kinds, end : Nat, at : Nat, asked : Nat, sourceEnd : Int, until : Int,
   statuses : Seq(Statuses), evidence : SUBSET (SourceNames \X {"EXACT", "GENERIC"}),
   claimed : Nat, sent : Nat,
   heard : SUBSET (SourceNames \X (Plain \cup {"redirect", "near", "bare"}))]

(* Every variable stays in its domain.                                      *)
TypeOK ==
  /\ now \in 0 .. EmailSeconds + MaxOverrun /\ settings \in Settings
  /\ pc \in {"closed", "open", "asking", "waiting", "aborted"}
  /\ opened \in 0 .. MaxContexts
  /\ context \in [tool : Tools, caller : {"graph", "agent"},
                  deadline : 0 .. EmailSeconds, targets : 0 .. MaxTargets]
  /\ lookup \in LookupRecords
  /\ result \in [status : Statuses \cup {"none"}, tool : Tools,
                 lookup : LookupRecords, raised : BOOLEAN]

(* While a request is out, its timeout fits in every budget around it: that *)
(* of its source, of its lookup, of its context and of the email, the second*)
(* hop of RDAP and every type of DNS included; and no source has more       *)
(* requests out than its cap.                                               *)
TimeoutsFitEveryBudget ==
  pc = "waiting" =>
    /\ lookup.until <= lookup.sourceEnd /\ lookup.sourceEnd <= lookup.end
    /\ lookup.end <= context.deadline /\ context.deadline <= EmailSeconds
    /\ lookup.asked <= RequestCap[Source]

Accounts(r) ==
  /\ ~r.raised => r.lookup.claimed >= r.lookup.sent
  /\ r.status \in {"ok", "not_found"} /\ r.tool # "osint" => r.lookup.claimed = r.lookup.sent
  /\ r.lookup.sent > 0 =>
       /\ r.lookup.kind # "reserved"
       /\ r.lookup.kind = "url" => settings.urls /\ r.tool # "osint"
       /\ r.tool # "osint" => settings.key /\ settings.consent
       /\ \A x \in r.lookup.heard : x[1] = "threatfox" => settings.key

(* requests_sent never hides a request, except in the result the executor   *)
(* makes of an exception; it is exact for an observation (ok, not_found);   *)
(* and nothing was sent without the key and the consent of the tool, nor    *)
(* for an observable its gates refuse.                                      *)
RequestsAreAccounted == Accounts(result)

(* The evidence of a lookup: each piece answered by its source, and exact   *)
(* only for a hit on the very observable.                                   *)
Answered(l) ==
  \A e \in l.evidence :
    /\ \E x \in l.heard : x[1] = e[1] /\ x[2] \in {"hit", "near"}
    /\ e[2] = "EXACT" =>
         /\ <<e[1], "hit">> \in l.heard
         /\ ~(e[1] \in {"rdap", "ct"} /\ l.kind = "subdomain")

StatusIsGrounded(status, l) ==
  /\ l.evidence # {} => status = "ok"
  /\ status = "ok" /\ l.evidence = {} => <<"virustotal", "bare">> \in l.heard
  /\ status = "not_found" => \A x \in l.heard : x[2] \notin Refused \cup {"timeout"}

(* A lookup reports evidence only of what it was answered: exact evidence   *)
(* is of the very observable, never of a near candidate, of another URL or  *)
(* of the registrable parent; evidence makes the lookup ok whatever other   *)
(* sources did, and without any it is ok only for a bare VirusTotal object. *)
FindingsAreGrounded ==
  Answered(result.lookup) /\ StatusIsGrounded(result.status, result.lookup)

(* docs/architecture.md:102: not_found is a technical success without a     *)
(* match, so some request was answered.  (A DNS lookup whose every type     *)
(* failed without a timeout is counted as not_found.)                       *)
NotFoundIsATechnicalSuccess ==
  result.status = "not_found" =>
    \A i \in DOMAIN result.lookup.statuses :
      \E x \in result.lookup.heard :
        /\ x[1] = Sources(result.tool, result.lookup.kind)[i]
        /\ x[2] \notin NoAnswer
=============================================================================
