---------------------------- MODULE LookupsProofs ----------------------------
(***************************************************************************)
(* Theorems about the lookups of the enrichment, for every budget, every   *)
(* configuration and every number of targets: the timeout of a request     *)
(* fits in all the budgets around it, the requests are counted, and the    *)
(* findings are grounded in what was answered.                             *)
(***************************************************************************)
EXTENDS Lookups, SequenceTheorems, TLAPS

-----------------------------------------------------------------------------
(***************************************************************************)
(* The inductive invariant.                                                *)
(***************************************************************************)

Busy == pc \in {"asking", "waiting"}
Has(l, status) == \E i \in 1 .. Len(l.statuses) : l.statuses[i] = status

\* A lookup in progress passed its gates; it asks one of its sources, within
\* its budgets and its cap.
InProgress ==
  Busy =>
    /\ context.targets < MaxTargets
    /\ Gate(context.tool, lookup.kind, settings) = "open"
    /\ lookup.at \in 1 .. Len(Sources(context.tool, lookup.kind))
    /\ lookup.end <= context.deadline
    /\ lookup.asked > 0 => lookup.sourceEnd <= lookup.end
    /\ pc = "asking" => lookup.asked < RequestCap[Source]
    /\ pc = "waiting" =>
         /\ LocalStatus(Source, lookup.kind, settings) = "asks"
         /\ lookup.until <= lookup.sourceEnd
         /\ lookup.asked \in 1 .. RequestCap[Source]

\* What a lookup holds at any time is grounded in what it heard.
Grounded(l) ==
  /\ l.claimed >= l.sent
  /\ \A x \in l.heard : x[1] = "threatfox" => settings.key
  /\ Answered(l)
  /\ Has(l, "ok") => l.evidence # {} \/ <<"virustotal", "bare">> \in l.heard
  /\ \A x \in l.heard : x[2] \in Refused \cup {"timeout"} =>
       Has(l, "ok") \/ Has(l, "unavailable")

\* Evidence makes its source ok: at once, or when the loop of DNS is over.
Accounted ==
  Busy =>
    /\ Grounded(lookup)
    /\ lookup.evidence # {} =>
         \/ Has(lookup, "ok")
         \/ Source = "dns" /\ \E e \in lookup.evidence : e[1] = "dns"
    /\ context.tool # "osint" => lookup.statuses = << >> /\ lookup.claimed = lookup.sent

LookupInv ==
  TypeOK /\ InProgress /\ Accounted /\ RequestsAreAccounted /\ FindingsAreGrounded

-----------------------------------------------------------------------------
(***************************************************************************)
(* Sources, gates and statuses.                                            *)
(***************************************************************************)

LEMMA SourcesType ==
  ASSUME NEW tool \in Tools, NEW kind \in Kinds
  PROVE  /\ Sources(tool, kind) \in Seq(SourceNames)
         /\ Len(Sources(tool, kind)) >= 1
         /\ tool # "osint" => Sources(tool, kind) = <<tool>>
<1>1. tool # "osint" => Sources(tool, kind) = <<tool>> /\ tool \in SourceNames
  BY DEF Sources, Tools, SourceNames
<1>2. tool = "osint" => Sources(tool, kind) \in
        {<<"threatfox", "rdap", "dns", "ct">>, <<"threatfox", "rdap">>, <<"threatfox">>}
  BY DEF Sources
<1>3. ASSUME NEW a \in SourceNames, NEW b \in SourceNames, NEW c \in SourceNames,
             NEW d \in SourceNames
      PROVE  /\ <<a>> \in Seq(SourceNames) /\ Len(<<a>>) >= 1
             /\ <<a, b>> \in Seq(SourceNames) /\ Len(<<a, b>>) >= 1
             /\ <<a, b, c, d>> \in Seq(SourceNames) /\ Len(<<a, b, c, d>>) >= 1
  OBVIOUS
<1>4. {"threatfox", "rdap", "dns", "ct"} \subseteq SourceNames
  BY DEF SourceNames
<1> QED
  BY <1>1, <1>2, <1>3, <1>4

LEMMA SourceType ==
  ASSUME NEW tool \in Tools, NEW kind \in Kinds,
         NEW i \in 1 .. Len(Sources(tool, kind))
  PROVE  /\ Sources(tool, kind)[i] \in SourceNames
         /\ tool # "osint" => i = 1 /\ Sources(tool, kind)[i] = tool
         /\ tool = "osint" => Sources(tool, kind)[i] \notin {"virustotal", "opencti"}
<1>1. Sources(tool, kind)[i] \in SourceNames
  BY SourcesType, ElementOfSeq
<1>2. tool # "osint" => i = 1 /\ Sources(tool, kind)[i] = tool
  <2> SUFFICES ASSUME tool # "osint"
               PROVE  i = 1 /\ Sources(tool, kind)[i] = tool
    OBVIOUS
  <2>1. Sources(tool, kind) = <<tool>>
    BY SourcesType
  <2>2. i \in 1 .. Len(<<tool>>)
    BY <2>1
  <2>3. i = 1
    BY <2>2
  <2> QED
    BY <2>1, <2>3
<1>3. tool = "osint" => Sources(tool, kind)[i] \notin {"virustotal", "opencti"}
  BY DEF Sources, Kinds
<1> QED
  BY <1>1, <1>2, <1>3

LEMMA CapType == ASSUME NEW source \in SourceNames PROVE RequestCap[source] \in Nat \ {0}
  BY LookupAssumption DEF RequestCap, SourceNames

\* What an open gate means.
LEMMA GateIsOpen ==
  ASSUME NEW tool \in Tools, NEW kind \in Kinds, NEW s \in Settings,
         Gate(tool, kind, s) = "open"
  PROVE  /\ kind # "reserved"
         /\ kind = "url" => s.urls /\ tool # "osint"
         /\ tool # "osint" => s.key /\ s.consent
<1>1. CASE tool = "virustotal"
  BY <1>1 DEF Gate, VirusTotalGate
<1>2. CASE tool = "opencti"
  BY <1>2 DEF Gate, OpenCTIGate
<1>3. CASE tool = "osint"
  BY <1>3 DEF Gate, OsintGate
<1> QED
  BY <1>1, <1>2, <1>3 DEF Tools

LEMMA GateType ==
  ASSUME NEW tool \in Tools, NEW kind \in Kinds, NEW s \in Settings
  PROVE  Gate(tool, kind, s) \in {"open", "skipped", "unavailable"}
  BY DEF Gate, VirusTotalGate, OpenCTIGate, OsintGate, Tools

LEMMA StatusType ==
  ASSUME NEW source \in SourceNames, NEW answer
  PROVE  StatusOf(source, answer) \in {"ok", "not_found", "unavailable"}
  BY DEF StatusOf, VirusTotalStatus, OpenCTIStatus, ThreatFoxStatus, RdapStatus, CtStatus,
     SourceNames

\* What the aggregate of the sources tells of each.
LEMMA AggregateTells ==
  ASSUME NEW statuses \in Seq(Statuses), statuses # << >>
  PROVE  /\ Aggregate(statuses) \in Statuses
         /\ Aggregate(statuses) = "ok" <=> \E i \in 1 .. Len(statuses) : statuses[i] = "ok"
         /\ Aggregate(statuses) = "not_found" =>
              \A i \in 1 .. Len(statuses) : statuses[i] = "not_found"
<1> DEFINE Some(status) == \E i \in 1 .. Len(statuses) : statuses[i] = status
<1>1. /\ DOMAIN statuses = 1 .. Len(statuses)
      /\ Contains(statuses, "ok") <=> Some("ok")
      /\ Contains(statuses, "unavailable") <=> Some("unavailable")
  BY DEF Contains
<1>2. CASE Some("ok")
  <2>1. Aggregate(statuses) = "ok"
    BY <1>1, <1>2 DEF Aggregate
  <2> QED
    BY <1>2, <2>1 DEF Statuses
<1>3. CASE ~Some("ok") /\ Some("unavailable")
  <2>1. Aggregate(statuses) = "unavailable"
    BY <1>1, <1>3 DEF Aggregate
  <2> QED
    BY <1>3, <2>1 DEF Statuses
<1>4. CASE ~Some("ok") /\ ~Some("unavailable")
  <2>1. Aggregate(statuses) = IF \A i \in 1 .. Len(statuses) : statuses[i] = "not_found"
                              THEN "not_found" ELSE "skipped"
    BY <1>1, <1>4 DEF Aggregate
  <2> QED
    BY <1>4, <2>1 DEF Statuses
<1> QED
  BY <1>2, <1>3, <1>4

-----------------------------------------------------------------------------
(***************************************************************************)
(* A lookup gains a status.                                                *)
(***************************************************************************)

WithStatus(l, status) == [l EXCEPT !.statuses = Append(@, status)]

LEMMA WithStatusType ==
  ASSUME NEW l \in LookupRecords, NEW status \in Statuses
  PROVE  /\ WithStatus(l, status) \in LookupRecords
         /\ WithStatus(l, status).statuses = Append(l.statuses, status)
         /\ \A s : Has(WithStatus(l, status), s) <=> Has(l, s) \/ s = status
<1> DEFINE v == Append(l.statuses, status)
<1>1. l.statuses \in Seq(Statuses)
  BY DEF LookupRecords
<1>2. /\ v \in Seq(Statuses) /\ Len(v) = Len(l.statuses) + 1 /\ Len(l.statuses) \in Nat
      /\ v[Len(l.statuses) + 1] = status
      /\ \A i \in 1 .. Len(l.statuses) : v[i] = l.statuses[i]
  BY <1>1, AppendProperties
<1>3. WithStatus(l, status) \in LookupRecords /\ WithStatus(l, status).statuses = v
  <2>1. WithStatus(l, status) = [l EXCEPT !.statuses = v]
    BY DEF WithStatus
  <2> HIDE DEF v
  <2> QED
    BY <1>2, <2>1 DEF LookupRecords
<1>4. ASSUME NEW s
      PROVE  Has(WithStatus(l, status), s) <=> Has(l, s) \/ s = status
  <2> HIDE DEF v
  <2>1. Has(WithStatus(l, status), s) <=> \E i \in 1 .. Len(l.statuses) + 1 : v[i] = s
    BY <1>2, <1>3 DEF Has
  <2>2. (\E i \in 1 .. Len(l.statuses) + 1 : v[i] = s)
          <=> (\E i \in 1 .. Len(l.statuses) : v[i] = s) \/ v[Len(l.statuses) + 1] = s
    BY <1>2
  <2> QED
    BY <1>2, <2>1, <2>2 DEF Has
<1> QED
  BY <1>3, <1>4

-----------------------------------------------------------------------------
(***************************************************************************)
(* A result is handed over.                                                *)
(***************************************************************************)

\* What may be handed over: the properties of a result, for these settings.
Reportable(r) ==
  Accounts(r) /\ Answered(r.lookup) /\ StatusIsGrounded(r.status, r.lookup)

LEMMA NoResultIsReportable ==
  /\ NoLookup \in LookupRecords /\ NoLookup.evidence = {} /\ NoLookup.heard = {}
  /\ NoLookup.claimed = 0 /\ NoLookup.sent = 0 /\ NoLookup.statuses = << >>
  /\ NoResult \in [status : Statuses \cup {"none"}, tool : Tools,
                   lookup : LookupRecords, raised : BOOLEAN]
  /\ Reportable(NoResult)
<1>1. /\ NoLookup \in LookupRecords /\ NoLookup.evidence = {} /\ NoLookup.heard = {}
      /\ NoLookup.claimed = 0 /\ NoLookup.sent = 0 /\ NoLookup.statuses = << >>
  <2>1. << >> \in Seq(Statuses)
    OBVIOUS
  <2> QED
    BY <2>1 DEF NoLookup, LookupRecords, Kinds
<1> HIDE DEF NoLookup
<1>2. /\ NoResult.lookup = NoLookup /\ NoResult.status = "none" /\ ~NoResult.raised
      /\ NoResult \in [status : Statuses \cup {"none"}, tool : Tools,
                       lookup : LookupRecords, raised : BOOLEAN]
  BY <1>1 DEF NoResult, Tools
<1> QED
  BY <1>1, <1>2 DEF Reportable, Accounts, Answered, StatusIsGrounded

\* The target of the context is done with.
LEMMA GiveKeeps ==
  ASSUME LookupInv, context.targets < MaxTargets,
         NEW status \in Statuses, NEW final \in LookupRecords, NEW raised \in BOOLEAN,
         Give(status, final, raised),
         Reportable([status |-> status, tool |-> context.tool, lookup |-> final,
                     raised |-> raised]),
         now' \in 0 .. EmailSeconds + MaxOverrun, settings' = settings, opened' = opened
  PROVE  LookupInv'
<1> DEFINE r == [status |-> status, tool |-> context.tool, lookup |-> final,
                 raised |-> raised]
<1>1. /\ result' = r /\ lookup' = NoLookup /\ pc' \in {"aborted", "open"}
      /\ context' = [context EXCEPT !.targets = @ + 1]
  BY DEF Give
<1>2. context' \in [tool : Tools, caller : {"graph", "agent"},
                    deadline : 0 .. EmailSeconds, targets : 0 .. MaxTargets]
  BY <1>1, LookupAssumption DEF LookupInv, TypeOK
<1>3. r \in [status : Statuses \cup {"none"}, tool : Tools,
             lookup : LookupRecords, raised : BOOLEAN]
  BY DEF LookupInv, TypeOK
<1>4. Reportable(r)
  OBVIOUS
<1> HIDE DEF r
<1>5. TypeOK'
  BY <1>1, <1>2, <1>3, NoResultIsReportable DEF LookupInv, TypeOK
<1>6. ~Busy'
  BY <1>1 DEF Busy
<1>7. RequestsAreAccounted' /\ FindingsAreGrounded'
  BY <1>1, <1>4 DEF Reportable, Accounts, Answered, StatusIsGrounded,
     RequestsAreAccounted, FindingsAreGrounded
<1> QED
  BY <1>5, <1>6, <1>7 DEF LookupInv, InProgress, Accounted

\* A lookup that held nothing yet: a gate refused it, or it came too late.
LEMMA BegunIsReportable ==
  ASSUME NEW l \in LookupRecords, l.evidence = {}, l.claimed = 0, l.sent = 0,
         l.heard = {}, NEW status, status \notin {"ok", "not_found"}, NEW tool
  PROVE  Reportable([status |-> status, tool |-> tool, lookup |-> l, raised |-> FALSE])
  BY DEF Reportable, Accounts, Answered, StatusIsGrounded

\* Whatever ends while a request of a lookup is settled is reportable.
LEMMA FinalIsReportable ==
  ASSUME LookupInv, Busy, NEW final \in LookupRecords, final.kind = lookup.kind,
         Grounded(final), final.statuses # << >>,
         final.evidence # {} => Has(final, "ok"),
         context.tool # "osint" =>
           Len(final.statuses) = 1 /\
           (final.statuses[1] \in {"ok", "not_found"} => final.claimed = final.sent)
  PROVE  Reportable([status |-> Aggregate(final.statuses), tool |-> context.tool,
                     lookup |-> final, raised |-> FALSE])
<1> DEFINE status == Aggregate(final.statuses)
           r == [status |-> status, tool |-> context.tool, lookup |-> final, raised |-> FALSE]
<1>1. final.statuses \in Seq(Statuses)
  BY DEF LookupRecords
<1>2. /\ status = "ok" <=> Has(final, "ok")
      /\ status = "not_found" => ~Has(final, "ok") /\ ~Has(final, "unavailable")
      /\ status = "not_found" =>
           \A i \in 1 .. Len(final.statuses) : final.statuses[i] = "not_found"
  BY <1>1, AggregateTells DEF Has
<1>3. context.tool \in Tools /\ lookup.kind \in Kinds /\ settings \in Settings
  BY DEF LookupInv, TypeOK, LookupRecords
<1>4. Gate(context.tool, lookup.kind, settings) = "open"
  BY DEF LookupInv, InProgress
<1>5. /\ final.kind # "reserved"
      /\ final.kind = "url" => settings.urls /\ context.tool # "osint"
      /\ context.tool # "osint" => settings.key /\ settings.consent
  BY <1>3, <1>4, GateIsOpen
<1>6. context.tool # "osint" /\ status \in {"ok", "not_found"} =>
        final.statuses[1] \in {"ok", "not_found"}
  BY <1>1, <1>2 DEF Has
<1> HIDE DEF status
<1>7. Accounts(r)
  BY <1>5, <1>6 DEF Accounts, Grounded
<1>8. Answered(final) /\ StatusIsGrounded(status, final)
  BY <1>2 DEF Grounded, StatusIsGrounded
<1> QED
  BY <1>7, <1>8 DEF Reportable, status

NextSource(l) == [l EXCEPT !.at = @ + 1, !.asked = 0, !.sourceEnd = 0, !.until = 0]

LEMMA NextSourceType ==
  ASSUME NEW l \in LookupRecords
  PROVE  LET m == NextSource(l)
         IN /\ m \in LookupRecords /\ m.kind = l.kind /\ m.at = l.at + 1 /\ m.asked = 0
            /\ m.end = l.end /\ m.statuses = l.statuses /\ m.evidence = l.evidence
            /\ m.heard = l.heard /\ m.claimed = l.claimed /\ m.sent = l.sent
<1>1. l.at + 1 \in Nat /\ 0 \in Nat /\ 0 \in Int
  BY DEF LookupRecords
<1> QED
  BY <1>1 DEF NextSource, LookupRecords

\* A source is settled: the lookup ends, or goes on with the next source.
LEMMA SettleKeeps ==
  ASSUME LookupInv, Busy, NEW after \in LookupRecords,
         after.kind = lookup.kind, after.at = lookup.at, after.end = lookup.end,
         NEW status \in Statuses, Settle(after, status),
         Grounded(WithStatus(after, status)),
         after.evidence # {} => Has(WithStatus(after, status), "ok"),
         context.tool # "osint" =>
           /\ after.statuses = << >>
           /\ status \in {"ok", "not_found"} => after.claimed = after.sent,
         now' \in 0 .. EmailSeconds + MaxOverrun, settings' = settings, opened' = opened
  PROVE  LookupInv'
<1> DEFINE final == WithStatus(after, status)
<1>1. /\ context.tool \in Tools /\ lookup.kind \in Kinds /\ settings \in Settings
      /\ context.targets < MaxTargets
      /\ lookup.at \in 1 .. Len(Sources(context.tool, lookup.kind))
  BY DEF LookupInv, TypeOK, InProgress, LookupRecords
<1>2. /\ final \in LookupRecords /\ final.statuses = Append(after.statuses, status)
      /\ final.kind = lookup.kind /\ final.at = lookup.at /\ final.end = lookup.end
      /\ final.evidence = after.evidence /\ final.claimed = after.claimed
      /\ final.sent = after.sent /\ final.heard = after.heard
  BY WithStatusType DEF WithStatus, LookupRecords
<1>3. after.statuses \in Seq(Statuses)
  BY DEF LookupRecords
<1>4. final.statuses # << >> /\ final.statuses \in Seq(Statuses)
  BY <1>2, <1>3, AppendProperties
<1>5. CASE lookup.at = Len(Sources(context.tool, lookup.kind))
  <2>1. Give(Aggregate(final.statuses), final, FALSE)
    BY <1>5 DEF Settle, WithStatus
  <2>2. context.tool # "osint" =>
          Len(final.statuses) = 1 /\
          (final.statuses[1] \in {"ok", "not_found"} => final.claimed = final.sent)
    BY <1>2
  <2>3. Reportable([status |-> Aggregate(final.statuses), tool |-> context.tool,
                    lookup |-> final, raised |-> FALSE])
    <3> HIDE DEF final
    <3>1. Grounded(final) /\ (final.evidence # {} => Has(final, "ok"))
      BY <1>2 DEF final
    <3> QED
      BY <1>2, <1>4, <2>2, <3>1, FinalIsReportable
  <2>4. Aggregate(final.statuses) \in Statuses
    BY <1>4, AggregateTells
  <2> HIDE DEF final
  <2> QED
    BY <1>1, <1>2, <2>1, <2>3, <2>4, GiveKeeps
<1>6. CASE lookup.at # Len(Sources(context.tool, lookup.kind))
  <2>1. lookup' = NextSource(final) /\ pc' = "asking" /\ UNCHANGED <<result, context>>
    BY <1>6 DEF Settle, WithStatus, NextSource
  <2>2. context.tool = "osint"
    BY <1>1, <1>6, SourceType, SourcesType
  <2>3. Grounded(final) /\ (final.evidence # {} => Has(final, "ok"))
    BY <1>2
  <2> HIDE DEF final
  <2>4. /\ lookup' \in LookupRecords /\ lookup'.kind = lookup.kind
        /\ lookup'.at = lookup.at + 1 /\ lookup'.asked = 0 /\ lookup'.end = lookup.end
        /\ lookup'.statuses = final.statuses /\ lookup'.evidence = final.evidence
        /\ lookup'.heard = final.heard /\ lookup'.claimed = final.claimed
        /\ lookup'.sent = final.sent
    BY <1>2, <2>1, NextSourceType
  <2>5. TypeOK'
    BY <2>1, <2>4 DEF LookupInv, TypeOK
  <2>6. lookup'.at \in 1 .. Len(Sources(context'.tool, lookup'.kind))
    BY <1>1, <1>6, <2>1, <2>4
  <2>7. RequestCap[Source'] >= 1
    <3>1. Source' = Sources(context.tool, lookup.kind)[lookup.at + 1]
      BY <2>1, <2>4 DEF Source
    <3>2. Source' \in SourceNames
      BY <1>1, <2>1, <2>4, <2>6, <3>1, SourceType
    <3> QED
      BY <3>2, CapType
  <2>8. InProgress'
    <3> SUFFICES /\ context'.targets < MaxTargets
                 /\ Gate(context'.tool, lookup'.kind, settings') = "open"
                 /\ lookup'.at \in 1 .. Len(Sources(context'.tool, lookup'.kind))
                 /\ lookup'.end <= context'.deadline
                 /\ lookup'.asked = 0 /\ pc' = "asking"
                 /\ lookup'.asked < RequestCap[Source']
      BY DEF InProgress
    <3>1. RequestCap[Source'] \in Nat
      BY <1>1, <2>1, <2>4, <2>6, CapType, SourceType DEF Source
    <3> QED
      BY <1>1, <2>1, <2>4, <2>6, <2>7, <3>1 DEF LookupInv, InProgress
  <2>9. Accounted'
    <3>1. \A s : Has(lookup', s) <=> Has(final, s)
      BY <2>4 DEF Has
    <3>2. Answered(lookup') <=> Answered(final)
      BY <1>2, <2>4 DEF Answered
    <3>3. Grounded(lookup')
      BY <2>3, <2>4, <3>1, <3>2 DEF Grounded
    <3>4. Grounded(lookup)'
      BY <3>3 DEF Grounded, Has, Answered
    <3>5. lookup'.evidence # {} => Has(lookup, "ok")'
      BY <2>3, <2>4 DEF Has
    <3> QED
      BY <2>1, <2>2, <3>4, <3>5 DEF Accounted
  <2>10. RequestsAreAccounted' /\ FindingsAreGrounded'
    BY <2>1 DEF LookupInv, Accounts, Answered, StatusIsGrounded,
       RequestsAreAccounted, FindingsAreGrounded
  <2> QED
    BY <2>5, <2>8, <2>9, <2>10 DEF LookupInv
<1> QED
  BY <1>5, <1>6

-----------------------------------------------------------------------------
(***************************************************************************)
(* An answer is heard.                                                     *)
(***************************************************************************)

\* A status that is accounted for keeps the lookup grounded.
LEMMA StatusIsAccounted ==
  ASSUME NEW l \in LookupRecords, NEW status \in Statuses,
         l.claimed >= l.sent, \A x \in l.heard : x[1] = "threatfox" => settings.key,
         Answered(l),
         Has(l, "ok") \/ status = "ok" =>
           l.evidence # {} \/ <<"virustotal", "bare">> \in l.heard,
         \A x \in l.heard : x[2] \in Refused \cup {"timeout"} =>
           Has(l, "ok") \/ Has(l, "unavailable") \/ status \in {"ok", "unavailable"}
  PROVE  Grounded(WithStatus(l, status))
<1> DEFINE m == WithStatus(l, status)
<1>1. /\ m.claimed = l.claimed /\ m.sent = l.sent /\ m.heard = l.heard
      /\ m.evidence = l.evidence /\ m.kind = l.kind
  BY DEF WithStatus, LookupRecords
<1>2. \A s : Has(m, s) <=> Has(l, s) \/ s = status
  BY WithStatusType
<1> HIDE DEF m
<1>3. Answered(m)
  BY <1>1 DEF Answered
<1>4. Grounded(m)
  BY <1>1, <1>2, <1>3 DEF Grounded
<1> QED
  BY <1>4 DEF m

\* Evidence comes of a hit, or of a near one that is marked as such.
LEMMA EvidenceOfAnswer ==
  ASSUME NEW source \in SourceNames, NEW kind, NEW answer, GivesEvidence(source, answer)
  PROVE  /\ answer \in {"hit", "near"} /\ StatusOf(source, answer) = "ok"
         /\ LevelOf(source, kind, answer) \in {"EXACT", "GENERIC"}
         /\ LevelOf(source, kind, answer) = "EXACT" =>
              answer = "hit" /\ ~(source \in {"rdap", "ct"} /\ kind = "subdomain")
  BY DEF GivesEvidence, LevelOf, StatusOf, VirusTotalStatus, OpenCTIStatus,
     ThreatFoxStatus, RdapStatus, CtStatus, SourceNames

\* What a status says of the answer.
LEMMA AnswerOfStatus ==
  ASSUME NEW source \in SourceNames, NEW answer
  PROVE  /\ StatusOf(source, answer) = "ok" =>
              GivesEvidence(source, answer) \/ (source = "virustotal" /\ answer = "bare")
         /\ source # "dns" /\ answer \in Refused \cup NoAnswer =>
              StatusOf(source, answer) = "unavailable"
         /\ ~GivesEvidence("rdap", "redirect")
  BY DEF GivesEvidence, StatusOf, VirusTotalStatus, OpenCTIStatus,
     ThreatFoxStatus, RdapStatus, CtStatus, SourceNames, Refused, NoAnswer

LEMMA SourceInProgress ==
  ASSUME LookupInv, Busy
  PROVE  /\ Source \in SourceNames /\ RequestCap[Source] \in Nat \ {0}
         /\ context.tool \in Tools /\ lookup.kind \in Kinds /\ settings \in Settings
         /\ lookup \in LookupRecords
         /\ context.tool # "osint" => Source = context.tool
         /\ context.tool = "osint" => Source \notin {"virustotal", "opencti"}
<1>1. /\ context.tool \in Tools /\ lookup.kind \in Kinds /\ settings \in Settings
      /\ lookup \in LookupRecords
      /\ lookup.at \in 1 .. Len(Sources(context.tool, lookup.kind))
  BY DEF LookupInv, TypeOK, InProgress, LookupRecords
<1> QED
  BY <1>1, SourceType, CapType DEF Source

LEMMA HeardType ==
  ASSUME LookupInv, pc = "waiting", NEW left \in BOOLEAN,
         NEW answer \in Plain \cup {"redirect", "near", "bare"}
  PROVE  LET after == Heard(answer, left) IN
         /\ after \in LookupRecords /\ after.kind = lookup.kind /\ after.at = lookup.at
         /\ after.end = lookup.end /\ after.asked = lookup.asked
         /\ after.sourceEnd = lookup.sourceEnd /\ after.until = lookup.until
         /\ after.statuses = lookup.statuses
         /\ after.claimed = lookup.claimed + 1
         /\ after.sent = lookup.sent + (IF left THEN 1 ELSE 0)
         /\ after.heard = lookup.heard \cup {<<Source, answer>>}
         /\ after.evidence = IF GivesEvidence(Source, answer)
                             THEN lookup.evidence \cup
                                  {<<Source, LevelOf(Source, lookup.kind, answer)>>}
                             ELSE lookup.evidence
<1> DEFINE sent == lookup.sent + (IF left THEN 1 ELSE 0)
           heard == lookup.heard \cup {<<Source, answer>>}
           evidence == IF GivesEvidence(Source, answer)
                       THEN lookup.evidence \cup
                            {<<Source, LevelOf(Source, lookup.kind, answer)>>}
                       ELSE lookup.evidence
<1>1. lookup \in LookupRecords /\ Source \in SourceNames
  BY SourceInProgress DEF Busy
<1>2. /\ lookup.claimed + 1 \in Nat /\ sent \in Nat
      /\ heard \in SUBSET (SourceNames \X (Plain \cup {"redirect", "near", "bare"}))
  BY <1>1 DEF LookupRecords
<1>3. evidence \in SUBSET (SourceNames \X {"EXACT", "GENERIC"})
  BY <1>1, EvidenceOfAnswer DEF LookupRecords
<1>4. Heard(answer, left) = [lookup EXCEPT !.claimed = lookup.claimed + 1, !.sent = sent,
                               !.heard = heard, !.evidence = evidence]
  BY DEF Heard
<1> HIDE DEF sent, heard, evidence
<1>5. LET after == [lookup EXCEPT !.claimed = lookup.claimed + 1, !.sent = sent,
                                  !.heard = heard, !.evidence = evidence]
      IN /\ after \in LookupRecords /\ after.kind = lookup.kind /\ after.at = lookup.at
         /\ after.end = lookup.end /\ after.asked = lookup.asked
         /\ after.sourceEnd = lookup.sourceEnd /\ after.until = lookup.until
         /\ after.statuses = lookup.statuses
         /\ after.claimed = lookup.claimed + 1 /\ after.sent = sent
         /\ after.heard = heard /\ after.evidence = evidence
  BY <1>1, <1>2, <1>3 DEF LookupRecords
<1> QED
  BY <1>4, <1>5 DEF sent, heard, evidence

\* What was heard grounds what is found, but for the status still to come.
LEMMA HeardIsGrounded ==
  ASSUME LookupInv, pc = "waiting", NEW left \in BOOLEAN,
         NEW answer \in Plain \cup {"redirect", "near", "bare"}
  PROVE  LET after == Heard(answer, left) IN
         /\ after.claimed >= after.sent
         /\ \A x \in after.heard : x[1] = "threatfox" => settings.key
         /\ Answered(after)
         /\ \A s : Has(after, s) <=> Has(lookup, s)
         /\ Has(after, "ok") => after.evidence # {} \/ <<"virustotal", "bare">> \in after.heard
         /\ \A x \in after.heard : x[2] \in Refused \cup {"timeout"} =>
              Has(after, "ok") \/ Has(after, "unavailable") \/ x[2] = answer
<1> DEFINE after == Heard(answer, left)
<1>1. Busy /\ lookup \in LookupRecords /\ Source \in SourceNames
  BY SourceInProgress DEF Busy
<1>2. Grounded(lookup) /\ LocalStatus(Source, lookup.kind, settings) = "asks"
  BY <1>1 DEF LookupInv, Accounted, InProgress
<1>3. /\ after \in LookupRecords /\ after.kind = lookup.kind
      /\ after.statuses = lookup.statuses
      /\ after.claimed = lookup.claimed + 1
      /\ after.sent = lookup.sent + (IF left THEN 1 ELSE 0)
      /\ after.heard = lookup.heard \cup {<<Source, answer>>}
      /\ after.evidence = IF GivesEvidence(Source, answer)
                          THEN lookup.evidence \cup
                               {<<Source, LevelOf(Source, lookup.kind, answer)>>}
                          ELSE lookup.evidence
  BY HeardType
<1> HIDE DEF after
<1>4. after.claimed >= after.sent
  BY <1>1, <1>2, <1>3 DEF Grounded, LookupRecords
<1>5. \A x \in after.heard : x[1] = "threatfox" => settings.key
  <2>1. Source = "threatfox" => settings.key
    BY <1>2 DEF LocalStatus
  <2> QED
    BY <1>2, <1>3, <2>1 DEF Grounded
<1>6. Answered(after)
  <2> SUFFICES ASSUME NEW e \in after.evidence
               PROVE  /\ \E x \in after.heard : x[1] = e[1] /\ x[2] \in {"hit", "near"}
                      /\ e[2] = "EXACT" =>
                           /\ <<e[1], "hit">> \in after.heard
                           /\ ~(e[1] \in {"rdap", "ct"} /\ after.kind = "subdomain")
    BY DEF Answered
  <2>1. CASE e \in lookup.evidence
    BY <1>2, <1>3, <2>1 DEF Grounded, Answered
  <2>2. CASE e \notin lookup.evidence
    <3>1. GivesEvidence(Source, answer)
            /\ e = <<Source, LevelOf(Source, lookup.kind, answer)>>
      BY <1>3, <2>2
    <3>2. /\ answer \in {"hit", "near"}
          /\ e[2] = "EXACT" =>
               answer = "hit" /\ ~(Source \in {"rdap", "ct"} /\ lookup.kind = "subdomain")
      BY <1>1, <3>1, EvidenceOfAnswer
    <3>3. <<Source, answer>> \in after.heard
      BY <1>3
    <3> QED
      BY <1>3, <3>1, <3>2, <3>3
  <2> QED
    BY <2>1, <2>2
<1>7. \A s : Has(after, s) <=> Has(lookup, s)
  BY <1>3 DEF Has
<1>8. Has(after, "ok") => after.evidence # {} \/ <<"virustotal", "bare">> \in after.heard
  BY <1>2, <1>3, <1>7 DEF Grounded
<1>9. \A x \in after.heard : x[2] \in Refused \cup {"timeout"} =>
        Has(after, "ok") \/ Has(after, "unavailable") \/ x[2] = answer
  BY <1>2, <1>3, <1>7 DEF Grounded
<1> QED
  BY <1>4, <1>5, <1>6, <1>7, <1>8, <1>9 DEF after

-----------------------------------------------------------------------------
(***************************************************************************)
(* One lemma per action.                                                   *)
(***************************************************************************)

\* The last result stays, or none is shown.
LEMMA ResultKept ==
  ASSUME LookupInv, settings' = settings, result' = NoResult \/ result' = result
  PROVE  RequestsAreAccounted' /\ FindingsAreGrounded'
<1>1. Reportable(result) /\ Reportable(NoResult)
  BY NoResultIsReportable DEF LookupInv, Reportable, RequestsAreAccounted, FindingsAreGrounded
<1> HIDE DEF NoResult
<1>2. Reportable(result')
  BY <1>1
<1> QED
  BY <1>2 DEF Reportable, Accounts, RequestsAreAccounted, FindingsAreGrounded

\* Outside a lookup, nothing is to be kept but the types and the result.
LEMMA IdleKeeps ==
  ASSUME LookupInv, TypeOK', ~Busy', settings' = settings,
         result' = NoResult \/ result' = result
  PROVE  LookupInv'
<1>1. RequestsAreAccounted' /\ FindingsAreGrounded'
  BY ResultKept
<1> QED
  BY <1>1 DEF LookupInv, InProgress, Accounted

LEMMA OpenKeeps ==
  ASSUME LookupInv, NEW tool \in Tools, NEW caller \in {"graph", "agent"}, Open(tool, caller)
  PROVE  LookupInv'
<1> DEFINE deadline == Earlier(EmailSeconds, now + PhaseSeconds[tool])
<1>1. deadline \in 0 .. EmailSeconds
  BY LookupAssumption DEF LookupInv, TypeOK, Earlier
<1> HIDE DEF deadline
<1>2. context' = [tool |-> tool, caller |-> caller, targets |-> 0, deadline |-> deadline]
  BY DEF Open, deadline
<1>3. TypeOK'
  BY <1>1, <1>2, LookupAssumption, NoResultIsReportable DEF Open, LookupInv, TypeOK
<1> QED
  BY <1>3, IdleKeeps DEF Open, Busy

LEMMA TimePassesKeeps == ASSUME LookupInv, TimePasses PROVE LookupInv'
<1>1. TypeOK'
  BY LookupAssumption, NoResultIsReportable DEF TimePasses, LookupInv, TypeOK
<1> QED
  BY <1>1, IdleKeeps DEF TimePasses, Busy

LEMMA LookupKeeps == ASSUME LookupInv, NEW kind \in Kinds, Lookup(kind) PROVE LookupInv'
<1> DEFINE tool == context.tool
           gate == Gate(tool, kind, settings)
           end == Earlier(context.deadline, now + PhaseSeconds[tool])
           tooLate == end - now < (IF tool = "osint" THEN 1 ELSE MinBudget)
           begun == [NoLookup EXCEPT !.kind = kind, !.end = end]
<1>1. /\ tool \in Tools /\ settings \in Settings
      /\ context.deadline \in 0 .. EmailSeconds /\ now \in Nat
  BY DEF LookupInv, TypeOK
<1>2. end \in Nat /\ end <= context.deadline
  BY <1>1, LookupAssumption DEF Earlier
<1>3. context.targets < MaxTargets
  BY LookupAssumption DEF Lookup, LookupInv, TypeOK
<1>4. /\ begun \in LookupRecords /\ begun.kind = kind /\ begun.end = end /\ begun.at = 1
      /\ begun.asked = 0 /\ begun.statuses = << >> /\ begun.evidence = {}
      /\ begun.heard = {} /\ begun.claimed = 0 /\ begun.sent = 0
  <2> HIDE DEF end
  <2> QED
    BY <1>2, NoResultIsReportable DEF NoLookup, LookupRecords
<1>5. now' = now /\ settings' = settings /\ opened' = opened
        /\ now' \in 0 .. EmailSeconds + MaxOverrun
  BY DEF Lookup, LookupInv, TypeOK
<1>6. ASSUME gate # "open" \/ tooLate
      PROVE  LookupInv'
  <2>1. PICK status \in {"skipped", "unavailable"} : Give(status, begun, FALSE)
    <3>1. CASE gate # "open"
      <4>1. Give(gate, begun, FALSE)
        BY <3>1 DEF Lookup
      <4>2. gate \in {"skipped", "unavailable"}
        BY <1>1, <3>1, GateType
      <4> QED
        BY <4>1, <4>2
    <3>2. CASE gate = "open" /\ tooLate
      <4>1. Give("unavailable", begun, FALSE)
        BY <3>2 DEF Lookup
      <4> QED
        BY <4>1
    <3> QED
      BY <1>6, <3>1, <3>2
  <2> HIDE DEF begun
  <2>2. Reportable([status |-> status, tool |-> context.tool, lookup |-> begun,
                    raised |-> FALSE])
    BY <1>4, <2>1, BegunIsReportable
  <2>3. status \in Statuses
    BY <2>1 DEF Statuses
  <2> QED
    BY <1>3, <1>4, <1>5, <2>1, <2>2, <2>3, GiveKeeps
<1>7. ASSUME gate = "open", ~tooLate
      PROVE  LookupInv'
  <2>1. lookup' = begun /\ pc' = "asking" /\ result' = NoResult /\ UNCHANGED context
    BY <1>7 DEF Lookup
  <2> HIDE DEF begun
  <2>2. TypeOK'
    BY <1>4, <1>5, <2>1, NoResultIsReportable DEF LookupInv, TypeOK
  <2>3. lookup'.at \in 1 .. Len(Sources(context'.tool, lookup'.kind))
    BY <1>1, <1>4, <2>1, SourcesType
  <2>4. RequestCap[Source'] \in Nat \ {0}
    BY <1>1, <1>4, <2>1, <2>3, SourceType, CapType DEF Source
  <2>5. InProgress'
    BY <1>2, <1>3, <1>4, <1>5, <1>7, <2>1, <2>3, <2>4 DEF InProgress
  <2>6. Accounted'
    <3>1. ~Has(lookup, "ok")' /\ ~Has(lookup, "unavailable")'
      BY <1>4, <2>1 DEF Has
    <3>2. Grounded(lookup)'
      BY <1>4, <2>1, <3>1 DEF Grounded, Answered
    <3> QED
      BY <1>4, <2>1, <3>2 DEF Accounted
  <2>7. RequestsAreAccounted' /\ FindingsAreGrounded'
    BY <1>5, <2>1, ResultKept
  <2> QED
    BY <2>2, <2>5, <2>6, <2>7 DEF LookupInv
<1> QED
  BY <1>6, <1>7

\* A source that sends nothing adds its status to what the lookup held.
LEMMA LocalSettleKeeps ==
  ASSUME LookupInv, Busy, NEW status \in Statuses, Settle(lookup, status),
         status = "ok" => lookup.evidence # {},
         Source = "dns" /\ (\E e \in lookup.evidence : e[1] = "dns") => status = "ok",
         status \in {"unavailable", "skipped"} \/ context.tool = "osint",
         UNCHANGED <<now, settings, opened>>
  PROVE  LookupInv'
<1>1. lookup \in LookupRecords /\ now \in 0 .. EmailSeconds + MaxOverrun
  BY DEF LookupInv, TypeOK
<1>2. Grounded(lookup)
  BY DEF LookupInv, Accounted
<1>3. Grounded(WithStatus(lookup, status))
  BY <1>1, <1>2, StatusIsAccounted DEF Grounded
<1>4. lookup.evidence # {} => Has(WithStatus(lookup, status), "ok")
  BY <1>1, WithStatusType DEF LookupInv, Accounted
<1>5. context.tool # "osint" =>
        lookup.statuses = << >> /\ status \notin {"ok", "not_found"}
  BY DEF LookupInv, Accounted
<1> QED
  BY <1>1, <1>3, <1>4, <1>5, SettleKeeps

LEMMA SkipSourceKeeps == ASSUME LookupInv, SkipSource PROVE LookupInv'
<1> DEFINE status == LocalStatus(Source, lookup.kind, settings)
<1>1. Busy /\ status # "asks" /\ Settle(lookup, status) /\ UNCHANGED <<now, settings, opened>>
  BY DEF SkipSource, Busy
<1>2. status \in {"unavailable", "skipped"} /\ Source # "dns"
  BY <1>1 DEF LocalStatus
<1> HIDE DEF status
<1> QED
  BY <1>1, <1>2, LocalSettleKeeps DEF Statuses

LEMMA OutOfTimeKeeps == ASSUME LookupInv, OutOfTime PROVE LookupInv'
<1> DEFINE status == IF Source = "dns" THEN DnsStatus(lookup, TRUE) ELSE "unavailable"
<1>1. Busy /\ Settle(lookup, status) /\ UNCHANGED <<now, settings, opened>>
  BY DEF OutOfTime, Busy
<1>2. Source = "dns" => context.tool = "osint"
  BY <1>1, SourceInProgress DEF Tools
<1>3. /\ status \in {"ok", "unavailable"}
      /\ status = "ok" => lookup.evidence # {}
      /\ Source = "dns" /\ (\E e \in lookup.evidence : e[1] = "dns") => status = "ok"
      /\ status = "unavailable" \/ Source = "dns"
  BY DEF DnsStatus
<1> HIDE DEF status
<1> QED
  BY <1>1, <1>2, <1>3, LocalSettleKeeps DEF Statuses

LEMMA AskKeeps == ASSUME LookupInv, Ask PROVE LookupInv'
<1> DEFINE until == now + BudgetLeft
           sourceEnd == IF lookup.asked = 0 THEN now + BudgetLeft ELSE lookup.sourceEnd
           next == [lookup EXCEPT !.asked = lookup.asked + 1, !.until = until,
                                  !.sourceEnd = sourceEnd]
<1>1. /\ pc = "asking" /\ LocalStatus(Source, lookup.kind, settings) = "asks"
      /\ lookup' = next /\ pc' = "waiting"
      /\ UNCHANGED <<now, settings, opened, context, result>>
  BY DEF Ask
<1>2. /\ Busy /\ lookup \in LookupRecords /\ Source \in SourceNames
      /\ RequestCap[Source] \in Nat \ {0} /\ now \in Nat /\ lookup.asked \in Nat
      /\ lookup.end \in Nat /\ lookup.sourceEnd \in Int
  <2>1. Busy
    BY <1>1 DEF Busy
  <2>2. lookup \in LookupRecords /\ Source \in SourceNames /\ RequestCap[Source] \in Nat \ {0}
    BY <2>1, SourceInProgress
  <2>3. lookup.asked \in Nat /\ lookup.end \in Nat /\ lookup.sourceEnd \in Int
    BY <2>2 DEF LookupRecords
  <2>4. now \in Nat
    BY LookupAssumption DEF LookupInv, TypeOK
  <2> QED
    BY <2>1, <2>2, <2>3, <2>4
<1>3. SourceBudget \in Int /\ now + SourceBudget <= lookup.end
  BY <1>2, LookupAssumption DEF SourceBudget, Earlier
<1>4. until \in Int /\ sourceEnd \in Int /\ until <= sourceEnd /\ sourceEnd <= lookup.end
  BY <1>1, <1>2, <1>3 DEF BudgetLeft, LookupInv, InProgress
<1>asked. lookup.asked + 1 \in Nat
  BY <1>2
<1> HIDE DEF until, sourceEnd
<1>5. /\ next \in LookupRecords /\ next.kind = lookup.kind /\ next.at = lookup.at
      /\ next.asked = lookup.asked + 1 /\ next.end = lookup.end
      /\ next.until = until /\ next.sourceEnd = sourceEnd
      /\ next.statuses = lookup.statuses /\ next.evidence = lookup.evidence
      /\ next.heard = lookup.heard /\ next.claimed = lookup.claimed /\ next.sent = lookup.sent
  BY <1>2, <1>4, <1>asked DEF LookupRecords
<1> HIDE DEF next
<1>6. TypeOK'
  BY <1>1, <1>5 DEF LookupInv, TypeOK
<1>7. Source' = Source
  BY <1>1, <1>5 DEF Source
<1>8. InProgress'
  BY <1>1, <1>2, <1>4, <1>5, <1>7 DEF LookupInv, InProgress, Busy
<1>9. Accounted'
  <2>1. \A s : Has(lookup, s)' <=> Has(lookup, s)
    BY <1>1, <1>5 DEF Has
  <2>2. Grounded(lookup) => Grounded(lookup)'
    BY <1>1, <1>5, <2>1 DEF Grounded, Answered
  <2> QED
    BY <1>1, <1>2, <1>5, <1>7, <2>1, <2>2 DEF LookupInv, Accounted
<1>10. RequestsAreAccounted' /\ FindingsAreGrounded'
  BY <1>1, ResultKept
<1> QED
  BY <1>6, <1>8, <1>9, <1>10 DEF LookupInv

LEMMA ArchiveFailsKeeps == ASSUME LookupInv, ArchiveFails PROVE LookupInv'
<1> DEFINE final == [lookup EXCEPT !.sent = lookup.sent + 1, !.claimed = 0, !.evidence = {}]
<1>1. Busy /\ Give("unavailable", final, TRUE) /\ UNCHANGED <<now, settings, opened>>
  BY DEF ArchiveFails, Busy
<1>2. /\ lookup \in LookupRecords /\ context.tool \in Tools /\ lookup.kind \in Kinds
      /\ settings \in Settings /\ now \in 0 .. EmailSeconds + MaxOverrun
  BY <1>1, SourceInProgress DEF LookupInv, TypeOK
<1>3. /\ final \in LookupRecords /\ final.evidence = {} /\ final.heard = lookup.heard
      /\ final.kind = lookup.kind
  <2>1. lookup.sent + 1 \in Nat
    BY <1>2 DEF LookupRecords
  <2> QED
    BY <1>2, <2>1 DEF LookupRecords
<1>4. /\ context.targets < MaxTargets /\ Grounded(lookup)
      /\ Gate(context.tool, lookup.kind, settings) = "open"
  BY <1>1 DEF LookupInv, InProgress, Accounted
<1>5. /\ final.kind # "reserved"
      /\ final.kind = "url" => settings.urls /\ context.tool # "osint"
      /\ context.tool # "osint" => settings.key /\ settings.consent
  BY <1>2, <1>3, <1>4, GateIsOpen
<1> HIDE DEF final
<1>6. Reportable([status |-> "unavailable", tool |-> context.tool, lookup |-> final,
                  raised |-> TRUE])
  BY <1>3, <1>4, <1>5 DEF Reportable, Accounts, Answered, StatusIsGrounded, Grounded
<1> QED
  BY <1>1, <1>2, <1>3, <1>4, <1>6, GiveKeeps DEF Statuses

LEMMA ReplyKeeps ==
  ASSUME LookupInv, NEW answer \in Plain \cup {"redirect", "near", "bare"},
         NEW left \in BOOLEAN, NEW lag \in 0 .. EmailSeconds + MaxOverrun,
         Reply(answer, left, lag)
  PROVE  LookupInv'
<1> DEFINE after == Heard(answer, left)
           status == IF Source = "dns" THEN DnsStatus(after, answer = "timeout")
                     ELSE StatusOf(Source, answer)
<1>1. /\ pc = "waiting" /\ answer \in Answers(Source, lookup.kind)
      /\ ~left => answer = "failure"
      /\ now' = now + lag /\ InTime(answer, lag) /\ UNCHANGED <<settings, opened>>
  BY DEF Reply
<1>2. /\ Busy /\ lookup \in LookupRecords /\ Source \in SourceNames
      /\ context.tool \in Tools /\ RequestCap[Source] \in Nat \ {0}
      /\ context.tool # "osint" => Source = context.tool
  BY <1>1, SourceInProgress DEF Busy
<1>3. now' \in 0 .. EmailSeconds + MaxOverrun
  <2>1. lookup.until \in Int /\ lookup.sourceEnd \in Int /\ lookup.end \in Nat
          /\ lookup.asked \in Nat /\ context.deadline \in 0 .. EmailSeconds /\ now \in Nat
    BY <1>2, LookupAssumption DEF LookupInv, TypeOK, LookupRecords
  <2>2. lookup.until <= EmailSeconds
    BY <1>1, <1>2, <2>1, LookupAssumption DEF LookupInv, InProgress
  <2> QED
    BY <1>1, <2>1, <2>2, LookupAssumption DEF InTime
<1>4. /\ after \in LookupRecords /\ after.kind = lookup.kind /\ after.at = lookup.at
      /\ after.end = lookup.end /\ after.asked = lookup.asked
      /\ after.sourceEnd = lookup.sourceEnd /\ after.until = lookup.until
      /\ after.statuses = lookup.statuses
      /\ after.claimed = lookup.claimed + 1
      /\ after.sent = lookup.sent + (IF left THEN 1 ELSE 0)
      /\ after.heard = lookup.heard \cup {<<Source, answer>>}
      /\ after.evidence = IF GivesEvidence(Source, answer)
                          THEN lookup.evidence \cup
                               {<<Source, LevelOf(Source, lookup.kind, answer)>>}
                          ELSE lookup.evidence
  BY <1>1, HeardType
<1>5. /\ after.claimed >= after.sent
      /\ \A x \in after.heard : x[1] = "threatfox" => settings.key
      /\ Answered(after)
      /\ \A s : Has(after, s) <=> Has(lookup, s)
      /\ Has(after, "ok") => after.evidence # {} \/ <<"virustotal", "bare">> \in after.heard
      /\ \A x \in after.heard : x[2] \in Refused \cup {"timeout"} =>
           Has(after, "ok") \/ Has(after, "unavailable") \/ x[2] = answer
  BY <1>1, HeardIsGrounded
<1>6. Source = "dns" => answer \notin Refused
  BY <1>1 DEF Answers, DnsAnswers, NoAnswer, Refused
<1>7. Source = "dns" =>
        \/ after.evidence = {} \/ Has(lookup, "ok")
        \/ \E e \in after.evidence : e[1] = "dns"
  <2>1. GivesEvidence(Source, answer) =>
          <<Source, LevelOf(Source, lookup.kind, answer)>> \in after.evidence
    BY <1>4
  <2>2. lookup.evidence # {} =>
          Has(lookup, "ok") \/ \E e \in lookup.evidence : e[1] = "dns"
    BY <1>2 DEF LookupInv, Accounted
  <2> HIDE DEF after
  <2> QED
    BY <1>4, <2>1, <2>2
<1>8. /\ lookup.evidence # {} =>
           Has(lookup, "ok") \/ (Source = "dns" /\ \E e \in lookup.evidence : e[1] = "dns")
      /\ context.tool # "osint" => lookup.statuses = << >> /\ lookup.claimed = lookup.sent
  BY <1>2 DEF LookupInv, Accounted
<1> HIDE DEF after
<1>9. CASE AsksAgain(answer)
  <2>1. lookup' = after /\ pc' = "asking" /\ UNCHANGED <<context, result>>
    BY <1>9 DEF Reply, after
  <2>2. Source' = Source
    BY <1>4, <2>1 DEF Source
  <2>3. lookup.asked < RequestCap[Source]
    BY <1>9 DEF AsksAgain
  <2>4. Source \in {"rdap", "dns"} /\ answer \notin Refused \cup {"timeout"}
    BY <1>6, <1>9 DEF AsksAgain, Refused
  <2>5. context.tool = "osint"
    BY <1>2, <2>4 DEF Tools
  <2>6. TypeOK'
    BY <1>1, <1>3, <1>4, <2>1 DEF LookupInv, TypeOK
  <2>7. InProgress'
    BY <1>1, <1>2, <1>4, <2>1, <2>2, <2>3 DEF LookupInv, InProgress, Busy
  <2>8. Accounted'
    <3>1. Grounded(after)
      BY <1>5, <2>4 DEF Grounded
    <3>2. Grounded(lookup)'
      BY <1>1, <2>1, <3>1 DEF Grounded, Has, Answered
    <3>3. after.evidence # {} =>
            Has(after, "ok") \/ (Source = "dns" /\ \E e \in after.evidence : e[1] = "dns")
      <4>1. CASE Source = "dns"
        BY <1>5, <1>7, <4>1
      <4>2. CASE Source = "rdap"
        <5>1. answer = "redirect"
          BY <1>9, <4>2 DEF AsksAgain
        <5>2. ~GivesEvidence(Source, answer)
          BY <1>2, <4>2, <5>1, AnswerOfStatus
        <5> QED
          BY <1>4, <1>5, <1>8, <4>2, <5>2
      <4> QED
        BY <2>4, <4>1, <4>2
    <3>4. Has(after, "ok") => Has(lookup, "ok")'
      BY <2>1 DEF Has
    <3> QED
      BY <2>1, <2>2, <2>5, <3>2, <3>3, <3>4 DEF Accounted
  <2>9. RequestsAreAccounted' /\ FindingsAreGrounded'
    BY <1>1, <2>1, ResultKept
  <2> QED
    BY <2>6, <2>7, <2>8, <2>9 DEF LookupInv
<1>10. CASE ~AsksAgain(answer)
  <2>1. Settle(after, status)
    BY <1>10 DEF Reply, after
  <2>2. status \in Statuses
    BY <1>2, StatusType DEF DnsStatus, Statuses
  <2>3. status = "ok" => after.evidence # {} \/ <<"virustotal", "bare">> \in after.heard
    <3>1. CASE Source = "dns"
      BY <3>1 DEF DnsStatus
    <3>2. CASE Source # "dns"
      <4>1. status = "ok" =>
              GivesEvidence(Source, answer) \/ (Source = "virustotal" /\ answer = "bare")
        BY <1>2, <3>2, AnswerOfStatus
      <4> QED
        BY <1>4, <4>1
    <3> QED
      BY <3>1, <3>2
  <2>4. answer \in Refused \cup {"timeout"} => status \in {"ok", "unavailable"}
    <3>1. CASE Source = "dns"
      BY <1>6, <3>1 DEF DnsStatus
    <3>2. CASE Source # "dns"
      BY <1>2, <3>2, AnswerOfStatus DEF NoAnswer
    <3> QED
      BY <3>1, <3>2
  <2>5. after.evidence # {} => Has(lookup, "ok") \/ status = "ok"
    <3>1. CASE Source = "dns"
      BY <1>7, <3>1 DEF DnsStatus
    <3>2. CASE Source # "dns"
      <4>1. GivesEvidence(Source, answer) => status = "ok"
        BY <3>2 DEF GivesEvidence
      <4> QED
        BY <1>4, <1>8, <3>2, <4>1
    <3> QED
      BY <3>1, <3>2
  <2>6. context.tool # "osint" =>
          /\ after.statuses = << >>
          /\ status \in {"ok", "not_found"} => after.claimed = after.sent
    <3> SUFFICES ASSUME context.tool # "osint", status \in {"ok", "not_found"}
                 PROVE  after.claimed = after.sent
      BY <1>4, <1>8
    <3>1. Source # "dns"
      BY <1>2 DEF Tools
    <3>2. answer \notin NoAnswer
      BY <1>2, <3>1, AnswerOfStatus
    <3>3. left
      BY <1>1, <3>2 DEF NoAnswer
    <3> QED
      BY <1>4, <1>8, <3>3
  <2> HIDE DEF status
  <2>7. Grounded(WithStatus(after, status))
    BY <1>4, <1>5, <2>2, <2>3, <2>4, StatusIsAccounted
  <2>8. after.evidence # {} => Has(WithStatus(after, status), "ok")
    BY <1>4, <1>5, <2>2, <2>5, WithStatusType
  <2> QED
    BY <1>1, <1>2, <1>3, <1>4, <2>1, <2>2, <2>6, <2>7, <2>8, SettleKeeps
<1> QED
  BY <1>9, <1>10

-----------------------------------------------------------------------------
(***************************************************************************)
(* The theorems.                                                           *)
(***************************************************************************)

LEMMA LookupInit == Init => LookupInv
<1> SUFFICES ASSUME Init PROVE LookupInv
  OBVIOUS
<1>1. TypeOK
  BY LookupAssumption, NoResultIsReportable DEF Init, TypeOK, Tools
<1>2. ~Busy
  BY DEF Init, Busy
<1>3. RequestsAreAccounted /\ FindingsAreGrounded
  BY NoResultIsReportable DEF Init, Reportable, RequestsAreAccounted, FindingsAreGrounded
<1> QED
  BY <1>1, <1>2, <1>3 DEF LookupInv, InProgress, Accounted

LEMMA LookupStep == LookupInv /\ [Next]_vars => LookupInv'
<1> SUFFICES ASSUME LookupInv, [Next]_vars PROVE LookupInv'
  OBVIOUS
<1>1. CASE UNCHANGED vars
  <2>1. RequestsAreAccounted' /\ FindingsAreGrounded'
    BY <1>1, ResultKept DEF vars
  <2>2. TypeOK' /\ InProgress'
    BY <1>1 DEF vars, LookupInv, TypeOK, InProgress, Busy, Source
  <2>3. Accounted'
    <3>1. \A s : Has(lookup, s)' <=> Has(lookup, s)
      BY <1>1 DEF vars, Has
    <3>2. Grounded(lookup) => Grounded(lookup)'
      BY <1>1, <3>1 DEF vars, Grounded, Answered
    <3> QED
      BY <1>1, <3>1, <3>2 DEF vars, LookupInv, Accounted, Busy, Source
  <2> QED
    BY <2>1, <2>2, <2>3 DEF LookupInv
<1>2. CASE Next
  BY <1>2, OpenKeeps, TimePassesKeeps, LookupKeeps, SkipSourceKeeps, OutOfTimeKeeps,
     AskKeeps, ArchiveFailsKeeps, ReplyKeeps DEF Next
<1> QED
  BY <1>1, <1>2

THEOREM LookupInvariant == Spec => []LookupInv
<1> QED
  BY LookupInit, LookupStep, PTL DEF Spec

(* Every variable stays in its domain.                                      *)
THEOREM LookupTypes == Spec => []TypeOK
<1>1. LookupInv => TypeOK
  BY DEF LookupInv
<1> QED
  BY <1>1, LookupInvariant, PTL

(* Whatever the budgets, the timeout given to a request fits in that of its *)
(* source, of its lookup, of its context and of the email, although each is *)
(* counted from another start, and no source exceeds its cap of requests.   *)
THEOREM TimeoutsFit == Spec => []TimeoutsFitEveryBudget
<1>1. LookupInv => TimeoutsFitEveryBudget
  <2> SUFFICES ASSUME LookupInv, pc = "waiting"
               PROVE  /\ lookup.until <= lookup.sourceEnd /\ lookup.sourceEnd <= lookup.end
                      /\ lookup.end <= context.deadline /\ context.deadline <= EmailSeconds
                      /\ lookup.asked <= RequestCap[Source]
    BY DEF TimeoutsFitEveryBudget
  <2>1. Busy /\ RequestCap[Source] \in Nat
    BY SourceInProgress DEF Busy
  <2>2. context.deadline \in 0 .. EmailSeconds
    BY DEF LookupInv, TypeOK
  <2> QED
    BY <2>1, <2>2, LookupAssumption DEF LookupInv, InProgress
<1> QED
  BY <1>1, LookupInvariant, PTL

(* requests_sent counts at least the requests that left, exactly in an      *)
(* observation of VirusTotal or OpenCTI, and nothing leaves for an          *)
(* observable or a configuration that a gate refuses.                       *)
THEOREM RequestsAccounted == Spec => []RequestsAreAccounted
<1>1. LookupInv => RequestsAreAccounted
  BY DEF LookupInv
<1> QED
  BY <1>1, LookupInvariant, PTL

(* The evidence and the status of every ToolResult follow from the answers  *)
(* of its sources, however they are interleaved with refusals and timeouts. *)
THEOREM FindingsGrounded == Spec => []FindingsAreGrounded
<1>1. LookupInv => FindingsAreGrounded
  BY DEF LookupInv
<1> QED
  BY <1>1, LookupInvariant, PTL
=============================================================================
