-------------------------- MODULE AgentLoopProofs --------------------------
(***************************************************************************)
(* Theorems about the agentic loop, for every set of observables, every    *)
(* set of calls the model may make and every budget.                       *)
(***************************************************************************)
EXTENDS AgentLoop, TLAPS, WellFoundedInduction

-----------------------------------------------------------------------------
(***************************************************************************)
(* The identifiers of a turn.  Ids is defined by recursion over the list   *)
(* of calls: that the equation has a solution is shown for the lists of at *)
(* most n calls, for every n.  Nothing to induct with but the least        *)
(* counterexample: the induction theorems of the library take operators.   *)
(***************************************************************************)
LEMMA LeastNumber ==
  ASSUME NEW S, S \subseteq Nat, S # {}
  PROVE  \E n \in S : \A m \in S : n <= m
<1> DEFINE R == OpToRel(<, Nat)
<1>1. IsWellFoundedOn(R, Nat)
  BY NatLessThanWellFounded
<1>2. PICK n \in S : \A m \in S : ~(<<m, n>> \in R)
  BY <1>1, WFMin
<1>3. ASSUME NEW m \in S PROVE ~(m < n)
  <2> SUFFICES ASSUME m < n PROVE FALSE
    OBVIOUS
  <2>1. <<m, n>> \in R
    BY DEF OpToRel
  <2> QED
    BY <1>2, <2>1
<1> QED
  BY <1>3

Unfolded(f, s) ==
    IF s = <<>> THEN <<>>
    ELSE (IF Head(s).id = Null THEN <<>> ELSE <<Head(s).id>>) \o f[Tail(s)]

Upto(n) == {s \in Seq(Calls) : Len(s) <= n}

Solves(f, n) == f = [s \in Upto(n) |-> Unfolded(f, s)]

LEMMA SolutionsAgree ==
  ASSUME NEW m \in Nat, NEW n \in Nat, m <= n, NEW f, NEW g, Solves(f, m), Solves(g, n)
  PROVE  \A s \in Upto(m) : f[s] = g[s]
<1> DEFINE Bad == {k \in Nat : \E s \in Upto(m) : Len(s) = k /\ f[s] # g[s]}
<1> SUFFICES ASSUME Bad # {} PROVE FALSE
  BY DEF Upto
<1>1. PICK k \in Bad : \A j \in Bad : k <= j
  BY LeastNumber
<1>2. PICK s \in Upto(m) : Len(s) = k /\ f[s] # g[s]
  OBVIOUS
<1>3. f[s] = Unfolded(f, s) /\ g[s] = Unfolded(g, s)
  <2>1. s \in Upto(n)
    BY DEF Upto
  <2>2. f = [t \in Upto(m) |-> Unfolded(f, t)] /\ g = [t \in Upto(n) |-> Unfolded(g, t)]
    BY DEF Solves
  <2>3. f[s] = Unfolded(f, s)
    BY <2>2
  <2>4. g[s] = Unfolded(g, s)
    BY <2>1, <2>2
  <2> QED
    BY <2>3, <2>4
<1>4. s # <<>>
  BY <1>2, <1>3 DEF Unfolded
<1>5. Tail(s) \in Upto(m) /\ Len(Tail(s)) = k - 1 /\ k - 1 \in Nat
  BY <1>2, <1>4 DEF Upto
<1>6. f[Tail(s)] = g[Tail(s)]
  <2>1. k - 1 \notin Bad
    BY <1>1, <1>5
  <2> QED
    BY <2>1, <1>5
<1> QED
  BY <1>2, <1>3, <1>6 DEF Unfolded

LEMMA SolutionsExist == ASSUME NEW n \in Nat PROVE \E f : Solves(f, n)
<1> DEFINE Bad == {k \in Nat : ~ \E f : Solves(f, k)}
<1> SUFFICES ASSUME Bad # {} PROVE FALSE
  OBVIOUS
<1>1. PICK k \in Bad : \A j \in Bad : k <= j
  BY LeastNumber
<1>2. CASE k = 0
  <2> DEFINE f == [s \in Upto(0) |-> <<>>]
  <2>1. \A s \in Upto(0) : s = <<>>
    BY DEF Upto
  <2>2. Solves(f, 0)
    BY <2>1 DEF Solves, Unfolded
  <2> QED
    BY <1>1, <1>2, <2>2
<1>3. CASE k # 0
  <2>1. k - 1 \in Nat /\ k - 1 \notin Bad
    BY <1>1, <1>3
  <2>2. PICK g : Solves(g, k - 1)
    BY <2>1
  <2> DEFINE f == [s \in Upto(k) |-> Unfolded(g, s)]
  <2>3. \A s \in Upto(k) : s # <<>> => Tail(s) \in Upto(k - 1) /\ Tail(s) \in Upto(k)
    BY DEF Upto
  <2>4. \A s \in Upto(k - 1) : g[s] = Unfolded(g, s) /\ f[s] = Unfolded(g, s)
    BY <2>1, <2>2 DEF Solves, Upto
  <2>5. \A s \in Upto(k) : Unfolded(f, s) = Unfolded(g, s)
    BY <2>3, <2>4 DEF Unfolded
  <2>6. Solves(f, k)
    BY <2>5 DEF Solves
  <2> QED
    BY <1>1, <2>6
<1> QED
  BY <1>2, <1>3

LEMMA IdsEquation == Ids = [s \in Seq(Calls) |-> Unfolded(Ids, s)]
<1> DEFINE F == [s \in Seq(Calls) |-> (CHOOSE f : Solves(f, Len(s)))[s]]
<1>1. \A n \in Nat : Solves(CHOOSE f : Solves(f, n), n)
  BY SolutionsExist
<1>2. ASSUME NEW s \in Seq(Calls) PROVE F[s] = Unfolded(F, s)
  <2> DEFINE f == CHOOSE f : Solves(f, Len(s))
  <2>1. Solves(f, Len(s)) /\ s \in Upto(Len(s)) /\ Len(s) \in Nat
    BY <1>1 DEF Upto
  <2>2. f[s] = Unfolded(f, s)
    BY <2>1 DEF Solves
  <2>3. CASE s = <<>>
    BY <2>2, <2>3 DEF Unfolded
  <2>4. CASE s # <<>>
    <3> DEFINE t == Tail(s)
               g == CHOOSE g : Solves(g, Len(t))
    <3>1. t \in Seq(Calls) /\ Len(t) \in Nat /\ Len(t) <= Len(s) /\ t \in Upto(Len(t))
      BY <2>4 DEF Upto
    <3>2. Solves(g, Len(t))
      BY <1>1, <3>1
    <3>3. g[t] = f[t]
      BY SolutionsAgree, <3>1, <3>2, <2>1
    <3>4. F[t] = f[t]
      BY <3>1, <3>3
    <3> HIDE DEF F, f
    <3>5. Unfolded(F, s) = Unfolded(f, s)
      BY <3>4, <2>4 DEF Unfolded
    <3>6. F[s] = f[s]
      BY DEF F, f
    <3> QED
      BY <2>2, <3>5, <3>6
  <2> QED
    BY <2>3, <2>4
<1>3. F = [s \in Seq(Calls) |-> Unfolded(F, s)]
  BY <1>2
<1>4. \E f : f = [s \in Seq(Calls) |-> Unfolded(f, s)]
  BY <1>3
<1> QED
  BY <1>4 DEF Ids, Unfolded

\* Calls without an identifier are left out, the others keep their order.
LEMMA IdsOf ==
  ASSUME NEW s \in Seq(Calls)
  PROVE  /\ s = <<>> => Ids[s] = <<>>
         /\ s # <<>> /\ Head(s).id = Null => Ids[s] = <<>> \o Ids[Tail(s)]
         /\ s # <<>> /\ Head(s).id # Null => Ids[s] = <<Head(s).id>> \o Ids[Tail(s)]
<1>1. Ids[s] = Unfolded(Ids, s)
  BY IdsEquation
<1> QED
  BY <1>1 DEF Unfolded

LEMMA IdsType == ASSUME NEW s \in Seq(Calls) PROVE Ids[s] \in Seq(CallIds)
<1> DEFINE Bad == {k \in Nat : \E t \in Seq(Calls) : Len(t) = k /\ Ids[t] \notin Seq(CallIds)}
<1> SUFFICES ASSUME Bad # {} PROVE FALSE
  OBVIOUS
<1>1. PICK k \in Bad : \A j \in Bad : k <= j
  BY LeastNumber
<1>2. PICK t \in Seq(Calls) : Len(t) = k /\ Ids[t] \notin Seq(CallIds)
  OBVIOUS
<1>3. t # <<>>
  <2> SUFFICES ASSUME t = <<>> PROVE FALSE
    OBVIOUS
  <2>1. Ids[t] = <<>>
    BY IdsOf
  <2> QED
    BY <1>2, <2>1
<1>4. Tail(t) \in Seq(Calls) /\ Len(Tail(t)) = k - 1 /\ k - 1 \in Nat
  BY <1>2, <1>3
<1>5. k - 1 \notin Bad
  BY <1>1, <1>4
<1>6. Ids[Tail(t)] \in Seq(CallIds)
  BY <1>4, <1>5
<1>7. Head(t) \in Calls /\ Head(t).id \in CallIds \cup {Null}
  BY <1>3, AgentAssumption DEF ToolCall
<1>8. CASE Head(t).id = Null
  <2>1. Ids[t] = <<>> \o Ids[Tail(t)]
    BY <1>3, <1>8, IdsOf
  <2> QED
    BY <1>2, <1>6, <2>1
<1>9. CASE Head(t).id # Null
  <2>1. Ids[t] = <<Head(t).id>> \o Ids[Tail(t)]
    BY <1>3, <1>9, IdsOf
  <2>2. <<Head(t).id>> \in Seq(CallIds)
    BY <1>7, <1>9
  <2> QED
    BY <1>2, <1>6, <2>1, <2>2
<1> QED
  BY <1>8, <1>9

-----------------------------------------------------------------------------
(***************************************************************************)
(* Type correctness.                                                       *)
(***************************************************************************)
LEMMA ResponseType == Responses \subseteq Seq(Calls)
  BY DEF Responses

LEMMA PolicyType == ASSUME NEW in PROVE decide_policy(in) \in Actions
  BY DEF decide_policy, Actions

LEMMA AnswerType ==
  ASSUME TypeOK, NEW call \in Calls, call.id # Null, Answer(call)
  PROVE  exchange' \in Seq(Message)
<1>1. call.id \in CallIds
  BY AgentAssumption DEF ToolCall
<1>2. [role |-> "tool", id |-> call.id] \in Message
  BY <1>1 DEF Message
<1> QED
  BY <1>2 DEF Answer, TypeOK

LEMMA RefuseType ==
  ASSUME TypeOK, NEW call \in Calls, Refuse(call)
  PROVE  exchange' \in Seq(Message) /\ orphans' \in Nat
<1>1. CASE call.id # Null
  BY <1>1, AnswerType DEF Refuse, TypeOK
<1>2. CASE call.id = Null
  BY <1>2 DEF Refuse, TypeOK
<1> QED
  BY <1>1, <1>2

LEMMA InitTypeOK == Init => TypeOK
  BY AgentAssumption DEF Init, TypeOK, AgentError, Actions

LEMMA NextTypeOK == TypeOK /\ [Next]_vars => TypeOK'
<1> SUFFICES ASSUME TypeOK, [Next]_vars
             PROVE  TypeOK'
  OBVIOUS
<1> USE DEF TypeOK, dialogue, executor, verdict, outcome, AgentError
<1>1. CASE ParseFails \/ Prepare \/ NotConfigured
  BY <1>1 DEF ParseFails, Prepare, NotConfigured
<1>2. CASE ModelAnswers
  <2>1. calls' \in Seq(Calls)
    BY <1>2, ResponseType DEF ModelAnswers
  <2>2. turn' \in 0..MaxTurns
    BY <1>2, AgentAssumption DEF ModelAnswers
  <2>3. exchange' \in Seq(Message)
    <3>1. Ids[calls'] \in Seq(CallIds)
      BY <2>1, IdsType
    <3>2. [role |-> "assistant", ids |-> Ids[calls']] \in Message
      BY <3>1 DEF Message
    <3> QED
      BY <1>2, <3>2 DEF ModelAnswers
  <2> QED
    BY <1>2, <2>1, <2>2, <2>3 DEF ModelAnswers
<1>3. CASE ModelFails \/ GiveUp
  <2>1. turn' \in 0..MaxTurns
    BY <1>3, AgentAssumption DEF ModelFails, GiveUp
  <2>2. agent_error' \in AgentError /\ status' \in {"finalized", "incomplete", "error"}
    BY <1>3 DEF ModelFails, GiveUp
  <2> QED
    BY <1>3, <2>1, <2>2 DEF ModelFails, GiveUp
<1>4. ASSUME NEW call \in Calls, Handling(call)
      PROVE  /\ Tail(calls) \in Seq(Calls)
             /\ call \in ToolCall
             /\ call.assessment \in Assessment \cup {Null}
             /\ call.tool \in AllInvestigationTools \cup {"finalize_assessment", "unknown"}
  BY <1>4, AgentAssumption DEF Handling, ToolCall
<1>5. ASSUME NEW call \in Calls, Finalize(call)
      PROVE  TypeOK'
  BY <1>4, <1>5 DEF Finalize
<1>6. ASSUME NEW call \in Calls, FinalizeRejected(call) \/ ExecuteRefused(call)
      PROVE  TypeOK'
  <2>1. orphans' \in Nat /\ exchange' \in Seq(Message)
    BY <1>6, RefuseType DEF FinalizeRejected, ExecuteRefused
  <2>2. calls' \in Seq(Calls)
    BY <1>4, <1>6 DEF FinalizeRejected, ExecuteRefused
  <2>3. CASE FinalizeRejected(call)
    BY <2>1, <2>2, <2>3 DEF FinalizeRejected
  <2>4. CASE ExecuteRefused(call)
    BY <2>1, <2>2, <2>4 DEF ExecuteRefused
  <2> QED
    BY <1>6, <2>3, <2>4
<1>7. ASSUME NEW call \in Calls, Execute(call)
      PROVE  TypeOK'
  <2>1. call.tool \in AllInvestigationTools /\ call.observable \in Observables
    BY <1>7, AgentAssumption DEF Execute, Accepts
  <2>2. <<call.tool, call.observable>> \in Queries
    BY <2>1 DEF Queries
  <2>3. results' \in Seq(ToolResult)
    BY <1>7, <2>2 DEF Execute, ToolResult
  <2>4. provider_calls' \in Nat /\ urlscan_calls' \in Nat
    BY <1>7 DEF Execute
  <2>5. /\ executed' \in SUBSET Queries
        /\ calls' \in Seq(Calls)
    BY <1>4, <1>7, <2>2 DEF Execute
  <2>6. exchange' \in Seq(Message)
    BY <1>7, AnswerType DEF Execute, Accepts
  <2> QED
    BY <1>7, <2>3, <2>4, <2>5, <2>6 DEF Execute
<1>8. CASE EndTurn
  <2> DEFINE protocol == IF orphans > 0
                         THEN <<[role |-> "user", about |-> "protocol_error"]>> ELSE <<>>
             nudge == IF exchange = <<[role |-> "assistant", ids |-> <<>>]>> /\ orphans = 0
                         /\ turn < MaxTurns
                      THEN <<[role |-> "user", about |-> "no_tool_calls"]>> ELSE <<>>
  <2>1. protocol \in Seq(Message) /\ nudge \in Seq(Message)
    <3>1. /\ [role |-> "user", about |-> "protocol_error"] \in Message
          /\ [role |-> "user", about |-> "no_tool_calls"] \in Message
      BY DEF Message
    <3> QED
      BY <3>1
  <2>2. exchange' = exchange \o protocol \o nudge
    BY <1>8 DEF EndTurn
  <2> HIDE DEF protocol, nudge
  <2>3. exchange' \in Seq(Message)
    BY <2>1, <2>2
  <2> QED
    BY <1>8, <2>3 DEF EndTurn
<1>9. CASE Merge
  BY <1>9 DEF Merge, MergedEvidence
<1>10. CASE DecidePolicy
  BY <1>10, PolicyType DEF DecidePolicy
<1>11. CASE WriteArtifacts \/ Abort
  BY <1>11 DEF WriteArtifacts, Abort
<1>12. CASE UNCHANGED vars
  BY <1>12 DEF vars
<1> QED
  BY <1>1, <1>2, <1>3, <1>5, <1>6, <1>7, <1>8, <1>9, <1>10, <1>11, <1>12
     DEF Next, HandleCall, Finished

\* Every field of an agentic run keeps its type, whatever the model calls.
THEOREM TypeCorrect == Spec => []TypeOK
<1>1. Init => TypeOK
  BY InitTypeOK
<1>2. TypeOK /\ [Next]_vars => TypeOK'
  BY NextTypeOK
<1> QED
  BY <1>1, <1>2, PTL DEF Spec

-----------------------------------------------------------------------------
(***************************************************************************)
(* The budgets.  The counters and the set of executed pairs are separate   *)
(* variables of the executor; the invariant ties them to the requests that *)
(* were really made.                                                       *)
(***************************************************************************)
Accounting ==
    /\ provider_calls = Len(results)
    /\ provider_calls <= MaxToolCalls
    /\ \A i \in 1..Len(results) : Query(i) \in executed
    /\ \A i \in 1..Len(results) : Query(i)[1] = "scan_urlscan" => urlscan_calls >= 1

BudgetInv == TypeOK /\ Accounting /\ ProvidersAreSpared

LEMMA AccountingStep ==
  ASSUME BudgetInv, TypeOK', NEW call \in Calls, Execute(call)
  PROVE  Accounting' /\ ProvidersAreSpared'
<1> DEFINE q == <<call.tool, call.observable>>
<1>1. /\ Len(results') = Len(results) + 1
      /\ \A i \in 1..Len(results) : results'[i] = results[i]
      /\ results'[Len(results) + 1].query = q
  BY DEF Execute, BudgetInv, TypeOK
<1>2. /\ q \notin executed /\ executed' = executed \cup {q}
      /\ q[1] \in Exposed /\ q[2] \notin Recipients
      /\ provider_calls < MaxToolCalls /\ provider_calls' = provider_calls + 1
      /\ q[1] = "scan_urlscan" => urlscan_calls = 0 /\ urlscan_calls' = 1
      /\ urlscan_calls' >= urlscan_calls
  BY DEF Execute, Accepts, MaxUrlscanCalls, BudgetInv, TypeOK
<1>3. Len(results) \in Nat /\ MaxToolCalls \in Nat /\ provider_calls \in Nat
  BY AgentAssumption DEF BudgetInv, TypeOK
<1>4. \A i \in 1..Len(results') : i \in 1..Len(results) \/ i = Len(results) + 1
  BY <1>1, <1>3
<1>5. Accounting'
  <2>1. provider_calls' = Len(results') /\ provider_calls' <= MaxToolCalls
    BY <1>1, <1>2, <1>3 DEF Accounting, BudgetInv
  <2>2. \A i \in 1..Len(results') : results'[i].query \in executed'
    BY <1>1, <1>2, <1>4 DEF Accounting, BudgetInv, Query
  <2>3. \A i \in 1..Len(results') :
           results'[i].query[1] = "scan_urlscan" => urlscan_calls' >= 1
    <3>1. urlscan_calls \in Nat /\ urlscan_calls' \in Nat
      BY DEF BudgetInv, TypeOK
    <3>2. ASSUME NEW i \in 1..Len(results), results'[i].query[1] = "scan_urlscan"
          PROVE  urlscan_calls' >= 1
      BY <1>1, <1>2, <3>1, <3>2 DEF Accounting, BudgetInv, Query
    <3>3. results'[Len(results) + 1].query[1] = "scan_urlscan" => urlscan_calls' >= 1
      BY <1>1, <1>2
    <3> QED
      BY <1>4, <3>2, <3>3
  <2> QED
    BY <2>1, <2>2, <2>3 DEF Accounting, Query
<1>6. \A i \in 1..Len(results) : results'[i].query # q
  BY <1>1, <1>2 DEF Accounting, BudgetInv, Query
<1>7. \A i, j \in 1..Len(results') : Query(i)' = Query(j)' => i = j
  BY <1>1, <1>3, <1>4, <1>6 DEF ProvidersAreSpared, BudgetInv, Query
<1>8. \A i \in 1..Len(results) :
         q[1] = "scan_urlscan" => results'[i].query[1] # "scan_urlscan"
  BY <1>1, <1>2 DEF Accounting, BudgetInv, Query
<1>9. \A i, j \in 1..Len(results') :
         Query(i)'[1] = "scan_urlscan" /\ Query(j)'[1] = "scan_urlscan" => i = j
  BY <1>1, <1>3, <1>4, <1>8 DEF ProvidersAreSpared, BudgetInv, Query
<1>10. \A i \in 1..Len(results') :
         Query(i)'[1] \in Exposed /\ Query(i)'[2] \notin Recipients
  BY <1>1, <1>2, <1>4 DEF ProvidersAreSpared, BudgetInv, Query
<1> QED
  BY <1>1, <1>2, <1>3, <1>5, <1>7, <1>9, <1>10 DEF ProvidersAreSpared, Accounting, BudgetInv

\* Only an executed call moves the executor.
LEMMA ExecutorMoves ==
  ASSUME [Next]_vars
  PROVE  (\E call \in Calls : Execute(call)) \/ UNCHANGED executor
BY DEF Next, HandleCall, Finished, vars, dialogue, executor, verdict, outcome,
   ParseFails, Prepare, NotConfigured, ModelAnswers, ModelFails, GiveUp, Finalize,
   FinalizeRejected, ExecuteRefused, EndTurn, Merge, DecidePolicy, WriteArtifacts, Abort

\* The providers receive at most MaxToolCalls requests and one submission,
\* never twice the same and never about a recipient, for every behaviour of
\* the model.
THEOREM ProvidersSpared == Spec => []ProvidersAreSpared
<1>1. Init => BudgetInv
  BY InitTypeOK, AgentAssumption DEF Init, BudgetInv, Accounting, ProvidersAreSpared, Query
<1>2. BudgetInv /\ [Next]_vars => BudgetInv'
  <2> SUFFICES ASSUME BudgetInv, [Next]_vars PROVE BudgetInv'
    OBVIOUS
  <2>1. TypeOK'
    BY NextTypeOK DEF BudgetInv
  <2>2. CASE \E call \in Calls : Execute(call)
    BY <2>1, <2>2, AccountingStep DEF BudgetInv
  <2>3. CASE UNCHANGED executor
    BY <2>1, <2>3 DEF BudgetInv, executor, Accounting, ProvidersAreSpared, Query
  <2> QED
    BY <2>2, <2>3, ExecutorMoves
<1>3. BudgetInv => ProvidersAreSpared
  BY DEF BudgetInv
<1> QED
  BY <1>1, <1>2, <1>3, PTL DEF Spec

-----------------------------------------------------------------------------
(***************************************************************************)
(* Finalization.                                                           *)
(***************************************************************************)

\* A finalized run has left the loop, with an assessment that an identified
\* call delivered; no other run has an assessment.
FinalizationInv ==
    /\ status = "finalized" =>
          /\ phase \in {"merge", "policy", "write", "end", "failed"}
          /\ finalizer # Null /\ finalizer.id # Null
          /\ assessment = finalizer.assessment
    /\ status = "finalized" <=> assessment # Null

LEMMA FinalizationStep == TypeOK /\ FinalizationInv /\ [Next]_vars => FinalizationInv'
<1> SUFFICES ASSUME TypeOK, FinalizationInv, [Next]_vars PROVE FinalizationInv'
  OBVIOUS
<1> USE DEF FinalizationInv, dialogue, executor, verdict, outcome
<1>1. CASE ParseFails \/ Prepare \/ NotConfigured \/ ModelAnswers \/ ModelFails \/ GiveUp
  BY <1>1 DEF ParseFails, Prepare, NotConfigured, ModelAnswers, ModelFails, GiveUp
<1>2. ASSUME NEW call \in Calls, Finalize(call)
      PROVE  FinalizationInv'
  <2>1. call # Null
    BY AgentAssumption, NullAssumption
  <2> QED
    BY <1>2, <2>1 DEF Finalize, Finalizes
<1>3. ASSUME NEW call \in Calls,
             FinalizeRejected(call) \/ Execute(call) \/ ExecuteRefused(call)
      PROVE  FinalizationInv'
  BY <1>3 DEF FinalizeRejected, Execute, ExecuteRefused
<1>4. CASE EndTurn \/ Merge \/ DecidePolicy \/ WriteArtifacts \/ Abort
  BY <1>4 DEF EndTurn, Merge, DecidePolicy, WriteArtifacts, Abort
<1>5. CASE UNCHANGED vars
  BY <1>5 DEF vars
<1> QED
  BY <1>1, <1>2, <1>3, <1>4, <1>5 DEF Next, HandleCall, Finished

LEMMA FinalizationInvariant == Spec => [](TypeOK /\ FinalizationInv)
<1>1. Init => TypeOK /\ FinalizationInv
  BY InitTypeOK DEF Init, FinalizationInv
<1>2. TypeOK /\ FinalizationInv /\ [Next]_vars => (TypeOK /\ FinalizationInv)'
  BY NextTypeOK, FinalizationStep
<1> QED
  BY <1>1, <1>2, PTL DEF Spec

\* After a finalization nothing is looked up, asked or finalized again.
THEOREM FinalizationIsLast == Spec => NothingAfterFinalize
<1> DEFINE Quiet == status = "finalized" => UNCHANGED <<turn, exchange, executor, verdict>>
<1>1. FinalizationInv /\ [Next]_vars => [Quiet]_vars
  <2> SUFFICES ASSUME FinalizationInv, Next, status = "finalized"
               PROVE  UNCHANGED <<turn, exchange, executor, verdict>>
    OBVIOUS
  <2>1. phase \in {"merge", "policy", "write", "end", "failed"}
    BY DEF FinalizationInv
  <2>2. Merge \/ DecidePolicy \/ WriteArtifacts \/ Abort \/ Finished
    BY <2>1 DEF Next, HandleCall, ParseFails, Prepare, NotConfigured, ModelAnswers,
       ModelFails, GiveUp, Finalize, FinalizeRejected, Execute, ExecuteRefused,
       Handling, EndTurn
  <2> QED
    BY <2>2 DEF Merge, DecidePolicy, WriteArtifacts, Abort, Finished, vars,
       dialogue, executor, verdict, outcome
<1> QED
  BY <1>1, FinalizationInvariant, PTL DEF Spec, NothingAfterFinalize

-----------------------------------------------------------------------------
(***************************************************************************)
(* Escalation.                                                             *)
(***************************************************************************)

\* A confirmation that was obtained is in the registry, or was refused with
\* the merge; then the policy escalates.
ConfirmationInv ==
    /\ agent_error = "parse_error" => results = <<>> /\ phase \notin {"start", "loop", "calls"}
    /\ phase \in {"policy", "write", "end"} /\ "confirmed" \in Statuses =>
          "confirmation" \in evidence \/ merge = "refused"
    /\ phase \in {"write", "end"} =>
          \/ action = "ESCALATE"
          \/ /\ merge # "refused"
             /\ "confirmation" \notin evidence \/ Contradicts(assessment, evidence)
    /\ phase = "start" => results = <<>>

LEMMA ConfirmationStep ==
  TypeOK /\ ConfirmationInv /\ [Next]_vars => ConfirmationInv'
<1> SUFFICES ASSUME TypeOK, ConfirmationInv, [Next]_vars PROVE ConfirmationInv'
  OBVIOUS
<1> USE DEF ConfirmationInv, dialogue, executor, verdict, outcome
<1>1. CASE ParseFails \/ Prepare \/ NotConfigured \/ ModelAnswers \/ ModelFails \/ GiveUp
  BY <1>1 DEF ParseFails, Prepare, NotConfigured, ModelAnswers, ModelFails, GiveUp
<1>2. ASSUME NEW call \in Calls, Finalize(call)
      PROVE  ConfirmationInv'
  BY <1>2 DEF Finalize, Handling
<1>3. ASSUME NEW call \in Calls,
             FinalizeRejected(call) \/ Execute(call) \/ ExecuteRefused(call)
      PROVE  ConfirmationInv'
  BY <1>3 DEF FinalizeRejected, Execute, ExecuteRefused, Handling
<1>4. CASE EndTurn
  BY <1>4 DEF EndTurn
<1>5. CASE Merge
  <2>1. Statuses' = Statuses
    BY <1>5 DEF Merge, Statuses
  <2>2. agent_error = "parse_error" => "confirmed" \notin Statuses
    BY DEF Statuses
  <2> QED
    BY <1>5, <2>1, <2>2 DEF Merge, MergedEvidence, parse_error
<1>6. CASE DecidePolicy
  <2>1. PICK found \in SUBSET ContentIssues : action' = decide_policy(PolicyInputs(found))
    BY <1>6 DEF DecidePolicy
  <2>2. ASSUME \/ merge = "refused"
               \/ "confirmation" \in evidence /\ ~Contradicts(assessment, evidence)
        PROVE  decide_policy(PolicyInputs(found)) = "ESCALATE"
    <3>1. \/ PolicyInputs(found).issues \cap CriticalCodes # {}
          \/ /\ PolicyInputs(found).admissible_confirmation
             /\ ~PolicyInputs(found).confirmation_contradicted
      BY <2>2 DEF PolicyInputs, AgentErrors, CriticalCodes
    <3> QED
      BY <3>1 DEF decide_policy
  <2>3. Statuses' = Statuses /\ Contradicts(assessment, evidence)' = Contradicts(assessment, evidence)
    BY <1>6 DEF DecidePolicy, Statuses
  <2> QED
    BY <1>6, <2>1, <2>2, <2>3 DEF DecidePolicy
<1>7. CASE WriteArtifacts \/ Abort
  BY <1>7 DEF WriteArtifacts, Abort, Statuses, Contradicts
<1>8. CASE UNCHANGED vars
  BY <1>8 DEF vars, Statuses, Contradicts
<1> QED
  BY <1>1, <1>2, <1>3, <1>4, <1>5, <1>6, <1>7, <1>8 DEF Next, HandleCall, Finished

\* The confirmation of a scan escalates the run whatever the model does next.
THEOREM ConfirmedScanEscalates == Spec => []AgentConfirmationEscalates
<1>1. Init => TypeOK /\ ConfirmationInv
  BY InitTypeOK DEF Init, ConfirmationInv
<1>2. TypeOK /\ ConfirmationInv /\ [Next]_vars => (TypeOK /\ ConfirmationInv)'
  BY NextTypeOK, ConfirmationStep
<1>3. ConfirmationInv => AgentConfirmationEscalates
  BY DEF ConfirmationInv, AgentConfirmationEscalates
<1> QED
  BY <1>1, <1>2, <1>3, PTL DEF Spec

-----------------------------------------------------------------------------
(***************************************************************************)
(* The agentic runtime implements the contract of the pipeline.            *)
(***************************************************************************)

\* A fault is met before the policy decides, and stays.
FaultInv ==
    /\ agent_error # "none" => phase \notin {"start", "loop", "calls"} /\ status # "finalized"
    /\ phase \in {"start", "loop", "calls", "merge"} => merge = "none"

LEMMA FaultStep == TypeOK /\ FinalizationInv /\ FaultInv /\ [Next]_vars => FaultInv'
<1> SUFFICES ASSUME TypeOK, FinalizationInv, FaultInv, [Next]_vars PROVE FaultInv'
  OBVIOUS
<1> USE DEF FaultInv, dialogue, executor, verdict, outcome
<1>1. CASE ParseFails \/ Prepare \/ NotConfigured \/ ModelAnswers \/ ModelFails \/ GiveUp
  BY <1>1 DEF ParseFails, Prepare, NotConfigured, ModelAnswers, ModelFails, GiveUp,
     FinalizationInv
<1>2. ASSUME NEW call \in Calls,
             Finalize(call) \/ FinalizeRejected(call) \/ Execute(call) \/ ExecuteRefused(call)
      PROVE  FaultInv'
  BY <1>2 DEF Finalize, FinalizeRejected, Execute, ExecuteRefused, Handling
<1>3. CASE EndTurn \/ Merge \/ DecidePolicy \/ WriteArtifacts \/ Abort
  BY <1>3 DEF EndTurn, Merge, DecidePolicy, WriteArtifacts, Abort
<1>4. CASE UNCHANGED vars
  BY <1>4 DEF vars
<1> QED
  BY <1>1, <1>2, <1>3, <1>4 DEF Next, HandleCall, Finished

ContractInv == TypeOK /\ FinalizationInv /\ FaultInv

LEMMA ContractInvariant == Spec => []ContractInv
<1>1. Init => ContractInv
  BY InitTypeOK DEF Init, ContractInv, FinalizationInv, FaultInv
<1>2. ContractInv /\ [Next]_vars => ContractInv'
  BY NextTypeOK, FinalizationStep, FaultStep DEF ContractInv
<1> QED
  BY <1>1, <1>2, PTL DEF Spec

\* A step that keeps the stage and the action, and adds one fault at most
\* during the analysis, is a step of the contract.
LEMMA ContractMoves ==
  ASSUME UNCHANGED <<Stage, action>>,
         \/ FaultsSoFar' = FaultsSoFar
         \/ Stage = "analysing" /\ \E f \in AgentFaults : FaultsSoFar' = FaultsSoFar \cup {f}
  PROVE  [Contract!Next]_(Contract!vars)
BY DEF Contract!Next, Contract!MeetFault, Contract!vars

\* The faults are a function of what each of them is read from.
LEMMA FaultsKept ==
  ASSUME UNCHANGED <<agent_error, merge, results>>
  PROVE  FaultsSoFar' = FaultsSoFar
BY DEF FaultsSoFar, parse_error, llm_error, Statuses

\* An error of the loop is one fault more.
LEMMA ErrorIsFault ==
  ASSUME agent_error = "none", UNCHANGED <<merge, results>>,
         agent_error' \in {"parse_error", "llm_not_configured", "llm_turn_error",
                           "deadline_exceeded", "turn_budget_exhausted"}
  PROVE  \E f \in AgentFaults : FaultsSoFar' = FaultsSoFar \cup {f}
<1> DEFINE f == CASE agent_error' = "parse_error" -> "parse"
                  [] agent_error' \in {"llm_not_configured", "llm_turn_error"} -> "llm"
                  [] OTHER -> "incomplete"
<1>1. f \in AgentFaults
  BY DEF AgentFaults
<1>2. \A x \in AgentFaults : x \in FaultsSoFar' <=> x \in FaultsSoFar \/ x = f
  BY DEF AgentFaults, FaultsSoFar, parse_error, llm_error, Statuses
<1>3. FaultsSoFar \subseteq AgentFaults /\ FaultsSoFar' \subseteq AgentFaults
  BY DEF FaultsSoFar
<1> QED
  BY <1>1, <1>2, <1>3

\* A lookup adds a fault when its adapter raised, and no other one.
LEMMA LookupFault ==
  ASSUME TypeOK, NEW call \in Calls, Execute(call)
  PROVE  \/ FaultsSoFar' = FaultsSoFar
         \/ \E f \in AgentFaults : FaultsSoFar' = FaultsSoFar \cup {f}
<1>1. UNCHANGED <<agent_error, merge>>
  BY DEF Execute, verdict, outcome
<1>2. Statuses \subseteq Statuses'
  <2>1. /\ Len(results') = Len(results) + 1 /\ results' \in Seq(ToolResult)
        /\ \A i \in 1..Len(results) : results'[i] = results[i]
    <3>1. PICK s \in ResultStatus :
             results' = Append(results, [query |-> <<call.tool, call.observable>>, status |-> s])
      BY DEF Execute
    <3>2. call.tool \in AllInvestigationTools /\ call.observable \in Observables
      BY AgentAssumption DEF Execute, Accepts
    <3>3. [query |-> <<call.tool, call.observable>>, status |-> s] \in ToolResult
      BY <3>2 DEF ToolResult, Queries
    <3> QED
      BY <3>1, <3>3 DEF TypeOK
  <2>2. results \in Seq(ToolResult)
    BY DEF TypeOK
  <2> QED
    BY <2>1, <2>2 DEF Statuses
<1>3. \A x \in AgentFaults \ {"exception"} : x \in FaultsSoFar' <=> x \in FaultsSoFar
  BY <1>1 DEF AgentFaults, FaultsSoFar, parse_error, llm_error
<1>4. /\ "exception" \in FaultsSoFar' <=> "exception" \in Statuses'
      /\ "exception" \in FaultsSoFar <=> "exception" \in Statuses
      /\ "exception" \in AgentFaults
  BY DEF AgentFaults, FaultsSoFar
<1>5. FaultsSoFar \subseteq AgentFaults /\ FaultsSoFar' \subseteq AgentFaults
  BY DEF FaultsSoFar
<1>6. CASE "exception" \in Statuses'
  <2>1. FaultsSoFar' = FaultsSoFar \cup {"exception"}
    BY <1>3, <1>4, <1>5, <1>6
  <2> QED
    BY <1>4, <2>1
<1>7. CASE "exception" \notin Statuses'
  <2>1. FaultsSoFar' = FaultsSoFar
    BY <1>2, <1>3, <1>4, <1>5, <1>7
  <2> QED
    BY <2>1
<1> QED
  BY <1>6, <1>7

\* A fault of the run forbids AUTO.
LEMMA FaultForbidsAuto ==
  ASSUME ContractInv, FaultsSoFar # {}, NEW found
  PROVE  decide_policy(PolicyInputs(found)) # "AUTO"
<1>1. PICK f \in FaultsSoFar : TRUE
  OBVIOUS
<1>2. CASE parse_error \/ llm_error
  BY <1>2 DEF decide_policy, BlockingFacts, PolicyInputs
<1>3. CASE "exception" \in Statuses \/ merge = "refused"
  <2>1. PolicyInputs(found).issues # {}
    BY <1>3 DEF PolicyInputs, AgentErrors
  <2> QED
    BY <2>1 DEF decide_policy, AutoEligible
<1>4. CASE agent_error \in {"deadline_exceeded", "turn_budget_exhausted"}
  <2>1. assessment = Null
    BY <1>4 DEF ContractInv, FinalizationInv, FaultInv
  <2> QED
    BY <2>1 DEF decide_policy, BlockingFacts, PolicyInputs
<1> QED
  BY <1>1, <1>2, <1>3, <1>4 DEF FaultsSoFar

LEMMA ContractStep == ContractInv /\ [Next]_vars => [Contract!Next]_(Contract!vars)
<1> SUFFICES ASSUME ContractInv, [Next]_vars PROVE [Contract!Next]_(Contract!vars)
  OBVIOUS
<1> USE DEF dialogue, executor, verdict, outcome
<1>1. CASE ParseFails \/ NotConfigured \/ ModelFails \/ GiveUp
  <2>1. /\ agent_error = "none" /\ UNCHANGED <<merge, results, action>>
        /\ agent_error' \in {"parse_error", "llm_not_configured", "llm_turn_error",
                             "deadline_exceeded", "turn_budget_exhausted"}
    BY <1>1 DEF ParseFails, NotConfigured, ModelFails, GiveUp, ContractInv, FaultInv
  <2>2. Stage = "analysing" /\ Stage' = "analysing"
    BY <1>1 DEF ParseFails, NotConfigured, ModelFails, GiveUp, Stage
  <2> QED
    BY <2>1, <2>2, ErrorIsFault, ContractMoves
<1>2. CASE Prepare \/ ModelAnswers \/ EndTurn
  <2>1. UNCHANGED <<agent_error, merge, results, action>>
    BY <1>2 DEF Prepare, ModelAnswers, EndTurn
  <2>2. Stage = "analysing" /\ Stage' = "analysing"
    BY <1>2 DEF Prepare, ModelAnswers, EndTurn, Stage
  <2> QED
    BY <2>1, <2>2, FaultsKept, ContractMoves
<1>3. ASSUME NEW call \in Calls,
             Finalize(call) \/ FinalizeRejected(call) \/ ExecuteRefused(call)
      PROVE  [Contract!Next]_(Contract!vars)
  <2>1. UNCHANGED <<agent_error, merge, results, action>>
    BY <1>3 DEF Finalize, FinalizeRejected, ExecuteRefused
  <2>2. Stage = "analysing" /\ Stage' = "analysing"
    BY <1>3 DEF Finalize, FinalizeRejected, ExecuteRefused, Handling, Stage
  <2> QED
    BY <2>1, <2>2, FaultsKept, ContractMoves
<1>4. ASSUME NEW call \in Calls, Execute(call)
      PROVE  [Contract!Next]_(Contract!vars)
  <2>1. Stage = "analysing" /\ Stage' = "analysing" /\ action' = action
    BY <1>4 DEF Execute, Handling, Stage
  <2>2. TypeOK
    BY DEF ContractInv
  <2> QED
    BY <1>4, <2>1, <2>2, LookupFault, ContractMoves
<1>5. CASE Merge
  <2>1. Stage = "analysing" /\ Stage' = "analysing" /\ action' = action
    BY <1>5 DEF Merge, Stage
  <2>2. UNCHANGED <<agent_error, results>> /\ merge = "none" /\ merge' \in {"ok", "refused"}
    BY <1>5 DEF Merge, ContractInv, FaultInv
  <2>3. FaultsSoFar' = FaultsSoFar \/ FaultsSoFar' = FaultsSoFar \cup {"merge"}
    BY <2>2 DEF FaultsSoFar, AgentFaults, parse_error, llm_error, Statuses
  <2> QED
    BY <2>1, <2>3, ContractMoves DEF AgentFaults
<1>6. CASE DecidePolicy
  <2>1. Stage = "analysing" /\ Stage' = "recommended"
    BY <1>6 DEF DecidePolicy, Stage
  <2>2. FaultsSoFar' = FaultsSoFar
    BY <1>6, FaultsKept DEF DecidePolicy
  <2>3. PICK found \in SUBSET ContentIssues : action' = decide_policy(PolicyInputs(found))
    BY <1>6 DEF DecidePolicy
  <2>4. action' \in {"AUTO", "REVIEW", "ESCALATE"} /\ (FaultsSoFar # {} => action' # "AUTO")
    BY <2>3, PolicyType, FaultForbidsAuto DEF Actions
  <2> QED
    BY <2>1, <2>2, <2>4 DEF Contract!Next, Contract!Recommend
<1>7. CASE WriteArtifacts \/ Abort
  <2>1. FaultsSoFar' = FaultsSoFar /\ action' = action
    BY <1>7, FaultsKept DEF WriteArtifacts, Abort
  <2>2. \/ Stage = "recommended" /\ Stage' = "archived"
        \/ Stage \in {"analysing", "recommended"} /\ Stage' = "failed"
    BY <1>7 DEF WriteArtifacts, Abort, Stage, ContractInv, TypeOK
  <2> QED
    BY <2>1, <2>2 DEF Contract!Next, Contract!Archive, Contract!Fail
<1>8. CASE UNCHANGED vars
  <2>1. UNCHANGED <<Stage, action>> /\ FaultsSoFar' = FaultsSoFar
    BY <1>8, FaultsKept DEF vars, Stage
  <2> QED
    BY <2>1, ContractMoves
<1> QED
  BY <1>1, <1>2, <1>3, <1>4, <1>5, <1>6, <1>7, <1>8 DEF Next, HandleCall, Finished

\* The agentic runtime makes one recommendation, never AUTO after a fault nor
\* without an assessment, and never revises it, whatever the model calls.
THEOREM ContractRefined == Spec => Contract!Spec
<1>1. Init => Contract!Init
  BY DEF Init, Contract!Init, Stage, FaultsSoFar, parse_error, llm_error, Statuses
<1>2. ContractInv /\ [Next]_vars => [Contract!Next]_(Contract!vars)
  BY ContractStep
<1> QED
  BY <1>1, <1>2, ContractInvariant, PTL DEF Spec, Contract!Spec
-----------------------------------------------------------------------------
(***************************************************************************)
(* The protocol of the tool calls.  While a turn is handled, what has been *)
(* answered and what the calls that are left will be answered with make up *)
(* the identifiers the last message of the assistant echoes.               *)
(***************************************************************************)
\* The messages of the turn answer the first n identifiers, in their order.
Answers(messages, n) ==
    /\ n \in Nat /\ Len(messages) >= n + 1
    /\ messages[1].role = "assistant" /\ n <= Len(messages[1].ids)
    /\ \A i \in 1..n : messages[i + 1] = [role |-> "tool", id |-> messages[1].ids[i]]

AnswersFollow ==
    phase = "calls" =>
        LET n    == Len(exchange) - 1
            rest == Ids[calls]
        IN /\ Answers(exchange, n)
           /\ Len(exchange[1].ids) = n + Len(rest)
           /\ \A j \in 1..Len(rest) : exchange[1].ids[n + j] = rest[j]

NothingSaid == phase = "start" => exchange = <<>>

ProtocolInv == TypeOK /\ NothingSaid /\ AnswersFollow /\ ProtocolKept

\* The model is asked: nothing is answered yet.
LEMMA TurnBegins ==
  ASSUME TypeOK, TypeOK', ModelAnswers PROVE AnswersFollow'
<1> DEFINE ids == Ids[calls']
<1>1. ids \in Seq(CallIds)
  BY IdsType DEF TypeOK
<1>2. exchange' = <<[role |-> "assistant", ids |-> ids]>>
  BY DEF ModelAnswers
<1> HIDE DEF ids
<1>3. /\ Len(exchange') = 1 /\ exchange'[1].role = "assistant" /\ exchange'[1].ids = ids
  BY <1>2
<1>4. Answers(exchange', 0)
  BY <1>1, <1>3 DEF Answers
<1>5. /\ Len(exchange'[1].ids) = 0 + Len(ids)
      /\ \A j \in 1..Len(ids) : exchange'[1].ids[0 + j] = ids[j]
  BY <1>1, <1>3
<1> QED
  BY <1>3, <1>4, <1>5 DEF AnswersFollow, ids

\* A call with an identifier is answered, one without is counted.
LEMMA CallAnswered ==
  ASSUME TypeOK, AnswersFollow, NEW call \in Calls, Handling(call), calls' = Tail(calls),
         call.id # Null, Answer(call)
  PROVE  AnswersFollow'
<1> DEFINE n    == Len(exchange) - 1
           rest == Ids[calls]
           left == Ids[calls']
<1>1. /\ calls \in Seq(Calls) /\ calls # <<>> /\ Head(calls) = call
      /\ calls' \in Seq(Calls) /\ exchange \in Seq(Message) /\ phase = "calls"
  BY DEF TypeOK, Handling
<1>2. rest = <<call.id>> \o left
  BY <1>1, IdsOf
<1>3. rest \in Seq(CallIds) /\ left \in Seq(CallIds)
  BY <1>1, IdsType
<1>4. /\ Answers(exchange, n) /\ Len(exchange[1].ids) = n + Len(rest)
      /\ \A j \in 1..Len(rest) : exchange[1].ids[n + j] = rest[j]
  BY <1>1 DEF AnswersFollow
<1> HIDE DEF rest, left
<1>5. /\ Len(rest) = Len(left) + 1 /\ rest[1] = call.id
      /\ \A j \in 1..Len(left) : rest[j + 1] = left[j]
  BY <1>2, <1>3
<1>6. n \in Nat
  BY <1>4 DEF Answers
<1>7. /\ exchange' = Append(exchange, [role |-> "tool", id |-> call.id])
      /\ Len(exchange') = n + 2
      /\ \A i \in 1..(n + 1) : exchange'[i] = exchange[i]
      /\ exchange'[n + 2] = [role |-> "tool", id |-> call.id]
  BY <1>1, <1>6 DEF Answer
<1>8. exchange'[1] = exchange[1] /\ exchange[1].ids[n + 1] = call.id
  <2>1. 1 \in 1..(n + 1) /\ 1 \in 1..Len(rest)
    BY <1>3, <1>5, <1>6
  <2> QED
    BY <2>1, <1>4, <1>5, <1>7
<1>9. Answers(exchange', n + 1)
  <2>1. Len(exchange') >= n + 1 + 1 /\ exchange'[1].role = "assistant"
    BY <1>4, <1>6, <1>7, <1>8 DEF Answers
  <2>2. n + 1 <= Len(exchange'[1].ids)
    <3>1. Len(exchange'[1].ids) = n + Len(rest)
      BY <1>4, <1>8
    <3>2. Len(rest) \in Nat /\ Len(rest) >= 1
      BY <1>3, <1>5
    <3> HIDE DEF n
    <3> QED
      BY <3>1, <3>2, <1>6
  <2>3. ASSUME NEW i \in 1..(n + 1)
        PROVE  exchange'[i + 1] = [role |-> "tool", id |-> exchange'[1].ids[i]]
    <3>1. CASE i = n + 1
      BY <1>7, <1>8, <3>1, <1>6
    <3>2. CASE i # n + 1
      <4>1. i \in 1..n /\ i + 1 \in 1..(n + 1)
        BY <1>6, <3>2
      <4> QED
        BY <4>1, <1>4, <1>7, <1>8 DEF Answers
    <3> QED
      BY <3>1, <3>2
  <2> QED
    BY <2>1, <2>2, <2>3 DEF Answers
<1>10. Len(exchange'[1].ids) = (n + 1) + Len(left)
  <2>1. Len(exchange'[1].ids) = n + Len(rest)
    BY <1>4, <1>8
  <2>2. Len(left) \in Nat /\ Len(rest) = Len(left) + 1
    BY <1>3, <1>5
  <2> HIDE DEF n
  <2> QED
    BY <2>1, <2>2, <1>6
<1>11. ASSUME NEW j \in 1..Len(left) PROVE exchange'[1].ids[(n + 1) + j] = left[j]
  <2>1. j + 1 \in 1..Len(rest) /\ n + (j + 1) = (n + 1) + j
    BY <1>3, <1>5, <1>6
  <2> QED
    BY <2>1, <1>4, <1>5, <1>8
<1>12. Len(exchange') - 1 = n + 1
  BY <1>6, <1>7
<1> QED
  BY <1>9, <1>10, <1>11, <1>12 DEF AnswersFollow, left

LEMMA CallRefused ==
  ASSUME TypeOK, AnswersFollow, NEW call \in Calls, Handling(call), calls' = Tail(calls),
         Refuse(call), UNCHANGED phase
  PROVE  AnswersFollow'
<1>1. CASE call.id # Null
  BY <1>1, CallAnswered DEF Refuse
<1>2. CASE call.id = Null
  <2>1. calls \in Seq(Calls) /\ calls # <<>> /\ Head(calls) = call /\ calls' \in Seq(Calls)
    BY DEF TypeOK, Handling
  <2>2. Ids[calls] = <<>> \o Ids[calls'] /\ Ids[calls'] \in Seq(CallIds)
    BY <2>1, <1>2, IdsOf, IdsType
  <2>3. Ids[calls] = Ids[calls']
    BY <2>2
  <2>4. UNCHANGED exchange
    BY <1>2 DEF Refuse
  <2> QED
    BY <2>3, <2>4 DEF AnswersFollow
<1> QED
  BY <1>1, <1>2

\* The end of a turn only adds messages of the user.
LEMMA TurnEnds ==
  ASSUME TypeOK, AnswersFollow, EndTurn PROVE ProtocolKept'
<1> DEFINE n        == Len(exchange) - 1
           protocol == IF orphans > 0
                       THEN <<[role |-> "user", about |-> "protocol_error"]>> ELSE <<>>
           nudge    == IF exchange = <<[role |-> "assistant", ids |-> <<>>]>> /\ orphans = 0
                          /\ turn < MaxTurns
                       THEN <<[role |-> "user", about |-> "no_tool_calls"]>> ELSE <<>>
           added    == protocol \o nudge
<1>1. /\ exchange \in Seq(Message) /\ orphans \in Nat /\ UNCHANGED orphans
      /\ exchange' = exchange \o protocol \o nudge
  BY DEF TypeOK, EndTurn
<1>2. Answers(exchange, n) /\ Len(exchange[1].ids) = n
  <2>1. Ids[calls] = <<>> /\ phase = "calls"
    BY IdsOf DEF EndTurn, TypeOK
  <2>2. Answers(exchange, n) /\ Len(exchange[1].ids) = n + 0
    BY <2>1 DEF AnswersFollow
  <2> QED
    BY <2>2, <1>1
<1>3. n \in Nat
  BY <1>1, <1>2 DEF Answers
<1>4. /\ protocol \in Seq(Message) /\ nudge \in Seq(Message)
      /\ \A i \in 1..Len(protocol) : protocol[i].role = "user"
      /\ \A i \in 1..Len(nudge) : nudge[i].role = "user"
      /\ orphans > 0 => Len(protocol) = 1 /\ protocol[1].about = "protocol_error"
  <2>1. /\ [role |-> "user", about |-> "protocol_error"] \in Message
        /\ [role |-> "user", about |-> "no_tool_calls"] \in Message
    BY DEF Message
  <2> QED
    BY <2>1
<1> HIDE DEF protocol, nudge
<1>5. /\ added \in Seq(Message) /\ exchange' = exchange \o added
      /\ \A i \in 1..Len(added) : added[i].role = "user"
      /\ orphans > 0 => Len(added) >= 1 /\ added[1].about = "protocol_error"
  BY <1>1, <1>4
<1> HIDE DEF added
<1>6. /\ Len(exchange') = n + 1 + Len(added)
      /\ \A i \in 1..(n + 1) : exchange'[i] = exchange[i]
      /\ \A i \in (n + 2)..Len(exchange') :
            i - (n + 1) \in 1..Len(added) /\ exchange'[i] = added[i - (n + 1)]
  BY <1>1, <1>3, <1>5
<1>7. /\ Head(exchange') = exchange[1] /\ exchange[1].role = "assistant"
      /\ exchange' # <<>>
  <2>1. exchange' \in Seq(Message) /\ Len(exchange') >= 1
    BY <1>1, <1>3, <1>5
  <2> QED
    BY <2>1, <1>2, <1>3, <1>6 DEF Answers
<1>8. ASSUME NEW i \in 1..n
      PROVE  exchange'[i + 1] = [role |-> "tool", id |-> exchange[1].ids[i]]
  <2>1. i + 1 \in 1..(n + 1)
    BY <1>3
  <2> QED
    BY <2>1, <1>2, <1>6 DEF Answers
<1>9. ASSUME NEW i \in (n + 2)..Len(exchange') PROVE exchange'[i].role = "user"
  BY <1>5, <1>6
<1>10. orphans > 0 => \E i \in (n + 2)..Len(exchange') : exchange'[i].about = "protocol_error"
  <2> SUFFICES ASSUME orphans > 0
               PROVE  \E i \in (n + 2)..Len(exchange') : exchange'[i].about = "protocol_error"
    OBVIOUS
  <2>1. n + 2 \in (n + 2)..Len(exchange') /\ exchange'[n + 2] = added[1]
    BY <1>3, <1>5, <1>6
  <2> QED
    BY <2>1, <1>5
<1>11. Len(exchange') >= n + 1
  BY <1>3, <1>5, <1>6
<1>12. Head(exchange').ids = exchange[1].ids /\ Len(Head(exchange').ids) = n
  BY <1>2, <1>7
<1> HIDE DEF n
<1> QED
  BY <1>1, <1>7, <1>8, <1>9, <1>10, <1>11, <1>12 DEF ProtocolKept

LEMMA ProtocolStep == ProtocolInv /\ [Next]_vars => ProtocolInv'
<1> SUFFICES ASSUME ProtocolInv, [Next]_vars PROVE ProtocolInv'
  OBVIOUS
<1>1. TypeOK /\ TypeOK' /\ NothingSaid /\ AnswersFollow /\ ProtocolKept
  BY NextTypeOK DEF ProtocolInv
<1> USE <1>1
<1>0. NothingSaid'
  BY DEF NothingSaid, Next, HandleCall, Finished, vars, dialogue, ParseFails, Prepare,
     NotConfigured, ModelAnswers, ModelFails, GiveUp, Finalize, FinalizeRejected, Execute,
     ExecuteRefused, Handling, EndTurn, Merge, DecidePolicy, WriteArtifacts, Abort
<1> SUFFICES AnswersFollow' /\ ProtocolKept'
  BY <1>0 DEF ProtocolInv
<1>2. CASE ParseFails \/ NotConfigured \/ ModelFails \/ GiveUp
  <2>1. phase' = "merge"
    BY <1>2 DEF ParseFails, NotConfigured, ModelFails, GiveUp
  <2> QED
    BY <2>1 DEF AnswersFollow, ProtocolKept
<1>3. CASE Prepare
  BY <1>3 DEF Prepare, dialogue, NothingSaid, AnswersFollow, ProtocolKept
<1>4. CASE ModelAnswers
  <2>1. phase' = "calls"
    BY <1>4 DEF ModelAnswers
  <2> QED
    BY <2>1, <1>4, TurnBegins DEF ProtocolKept
<1>5. ASSUME NEW call \in Calls, Finalize(call)
      PROVE  AnswersFollow' /\ ProtocolKept'
  <2>1. phase' = "merge"
    BY <1>5 DEF Finalize
  <2> QED
    BY <2>1 DEF AnswersFollow, ProtocolKept
<1>6. ASSUME NEW call \in Calls, FinalizeRejected(call) \/ ExecuteRefused(call)
      PROVE  AnswersFollow' /\ ProtocolKept'
  <2>1. /\ Handling(call) /\ calls' = Tail(calls) /\ Refuse(call) /\ UNCHANGED phase
        /\ phase = "calls"
    BY <1>6 DEF FinalizeRejected, ExecuteRefused, Handling
  <2>2. AnswersFollow'
    BY <2>1, CallRefused
  <2> QED
    BY <2>1, <2>2 DEF ProtocolKept
<1>7. ASSUME NEW call \in Calls, Execute(call)
      PROVE  AnswersFollow' /\ ProtocolKept'
  <2>1. /\ Handling(call) /\ calls' = Tail(calls) /\ Answer(call) /\ UNCHANGED phase
        /\ phase = "calls" /\ call.id # Null
    BY <1>7 DEF Execute, Accepts, Handling
  <2>2. AnswersFollow'
    BY <2>1, CallAnswered
  <2> QED
    BY <2>1, <2>2 DEF ProtocolKept
<1>8. CASE EndTurn
  <2>1. phase' = "loop"
    BY <1>8 DEF EndTurn
  <2> QED
    BY <2>1, <1>8, TurnEnds DEF AnswersFollow
<1>9. CASE Merge \/ DecidePolicy \/ WriteArtifacts \/ Abort
  <2>1. phase' \notin {"loop", "calls"}
    BY <1>9 DEF Merge, DecidePolicy, WriteArtifacts, Abort
  <2> QED
    BY <2>1 DEF AnswersFollow, ProtocolKept
<1>10. CASE UNCHANGED vars
  BY <1>10 DEF vars, AnswersFollow, ProtocolKept, Answers
<1> QED
  BY <1>2, <1>3, <1>4, <1>5, <1>6, <1>7, <1>8, <1>9, <1>10 DEF Next, HandleCall, Finished

\* When the model is asked again, each call it identified has exactly one
\* answer, in the order of the calls, whatever was executed, refused or
\* rejected in between, and no call without identifier goes unreported: the
\* providers refuse a conversation that breaks this (src/agent/runner.py).
THEOREM ProtocolHolds == Spec => []ProtocolKept
<1>1. Init => ProtocolInv
  BY InitTypeOK DEF Init, ProtocolInv, NothingSaid, AnswersFollow, ProtocolKept
<1>2. ProtocolInv => ProtocolKept
  BY DEF ProtocolInv
<1> QED
  BY <1>1, <1>2, ProtocolStep, PTL DEF Spec

=============================================================================
