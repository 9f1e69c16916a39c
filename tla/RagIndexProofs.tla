--------------------------- MODULE RagIndexProofs ---------------------------
(***************************************************************************)
(* Theorems about the RAG index, for every number of processes, every      *)
(* source and every bound: although nothing is locked, vectors of two      *)
(* models are mixed only when the weights change between their fingerprint *)
(* and their loading, and an add that no other one crosses neither         *)
(* replaces a case nor is refused for what its own source left.            *)
(***************************************************************************)
EXTENDS RagIndex, FiniteSetTheorems, TLAPS

-----------------------------------------------------------------------------
(***************************************************************************)
(* The inductive invariant.  A handle is good for one collection only, and *)
(* whoever opened that collection has the model of its metadata loaded:    *)
(* the check of _store then holds for as long as the handle is good.       *)
(***************************************************************************)
Typed == TypeOK /\ IsFiniteSet(stored)

\* Where the store is open.
Working == {"check", "family", "room", "embed_case", "upsert", "count", "embed_query",
            "query", "delete", "describe"}

\* The fingerprint is read before the store is opened, and the weights are
\* loaded before a vector is used.
Loaded ==
    \A p \in Procs :
        /\ proc[p].pc \notin {"idle", "fingerprint"} => proc[p].fingerprint # Null
        /\ proc[p].pc \in {"upsert", "query"} => proc[p].weights # Null
        /\ proc[p].pc = "fingerprint" => proc[p].weights = Null

\* What is loaded, or still to be loaded, is what the fingerprint was taken of.
AsRead(a, weights) ==
    a.pc # "idle" =>
        /\ a.weights # Null => a.weights = a.fingerprint
        /\ a.pc # "fingerprint" /\ a.weights = Null => a.fingerprint = weights

LoadedAsRead == ~swapped => \A p \in Procs : AsRead(proc[p], installed)

\* A case that is decided about is one of the source.
Checked == \A p \in Procs : Deciding(p) => proc[p].todo # <<>>

\* No handle is newer than the collection.
Handles == \A p \in Procs : proc[p].handle <= uid

SameSpace ==
    \A p \in Procs : proc[p].pc \in Working /\ Usable(p) => proc[p].fingerprint = space

IndexInv ==
    Typed /\ Loaded /\ LoadedAsRead /\ Checked /\ Handles /\ SameSpace /\ NeverMixed

-----------------------------------------------------------------------------
(***************************************************************************)
(* Type correctness.  The collection is finite: it grows by upserts.       *)
(***************************************************************************)

LEMMA IdleType == Idle \in Adapter
  BY DEF Idle, Adapter, Outcomes, Pcs

\* An action assigns an adapter to one process.
LEMMA BecomesType ==
  ASSUME TypeOK, NEW p \in Procs, NEW a \in Adapter, Becomes(p, a)
  PROVE  proc' \in [Procs -> Adapter]
  BY DEF TypeOK, Becomes

LEMMA ProcType == ASSUME TypeOK, NEW p \in Procs PROVE proc[p] \in Adapter
  BY DEF TypeOK

LEMMA EndType ==
  ASSUME TypeOK, NEW p \in Procs, NEW o \in Outcomes, End(p, o)
  PROVE  proc' \in [Procs -> Adapter]
<1>1. "idle" \in Pcs
  BY DEF Pcs
<1>2. [proc[p] EXCEPT !.pc = "idle", !.outcome = o] \in Adapter
  BY <1>1, ProcType DEF Adapter
<1> QED
  BY <1>2, BecomesType DEF End

LEMMA OpenedType ==
  ASSUME TypeOK, NEW p \in Procs, NEW h \in Nat
  PROVE  [proc[p] EXCEPT !.pc = proc[p].then, !.handle = h] \in Adapter
<1> DEFINE a == proc[p]
<1>1. a \in Adapter
  BY ProcType
<1>2. a.then \in {"check", "count", "delete", "describe"}
  BY <1>1 DEF Adapter
<1> HIDE DEF a
<1>4. a.then \in Pcs
  BY <1>2 DEF Pcs
<1>3. [a EXCEPT !.pc = a.then, !.handle = h] \in Adapter
  BY <1>1, <1>4 DEF Adapter
<1> QED
  BY <1>3 DEF a

LEMMA SkippedType ==
  ASSUME TypeOK, NEW p \in Procs, proc[p].todo # <<>>
  PROVE  /\ [proc[p] EXCEPT !.todo = Tail(@)] \in Adapter
         /\ [proc[p] EXCEPT !.pc = "check", !.todo = Tail(@)] \in Adapter
         /\ Current(p) \in Cases
<1>1. proc[p].todo \in Seq(Cases)
  BY ProcType DEF Adapter
<1>2. Tail(proc[p].todo) \in Seq(Cases) /\ Head(proc[p].todo) \in Cases
  BY <1>1
<1> DEFINE t == Tail(proc[p].todo)
<1> HIDE DEF t
<1>4. "check" \in Pcs
  BY DEF Pcs
<1>3. /\ [proc[p] EXCEPT !.todo = t] \in Adapter
      /\ [proc[p] EXCEPT !.pc = "check", !.todo = t] \in Adapter
  BY <1>2, <1>4, ProcType DEF Adapter, t
<1> QED
  BY <1>2, <1>3 DEF Current, t

LEMMA StartType ==
  ASSUME TypeOK, NEW p \in Procs, Start(p)
  PROVE  commands' \in 0..MaxCommands /\ proc' \in [Procs -> Adapter]
<1>1. commands' \in 0..MaxCommands
  <2>1. commands \in 0..MaxCommands /\ MaxCommands \in Nat
    BY IndexAssumption DEF TypeOK
  <2>2. commands < MaxCommands /\ commands' = commands + 1
    BY DEF Start
  <2> QED
    BY <2>1, <2>2
<1>2. ASSUME NEW s \in Sources
      PROVE  /\ [Idle EXCEPT !.cmd = "add", !.pc = "fingerprint", !.then = "check",
                             !.source = s, !.todo = s] \in Adapter
             /\ [Idle EXCEPT !.cmd = "add", !.outcome = "refused_source"] \in Adapter
  <2>1. s \in Seq(Cases) /\ "fingerprint" \in Pcs /\ "refused_source" \in Outcomes
    BY IndexAssumption DEF Pcs, Outcomes
  <2>2. [Idle EXCEPT !.cmd = "add", !.pc = "fingerprint", !.then = "check",
                     !.source = s, !.todo = s] \in Adapter
    BY <2>1, IdleType DEF Adapter
  <2>3. [Idle EXCEPT !.cmd = "add", !.outcome = "refused_source"] \in Adapter
    BY <2>1, IdleType DEF Adapter
  <2> QED
    BY <2>2, <2>3
<1>3. ASSUME NEW e \in Exclusions
      PROVE  [Idle EXCEPT !.cmd = "search", !.pc = "fingerprint", !.then = "count",
                          !.exclusions = e] \in Adapter
  BY IdleType DEF Adapter, Pcs
<1>4. [Idle EXCEPT !.cmd = "clear", !.pc = "fingerprint", !.then = "delete"] \in Adapter
  BY IdleType DEF Adapter, Pcs
<1>5. \E a \in Adapter : Becomes(p, a)
  BY <1>2, <1>3, <1>4 DEF Start
<1> QED
  BY <1>1, <1>5, BecomesType

LEMMA CandidatesType ==
  ASSUME TypeOK, NEW n, NEW e
  PROVE  Neighbours(n, e) \in SUBSET Cases
<1>1. StoredCases \in SUBSET Cases
  BY DEF StoredCases, TypeOK, Entry
<1> QED
  BY <1>1 DEF Neighbours, Candidates, Nearest

LEMMA NextTyped == IndexInv /\ [Next]_vars => Typed'
<1> SUFFICES ASSUME IndexInv, [Next]_vars
             PROVE  Typed'
  OBVIOUS
<1> USE DEF Typed, IndexInv
<1>1. ASSUME NEW p \in Procs, Start(p)
      PROVE  Typed'
  BY <1>1, StartType DEF Start, TypeOK, collection, history
<1>2. ASSUME NEW p \in Procs, Fingerprint(p) \/ List(p)
      PROVE  Typed'
  <2>1. installed \in Models \cup {Null} /\ present \in BOOLEAN /\ {"open", "list"} \subseteq Pcs
    BY DEF TypeOK, Pcs
  <2>2. /\ [proc[p] EXCEPT !.pc = "open", !.seen = present] \in Adapter
        /\ [proc[p] EXCEPT !.pc = "list", !.fingerprint = installed] \in Adapter
    BY <2>1, ProcType DEF Adapter
  <2>3. proc' \in [Procs -> Adapter]
    BY <1>2, <2>2, BecomesType DEF Fingerprint, List
  <2>4. UNCHANGED <<collection, machine, history>>
    BY <1>2 DEF Fingerprint, List
  <2> QED
    BY <2>3, <2>4 DEF TypeOK, collection, machine, history
<1>15. ASSUME NEW p \in Procs, Embed(p)
       PROVE  Typed'
  <2> DEFINE m == IF proc[p].weights = Null THEN installed ELSE proc[p].weights
             c == IF proc[p].pc = "embed_case" THEN "upsert" ELSE "query"
  <2>1. m \in Models \cup {Null} /\ c \in Pcs
    BY ProcType DEF TypeOK, Adapter, Pcs
  <2>2. Becomes(p, [proc[p] EXCEPT !.weights = m, !.pc = c])
    BY <1>15 DEF Embed
  <2> HIDE DEF m, c
  <2>3. [proc[p] EXCEPT !.weights = m, !.pc = c] \in Adapter
    BY <2>1, ProcType DEF Adapter
  <2>4. proc' \in [Procs -> Adapter]
    BY <2>2, <2>3, BecomesType
  <2> QED
    BY <1>15, <2>4 DEF Embed, TypeOK, collection, machine, history
<1>3. ASSUME NEW p \in Procs, Open(p)
      PROVE  Typed'
  <2>1. uid \in Nat
    BY DEF TypeOK
  <2>2. proc' \in [Procs -> Adapter]
    BY <1>3, <2>1, OpenedType, BecomesType DEF Open
  <2> QED
    BY <1>3, <2>2 DEF Open, TypeOK, collection, machine, history
<1>4. ASSUME NEW p \in Procs,
             OpenRefused(p) \/ OpenRaises(p) \/ HandleLost(p) \/ AddRefused(p)
      PROVE  Typed'
  <2>1. proc' \in [Procs -> Adapter]
    BY <1>4, EndType DEF OpenRefused, OpenRaises, HandleLost, AddRefused, Outcomes
  <2>2. UNCHANGED <<collection, machine, history>>
    BY <1>4 DEF OpenRefused, OpenRaises, HandleLost, AddRefused
  <2> QED
    BY <2>1, <2>2 DEF TypeOK, collection, machine, history
<1>5. ASSUME NEW p \in Procs, Create(p)
      PROVE  Typed'
  <2>1. uid' \in Nat
    BY <1>5 DEF Create, TypeOK
  <2>2. proc' \in [Procs -> Adapter]
    BY <1>5, <2>1, OpenedType, BecomesType DEF Create
  <2>3. space' \in Models
    <3>1. proc[p].fingerprint # Null
      BY <1>5 DEF Create, At, Loaded
    <3> QED
      BY <1>5, <3>1, ProcType DEF Create, Adapter
  <2> QED
    BY <1>5, <2>1, <2>2, <2>3, FS_EmptySet DEF Create, TypeOK, machine, history
<1>6. ASSUME NEW p \in Procs,
             Skip(p) \/ IdentifierFree(p) \/ FamilyFree(p) \/ RoomLeft(p) \/ Added(p)
      PROVE  Typed'
  <2>1. \A c \in {"family", "room", "embed_case", "describe"} :
           [proc[p] EXCEPT !.pc = c] \in Adapter
    BY ProcType DEF Adapter, Pcs
  <2>3. proc' \in [Procs -> Adapter]
    BY <1>6, <2>1, SkippedType, BecomesType
       DEF Skip, IdentifierFree, FamilyFree, RoomLeft, Added, Go
  <2>4. UNCHANGED <<collection, machine, receipt, overlap>> /\ crossed' \subseteq Procs
    BY <1>6 DEF Skip, IdentifierFree, FamilyFree, RoomLeft, Added, history, TypeOK
  <2> QED
    BY <2>3, <2>4 DEF TypeOK, collection, machine
<1>7. ASSUME NEW p \in Procs, Upsert(p)
      PROVE  Typed'
  <2>1. proc[p].todo # <<>> /\ proc[p].weights \in Models
    <3>1. proc[p].todo # <<>> /\ proc[p].weights # Null
      BY <1>7 DEF Upsert, At, Loaded, Checked, Deciding
    <3> QED
      BY <3>1, ProcType DEF Adapter
  <2>2. proc' \in [Procs -> Adapter]
    BY <1>7, <2>1, SkippedType, BecomesType DEF Upsert
  <2>3. [case |-> Current(p), model |-> proc[p].weights] \in Entry
    BY <2>1, SkippedType DEF Entry
  <2>4. stored' \in SUBSET Entry
    BY <1>7, <2>3 DEF Upsert, TypeOK
  <2>5. IsFiniteSet({e \in stored : e.case.id # Current(p).id})
    BY FS_Subset
  <2>6. IsFiniteSet(stored')
    BY <1>7, <2>5, FS_AddElement DEF Upsert
  <2>7. overlap' \in BOOLEAN /\ crossed' \subseteq Procs
    BY <1>7 DEF Upsert, TypeOK
  <2> QED
    BY <1>7, <2>2, <2>4, <2>6, <2>7 DEF Upsert, TypeOK, machine
<1>8. ASSUME NEW p \in Procs, Describe(p)
      PROVE  Typed'
  <2>1. proc' \in [Procs -> Adapter]
    BY <1>8, EndType DEF Describe, Outcomes
  <2>2. Len(proc[p].source) \in Nat /\ Cardinality(stored) \in Nat
    BY ProcType, FS_CardinalityType DEF Adapter
  <2>3. receipt' \in [source: Nat, total: Nat]
    BY <1>8, <2>2 DEF Describe, TypeOK
  <2> QED
    BY <1>8, <2>1, <2>3 DEF Describe, TypeOK, collection, machine
<1>9. ASSUME NEW p \in Procs, Count(p)
      PROVE  Typed'
  <2>1. Cardinality(stored) \in Nat /\ {"idle", "embed_query"} \subseteq Pcs
        /\ {"ok", "none"} \subseteq Outcomes
    BY FS_CardinalityType DEF Pcs, Outcomes
  <2>2. /\ [proc[p] EXCEPT !.count = Cardinality(stored), !.pc = "idle",
                           !.outcome = "ok"] \in Adapter
        /\ [proc[p] EXCEPT !.count = Cardinality(stored), !.pc = "embed_query",
                           !.outcome = "none"] \in Adapter
    BY <2>1, ProcType DEF Adapter
  <2>3. proc' \in [Procs -> Adapter]
    <3>1. CASE stored = {} \/ K = 0
      BY <1>9, <2>2, <3>1, BecomesType DEF Count
    <3>2. CASE ~(stored = {} \/ K = 0)
      BY <1>9, <2>2, <3>2, BecomesType DEF Count
    <3> QED
      BY <3>1, <3>2
  <2> QED
    BY <1>9, <2>3 DEF Count, TypeOK, collection, machine, history
<1>10. ASSUME NEW p \in Procs, Query(p)
       PROVE  Typed'
  <2>1. PICK n, e : Becomes(p, [proc[p] EXCEPT !.pc = "idle", !.outcome = "ok",
                                               !.found = Neighbours(n, e)])
    BY <1>10 DEF Query
  <2> DEFINE S == Neighbours(n, e)
  <2>2. S \in SUBSET Cases /\ "idle" \in Pcs /\ "ok" \in Outcomes
    BY CandidatesType DEF Pcs, Outcomes
  <2> HIDE DEF S
  <2>3. [proc[p] EXCEPT !.pc = "idle", !.outcome = "ok", !.found = S] \in Adapter
    BY <2>2, ProcType DEF Adapter
  <2>4. proc' \in [Procs -> Adapter]
    BY <2>1, <2>3, BecomesType DEF S
  <2> QED
    BY <1>10, <2>4 DEF Query, TypeOK, collection, machine, history
<1>11. ASSUME NEW p \in Procs, Delete(p)
       PROVE  Typed'
  <2>1. [proc[p] EXCEPT !.pc = "list", !.then = "describe"] \in Adapter
    BY ProcType DEF Adapter, Pcs
  <2>2. proc' \in [Procs -> Adapter]
    BY <1>11, <2>1, EndType, BecomesType DEF Delete, Outcomes
  <2>3. present' \in BOOLEAN
    BY <1>11 DEF Delete, TypeOK
  <2>4. stored' \in SUBSET Entry /\ IsFiniteSet(stored')
    BY <1>11, FS_EmptySet DEF Delete, TypeOK
  <2> QED
    BY <1>11, <2>2, <2>3, <2>4 DEF Delete, TypeOK, machine, history
<1>12. ASSUME NEW p \in Procs, Killed(p)
       PROVE  Typed'
  <2>1. proc' \in [Procs -> Adapter]
    BY <1>12, IdleType, BecomesType DEF Killed
  <2> QED
    BY <1>12, <2>1 DEF Killed, TypeOK, collection, machine, history
<1>13. CASE Upgrade
  BY <1>13, IndexAssumption DEF Upgrade, TypeOK, collection, history
<1>14. CASE UNCHANGED vars
  BY <1>14 DEF vars, TypeOK
<1> QED
  BY <1>1, <1>2, <1>3, <1>4, <1>5, <1>6, <1>7, <1>8, <1>9, <1>10, <1>11, <1>12,
     <1>13, <1>14, <1>15 DEF Next

-----------------------------------------------------------------------------
(***************************************************************************)
(* The rest of the invariant.                                              *)
(***************************************************************************)
Local == Loaded /\ LoadedAsRead /\ Checked /\ Handles /\ SameSpace

\* What the adapter of one process must satisfy, and the others keep, when
\* the collection stays the one it is.
Fitting(a) ==
    /\ a.pc \notin {"idle", "fingerprint"} => a.fingerprint # Null
    /\ a.pc \in {"upsert", "query"} => a.weights # Null
    /\ a.pc = "fingerprint" => a.weights = Null
    /\ ~swapped => AsRead(a, installed)
    /\ a.pc \in {"family", "room", "embed_case", "upsert"} => a.todo # <<>>
    /\ a.handle <= uid
    /\ a.pc \in Working /\ present /\ a.handle = uid => a.fingerprint = space

LEMMA LocalStep ==
  ASSUME IndexInv, NEW p \in Procs, NEW a, Becomes(p, a), Fitting(a),
         UNCHANGED <<present, uid, space, swapped, installed>>
  PROVE  Local'
<1>1. /\ proc'[p] = a
      /\ \A q \in Procs : q # p => proc'[q] = proc[q]
  BY DEF Becomes, IndexInv, Typed, TypeOK
<1>2. Loaded' /\ Checked' /\ Handles'
  BY <1>1 DEF IndexInv, Loaded, Checked, Handles, Deciding, Fitting
<1>3. SameSpace' /\ LoadedAsRead'
  BY <1>1 DEF IndexInv, SameSpace, LoadedAsRead, Usable, Fitting
<1> QED
  BY <1>2, <1>3 DEF Local

LEMMA ProcFacts ==
  ASSUME IndexInv, NEW p \in Procs
  PROVE  /\ proc[p] \in Adapter
         /\ uid \in Nat
         /\ proc[p].handle \in Nat /\ proc[p].handle <= uid
         /\ Fitting(proc[p])
         /\ proc[p].pc \in Working /\ Usable(p) => proc[p].fingerprint = space
  BY ProcType DEF IndexInv, Typed, TypeOK, Adapter, Loaded, LoadedAsRead, Checked, Handles,
     SameSpace, Usable, Deciding, Fitting

LEMMA EndLocal ==
  ASSUME IndexInv, NEW p \in Procs, NEW o, End(p, o),
         UNCHANGED <<present, uid, space, swapped, installed>>
  PROVE  Local'
<1> DEFINE a == [proc[p] EXCEPT !.pc = "idle", !.outcome = o]
<1>1. a.pc = "idle" /\ a.handle = proc[p].handle
  BY ProcFacts DEF Adapter
<1>2. Becomes(p, a)
  BY DEF End
<1> HIDE DEF a
<1>3. Fitting(a)
  BY <1>1, ProcFacts DEF Fitting, Working, AsRead
<1> QED
  BY <1>2, <1>3, LocalStep

LEMMA NextLocal == IndexInv /\ [Next]_vars => Local'
<1> SUFFICES ASSUME IndexInv, [Next]_vars
             PROVE  Local'
  OBVIOUS
<1>1. ASSUME NEW p \in Procs, Start(p)
      PROVE  Local'
  <2> DEFINE Fresh(a) == a.pc \in {"idle", "fingerprint"} /\ a.handle = 0 /\ a.weights = Null
  <2>1. PICK a : Becomes(p, a) /\ Fresh(a)
    <3>1. \A s : /\ Fresh([Idle EXCEPT !.cmd = "add", !.pc = "fingerprint", !.then = "check",
                                      !.source = s, !.todo = s])
                 /\ Fresh([Idle EXCEPT !.cmd = "add", !.outcome = "refused_source"])
      BY DEF Idle
    <3>2. \A e : Fresh([Idle EXCEPT !.cmd = "search", !.pc = "fingerprint", !.then = "count",
                                    !.exclusions = e])
      BY DEF Idle
    <3>3. Fresh([Idle EXCEPT !.cmd = "clear", !.pc = "fingerprint", !.then = "delete"])
      BY DEF Idle
    <3> HIDE DEF Fresh
    <3> QED
      BY <1>1, <3>1, <3>2, <3>3 DEF Start
  <2>2. UNCHANGED <<present, uid, space, swapped, installed>>
    BY <1>1 DEF Start, collection
  <2>3. Fitting(a)
    BY <2>1, ProcFacts DEF Fitting, Working, AsRead
  <2> QED
    BY <2>1, <2>2, <2>3, LocalStep
<1>2. ASSUME NEW p \in Procs, Fingerprint(p)
      PROVE  Local'
  <2> DEFINE a == [proc[p] EXCEPT !.pc = "list", !.fingerprint = installed]
  <2>1. /\ a.pc = "list" /\ a.handle = proc[p].handle /\ a.fingerprint = installed
        /\ a.weights = proc[p].weights
    BY ProcFacts DEF Adapter
  <2>2. Becomes(p, a) /\ UNCHANGED <<present, uid, space, swapped, installed>>
        /\ proc[p].pc = "fingerprint"
    BY <1>2 DEF Fingerprint, collection, machine, At
  <2>3. installed # Null
    BY IndexAssumption DEF IndexInv, Typed, TypeOK
  <2> HIDE DEF a
  <2>4. Fitting(a)
    BY <2>1, <2>2, <2>3, ProcFacts DEF Fitting, Working, AsRead
  <2> QED
    BY <2>2, <2>4, LocalStep
<1>10. ASSUME NEW p \in Procs, List(p)
       PROVE  Local'
  <2> DEFINE a == [proc[p] EXCEPT !.pc = "open", !.seen = present]
  <2>1. /\ a.pc = "open" /\ a.handle = proc[p].handle
        /\ a.fingerprint = proc[p].fingerprint /\ a.weights = proc[p].weights
    BY ProcFacts DEF Adapter
  <2>2. Becomes(p, a) /\ UNCHANGED <<present, uid, space, swapped, installed>>
        /\ proc[p].pc = "list"
    BY <1>10 DEF List, collection, machine, At
  <2> HIDE DEF a
  <2>4. Fitting(a)
    BY <2>1, <2>2, ProcFacts DEF Fitting, Working, AsRead
  <2> QED
    BY <2>2, <2>4, LocalStep
<1>3. ASSUME NEW p \in Procs, Open(p)
      PROVE  Local'
  <2> DEFINE a == [proc[p] EXCEPT !.pc = proc[p].then, !.handle = uid]
  <2>1. /\ a.pc \in {"check", "count", "delete", "describe"} /\ a.handle = uid
        /\ a.fingerprint = proc[p].fingerprint /\ a.weights = proc[p].weights
    BY ProcFacts DEF Adapter
  <2>3. /\ Becomes(p, a) /\ UNCHANGED <<present, uid, space, swapped, installed>>
        /\ space = proc[p].fingerprint /\ proc[p].pc = "open"
    BY <1>3 DEF Open, collection, machine, At
  <2> HIDE DEF a
  <2>4. Fitting(a)
    BY <2>1, <2>3, ProcFacts DEF Fitting, AsRead
  <2> QED
    BY <2>3, <2>4, LocalStep
<1>4. ASSUME NEW p \in Procs,
             OpenRefused(p) \/ OpenRaises(p) \/ HandleLost(p) \/ AddRefused(p)
                \/ Describe(p)
      PROVE  Local'
  <2>1. /\ \E o : End(p, o)
        /\ UNCHANGED <<present, uid, space, swapped, installed>>
    BY <1>4 DEF OpenRefused, OpenRaises, HandleLost, AddRefused, Describe, collection, machine
  <2> QED
    BY <2>1, EndLocal
<1>5. ASSUME NEW p \in Procs, Create(p)
      PROVE  Local'
  <2> DEFINE a == [proc[p] EXCEPT !.pc = proc[p].then, !.handle = uid']
  <2>1. /\ a.handle = uid' /\ a.fingerprint = proc[p].fingerprint
        /\ a.weights = proc[p].weights
        /\ a.pc \in {"check", "count", "delete", "describe"}
    BY ProcFacts DEF Adapter
  <2>2. /\ uid' = uid + 1 /\ space' = proc[p].fingerprint
        /\ proc[p].pc = "open" /\ Becomes(p, a)
        /\ UNCHANGED <<installed, swapped>>
    BY <1>5 DEF Create, At, machine
  <2> HIDE DEF a
  <2>3. /\ proc'[p] = a
        /\ \A q \in Procs : q # p => proc'[q] = proc[q]
    BY <2>2 DEF Becomes, IndexInv, Typed, TypeOK
  <2>4. \A q \in Procs : q # p => proc'[q].handle < uid'
    BY <2>2, <2>3, ProcFacts
  <2>5. uid' \in Nat
    BY <2>2, ProcFacts
  <2>6. Loaded' /\ Checked' /\ LoadedAsRead'
    BY <2>1, <2>2, <2>3, ProcFacts
       DEF Loaded, Checked, LoadedAsRead, Deciding, Fitting, AsRead
  <2>7. Handles'
    BY <2>1, <2>3, <2>4, <2>5, ProcFacts, <2>2 DEF Handles
  <2>8. SameSpace'
    BY <2>1, <2>2, <2>3, <2>4, <2>5, ProcFacts DEF SameSpace, Usable
  <2> QED
    BY <2>6, <2>7, <2>8 DEF Local
<1>6. ASSUME NEW p \in Procs,
             Skip(p) \/ IdentifierFree(p) \/ FamilyFree(p) \/ RoomLeft(p) \/ Upsert(p)
               \/ Added(p) \/ Count(p) \/ Query(p)
      PROVE  Local'
  <2>1. /\ UNCHANGED <<present, uid, space, swapped, installed>> /\ proc[p].pc \in Working
        /\ proc[p].pc # "idle"
    BY <1>6 DEF Skip, IdentifierFree, FamilyFree, RoomLeft, Upsert, Added, Count, Query,
       collection, machine, At, Working
  <2>2. PICK a : /\ Becomes(p, a)
                 /\ a.fingerprint = proc[p].fingerprint /\ a.handle = proc[p].handle
                 /\ a.weights = proc[p].weights /\ a.pc # "fingerprint"
                 /\ a.pc \notin {"upsert", "query"}
                 /\ a.pc \in {"family", "room", "embed_case"} => a.todo # <<>>
    <3>1. CASE Skip(p)
      <4> DEFINE a == [proc[p] EXCEPT !.todo = Tail(@)]
      <4>1. /\ a.fingerprint = proc[p].fingerprint /\ a.handle = proc[p].handle
            /\ a.weights = proc[p].weights
            /\ a.pc = proc[p].pc /\ proc[p].pc = "check"
        BY <3>1, ProcFacts DEF Skip, At, Adapter
      <4> QED
        BY <3>1, <4>1 DEF Skip
    <3>2. CASE IdentifierFree(p) \/ FamilyFree(p) \/ RoomLeft(p) \/ Added(p)
      <4>1. PICK c \in {"family", "room", "embed_case", "describe"} :
               /\ Becomes(p, [proc[p] EXCEPT !.pc = c])
               /\ c # "describe" => proc[p].todo # <<>>
        BY <3>2, ProcFacts DEF IdentifierFree, FamilyFree, RoomLeft, Added, Go, At, Fitting
      <4> DEFINE a == [proc[p] EXCEPT !.pc = c]
      <4>2. /\ a.fingerprint = proc[p].fingerprint /\ a.handle = proc[p].handle
            /\ a.weights = proc[p].weights /\ a.todo = proc[p].todo /\ a.pc = c
        BY ProcFacts DEF Adapter
      <4>3. Becomes(p, a)
        BY <4>1
      <4> HIDE DEF a
      <4> QED
        BY <4>1, <4>2, <4>3
    <3>3. CASE Upsert(p)
      <4> DEFINE a == [proc[p] EXCEPT !.pc = "check", !.todo = Tail(@)]
      <4>1. /\ a.fingerprint = proc[p].fingerprint /\ a.handle = proc[p].handle
            /\ a.weights = proc[p].weights /\ a.pc = "check"
        BY ProcFacts DEF Adapter
      <4> QED
        BY <3>3, <4>1 DEF Upsert
    <3>5. CASE Count(p)
      <4> DEFINE a == [proc[p] EXCEPT
                         !.count = Cardinality(stored),
                         !.pc = IF stored = {} \/ K = 0 THEN "idle" ELSE "embed_query",
                         !.outcome = IF stored = {} \/ K = 0 THEN "ok" ELSE "none"]
      <4>1. /\ a.fingerprint = proc[p].fingerprint /\ a.handle = proc[p].handle
            /\ a.weights = proc[p].weights /\ a.pc \in {"idle", "embed_query"}
        BY ProcFacts DEF Adapter
      <4> QED
        BY <3>5, <4>1 DEF Count
    <3>6. CASE Query(p)
      <4>1. PICK S : Becomes(p, [proc[p] EXCEPT !.pc = "idle", !.outcome = "ok",
                                                !.found = S])
        BY <3>6 DEF Query
      <4> DEFINE a == [proc[p] EXCEPT !.pc = "idle", !.outcome = "ok", !.found = S]
      <4>2. /\ a.fingerprint = proc[p].fingerprint /\ a.handle = proc[p].handle
            /\ a.weights = proc[p].weights /\ a.pc = "idle"
        BY ProcFacts DEF Adapter
      <4> QED
        BY <4>1, <4>2
    <3> QED
      BY <1>6, <3>1, <3>2, <3>3, <3>5, <3>6
  <2>3. Fitting(a)
    BY <2>1, <2>2, ProcFacts DEF Fitting, Working, AsRead
  <2> QED
    BY <2>1, <2>2, <2>3, LocalStep
<1>11. ASSUME NEW p \in Procs, Embed(p)
       PROVE  Local'
  <2> DEFINE a == [proc[p] EXCEPT !.weights = IF @ = Null THEN installed ELSE @,
                                  !.pc = IF @ = "embed_case" THEN "upsert" ELSE "query"]
  <2>1. /\ a.handle = proc[p].handle /\ a.fingerprint = proc[p].fingerprint
        /\ a.todo = proc[p].todo /\ a.pc \in {"upsert", "query"}
        /\ a.pc = "upsert" => proc[p].pc = "embed_case"
        /\ a.weights = IF proc[p].weights = Null THEN installed ELSE proc[p].weights
    BY ProcFacts DEF Adapter
  <2>2. Becomes(p, a) /\ UNCHANGED <<present, uid, space, swapped, installed>>
        /\ proc[p].pc \in {"embed_case", "embed_query"}
    BY <1>11 DEF Embed, collection, machine
  <2>3. installed # Null
    BY IndexAssumption DEF IndexInv, Typed, TypeOK
  <2> HIDE DEF a
  <2>4. Fitting(a)
    BY <2>1, <2>2, <2>3, ProcFacts DEF Fitting, Working, AsRead
  <2> QED
    BY <2>2, <2>4, LocalStep
<1>7. ASSUME NEW p \in Procs, Delete(p)
      PROVE  Local'
  <2>1. CASE present
    <3> DEFINE a == [proc[p] EXCEPT !.pc = "list", !.then = "describe"]
    <3>1. /\ a.pc = "list" /\ a.handle = proc[p].handle
          /\ a.fingerprint = proc[p].fingerprint /\ a.weights = proc[p].weights
      BY ProcFacts DEF Adapter
    <3>2. /\ Becomes(p, a) /\ UNCHANGED <<uid, space, swapped, installed>> /\ ~present'
          /\ proc[p].pc = "delete"
      BY <1>7, <2>1 DEF Delete, machine, At
    <3> HIDE DEF a
    <3>3. /\ proc'[p] = a
          /\ \A q \in Procs : q # p => proc'[q] = proc[q]
      BY <3>2 DEF Becomes, IndexInv, Typed, TypeOK
    <3>4. Loaded' /\ Checked' /\ Handles' /\ LoadedAsRead'
      BY <3>1, <3>2, <3>3, ProcFacts
         DEF Loaded, LoadedAsRead, Checked, Handles, Deciding, Fitting, AsRead
    <3>5. SameSpace'
      BY <3>2 DEF SameSpace, Usable
    <3> QED
      BY <3>4, <3>5 DEF Local
  <2>2. CASE ~present
    BY <1>7, <2>2, EndLocal DEF Delete, machine
  <2> QED
    BY <2>1, <2>2
<1>8. ASSUME NEW p \in Procs, Killed(p)
      PROVE  Local'
  <2>1. Becomes(p, Idle) /\ UNCHANGED <<present, uid, space, swapped, installed>>
    BY <1>8 DEF Killed, collection, machine
  <2>2. Idle.pc = "idle" /\ Idle.handle = 0
    BY DEF Idle
  <2>3. Fitting(Idle)
    BY <2>2, ProcFacts DEF Fitting, Working, AsRead
  <2> QED
    BY <2>1, <2>3, LocalStep
<1>9. CASE Upgrade \/ UNCHANGED vars
  <2>1. Loaded' /\ Checked' /\ Handles' /\ SameSpace'
    BY <1>9 DEF Upgrade, vars, collection, IndexInv, Loaded, Checked, Handles, SameSpace,
       Usable, Deciding
  <2>2. LoadedAsRead'
    BY <1>9 DEF Upgrade, vars, IndexInv, LoadedAsRead, AsRead, ToLoad
  <2> QED
    BY <2>1, <2>2 DEF Local
<1> QED
  BY <1>1, <1>2, <1>3, <1>4, <1>5, <1>6, <1>7, <1>8, <1>9, <1>10, <1>11 DEF Next

LEMMA NextNeverMixed == IndexInv /\ [Next]_vars => NeverMixed'
<1> SUFFICES ASSUME IndexInv, [Next]_vars, ~swapped'
             PROVE  NeverMixed'
  BY DEF NeverMixed
<1>0. ~swapped /\ \A e \in stored : e.model = space
  <2>1. swapped' = swapped \/ Upgrade
    BY DEF Next, vars, machine, Start, Fingerprint, List, Open, OpenRefused, Create,
       OpenRaises, HandleLost, Skip, IdentifierFree, FamilyFree, RoomLeft, AddRefused, Embed,
       Upsert, Added, Describe, Count, Query, Delete, Killed
  <2>2. swapped \in BOOLEAN
    BY DEF IndexInv, Typed, TypeOK
  <2>3. ~swapped
    BY <2>1, <2>2 DEF Upgrade
  <2> QED
    BY <2>3 DEF IndexInv, NeverMixed
<1>1. ASSUME NEW p \in Procs, Upsert(p)
      PROVE  \A e \in stored' : e.model = space'
  <2>1. proc[p].pc = "upsert" /\ proc[p].pc \in Working /\ Usable(p)
    BY <1>1 DEF Upsert, At, Working
  <2>2. proc[p].weights = space
    BY <1>0, <2>1, ProcFacts DEF Fitting, AsRead
  <2> QED
    BY <1>0, <1>1, <2>2 DEF Upsert
<1>2. ASSUME NEW p \in Procs, Create(p) \/ Delete(p)
      PROVE  \A e \in stored' : e.model = space'
  BY <1>0, <1>2 DEF Create, Delete
<1>3. ASSUME stored' = stored, space' = space
      PROVE  \A e \in stored' : e.model = space'
  BY <1>0, <1>3
<1>4. \A e \in stored' : e.model = space'
  BY <1>1, <1>2, <1>3
  DEF Next, vars, collection, Start, Fingerprint, List, Open, OpenRefused, OpenRaises,
      HandleLost, Skip, IdentifierFree, FamilyFree, RoomLeft, AddRefused, Embed, Added,
      Describe, Count, Query, Killed, Upgrade
<1>5. ASSUME NEW p \in Procs, At(p, "query")', Usable(p)'
      PROVE  proc'[p].weights = space'
  BY <1>5, NextLocal DEF Local, Loaded, LoadedAsRead, AsRead, SameSpace, Working, At
<1> QED
  BY <1>4, <1>5 DEF NeverMixed

LEMMA InitInv == Init => IndexInv
<1> SUFFICES ASSUME Init
             PROVE  IndexInv
  OBVIOUS
<1>1. proc \in [Procs -> Adapter]
  BY IdleType DEF Init
<1>2. TypeOK
  <2>1. commands \in 0..MaxCommands /\ upgrades \in 0..MaxUpgrades
    BY IndexAssumption DEF Init
  <2>2. receipt \in [source: Nat, total: Nat]
    BY DEF Init
  <2> QED
    BY <1>1, <2>1, <2>2 DEF Init, TypeOK
<1>3. IsFiniteSet(stored) /\ NeverMixed
  BY FS_EmptySet DEF Init, NeverMixed, Idle, At
<1>4. \A p \in Procs : proc[p].pc = "idle" /\ proc[p].handle = 0
  BY DEF Init, Idle
<1>5. Loaded /\ LoadedAsRead /\ Checked /\ Handles /\ SameSpace
  BY <1>4 DEF Init, Loaded, LoadedAsRead, AsRead, Checked, Deciding, Handles, SameSpace, Working
<1> QED
  BY <1>2, <1>3, <1>5 DEF IndexInv, Typed

LEMMA Invariance == Spec => []IndexInv
<1>1. IndexInv /\ [Next]_vars => IndexInv'
  BY NextTyped, NextLocal, NextNeverMixed DEF IndexInv, Local
<1> QED
  BY InitInv, <1>1, PTL DEF Spec

\* The state of the index, and of every adapter at work on it, is well
\* formed at every step of every interleaving (src/tools/rag.py).
THEOREM TypeCorrect == Spec => []TypeOK
<1>1. IndexInv => TypeOK
  BY DEF IndexInv, Typed
<1> QED
  BY <1>1, Invariance, PTL

\* As long as no weights are replaced between their fingerprint and their
\* loading, the check of _store suffices: although it is done once per adapter,
\* and other processes may delete and create the collection afterwards, the
\* index never holds, and is never asked with, a vector of other weights.
THEOREM SpacesNeverMix == Spec => []NeverMixed
<1>1. IndexInv => NeverMixed
  BY DEF IndexInv
<1> QED
  BY <1>1, Invariance, PTL

-----------------------------------------------------------------------------
(***************************************************************************)
(* What the index holds and what a search finds.  An upsert replaces by    *)
(* identifier, hence identifiers are unique; and what the reads of an add  *)
(* found stays so until its upsert, unless another upsert crosses them.    *)
(***************************************************************************)
UniqueIds == \A e, f \in stored : e.case.id = f.case.id => e = f

DecidingPcs == {"family", "room", "embed_case", "upsert"}

\* What the reads made for a case found.
Free(a) ==
    a.pc \in DecidingPcs =>
        /\ ~Known(Head(a.todo))
        /\ a.pc # "family" => ~FamilyTaken(Head(a.todo))
        /\ a.pc \in {"embed_case", "upsert"} => ~Full

CheckedStaysFree == \A p \in Procs : Usable(p) /\ p \notin crossed => Free(proc[p])

\* What is still to be added is of the source, which was looked at first.
SourcesAreKept ==
    \A p \in Procs :
        /\ Acceptable(proc[p].source)
        /\ Range(proc[p].todo) \subseteq Range(proc[p].source)

\* A command has an outcome when it has ended, and not before.
OutcomeIsLast == \A p \in Procs : ~At(p, "idle") => proc[p].outcome = "none"

ContentInv ==
    /\ UniqueIds /\ CheckedStaysFree /\ SourcesAreKept /\ OutcomeIsLast
    /\ OneCasePerFamily /\ NeighboursAreDistinct

-----------------------------------------------------------------------------
(***************************************************************************)
(* Lemmas about the operators.                                             *)
(***************************************************************************)

\* At most n elements have fewer than n others before them.
LEMMA NearestBound ==
  ASSUME NEW S, IsFiniteSet(S), NEW n \in Nat,
         \A c \in S : c.rank \in Nat,
         \A c, d \in S : c.rank = d.rank => c = d
  PROVE  IsFiniteSet(Nearest(S, n)) /\ Cardinality(Nearest(S, n)) <= n
<1> DEFINE Below(c) == {d \in S : d.rank < c.rank}
           T == Nearest(S, n)
           f == [c \in T |-> Cardinality(Below(c))]
<1>1. \A c \in S : IsFiniteSet(Below(c)) /\ Cardinality(Below(c)) \in Nat
  BY FS_Subset, FS_CardinalityType
<1>2. T \subseteq S /\ \A c \in T : Cardinality(Below(c)) < n
  BY DEF Nearest
<1>3. ASSUME NEW c \in S, NEW d \in S, c.rank < d.rank
      PROVE  Cardinality(Below(c)) < Cardinality(Below(d))
  <2>1. Below(c) \cup {c} \subseteq Below(d) /\ c \notin Below(c)
    BY <1>3
  <2>2. Cardinality(Below(c) \cup {c}) = Cardinality(Below(c)) + 1
    BY <1>1, <2>1, FS_AddElement
  <2>3. Cardinality(Below(c) \cup {c}) <= Cardinality(Below(d))
    BY <1>1, <2>1, FS_Subset
  <2> HIDE DEF Below
  <2> QED
    BY <1>1, <2>2, <2>3
<1> HIDE DEF Below, T
<1>4. f \in [T -> 0..(n - 1)]
  BY <1>1, <1>2
<1>5. ASSUME NEW c \in T, NEW d \in T, f[c] = f[d]
      PROVE  c = d
  <2>1. c \in S /\ d \in S /\ Cardinality(Below(c)) = Cardinality(Below(d))
    BY <1>2, <1>5
  <2>2. ~(c.rank < d.rank) /\ ~(d.rank < c.rank)
    BY <1>1, <1>3, <2>1
  <2> QED
    BY <2>1, <2>2
<1> HIDE DEF f
<1>6. f \in Injection(T, 0..(n - 1))
  BY <1>4, <1>5 DEF Injection, IsInjective
<1>7. IsFiniteSet(0..(n - 1)) /\ Cardinality(0..(n - 1)) = n
  BY FS_Interval
<1>8. IsFiniteSet(T) /\ Cardinality(T) <= n
  BY <1>6, <1>7, FS_Injection
<1> QED
  BY <1>8 DEF T

\* The entries are as many as the cases, which have their own identifiers.
LEMMA StoredFacts ==
  ASSUME Typed, UniqueIds
  PROVE  /\ StoredCases \subseteq Cases /\ IsFiniteSet(StoredCases)
         /\ Cardinality(stored) <= Cardinality(StoredCases)
         /\ \A c, d \in StoredCases : c.id = d.id => c = d
         /\ \A c, d \in StoredCases : c.rank = d.rank => c = d
<1> DEFINE f == [e \in stored |-> e.case]
<1>1. StoredCases \subseteq Cases
  BY DEF StoredCases, Typed, TypeOK, Entry
<1>2. \A c, d \in StoredCases : c.id = d.id => c = d
  BY DEF StoredCases, UniqueIds
<1>3. \A c, d \in StoredCases : c.rank = d.rank => c = d
  BY <1>1, <1>2, IndexAssumption
<1>4. f \in Surjection(stored, StoredCases)
  BY DEF StoredCases, Surjection
<1>5. f \in Injection(stored, StoredCases)
  BY DEF StoredCases, UniqueIds, Injection, IsInjective
<1> HIDE DEF f
<1>6. IsFiniteSet(StoredCases)
  BY <1>4, FS_Surjection DEF Typed
<1>7. Cardinality(stored) <= Cardinality(StoredCases)
  BY <1>5, <1>6, FS_Injection
<1> QED
  BY <1>1, <1>2, <1>3, <1>6, <1>7

\* A search keeps its promise on any index whose identifiers are unique.
LEMMA NeighboursAre ==
  ASSUME Typed, UniqueIds, NEW n, NEW exclusions
  PROVE  LET found == Neighbours(n, exclusions)
         IN  /\ Cardinality(found) <= K
             /\ \A c, d \in found : c.family = d.family => c = d
             /\ \A c \in found : c.family \notin exclusions
<1> DEFINE E == Candidates(n, exclusions)
           B == {c \in E : \A d \in E : d.family = c.family => c.rank <= d.rank}
<1>1. E \subseteq StoredCases /\ \A c \in E : c.family \notin exclusions
  BY DEF Candidates, Nearest
<1>2. Neighbours(n, exclusions) = Nearest(B, K) /\ Nearest(B, K) \subseteq B
  BY DEF Neighbours, Nearest
<1> HIDE DEF E
<1>3. B \subseteq E
  OBVIOUS
<1>4. IsFiniteSet(B) /\ \A c \in B : c.rank \in Nat
  BY <1>1, <1>3, StoredFacts, FS_Subset, IndexAssumption
<1>5. \A c, d \in B : c.rank = d.rank => c = d
  BY <1>1, <1>3, StoredFacts
<1>6. \A c, d \in B : c.family = d.family => c = d
  BY <1>3, <1>4, <1>5
<1> HIDE DEF B
<1>7. Cardinality(Nearest(B, K)) <= K
  BY <1>4, <1>5, NearestBound, IndexAssumption
<1> QED
  BY <1>1, <1>2, <1>3, <1>6, <1>7

-----------------------------------------------------------------------------
(***************************************************************************)
(* One process moves.                                                      *)
(***************************************************************************)

\* What the adapter of one process holds by itself.
Sound(a) ==
    /\ Acceptable(a.source) /\ Range(a.todo) \subseteq Range(a.source)
    /\ a.pc # "idle" => a.outcome = "none"
    /\ Cardinality(a.found) <= K
    /\ \A c, d \in a.found : c.family = d.family => c = d
    /\ \A c \in a.found : c.family \notin a.exclusions

LEMMA ProcSound == ASSUME ContentInv, NEW p \in Procs PROVE Sound(proc[p])
  BY DEF ContentInv, SourcesAreKept, OutcomeIsLast, NeighboursAreDistinct, Sound, At

LEMMA OneMoves ==
  ASSUME IndexInv, ContentInv, NEW p \in Procs, NEW a, Becomes(p, a), Sound(a)
  PROVE  /\ proc'[p] = a /\ \A q \in Procs : q # p => proc'[q] = proc[q]
         /\ SourcesAreKept' /\ OutcomeIsLast' /\ NeighboursAreDistinct'
<1>1. proc'[p] = a /\ \A q \in Procs : q # p => proc'[q] = proc[q]
  BY DEF Becomes, IndexInv, Typed, TypeOK
<1>2. ASSUME NEW q \in Procs PROVE Sound(proc'[q])
  BY <1>1, ProcSound
<1>3. SourcesAreKept'
  BY <1>2 DEF SourcesAreKept, Sound, Acceptable
<1>4. OutcomeIsLast'
  BY <1>2 DEF OutcomeIsLast, Sound, At
<1>5. NeighboursAreDistinct'
  BY <1>2 DEF NeighboursAreDistinct, Sound
<1> QED
  BY <1>1, <1>3, <1>4, <1>5

\* The collection stays what it is.
LEMMA ProcStep ==
  ASSUME IndexInv, ContentInv, NEW p \in Procs, NEW a, Becomes(p, a), Sound(a),
         UNCHANGED <<present, uid, stored, overlap>>,
         crossed' = crossed \/ crossed' = crossed \ {p},
         present /\ a.handle = uid /\ p \notin crossed' => Free(a)
  PROVE  ContentInv'
<1>1. /\ proc'[p] = a /\ \A q \in Procs : q # p => proc'[q] = proc[q]
      /\ SourcesAreKept' /\ OutcomeIsLast' /\ NeighboursAreDistinct'
  BY OneMoves
<1>2. UniqueIds' /\ OneCasePerFamily' /\ StoredCases' = StoredCases
  BY DEF ContentInv, UniqueIds, OneCasePerFamily, StoredCases
<1>3. \A b : Free(b) => Free(b)'
  BY <1>2 DEF Free, Known, FamilyTaken, Full
<1>4. CheckedStaysFree'
  <2> SUFFICES ASSUME NEW q \in Procs, Usable(q)', q \notin crossed'
               PROVE  Free(proc[q])'
    BY DEF CheckedStaysFree
  <2>1. CASE q = p
    <3>1. Free(a) /\ proc'[q] = a
      BY <1>1, <2>1 DEF Usable
    <3> QED
      BY <1>3, <3>1
  <2>2. CASE q # p
    <3>1. proc'[q] = proc[q] /\ Usable(q) /\ q \notin crossed
      BY <1>1, <2>2 DEF Usable
    <3>2. Free(proc[q])
      BY <3>1 DEF ContentInv, CheckedStaysFree
    <3> QED
      BY <1>3, <3>1, <3>2
  <2> QED
    BY <2>1, <2>2
<1> QED
  BY <1>1, <1>2, <1>4 DEF ContentInv

\* The collection is another one, or none: no other handle is good for it.
LEMMA CollectionStep ==
  ASSUME IndexInv, ContentInv, NEW p \in Procs, NEW a, Becomes(p, a), Sound(a),
         a.pc \notin DecidingPcs, stored' = {},
         \A q \in Procs : q # p => ~(present' /\ proc[q].handle = uid')
  PROVE  ContentInv'
<1>1. /\ proc'[p] = a /\ \A q \in Procs : q # p => proc'[q] = proc[q]
      /\ SourcesAreKept' /\ OutcomeIsLast' /\ NeighboursAreDistinct'
  BY OneMoves
<1>2. UniqueIds' /\ OneCasePerFamily'
  BY FS_EmptySet, IndexAssumption DEF UniqueIds, OneCasePerFamily
<1>3. \A q \in Procs : q # p => ~Usable(q)'
  BY <1>1 DEF Usable
<1>4. CheckedStaysFree'
  BY <1>1, <1>3 DEF CheckedStaysFree, Free
<1> QED
  BY <1>1, <1>2, <1>4 DEF ContentInv

\* A step that touches neither the lists of the adapter nor its findings.
LEMMA QuietStep ==
  ASSUME IndexInv, ContentInv, NEW p \in Procs, NEW a, Becomes(p, a),
         a.source = proc[p].source, a.todo = proc[p].todo,
         a.exclusions = proc[p].exclusions, a.found = proc[p].found,
         a.pc # "idle" => a.outcome = "none",
         UNCHANGED <<present, uid, stored, overlap>>,
         crossed' = crossed \/ crossed' = crossed \ {p},
         present /\ a.handle = uid /\ p \notin crossed' => Free(a)
  PROVE  ContentInv'
<1>1. Sound(a)
  BY ProcSound DEF Sound
<1> QED
  BY <1>1, ProcStep

LEMMA EndKeeps ==
  ASSUME IndexInv, ContentInv, NEW p \in Procs, NEW o, End(p, o),
         UNCHANGED <<present, uid, stored, overlap, crossed>>
  PROVE  ContentInv'
<1> DEFINE a == [proc[p] EXCEPT !.pc = "idle", !.outcome = o]
<1>1. /\ a.source = proc[p].source /\ a.todo = proc[p].todo
      /\ a.exclusions = proc[p].exclusions /\ a.found = proc[p].found
      /\ a.pc = "idle"
  BY ProcFacts DEF Adapter
<1>2. Becomes(p, a)
  BY DEF End
<1> HIDE DEF a
<1>3. Free(a)
  BY <1>1 DEF Free, DecidingPcs
<1> QED
  BY <1>1, <1>2, <1>3, QuietStep

LEMMA StartKeeps ==
  ASSUME IndexInv, ContentInv, NEW p \in Procs, Start(p) \/ Killed(p)
  PROVE  ContentInv'
<1>1. UNCHANGED <<present, uid, stored, overlap, crossed>>
  BY DEF Start, Killed, collection, history
<1>2. Acceptable(<<>>) /\ Range(<<>>) \subseteq Range(<<>>) /\ Cardinality({}) <= K
  BY FS_EmptySet, IndexAssumption DEF Acceptable, Range
<1>3. PICK a : /\ Becomes(p, a) /\ a.found = {} /\ a.pc \in {"idle", "fingerprint"}
               /\ a.outcome \in {"none", "refused_source"}
               /\ a.pc # "idle" => a.outcome = "none"
               /\ a.todo = a.source /\ Acceptable(a.source)
  <2>1. CASE Killed(p)
    BY <1>2, <2>1 DEF Killed, Idle
  <2>2. CASE Start(p)
    <3>1. CASE \E s \in Sources :
             Becomes(p, IF Acceptable(s)
                        THEN [Idle EXCEPT !.cmd = "add", !.pc = "fingerprint", !.then = "check",
                                          !.source = s, !.todo = s]
                        ELSE [Idle EXCEPT !.cmd = "add", !.outcome = "refused_source"])
      <4>1. PICK s \in Sources :
             Becomes(p, IF Acceptable(s)
                        THEN [Idle EXCEPT !.cmd = "add", !.pc = "fingerprint", !.then = "check",
                                          !.source = s, !.todo = s]
                        ELSE [Idle EXCEPT !.cmd = "add", !.outcome = "refused_source"])
        BY <3>1
      <4>2. CASE Acceptable(s)
        <5> DEFINE a == [Idle EXCEPT !.cmd = "add", !.pc = "fingerprint", !.then = "check",
                                     !.source = s, !.todo = s]
        <5>1. /\ a.found = {} /\ a.pc = "fingerprint" /\ a.outcome = "none"
              /\ a.todo = s /\ a.source = s
          BY DEF Idle
        <5>2. Becomes(p, a)
          BY <4>1, <4>2
        <5> HIDE DEF a
        <5> QED
          BY <4>2, <5>1, <5>2
      <4>3. CASE ~Acceptable(s)
        <5> DEFINE a == [Idle EXCEPT !.cmd = "add", !.outcome = "refused_source"]
        <5>1. /\ a.found = {} /\ a.pc = "idle" /\ a.outcome = "refused_source"
              /\ a.todo = <<>> /\ a.source = <<>>
          BY DEF Idle
        <5>2. Becomes(p, a)
          BY <4>1, <4>3
        <5> HIDE DEF a
        <5> QED
          BY <1>2, <5>1, <5>2
      <4> QED
        BY <4>2, <4>3
    <3>2. CASE \E e \in Exclusions :
             Becomes(p, [Idle EXCEPT !.cmd = "search", !.pc = "fingerprint", !.then = "count",
                                     !.exclusions = e])
      <4>1. PICK e \in Exclusions :
             Becomes(p, [Idle EXCEPT !.cmd = "search", !.pc = "fingerprint", !.then = "count",
                                     !.exclusions = e])
        BY <3>2
      <4> DEFINE a == [Idle EXCEPT !.cmd = "search", !.pc = "fingerprint", !.then = "count",
                                   !.exclusions = e]
      <4>2. /\ a.found = {} /\ a.pc = "fingerprint" /\ a.outcome = "none"
            /\ a.todo = <<>> /\ a.source = <<>>
        BY DEF Idle
      <4>3. Becomes(p, a)
        BY <4>1
      <4> HIDE DEF a
      <4> QED
        BY <1>2, <4>2, <4>3
    <3>3. CASE Becomes(p, [Idle EXCEPT !.cmd = "clear", !.pc = "fingerprint", !.then = "delete"])
      <4> DEFINE a == [Idle EXCEPT !.cmd = "clear", !.pc = "fingerprint", !.then = "delete"]
      <4>1. /\ a.found = {} /\ a.pc = "fingerprint" /\ a.outcome = "none"
            /\ a.todo = <<>> /\ a.source = <<>>
        BY DEF Idle
      <4>2. Becomes(p, a)
        BY <3>3
      <4> HIDE DEF a
      <4> QED
        BY <1>2, <4>1, <4>2
    <3> QED
      BY <2>2, <3>1, <3>2, <3>3 DEF Start
  <2> QED
    BY <2>1, <2>2
<1>4. Sound(a)
  BY <1>2, <1>3 DEF Sound
<1>5. Free(a)
  BY <1>3 DEF Free, DecidingPcs
<1> QED
  BY <1>1, <1>3, <1>4, <1>5, ProcStep

\* Fingerprint, List, Open and the others that only move the adapter forward.
LEMMA ForwardKeeps ==
  ASSUME IndexInv, ContentInv, NEW p \in Procs,
         Fingerprint(p) \/ List(p) \/ Open(p) \/ Added(p) \/ Count(p)
  PROVE  ContentInv'
<1>1. UNCHANGED <<present, uid, stored, overlap, crossed>>
  BY DEF Fingerprint, List, Open, Added, Count, collection, history
<1>2. proc[p] \in Adapter /\ proc[p].pc # "idle" /\ proc[p].outcome = "none"
  BY ProcFacts DEF Fingerprint, List, Open, Added, Count, At, ContentInv, OutcomeIsLast
<1>7. CASE Fingerprint(p)
  <2> DEFINE a == [proc[p] EXCEPT !.pc = "list", !.fingerprint = installed]
  <2>1. /\ a.source = proc[p].source /\ a.todo = proc[p].todo
        /\ a.exclusions = proc[p].exclusions /\ a.found = proc[p].found
        /\ a.pc = "list" /\ a.outcome = "none"
    BY <1>2 DEF Adapter
  <2>2. Becomes(p, a)
    BY <1>7 DEF Fingerprint
  <2> HIDE DEF a
  <2>3. Free(a)
    BY <2>1 DEF Free, DecidingPcs
  <2> QED
    BY <1>1, <2>1, <2>2, <2>3, QuietStep
<1>3. CASE List(p)
  <2> DEFINE a == [proc[p] EXCEPT !.pc = "open", !.seen = present]
  <2>1. /\ a.source = proc[p].source /\ a.todo = proc[p].todo
        /\ a.exclusions = proc[p].exclusions /\ a.found = proc[p].found
        /\ a.pc = "open" /\ a.outcome = "none"
    BY <1>2 DEF Adapter
  <2>2. Becomes(p, a)
    BY <1>3 DEF List
  <2> HIDE DEF a
  <2>3. Free(a)
    BY <2>1 DEF Free, DecidingPcs
  <2> QED
    BY <1>1, <2>1, <2>2, <2>3, QuietStep
<1>4. CASE Open(p)
  <2> DEFINE a == [proc[p] EXCEPT !.pc = proc[p].then, !.handle = uid]
  <2>1. /\ a.source = proc[p].source /\ a.todo = proc[p].todo
        /\ a.exclusions = proc[p].exclusions /\ a.found = proc[p].found
        /\ a.pc \in {"check", "count", "delete", "describe"} /\ a.outcome = "none"
    BY <1>2 DEF Adapter
  <2>2. Becomes(p, a)
    BY <1>4 DEF Open
  <2> HIDE DEF a
  <2>3. Free(a)
    BY <2>1 DEF Free, DecidingPcs
  <2> QED
    BY <1>1, <2>1, <2>2, <2>3, QuietStep
<1>5. CASE Added(p)
  <2> DEFINE a == [proc[p] EXCEPT !.pc = "describe"]
  <2>1. /\ a.source = proc[p].source /\ a.todo = proc[p].todo
        /\ a.exclusions = proc[p].exclusions /\ a.found = proc[p].found
        /\ a.pc = "describe" /\ a.outcome = "none"
    BY <1>2 DEF Adapter
  <2>2. Becomes(p, a)
    BY <1>5 DEF Added, Go
  <2> HIDE DEF a
  <2>3. Free(a)
    BY <2>1 DEF Free, DecidingPcs
  <2> QED
    BY <1>1, <2>1, <2>2, <2>3, QuietStep
<1>6. CASE Count(p)
  <2> DEFINE a == [proc[p] EXCEPT
                      !.count = Cardinality(stored),
                      !.pc = IF stored = {} \/ K = 0 THEN "idle" ELSE "embed_query",
                      !.outcome = IF stored = {} \/ K = 0 THEN "ok" ELSE "none"]
  <2>1. /\ a.source = proc[p].source /\ a.todo = proc[p].todo
        /\ a.exclusions = proc[p].exclusions /\ a.found = proc[p].found
        /\ a.pc \in {"idle", "embed_query"} /\ (a.pc # "idle" => a.outcome = "none")
    BY <1>2 DEF Adapter
  <2>2. Becomes(p, a)
    BY <1>6 DEF Count
  <2> HIDE DEF a
  <2>3. Free(a)
    BY <2>1 DEF Free, DecidingPcs
  <2> QED
    BY <1>1, <2>1, <2>2, <2>3, QuietStep
<1> QED
  BY <1>3, <1>4, <1>5, <1>6, <1>7

LEMMA EndingKeeps ==
  ASSUME IndexInv, ContentInv, NEW p \in Procs,
         OpenRefused(p) \/ OpenRaises(p) \/ HandleLost(p) \/ AddRefused(p) \/ Describe(p)
  PROVE  ContentInv'
<1>1. UNCHANGED <<present, uid, stored, overlap, crossed>>
  BY DEF OpenRefused, OpenRaises, HandleLost, AddRefused, Describe, collection, history
<1>2. PICK o : End(p, o)
  BY DEF OpenRefused, OpenRaises, HandleLost, AddRefused, Describe
<1> QED
  BY <1>1, <1>2, EndKeeps

-----------------------------------------------------------------------------
(***************************************************************************)
(* The steps that look at the cases.                                       *)
(***************************************************************************)

LEMMA TailRange ==
  ASSUME NEW s \in Seq(Cases), s # <<>>
  PROVE  Range(Tail(s)) \subseteq Range(s) /\ Head(s) \in Range(s)
<1>1. /\ Head(s) = s[1] /\ 1 \in DOMAIN s
      /\ \A i \in DOMAIN Tail(s) : Tail(s)[i] = s[i + 1] /\ i + 1 \in DOMAIN s
  OBVIOUS
<1> QED
  BY <1>1 DEF Range

\* The adapter that adds, and the case it is at.
LEMMA AddingFacts ==
  ASSUME IndexInv, ContentInv, NEW p \in Procs, proc[p].pc \in {"check", "upsert"} \cup DecidingPcs,
         proc[p].todo # <<>>
  PROVE  /\ proc[p] \in Adapter /\ Sound(proc[p]) /\ proc[p].outcome = "none"
         /\ Range(Tail(proc[p].todo)) \subseteq Range(proc[p].source)
         /\ Current(p) \in Range(proc[p].source) /\ Current(p) \in Cases
<1>1. proc[p] \in Adapter /\ Sound(proc[p]) /\ proc[p].outcome = "none"
  BY ProcFacts, ProcSound DEF Sound, DecidingPcs
<1>2. proc[p].todo \in Seq(Cases)
  BY <1>1 DEF Adapter
<1>3. Head(proc[p].todo) \in Cases
  BY <1>2
<1> QED
  BY <1>1, <1>2, <1>3, TailRange DEF Sound, Current

LEMMA SkipKeeps ==
  ASSUME IndexInv, ContentInv, NEW p \in Procs, Skip(p)
  PROVE  ContentInv'
<1>1. UNCHANGED <<present, uid, stored, overlap, crossed>>
  BY DEF Skip, collection, history
<1>2. proc[p].pc = "check" /\ proc[p].todo # <<>>
  BY DEF Skip, At
<1> DEFINE a == [proc[p] EXCEPT !.todo = Tail(@)]
<1>3. /\ a.source = proc[p].source /\ a.todo = Tail(proc[p].todo)
      /\ a.exclusions = proc[p].exclusions /\ a.found = proc[p].found
      /\ a.pc = "check" /\ a.outcome = "none"
  BY <1>2, AddingFacts DEF Adapter
<1>4. Becomes(p, a)
  BY DEF Skip
<1> HIDE DEF a
<1>5. Sound(a) /\ Free(a)
  BY <1>2, <1>3, AddingFacts DEF Sound, Free, DecidingPcs
<1> QED
  BY <1>1, <1>3, <1>4, <1>5, ProcStep

\* The reads of an add: each adds what it found.
LEMMA ReadKeeps ==
  ASSUME IndexInv, ContentInv, NEW p \in Procs,
         IdentifierFree(p) \/ FamilyFree(p) \/ RoomLeft(p)
  PROVE  ContentInv'
<1>1. /\ UNCHANGED <<present, uid, stored, overlap>>
      /\ crossed' = crossed \/ crossed' = crossed \ {p}
  BY DEF IdentifierFree, FamilyFree, RoomLeft, collection, history
<1>2. proc[p] \in Adapter /\ proc[p].outcome = "none"
  BY ProcFacts DEF IdentifierFree, FamilyFree, RoomLeft, At, ContentInv, OutcomeIsLast
<1>3. PICK c \in {"family", "room", "embed_case"} :
         /\ Becomes(p, [proc[p] EXCEPT !.pc = c])
         /\ \/ c = "family" /\ IdentifierFree(p)
            \/ c = "room" /\ FamilyFree(p)
            \/ c = "embed_case" /\ RoomLeft(p)
  BY DEF IdentifierFree, FamilyFree, RoomLeft, Go
<1> DEFINE a == [proc[p] EXCEPT !.pc = c]
<1>4. /\ a.source = proc[p].source /\ a.todo = proc[p].todo
      /\ a.exclusions = proc[p].exclusions /\ a.found = proc[p].found
      /\ a.pc = c /\ a.outcome = "none"
  BY <1>2 DEF Adapter
<1>5. Becomes(p, a)
  BY <1>3
<1> HIDE DEF a
<1>6. ASSUME p \notin crossed'
      PROVE  Free(a)
  <2>1. CASE IdentifierFree(p) /\ c = "family"
    BY <1>4, <2>1 DEF IdentifierFree, Free, Current
  <2>2. CASE FamilyFree(p) /\ c = "room"
    <3>1. Free(proc[p]) /\ proc[p].pc = "family"
      BY <1>6, <2>2 DEF FamilyFree, At, ContentInv, CheckedStaysFree, history
    <3> QED
      BY <1>4, <2>2, <3>1 DEF FamilyFree, Free, Current, DecidingPcs
  <2>3. CASE RoomLeft(p) /\ c = "embed_case"
    <3>1. Free(proc[p]) /\ proc[p].pc = "room"
      BY <1>6, <2>3 DEF RoomLeft, At, ContentInv, CheckedStaysFree, history
    <3> QED
      BY <1>4, <2>3, <3>1 DEF RoomLeft, Free, DecidingPcs
  <2> QED
    BY <1>3, <2>1, <2>2, <2>3
<1> QED
  BY <1>1, <1>4, <1>5, <1>6, QuietStep

LEMMA EmbedKeeps ==
  ASSUME IndexInv, ContentInv, NEW p \in Procs, Embed(p)
  PROVE  ContentInv'
<1>1. UNCHANGED <<present, uid, stored, overlap, crossed>>
  BY DEF Embed, collection, history
<1>2. proc[p] \in Adapter /\ proc[p].outcome = "none"
      /\ proc[p].pc \in {"embed_case", "embed_query"}
  BY ProcFacts DEF Embed, At, ContentInv, OutcomeIsLast
<1> DEFINE a == [proc[p] EXCEPT !.weights = IF @ = Null THEN installed ELSE @,
                                !.pc = IF @ = "embed_case" THEN "upsert" ELSE "query"]
<1>3. /\ a.source = proc[p].source /\ a.todo = proc[p].todo
      /\ a.exclusions = proc[p].exclusions /\ a.found = proc[p].found
      /\ a.handle = proc[p].handle /\ a.outcome = "none"
      /\ a.pc \in {"upsert", "query"} /\ (a.pc = "upsert" => proc[p].pc = "embed_case")
  BY <1>2 DEF Adapter
<1>4. Becomes(p, a)
  BY DEF Embed
<1> HIDE DEF a
<1>5. ASSUME present /\ a.handle = uid /\ p \notin crossed'
      PROVE  Free(a)
  <2>1. Free(proc[p])
    BY <1>1, <1>3, <1>5 DEF ContentInv, CheckedStaysFree, Usable
  <2> QED
    BY <1>3, <2>1 DEF Free, DecidingPcs
<1> QED
  BY <1>1, <1>3, <1>4, <1>5, QuietStep

LEMMA QueryKeeps ==
  ASSUME IndexInv, ContentInv, NEW p \in Procs, Query(p)
  PROVE  ContentInv'
<1>1. UNCHANGED <<present, uid, stored, overlap, crossed>>
  BY DEF Query, collection, history
<1> DEFINE n == IF proc[p].count < MaxCases THEN proc[p].count ELSE MaxCases
           a == [proc[p] EXCEPT !.pc = "idle", !.outcome = "ok",
                                !.found = Neighbours(n, proc[p].exclusions)]
<1> HIDE DEF n
<1>2. /\ a.source = proc[p].source /\ a.todo = proc[p].todo
      /\ a.exclusions = proc[p].exclusions /\ a.found = Neighbours(n, proc[p].exclusions)
      /\ a.pc = "idle" /\ a.outcome = "ok"
  BY ProcFacts DEF Adapter
<1>3. Becomes(p, a)
  BY DEF Query, n
<1> HIDE DEF a
<1>4. LET found == Neighbours(n, proc[p].exclusions)
      IN  /\ Cardinality(found) <= K
          /\ \A c, d \in found : c.family = d.family => c = d
          /\ \A c \in found : c.family \notin proc[p].exclusions
  BY NeighboursAre DEF IndexInv, ContentInv
<1>5. Sound(a) /\ Free(a)
  BY <1>2, <1>4, ProcSound DEF Sound, Free, DecidingPcs
<1> QED
  BY <1>1, <1>2, <1>3, <1>5, ProcStep

\* An upsert that no other one has crossed replaces nothing.
LEMMA UpsertAdds ==
  ASSUME IndexInv, ContentInv, NEW p \in Procs, Upsert(p), p \notin crossed
  PROVE  /\ ~Known(Current(p)) /\ ~FamilyTaken(Current(p)) /\ ~Full
         /\ stored' = stored \cup {[case |-> Current(p), model |-> proc[p].weights]}
<1>1. ~Known(Current(p)) /\ ~FamilyTaken(Current(p)) /\ ~Full
  <2>1. Free(proc[p]) /\ proc[p].pc = "upsert"
    BY DEF ContentInv, CheckedStaysFree, Upsert, At
  <2> QED
    BY <2>1 DEF Free, DecidingPcs, Current
<1>2. \A e \in stored : e.case \in StoredCases
  BY DEF StoredCases
<1>3. \A e \in stored : e.case.id # Current(p).id
  BY <1>1, <1>2 DEF Known
<1> QED
  BY <1>1, <1>3 DEF Upsert

LEMMA UpsertKeeps ==
  ASSUME IndexInv, ContentInv, NEW p \in Procs, Upsert(p)
  PROVE  ContentInv'
<1>1. proc[p].pc = "upsert" /\ proc[p].todo # <<>> /\ UNCHANGED <<present, uid>>
  BY DEF Upsert, At, IndexInv, Checked, Deciding
<1> DEFINE a == [proc[p] EXCEPT !.pc = "check", !.todo = Tail(@)]
           new == [case |-> Current(p), model |-> proc[p].weights]
<1>2. /\ a.source = proc[p].source /\ a.todo = Tail(proc[p].todo)
      /\ a.exclusions = proc[p].exclusions /\ a.found = proc[p].found
      /\ a.pc = "check" /\ a.outcome = "none"
  BY <1>1, AddingFacts DEF Adapter, DecidingPcs
<1>3. Becomes(p, a)
  BY DEF Upsert
<1>4. new.case = Current(p) /\ stored' = {e \in stored : e.case.id # Current(p).id} \cup {new}
  BY DEF Upsert
<1>5. p \notin crossed => stored' = stored \cup {new}
  BY UpsertAdds
<1> HIDE DEF a, new
<1>6. Sound(a)
  BY <1>1, <1>2, AddingFacts DEF Sound, DecidingPcs
<1>7. /\ proc'[p] = a /\ \A q \in Procs : q # p => proc'[q] = proc[q]
      /\ SourcesAreKept' /\ OutcomeIsLast' /\ NeighboursAreDistinct'
  BY <1>3, <1>6, OneMoves
<1>8. UniqueIds'
  BY <1>4 DEF UniqueIds, ContentInv
<1>9. CheckedStaysFree'
  <2> SUFFICES ASSUME NEW q \in Procs, q \notin crossed', proc'[q].pc \in DecidingPcs
               PROVE  FALSE
    BY DEF CheckedStaysFree, Free
  <2>1. q # p /\ proc[q].pc \in DecidingPcs
    BY <1>2, <1>7 DEF DecidingPcs
  <2>2. q \in crossed'
    BY <2>1 DEF Upsert, Deciding, DecidingPcs
  <2> QED
    BY <2>2
<1>10. OneCasePerFamily'
  <2> SUFFICES ASSUME ~overlap'
               PROVE  /\ Cardinality(stored') <= MaxCases
                      /\ \A e, f \in stored' : e.case.family = f.case.family => e = f
    BY DEF OneCasePerFamily
  <2>1. ~overlap /\ p \notin crossed
    BY DEF Upsert
  <2>2. ~FamilyTaken(Current(p)) /\ ~Full /\ stored' = stored \cup {new}
    BY <1>5, <2>1, UpsertAdds
  <2>3. \A e \in stored : e.case.family # Current(p).family
    BY <2>2 DEF FamilyTaken, StoredCases
  <2>4. \A e, f \in stored : e.case.family = f.case.family => e = f
    BY <2>1 DEF ContentInv, OneCasePerFamily
  <2>5. \A e, f \in stored' : e.case.family = f.case.family => e = f
    BY <1>4, <2>2, <2>3, <2>4
  <2>6. IsFiniteSet(stored) /\ Cardinality(stored) \in Nat
    BY FS_CardinalityType DEF IndexInv, Typed
  <2>7. Cardinality(stored) < MaxCases
    BY <2>2, <2>6, IndexAssumption DEF Full
  <2>8. new \notin stored
    BY <1>4, <2>3
  <2>9. Cardinality(stored') = Cardinality(stored) + 1
    BY <2>2, <2>6, <2>8, FS_AddElement
  <2> QED
    BY <2>5, <2>6, <2>7, <2>9, IndexAssumption
<1> QED
  BY <1>7, <1>8, <1>9, <1>10 DEF ContentInv

LEMMA CreateKeeps ==
  ASSUME IndexInv, ContentInv, NEW p \in Procs, Create(p) \/ Delete(p)
  PROVE  ContentInv'
<1>1. proc[p] \in Adapter /\ proc[p].pc # "idle" /\ proc[p].outcome = "none" /\ Sound(proc[p])
  BY ProcFacts, ProcSound DEF Create, Delete, At, ContentInv, OutcomeIsLast
<1>2. CASE Create(p)
  <2> DEFINE a == [proc[p] EXCEPT !.pc = proc[p].then, !.handle = uid']
  <2>1. /\ a.source = proc[p].source /\ a.todo = proc[p].todo
        /\ a.exclusions = proc[p].exclusions /\ a.found = proc[p].found
        /\ a.pc \in {"check", "count", "delete", "describe"} /\ a.outcome = "none"
    BY <1>1 DEF Adapter
  <2>2. Becomes(p, a) /\ stored' = {}
    BY <1>2 DEF Create
  <2> HIDE DEF a
  <2>3. Sound(a)
    BY <1>1, <2>1 DEF Sound
  <2>4. \A q \in Procs : proc[q].handle # uid'
    BY <1>2, ProcFacts DEF Create
  <2> QED
    BY <2>1, <2>2, <2>3, <2>4, CollectionStep DEF DecidingPcs
<1>3. CASE Delete(p) /\ present
  <2> DEFINE a == [proc[p] EXCEPT !.pc = "list", !.then = "describe"]
  <2>1. /\ a.source = proc[p].source /\ a.todo = proc[p].todo
        /\ a.exclusions = proc[p].exclusions /\ a.found = proc[p].found
        /\ a.pc = "list" /\ a.outcome = "none"
    BY <1>1 DEF Adapter
  <2>2. Becomes(p, a) /\ stored' = {} /\ ~present'
    BY <1>3 DEF Delete
  <2> HIDE DEF a
  <2>3. Sound(a)
    BY <1>1, <2>1 DEF Sound
  <2> QED
    BY <2>1, <2>2, <2>3, CollectionStep DEF DecidingPcs
<1>4. CASE Delete(p) /\ ~present
  <2>1. End(p, "error") /\ UNCHANGED <<present, uid, stored, overlap, crossed>>
    BY <1>4 DEF Delete, history
  <2> QED
    BY <2>1, EndKeeps
<1> QED
  BY <1>2, <1>3, <1>4

-----------------------------------------------------------------------------
(***************************************************************************)
(* Who refuses, and why: for an action property, the step that does it.    *)
(***************************************************************************)

\* The source of a refused case holds neither the case it conflicts with nor,
\* unless it is too long by itself, as many cases as the index.
LEMMA ConflictIsElsewhere ==
  ASSUME IndexInv, ContentInv, NEW source \in Seq(Cases), Acceptable(source),
         NEW c \in Range(source),
         \/ Known(c) /\ ~Replayed(c)
         \/ ~Known(c) /\ (FamilyTaken(c) \/ Full)
  PROVE  StoredCases \ Range(source) # {} \/ Len(source) > MaxCases
<1>1. \A d \in Range(source) : d.id = c.id \/ d.family = c.family => d = c
  BY DEF Acceptable, Range
<1>2. c \notin StoredCases
  BY DEF Known, Replayed
<1>3. CASE \E d \in StoredCases : d.id = c.id \/ d.family = c.family
  BY <1>1, <1>2, <1>3
<1>4. CASE Cardinality(stored) >= MaxCases
  <2> SUFFICES ASSUME StoredCases \subseteq Range(source) PROVE Len(source) > MaxCases
    OBVIOUS
  <2>1. IsFiniteSet(StoredCases) /\ Cardinality(stored) <= Cardinality(StoredCases)
    BY StoredFacts DEF IndexInv, ContentInv
  <2>2. Cardinality(stored) \in Nat /\ Cardinality(StoredCases) \in Nat
    BY <2>1, FS_CardinalityType DEF IndexInv, Typed
  <2>3. Len(source) \in Nat /\ DOMAIN source = 1..Len(source)
    OBVIOUS
  <2>4. source \in Surjection(1..Len(source), Range(source))
    BY <2>3 DEF Surjection, Range
  <2>5. IsFiniteSet(Range(source)) /\ Cardinality(Range(source)) <= Len(source)
    BY <2>3, <2>4, FS_Surjection, FS_Interval
  <2>6. Cardinality(StoredCases \cup {c}) = Cardinality(StoredCases) + 1
    BY <1>2, <2>1, FS_AddElement
  <2>7. Cardinality(StoredCases \cup {c}) <= Cardinality(Range(source))
    BY <2>5, FS_Subset
  <2>8. Cardinality(Range(source)) \in Nat
    BY <2>5, FS_CardinalityType
  <2> QED
    BY <1>4, <2>1, <2>2, <2>3, <2>5, <2>6, <2>7, <2>8, IndexAssumption
<1> QED
  BY <1>3, <1>4 DEF Known, FamilyTaken, Full

\* An add that no other one has crossed is refused for a reason that its source
\* did not put there.
LEMMA RefusedFor ==
  ASSUME IndexInv, ContentInv, NEW p \in Procs, AddRefused(p), p \notin crossed
  PROVE  ForAnother(p)
<1>1. proc[p].pc \in {"check"} \cup DecidingPcs /\ proc[p].todo # <<>> /\ Usable(p)
  BY DEF AddRefused, At, DecidingPcs, IndexInv, Checked, Deciding
<1>2. proc[p].source \in Seq(Cases) /\ Acceptable(proc[p].source)
      /\ Current(p) \in Range(proc[p].source)
  BY <1>1, AddingFacts DEF Sound, Adapter
<1>3. Free(proc[p])
  BY <1>1 DEF ContentInv, CheckedStaysFree
<1>4. \/ Known(Current(p)) /\ ~Replayed(Current(p))
      \/ ~Known(Current(p)) /\ (FamilyTaken(Current(p)) \/ Full)
  BY <1>3 DEF AddRefused, At, Free, DecidingPcs, Current
<1> QED
  BY <1>2, <1>4, ConflictIsElsewhere DEF ForAnother

\* What one process does leaves the others as they are.
LEMMA OthersStay ==
  ASSUME IndexInv, NEW p \in Procs, NEW q \in Procs, q # p, NEW a, Becomes(p, a)
  PROVE  proc'[q] = proc[q]
  BY DEF Becomes, IndexInv, Typed, TypeOK

\* The outcome of an adapter that a command ends, or moves on.
LEMMA OutcomeOf ==
  ASSUME IndexInv, NEW p \in Procs
  PROVE  /\ \A o : End(p, o) => proc'[p].outcome = o
         /\ \A c : Go(p, c) => proc'[p].outcome = proc[p].outcome
<1>1. proc[p] \in Adapter /\ proc \in [Procs -> Adapter]
  BY ProcFacts DEF IndexInv, Typed, TypeOK
<1>2. ASSUME NEW o, End(p, o) PROVE proc'[p].outcome = o
  BY <1>1, <1>2 DEF End, Becomes, Adapter
<1>3. ASSUME NEW c, Go(p, c) PROVE proc'[p].outcome = proc[p].outcome
  BY <1>1, <1>3 DEF Go, Becomes, Adapter
<1> QED
  BY <1>2, <1>3

-----------------------------------------------------------------------------
(***************************************************************************)
(* The theorems on the content.                                            *)
(***************************************************************************)

LEMMA InitContent == Init => ContentInv
<1> SUFFICES ASSUME Init PROVE ContentInv
  OBVIOUS
<1>1. Cardinality({}) <= K /\ Cardinality({}) <= MaxCases
  BY FS_EmptySet, IndexAssumption
<1>2. \A p \in Procs : /\ proc[p].pc = "idle" /\ proc[p].outcome = "none" /\ proc[p].found = {}
                       /\ proc[p].source = <<>> /\ proc[p].todo = <<>>
  BY DEF Init, Idle
<1>3. Acceptable(<<>>)
  BY DEF Acceptable
<1>4. SourcesAreKept /\ OutcomeIsLast /\ NeighboursAreDistinct
      /\ CheckedStaysFree
  BY <1>1, <1>2, <1>3 DEF SourcesAreKept, OutcomeIsLast, NeighboursAreDistinct,
     CheckedStaysFree, Free, DecidingPcs, At
<1>5. UniqueIds /\ OneCasePerFamily
  BY <1>1 DEF Init, UniqueIds, OneCasePerFamily
<1> QED
  BY <1>4, <1>5 DEF ContentInv

LEMMA ContentKept == IndexInv /\ ContentInv /\ [Next]_vars => ContentInv'
<1> SUFFICES ASSUME IndexInv, ContentInv, [Next]_vars PROVE ContentInv'
  OBVIOUS
<1>1. CASE UNCHANGED <<present, uid, stored, overlap, crossed, proc>>
  BY <1>1 DEF ContentInv, UniqueIds, CheckedStaysFree, SourcesAreKept, OutcomeIsLast,
     OneCasePerFamily, NeighboursAreDistinct, Usable, StoredCases, Free, Known,
     FamilyTaken, Full, At
<1>2. ASSUME NEW p \in Procs,
             \/ Start(p)
             \/ Fingerprint(p) \/ List(p) \/ Open(p) \/ OpenRefused(p) \/ Create(p) \/ OpenRaises(p)
             \/ HandleLost(p)
             \/ Skip(p) \/ IdentifierFree(p) \/ FamilyFree(p) \/ RoomLeft(p)
             \/ AddRefused(p) \/ Embed(p) \/ Upsert(p) \/ Added(p)
             \/ Describe(p)
             \/ Count(p) \/ Query(p)
             \/ Delete(p)
             \/ Killed(p)
      PROVE  ContentInv'
  BY <1>2, StartKeeps, ForwardKeeps, EndingKeeps, SkipKeeps, ReadKeeps, EmbedKeeps,
     UpsertKeeps, QueryKeeps, CreateKeeps
<1> QED
  BY <1>1, <1>2 DEF Next, Upgrade, collection, history, vars

LEMMA ContentInvariant == Spec => [](IndexInv /\ ContentInv)
<1>1. IndexInv /\ ContentInv /\ [Next]_vars => ContentInv'
  BY ContentKept
<1> QED
  BY InitContent, <1>1, Invariance, PTL DEF Spec

\* Without two adds that overlap, adds that were killed or refused half way
\* leave one case per family, and no more than max_cases.
THEOREM FamiliesAreOne == Spec => []OneCasePerFamily
<1>1. ContentInv => OneCasePerFamily
  BY DEF ContentInv
<1> QED
  BY <1>1, ContentInvariant, PTL

\* A search returns at most k neighbours of different families, none of them
\* excluded, whatever the index holds.
THEOREM NeighboursDistinct == Spec => []NeighboursAreDistinct
<1>1. ContentInv => NeighboursAreDistinct
  BY DEF ContentInv
<1> QED
  BY <1>1, ContentInvariant, PTL

\* What one step may do to the outcome of a command under way.
LEMMA OnlyAddRefuses ==
  ASSUME IndexInv, ContentInv, [Next]_vars, NEW p \in Procs, ~At(p, "idle"),
         proc'[p].outcome = "refused_index"
  PROVE  AddRefused(p)
<1>1. proc[p].outcome = "none" /\ proc[p] \in Adapter /\ proc \in [Procs -> Adapter]
  BY ProcFacts DEF ContentInv, OutcomeIsLast, IndexInv, Typed, TypeOK
<1>2. proc' # proc
  BY <1>1
<1>3. ASSUME NEW q \in Procs, q # p, \E a : Becomes(q, a)
      PROVE  FALSE
  BY <1>1, <1>3, OthersStay
<1>4. ASSUME OpenRefused(p) \/ OpenRaises(p) \/ HandleLost(p) \/ Describe(p) \/ Added(p)
                \/ IdentifierFree(p) \/ FamilyFree(p) \/ RoomLeft(p)
                \/ (Delete(p) /\ ~present)
      PROVE  FALSE
  <2>1. \/ \E o \in {"refused_model", "error", "ok"} : End(p, o)
        \/ \E c : Go(p, c)
    BY <1>4 DEF OpenRefused, OpenRaises, HandleLost, Describe, Added, IdentifierFree,
       FamilyFree, RoomLeft, Delete
  <2> QED
    BY <1>1, <2>1, OutcomeOf
<1>5. ASSUME NEW a, Becomes(p, a), a.outcome \in {"none", "ok"}
      PROVE  FALSE
  BY <1>1, <1>5 DEF Becomes
<1>6. /\ ~Fingerprint(p) /\ ~List(p) /\ ~Open(p) /\ ~Create(p)
      /\ ~Skip(p) /\ ~Embed(p) /\ ~Upsert(p) /\ ~(Delete(p) /\ present)
      /\ ~Count(p) /\ ~Query(p)
  <2> DEFINE Kept(a) == a.outcome = proc[p].outcome
  <2>1. ~Fingerprint(p)
    <3>1. Kept([proc[p] EXCEPT !.pc = "list", !.fingerprint = installed])
      BY <1>1 DEF Adapter
    <3> QED
      BY <1>1, <1>5, <3>1 DEF Fingerprint
  <2>2. ~List(p)
    <3>1. Kept([proc[p] EXCEPT !.pc = "open", !.seen = present])
      BY <1>1 DEF Adapter
    <3> QED
      BY <1>1, <1>5, <3>1 DEF List
  <2>3. ~Open(p) /\ ~Create(p)
    <3>1. \A h : Kept([proc[p] EXCEPT !.pc = proc[p].then, !.handle = h])
      BY <1>1 DEF Adapter
    <3> QED
      BY <1>1, <1>5, <3>1 DEF Open, Create
  <2>4. ~Skip(p) /\ ~Upsert(p)
    <3>1. \A t : /\ Kept([proc[p] EXCEPT !.todo = t])
                 /\ Kept([proc[p] EXCEPT !.pc = "check", !.todo = t])
      BY <1>1 DEF Adapter
    <3> QED
      BY <1>1, <1>5, <3>1 DEF Skip, Upsert
  <2>5. ~Embed(p)
    <3>1. \A w, c : Kept([proc[p] EXCEPT !.weights = w, !.pc = c])
      BY <1>1 DEF Adapter
    <3> QED
      BY <1>1, <1>5, <3>1 DEF Embed
  <2>6. ~(Delete(p) /\ present)
    <3>1. Kept([proc[p] EXCEPT !.pc = "list", !.then = "describe"])
      BY <1>1 DEF Adapter
    <3> QED
      BY <1>1, <1>5, <3>1 DEF Delete
  <2>7. ~Count(p)
    <3>1. \A n, c : \A o \in {"none", "ok"} :
             [proc[p] EXCEPT !.count = n, !.pc = c, !.outcome = o].outcome = o
      BY <1>1 DEF Adapter
    <3> QED
      BY <1>5, <3>1 DEF Count
  <2>8. ~Query(p)
    <3>1. \A S : [proc[p] EXCEPT !.pc = "idle", !.outcome = "ok", !.found = S].outcome = "ok"
      BY <1>1 DEF Adapter
    <3> QED
      BY <1>5, <3>1 DEF Query
  <2> QED
    BY <2>1, <2>2, <2>3, <2>4, <2>5, <2>6, <2>7, <2>8
<1>7. ASSUME Killed(p)
      PROVE  FALSE
  BY <1>1, <1>7 DEF Killed, Becomes, Idle
<1>8. ~Start(p)
  BY DEF Start
<1>9. PICK q \in Procs :
         \/ Start(q)
         \/ Fingerprint(q) \/ List(q)
         \/ Open(q) \/ OpenRefused(q) \/ Create(q) \/ OpenRaises(q)
         \/ HandleLost(q)
         \/ Skip(q) \/ IdentifierFree(q) \/ FamilyFree(q) \/ RoomLeft(q)
         \/ AddRefused(q) \/ Embed(q) \/ Upsert(q) \/ Added(q)
         \/ Describe(q)
         \/ Count(q) \/ Query(q)
         \/ Delete(q)
         \/ Killed(q)
  BY <1>2 DEF Next, vars, Upgrade
<1>10. \E a : Becomes(q, a)
  BY <1>9 DEF Start, Fingerprint, List, Open, OpenRefused, Create, OpenRaises, HandleLost,
     Skip, IdentifierFree, FamilyFree, RoomLeft, AddRefused, Embed, Upsert, Added, Describe,
     Count, Query, Delete, Killed, Go, End
<1> QED
  BY <1>3, <1>4, <1>5, <1>6, <1>7, <1>8, <1>9, <1>10

\* A source that was interrupted can be replayed: what it left behind is no
\* reason to refuse it, unless another add crosses the replay.
THEOREM ReplayIsNotRefused == Spec => RefusedForAnother
<1> DEFINE Why == \A p \in Procs :
                     ~At(p, "idle") /\ proc'[p].outcome = "refused_index" =>
                         ForAnother(p) \/ p \in crossed
<1>1. IndexInv /\ ContentInv /\ [Next]_vars => [Why]_vars
  <2> SUFFICES ASSUME IndexInv, ContentInv, [Next]_vars, NEW p \in Procs, ~At(p, "idle"),
                      proc'[p].outcome = "refused_index", p \notin crossed
               PROVE  ForAnother(p)
    OBVIOUS
  <2> QED
    BY OnlyAddRefuses, RefusedFor
<1> QED
  BY <1>1, ContentInvariant, PTL DEF Spec, RefusedForAnother

\* Only clear, and an add that another one has crossed, take a case away: every
\* other add replaces nothing, whatever earlier overlaps left in the index.
THEOREM NothingIsReplaced == Spec => AddNeverReplaces
<1> DEFINE Grows == uid' = uid /\ present' /\ ~(stored \subseteq stored') =>
                       \E p \in Procs : At(p, "upsert") /\ p \in crossed
<1>1. IndexInv /\ ContentInv /\ [Next]_vars => [Grows]_vars
  <2> SUFFICES ASSUME IndexInv, ContentInv, Next, uid' = uid, present',
                      \A p \in Procs : At(p, "upsert") => p \notin crossed
               PROVE  stored \subseteq stored'
    OBVIOUS
  <2>1. ASSUME NEW p \in Procs, Upsert(p)
        PROVE  stored \subseteq stored'
    <3>1. p \notin crossed
      BY <2>1 DEF Upsert
    <3> QED
      BY <2>1, <3>1, UpsertAdds
  <2>2. ASSUME NEW p \in Procs, Create(p)
        PROVE  FALSE
    BY <2>2, ProcFacts DEF Create
  <2>3. ASSUME NEW p \in Procs, Delete(p)
        PROVE  stored \subseteq stored'
    BY <2>3 DEF Delete
  <2> QED
    BY <2>1, <2>2, <2>3 DEF Next, collection, Start, Fingerprint, List, Open, OpenRefused,
       OpenRaises, HandleLost, Skip, IdentifierFree, FamilyFree, RoomLeft, AddRefused, Embed,
       Added, Describe, Count, Query, Killed, Upgrade
<1> QED
  BY <1>1, ContentInvariant, PTL DEF Spec, AddNeverReplaces
=============================================================================
