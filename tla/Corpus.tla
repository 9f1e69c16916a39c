------------------------------- MODULE Corpus -------------------------------
(* The reference corpus: scripts/build_corpus.py.  An operator runs the        *)
(* commands normalize, dedupe, labels, select, freeze and verify-splits over   *)
(* a message container; between them an external review writes the            *)
(* adjudication of the messages and the protected Gold pool.  Every command    *)
(* reads its inputs, decides, then writes its files one after the other: it    *)
(* can be killed between two writes or inside one.                             *)
(*                                                                             *)
(* A message is identified by its ordinal in the container (`sample_id' is     *)
(* the source's name and the ordinal), so a container that changes moves its   *)
(* messages to other identifiers.  Bytes stand for their SHA-256, a family for *)
(* the set of identifiers its content-derived name is computed from ({} for    *)
(* the empty family_group of a row that dedupe has not visited), and a file's  *)
(* content for its digest.  A file is <<>> when it is absent or unreadable and *)
(* <<content>> otherwise; the content of a JSONL or Parquet file is its set of *)
(* rows.                                                                       *)
EXTENDS Naturals, Sequences, FiniteSets, SequencesExt, FiniteSetsExt

CONSTANTS
    Messages,   \* the messages the containers hold
    Archives,   \* the successive states of the container, each a sequence of messages
    Near,       \* pairs {m, n} with equal bodies or a Jaccard score over the bound
    Verdict,    \* what the review says of each message: a label or "ambiguous"
    PoolChoices, \* the sets of messages an operator may put in the Gold pool
    Taxonomy,   \* the labels, in their fixed order
    RagCaps,    \* the number of families of a label reserved for the RAG base
    FillClass,  \* the label that fills what the other classes left free
    RagTotal,   \* the number of cases of the RAG base
    MaxChanges  \* bound: commands that rewrite an input, reviews, new containers, kills

ASSUME CorpusAssumption ==
    /\ Archives \in Seq(Seq(Messages)) /\ Archives # <<>>
    /\ \A c \in PoolChoices : c \subseteq Messages
    /\ \A m \in Messages : Verdict[m] \in Range(Taxonomy) \cup {"ambiguous"}
    /\ FillClass \notin DOMAIN RagCaps
    /\ {RagTotal, MaxChanges} \subseteq Nat

VARIABLES
    acquired,  \* the state of the container under corpus/raw
    corpus,    \* the files of the corpus: [CorpusFiles -> file]
    todo,      \* the writes the command in progress still has to do
    edits

corpusVars == <<acquired, corpus, todo, edits>>

archive == Archives[acquired]

InputFiles == {"manifest", "template", "adjudication", "pool", "labels"}
OutputFiles == {"dev", "rag", "plan", "test", "seal"}
CorpusFiles == InputFiles \cup OutputFiles
Tables == {"template", "labels", "dev", "rag", "test"}  \* written row by row

Missing(file) == corpus[file] = <<>>
Rows(file) == IF Missing(file) THEN {} ELSE corpus[file][1]
Entry(file, id) == CHOOSE r \in Rows(file) : r.id = id
Ids(rows) == {r.id : r \in rows}
Least(n, S) == {x \in S : Cardinality({y \in S : y < x}) < n}

-----------------------------------------------------------------------------
(* Families.                                                                   *)

Links(rows) ==
    {{p[1].id, p[2].id} : p \in {q \in rows \X rows :
        q[1].raw = q[2].raw \/ {q[1].raw, q[2].raw} \in Near}}

(* Two linked members merge the families they are in.                           *)
Merge(link, families) ==
    {f \in families : f \cap link = {}} \cup {UNION {f \in families : f \cap link # {}}}

DuplicateFamilies(rows) == FoldSet(Merge, {{i} : i \in Ids(rows)}, Links(rows))

Grouped(rows) == LET families == DuplicateFamilies(rows)
                 IN  {[r EXCEPT !.family = CHOOSE f \in families : r.id \in f] : r \in rows}

-----------------------------------------------------------------------------
(* A command in progress.                                                      *)

Put(file, content) == [file |-> file, content |-> <<content>>]
Unlink(file) == [file |-> file, content |-> <<>>]

Idle == todo = <<>>
Budgeted == edits < MaxChanges /\ edits' = edits + 1
MayEdit == Idle /\ Budgeted
Begin(writes) == /\ todo' = writes
                 /\ UNCHANGED <<acquired, corpus>>

(* What a write killed in the middle leaves: some of the rows of a table or a   *)
(* last line cut short, an unreadable document, the old manifest when a new     *)
(* one is moved over it.                                                        *)
Torn(write) ==
    IF write.file \in Tables
      THEN {<<>>} \cup {<<{r \in write.content[1] : r.id <= k}>> :
                          k \in 0 .. Max({0} \cup Ids(write.content[1]))}
      ELSE IF write.file = "manifest" THEN {corpus["manifest"]} ELSE {<<>>}

Write ==
    /\ ~Idle
    /\ corpus' = [corpus EXCEPT ![Head(todo).file] = Head(todo).content]
    /\ todo' = Tail(todo)
    /\ UNCHANGED <<acquired, edits>>

Kill ==
    /\ ~Idle
    /\ Budgeted
    /\ \E left \in Torn(Head(todo)) : corpus' = [corpus EXCEPT ![Head(todo).file] = left]
    /\ todo' = <<>>
    /\ UNCHANGED acquired

-----------------------------------------------------------------------------
(* The commands that make the inputs.                                          *)

Normalized(container) ==
    {[id |-> i, raw |-> container[i], family |-> {}] : i \in DOMAIN container}
NormalizedRecords == Normalized(archive)

(* normalize owns the manifest: it removes it before it writes a new one, whose *)
(* families are empty until dedupe runs.                                        *)
Normalize ==
    /\ MayEdit
    /\ Begin(<<Unlink("manifest"), Put("manifest", NormalizedRecords),
               Put("template", NormalizedRecords)>>)

Resolves(row) == row.id \in DOMAIN archive /\ archive[row.id] = row.raw

Dedupe ==
    /\ MayEdit
    /\ Rows("manifest") # {}
    /\ \A row \in Rows("manifest") : Resolves(row)
    /\ LET grouped == Grouped(Rows("manifest"))
       IN  Begin(<<Put("manifest", grouped), Put("template", grouped)>>)

(* The adjudication must agree with the manifest and with the template on every *)
(* row, or nothing is written.                                                  *)
AdjudicationLoads ==
    /\ Rows("adjudication") # {}
    /\ \A row \in Rows("adjudication") : row.label # "ambiguous" => row.family # {}

AgreesWith(file, row) ==
    \E r \in Rows(file) : r.id = row.id /\ r.raw = row.raw /\ r.family = row.family

JoinsBoth(row) == AgreesWith("manifest", row) /\ AgreesWith("template", row)

Labels ==
    /\ MayEdit
    /\ AdjudicationLoads
    /\ \A row \in Rows("adjudication") : JoinsBoth(row)
    /\ Begin(<<Put("labels", Rows("adjudication"))>>)

-----------------------------------------------------------------------------
(* select_gold: the RAG base, then the dev and test halves of the pool.         *)

LabelsLoad == Rows("labels") # {}

PoolLoads ==
    /\ AdjudicationLoads
    /\ Rows("pool") # {}
    /\ \A p \in Rows("pool") : p.label # "ambiguous" /\ p \in Rows("adjudication")
    /\ \A p, q \in Rows("pool") : p # q => p.id # q.id /\ p.family # q.family

\* Faulty variant: the manifest is asked for the identifier only.
IsNamed(p) == p.id \in Ids(Rows("manifest"))

(* A candidate carries what the canonical labels say of it, and the bytes the   *)
(* manifest says it has.                                                        *)
HasItsBytes(p) == \E r \in Rows("manifest") : r.id = p.id /\ r.raw = p.raw
PoolGuarded == \A p \in Rows("pool") : p \in Rows("labels") /\ HasItsBytes(p)

PoolFamilies == {p.family : p \in Rows("pool")}

Complement ==
    LET ids == Ids(Rows("pool"))  families == PoolFamilies
    IN  {r \in Rows("labels") : /\ r.id \notin ids
                                /\ r.family \notin families
                                /\ r.label # "ambiguous"}

(* The families whose members carry one label; a family is ordered by its least *)
(* member, where the code shuffles the sorted names with a fixed seed.          *)
FamiliesOf(label, rows) ==
    {f \in {r.family : r \in rows} : \A r \in rows : r.family = f => r.label = label}
Heads(label) ==
    LET rows == Complement
    IN  {Min({r.id : r \in {s \in rows : s.family = f}}) : f \in FamiliesOf(label, rows)}

Capped == UNION {Least(RagCaps[label], Heads(label)) : label \in DOMAIN RagCaps}
RagSamples ==
    LET capped == Capped
    IN  capped \cup (IF Cardinality(capped) < RagTotal
                       THEN Least(RagTotal - Cardinality(capped), Heads(FillClass)) ELSE {})

PoolOf(label) == {p.id : p \in {q \in Rows("pool") : q.label = label}}
DevSamples == UNION {LET ids == PoolOf(label) IN Least(Cardinality(ids) \div 2, ids) :
                       label \in Range(Taxonomy)}
TestSamples == Ids(Rows("pool")) \ DevSamples

(* A record carries the label of the canonical labels and the bytes and family  *)
(* of the manifest.                                                             *)
Labelled(id) == [id |-> id, raw |-> Entry("manifest", id).raw,
                 family |-> Entry("manifest", id).family, label |-> Entry("labels", id).label]
Records(ids) == {Labelled(id) : id \in ids}

FamiliesOfLabels(ids) == {Entry("labels", id).family : id \in ids}
Support(ids) == [label \in Range(Taxonomy) |->
                   Cardinality({id \in ids : Entry("labels", id).label = label})]
Aggregate(ids) == [count |-> Cardinality(ids), support |-> Support(ids),
                   families |-> Cardinality(FamiliesOfLabels(ids))]

Plan == [dev |-> DevSamples, test |-> Aggregate(TestSamples), rag |-> Aggregate(RagSamples),
         pool |-> Cardinality(Rows("pool"))]

Verifiable(ids) == \A id \in ids : Resolves(Entry("manifest", id))

(* What must hold before the selection returns anything.                        *)
Selectable ==
    /\ LabelsLoad /\ PoolLoads /\ PoolGuarded
    /\ \A r \in Complement : r.id \in Ids(Rows("manifest"))
    /\ Verifiable(DevSamples \cup RagSamples)

Select ==
    /\ Idle
    /\ ~Missing("manifest")
    /\ Selectable
    /\ Begin(<<Put("dev", Records(DevSamples)), Put("rag", Records(RagSamples)),
               Put("plan", Plan)>>)
    /\ UNCHANGED edits

(* The seal's number of families is counted over the records, the plan's over   *)
(* the canonical labels.                                                        *)
Seal == LET records == Records(TestSamples)
        IN  [digest |-> records, count |-> Cardinality(records), support |-> Support(TestSamples),
             families |-> Cardinality({r.family : r \in records})]

Freeze ==
    /\ Idle
    /\ ~Missing("manifest")
    /\ Selectable
    /\ Verifiable(TestSamples)
    /\ Begin(<<Put("test", Records(TestSamples)), Put("seal", Seal)>>)
    /\ UNCHANGED edits

-----------------------------------------------------------------------------
(* verify-splits.                                                               *)

Intersect(ids, others) == FamiliesOfLabels(ids) \cap FamiliesOfLabels(others) # {}

FileIs(file, content) == corpus[file] = <<content>>

\* Faulty variant: gold_dev is not read back.
ButTheDevHalf == /\ FileIs("plan", Plan)
                 /\ FileIs("rag", Records(RagSamples))
                 /\ FileIs("test", Records(TestSamples))

(* Every published file is what the selection of the day makes.                  *)
Reproduced == /\ FileIs("plan", Plan)
              /\ FileIs("dev", Records(DevSamples))
              /\ FileIs("rag", Records(RagSamples))
              /\ FileIs("test", Records(TestSamples))

Disjoint == /\ ~Intersect(DevSamples, TestSamples)
            /\ ~Intersect(RagSamples, DevSamples)
            /\ ~Intersect(RagSamples, TestSamples)

SealHolds ==
    LET seal == corpus["seal"][1]
    IN  /\ ~Missing("test") => seal.digest = corpus["test"][1]
        /\ [count |-> seal.count, support |-> seal.support, families |-> seal.families]
             = Aggregate(TestSamples)

(* What exit code 0 of the command says: it reads and writes nothing else than   *)
(* its receipt.  Without a seal it dies on a variable it has not set, before the *)
(* receipt that would name the missing seal: a failure all the same.             *)
Verified ==
    /\ Idle
    /\ ~Missing("manifest")
    /\ Selectable
    /\ ~Missing("seal")
    /\ Reproduced /\ Disjoint /\ SealHolds

-----------------------------------------------------------------------------
(* The world around the commands: the container is acquired again, the review   *)
(* is delivered, the operator chooses the protected pool.                       *)

Acquire ==
    /\ MayEdit
    /\ acquired < Len(Archives)
    /\ acquired' = acquired + 1
    /\ UNCHANGED <<corpus, todo>>

Reviewed(rows) == {[id |-> r.id, raw |-> r.raw, family |-> r.family, label |-> Verdict[r.raw]] :
                     r \in rows}
PoolOut(rows, choice) == {r \in rows : r.raw \in choice}

Review ==
    /\ MayEdit
    /\ Rows("template") # {}
    /\ LET reviewed == Reviewed(Rows("template"))
       IN  \E choice \in PoolChoices :
             corpus' = [corpus EXCEPT !["adjudication"] = <<reviewed>>,
                                  !["pool"] = <<PoolOut(reviewed, choice)>>]
    /\ UNCHANGED <<acquired, todo>>

-----------------------------------------------------------------------------
(* The inputs as the first build leaves them: normalize, dedupe, the review and  *)
(* labels, over the first state of the container.                               *)
BuiltFrom(container, choice) ==
    LET records == Grouped(Normalized(container))
        reviewed == Reviewed(records)
    IN  [f \in CorpusFiles |-> CASE f \in {"manifest", "template"} -> <<records>>
                                 [] f \in {"adjudication", "labels"} -> <<reviewed>>
                                 [] f = "pool" -> <<PoolOut(reviewed, choice)>>
                                 [] OTHER -> <<>>]
BuiltInputs(choice) == BuiltFrom(archive, choice)

InitCorpus ==
    /\ acquired = 1
    /\ corpus \in {BuiltInputs(choice) : choice \in PoolChoices}
    /\ todo = <<>>
    /\ edits = 0

NextCorpus ==
    \/ Normalize \/ Dedupe \/ Labels \/ Select \/ Freeze
    \/ Write \/ Kill
    \/ Acquire \/ Review

CorpusSpec == InitCorpus /\ [][NextCorpus]_corpusVars

-----------------------------------------------------------------------------
(* Properties.                                                                 *)

(* Exit code 0 of verify-splits means three disjoint partitions: no sample is   *)
(* in two of gold_dev, gold_test and the RAG base, and no family of the         *)
(* canonical labels gives two samples to them, whatever commands were rerun,    *)
(* killed half way or fed with another container in between                     *)
(* (select_gold, freeze_test, cmd_verify_splits).                               *)
SelectionIsWhole ==
    Verified =>
        LET dev == Ids(Rows("dev"))  test == Ids(Rows("test"))  rag == Ids(Rows("rag"))
            Family(id) == Entry("labels", id).family
        IN  /\ dev \cap test = {} /\ rag \cap (dev \cup test) = {}
            /\ \A i, j \in dev \cup test \cup rag : i # j => Family(i) # Family(j)

(* A gold record pairs the label with the bytes that were reviewed: after the   *)
(* container moved its messages to other identifiers, no combination of new and *)
(* old files makes select or freeze publish the label of one email on the bytes *)
(* of another (select_gold, build_gold_record).                                 *)
LabelsFollowTheBytes ==
    \A record \in Rows("dev") \cup Rows("test") : record.label = Verdict[record.raw]
=============================================================================
