------------------------------ MODULE RagIndex ------------------------------
(***************************************************************************)
(* The public RAG index (RagAdapter in src/tools/rag.py) and its command   *)
(* line (scripts/manage_rag.py): one Chroma collection on disk, shared by  *)
(* the processes that add cases, search it for an email, or clear it.      *)
(*                                                                         *)
(* Nothing is locked: add makes three reads for a case, by its identifier, *)
(* by its family and of the count, before it upserts it; clear deletes by  *)
(* name a collection that another process may have open; and opening lists *)
(* the collections before it gets or creates the one it wants.  A process  *)
(* may be killed anywhere.                                                 *)
(*                                                                         *)
(* The ONNX weights on the machine may be replaced at any time.  An        *)
(* adapter takes their fingerprint before it opens the store, and loads    *)
(* them when it embeds its first text.                                     *)
(***************************************************************************)
EXTENDS Naturals, Sequences, FiniteSets, SequencesExt

CONSTANTS
    Procs,
    Cases,             \* records: id, family, text and rank
    Sources,           \* the input files: sequences of cases
    Exclusions,        \* what a search may exclude: sets of families
    Protected,         \* families of the Gold corpus
    Models,            \* embedding models, by fingerprint
    MaxCases, K, MaxRank,        \* max_cases, k, max_distance
    Null,
    MaxCommands, MaxUpgrades     \* bounds of the model

ASSUME IndexAssumption ==
    /\ \A c \in Cases : c.rank \in Nat
    /\ \A c, d \in Cases : c.rank = d.rank => c.id = d.id
    /\ Sources \subseteq Seq(Cases)
    /\ MaxCases \in Nat /\ K \in Nat /\ MaxRank \in Nat
    /\ Null \notin Models
    /\ MaxCommands \in Nat /\ MaxUpgrades \in Nat

VARIABLES
    present,           \* the collection exists
    uid,               \* which one it is: each collection is a new one
    space,             \* embedding_model_sha256 of its metadata
    stored,            \* its cases, each with the weights of its vector
    installed,         \* the weights on the machine
    proc,              \* the adapters at work
    commands, upgrades,
    receipt,           \* the receipt of the last add
    crossed,           \* history: adds whose checks another upsert has crossed
    overlap,           \* history: an add upserted although it was crossed
    swapped            \* history: weights replaced between fingerprint and load

vars == <<present, uid, space, stored, installed, proc, commands, upgrades,
          receipt, crossed, overlap, swapped>>

collection == <<present, uid, space, stored>>
machine    == <<installed, commands, upgrades, swapped>>
history    == <<receipt, crossed, overlap>>

Entry == [case: Cases, model: Models]

Outcomes == {"none", "ok", "refused_source", "refused_index", "refused_model", "error"}

\* Between two calls of the store, or of the embedder.
Pcs == {"idle", "fingerprint", "list", "open", "check", "family", "room", "embed_case",
        "upsert", "count", "embed_query", "query", "delete", "describe"}

Adapter ==
    [cmd: {"none", "add", "search", "clear"},
     pc: Pcs,
     then: {"check", "count", "delete", "describe"},  \* what the store is opened for
     seen: BOOLEAN,                                   \* list_collections showed it
     fingerprint: Models \cup {Null},                 \* of the weights, when it was read
     weights: Models \cup {Null},                     \* the weights that are loaded
     handle: Nat,
     source: Seq(Cases), todo: Seq(Cases),
     exclusions: Exclusions \cup {{}},
     count: Nat,
     found: SUBSET Cases,
     outcome: Outcomes]

TypeOK ==
    /\ present \in BOOLEAN /\ uid \in Nat
    /\ space \in Models /\ stored \in SUBSET Entry
    /\ installed \in Models
    /\ proc \in [Procs -> Adapter]
    /\ commands \in 0..MaxCommands /\ upgrades \in 0..MaxUpgrades
    /\ receipt \in [source: Nat, total: Nat]
    /\ crossed \subseteq Procs /\ overlap \in BOOLEAN /\ swapped \in BOOLEAN

Idle ==
    [cmd |-> "none", pc |-> "idle", then |-> "check", seen |-> FALSE,
     fingerprint |-> Null, weights |-> Null, handle |-> 0, source |-> <<>>, todo |-> <<>>,
     exclusions |-> {}, count |-> 0, found |-> {}, outcome |-> "none"]

Init ==
    /\ present = FALSE /\ uid = 0 /\ stored = {}
    /\ installed \in Models /\ space = installed
    /\ proc = [p \in Procs |-> Idle]
    /\ commands = 0 /\ upgrades = 0
    /\ receipt = [source |-> 0, total |-> 0]
    /\ crossed = {} /\ overlap = FALSE /\ swapped = FALSE

At(p, pc) == proc[p].pc = pc

\* The adapter of p is now a.
Becomes(p, a) == proc' = [proc EXCEPT ![p] = a]

Go(p, pc) == Becomes(p, [proc[p] EXCEPT !.pc = pc])

\* The command of p ends.
End(p, outcome) == Becomes(p, [proc[p] EXCEPT !.pc = "idle", !.outcome = outcome])

(***************************************************************************)
(* Commands: each is a process, or an email, with an adapter of its own.   *)
(***************************************************************************)

\* The refusals that look at the source alone: a Gold family, or an
\* identifier or a family that it holds twice.
Acceptable(source) ==
    /\ \A i \in DOMAIN source : source[i].family \notin Protected
    /\ \A i, j \in DOMAIN source :
          source[i].id = source[j].id \/ source[i].family = source[j].family => i = j

Start(p) ==
    /\ At(p, "idle") /\ commands < MaxCommands
    /\ commands' = commands + 1
    /\ \/ \E s \in Sources :
             Becomes(p, IF Acceptable(s)
                        THEN [Idle EXCEPT !.cmd = "add", !.pc = "fingerprint",
                                          !.then = "check", !.source = s, !.todo = s]
                        ELSE [Idle EXCEPT !.cmd = "add", !.outcome = "refused_source"])
       \/ \E e \in Exclusions :
             Becomes(p, [Idle EXCEPT !.cmd = "search", !.pc = "fingerprint", !.then = "count",
                                     !.exclusions = e])
       \/ Becomes(p, [Idle EXCEPT !.cmd = "clear", !.pc = "fingerprint", !.then = "delete"])
    /\ UNCHANGED <<collection, installed, upgrades, swapped, history>>

(***************************************************************************)
(* _store.                                                                 *)
(***************************************************************************)

\* default_embedder, once per adapter: the digest of the file, and no weights.
Fingerprint(p) ==
    /\ At(p, "fingerprint")
    /\ Becomes(p, [proc[p] EXCEPT !.pc = "list", !.fingerprint = installed])
    /\ UNCHANGED <<collection, machine, history>>

List(p) ==
    /\ At(p, "list")
    /\ Becomes(p, [proc[p] EXCEPT !.pc = "open", !.seen = present])
    /\ UNCHANGED <<collection, machine, history>>

\* Faulty variant: the fingerprint of the collection is not looked at.
OpenUnchecked(p) ==
    /\ At(p, "open") /\ proc[p].seen /\ present
    /\ Becomes(p, [proc[p] EXCEPT !.pc = proc[p].then, !.handle = uid])
    /\ UNCHANGED <<collection, machine, history>>

Open(p) ==
    /\ At(p, "open") /\ proc[p].seen /\ present
    /\ space = proc[p].fingerprint
    /\ Becomes(p, [proc[p] EXCEPT !.pc = proc[p].then, !.handle = uid])
    /\ UNCHANGED <<collection, machine, history>>

\* RagModelError: for every command.
OpenRefused(p) ==
    /\ At(p, "open") /\ proc[p].seen /\ present
    /\ space # proc[p].fingerprint
    /\ End(p, "refused_model")
    /\ UNCHANGED <<collection, machine, history>>

Create(p) ==
    /\ At(p, "open") /\ ~proc[p].seen /\ ~present
    /\ present' = TRUE /\ uid' = uid + 1
    /\ space' = proc[p].fingerprint /\ stored' = {}
    /\ Becomes(p, [proc[p] EXCEPT !.pc = proc[p].then, !.handle = uid'])
    /\ UNCHANGED <<machine, history>>

\* Another process created or deleted it since it was listed.
OpenRaises(p) ==
    /\ At(p, "open") /\ proc[p].seen # present
    /\ End(p, "error")
    /\ UNCHANGED <<collection, machine, history>>

\* The handle of a collection that was deleted is good for nothing.
Usable(p) == present /\ proc[p].handle = uid

HandleLost(p) ==
    /\ proc[p].pc \in {"check", "family", "room", "upsert", "count", "query", "describe"}
    /\ At(p, "check") => proc[p].todo # <<>>
    /\ ~Usable(p)
    /\ End(p, "error")
    /\ UNCHANGED <<collection, machine, history>>

(***************************************************************************)
(* add.                                                                    *)
(***************************************************************************)
Current(p) == Head(proc[p].todo)

StoredCases == {e.case : e \in stored}

\* Faulty variant: a case that is already stored is always a conflict.
ReplayedNever(c) == FALSE

\* An identical case: nothing to do.
Replayed(c) == c \in StoredCases

\* Faulty variant: a case is only known when its content is the same.
KnownIdentical(c) == c \in StoredCases

Known(c) == \E d \in StoredCases : d.id = c.id

FamilyTaken(c) == \E d \in StoredCases : d.family = c.family

Full == Cardinality(stored) >= MaxCases

\* The first read: by the identifier.
Skip(p) ==
    /\ At(p, "check") /\ proc[p].todo # <<>> /\ Usable(p)
    /\ Replayed(Current(p))
    /\ Becomes(p, [proc[p] EXCEPT !.todo = Tail(@)])
    /\ UNCHANGED <<collection, machine, history>>

IdentifierFree(p) ==
    /\ At(p, "check") /\ proc[p].todo # <<>> /\ Usable(p)
    /\ ~Known(Current(p))
    /\ Go(p, "family")
    /\ crossed' = crossed \ {p}
    /\ UNCHANGED <<collection, machine, receipt, overlap>>

\* Faulty variant: only the identical case is looked for.
FamilyIgnored(p) ==
    /\ At(p, "family") /\ Usable(p)
    /\ Go(p, "room")
    /\ UNCHANGED <<collection, machine, history>>

\* The second read: by the family.
FamilyFree(p) ==
    /\ At(p, "family") /\ Usable(p)
    /\ ~FamilyTaken(Current(p))
    /\ Go(p, "room")
    /\ UNCHANGED <<collection, machine, history>>

\* The third read: the count.
RoomLeft(p) ==
    /\ At(p, "room") /\ Usable(p)
    /\ ~Full
    /\ Go(p, "embed_case")
    /\ UNCHANGED <<collection, machine, history>>

\* RagIndexError: other content under the identifier, the family of another
\* case, or no room.  The cases before this one stay, and no receipt is written.
AddRefused(p) ==
    /\ Usable(p)
    /\ \/ At(p, "check") /\ proc[p].todo # <<>>
          /\ Known(Current(p)) /\ ~Replayed(Current(p))
       \/ At(p, "family") /\ FamilyTaken(Current(p))
       \/ At(p, "room") /\ Full
    /\ End(p, "refused_index")
    /\ UNCHANGED <<collection, machine, history>>

\* The weights are loaded with the first text, and kept.
Embed(p) ==
    /\ proc[p].pc \in {"embed_case", "embed_query"}
    /\ Becomes(p, [proc[p] EXCEPT !.weights = IF @ = Null THEN installed ELSE @,
                                  !.pc = IF @ = "embed_case" THEN "upsert" ELSE "query"])
    /\ UNCHANGED <<collection, machine, history>>

\* Between the first read for a case and its upsert.
Deciding(p) == proc[p].pc \in {"family", "room", "embed_case", "upsert"}

Upsert(p) ==
    /\ At(p, "upsert") /\ Usable(p)
    /\ stored' = {e \in stored : e.case.id # Current(p).id}
                    \cup {[case |-> Current(p), model |-> proc[p].weights]}
    /\ Becomes(p, [proc[p] EXCEPT !.pc = "check", !.todo = Tail(@)])
    /\ overlap' = (overlap \/ p \in crossed)
    /\ crossed' = (crossed \ {p}) \cup {q \in Procs \ {p} : Deciding(q)}
    /\ UNCHANGED <<present, uid, space, machine, receipt>>

Added(p) ==
    /\ At(p, "check") /\ proc[p].todo = <<>>
    /\ Go(p, "describe")
    /\ UNCHANGED <<collection, machine, history>>

\* describe, and the receipt of the command.
Describe(p) ==
    /\ At(p, "describe") /\ Usable(p)
    /\ receipt' = IF proc[p].cmd = "add"
                  THEN [source |-> Len(proc[p].source), total |-> Cardinality(stored)]
                  ELSE receipt
    /\ End(p, "ok")
    /\ UNCHANGED <<collection, machine, crossed, overlap>>

(***************************************************************************)
(* search.                                                                 *)
(***************************************************************************)
Count(p) ==
    /\ At(p, "count") /\ Usable(p)
    /\ Becomes(p, [proc[p] EXCEPT
                      !.count = Cardinality(stored),
                      !.pc = IF stored = {} \/ K = 0 THEN "idle" ELSE "embed_query",
                      !.outcome = IF stored = {} \/ K = 0 THEN "ok" ELSE "none"])
    /\ UNCHANGED <<collection, machine, history>>

\* Ties of the distance are broken by the identifier: the ranks of different
\* identifiers are distinct.
Nearest(S, n) == {c \in S : Cardinality({d \in S : d.rank < c.rank}) < n}

Candidates(n, exclusions) ==
    {c \in Nearest(StoredCases, n) : c.rank <= MaxRank /\ c.family \notin exclusions}

\* Faulty variant: the index is trusted to hold one case per family.
NeighboursTrusting(n, exclusions) == Nearest(Candidates(n, exclusions), K)

\* The nearest candidate of each family, and the K nearest of those.
Neighbours(n, exclusions) ==
    LET eligible == Candidates(n, exclusions)
    IN Nearest({c \in eligible :
                   \A d \in eligible : d.family = c.family => c.rank <= d.rank}, K)

Query(p) ==
    /\ At(p, "query") /\ Usable(p)
    /\ LET n == IF proc[p].count < MaxCases THEN proc[p].count ELSE MaxCases
       IN Becomes(p, [proc[p] EXCEPT !.pc = "idle", !.outcome = "ok",
                                     !.found = Neighbours(n, proc[p].exclusions)])
    /\ UNCHANGED <<collection, machine, history>>

(***************************************************************************)
(* clear: it opens the collection, and deletes it by its name.             *)
(***************************************************************************)
Delete(p) ==
    /\ At(p, "delete")
    /\ IF present
       THEN /\ present' = FALSE /\ stored' = {}
            /\ Becomes(p, [proc[p] EXCEPT !.pc = "list", !.then = "describe"])
       ELSE End(p, "error") /\ UNCHANGED <<present, stored>>
    /\ UNCHANGED <<uid, space, machine, history>>

(***************************************************************************)
(* The environment.                                                        *)
(***************************************************************************)
Killed(p) ==
    /\ ~At(p, "idle")
    /\ Becomes(p, Idle)
    /\ UNCHANGED <<collection, machine, history>>

\* An adapter that has read the fingerprint of weights it has not loaded.
ToLoad(p) == proc[p].pc \notin {"idle", "fingerprint"} /\ proc[p].weights = Null

Upgrade ==
    /\ upgrades < MaxUpgrades /\ upgrades' = upgrades + 1
    /\ installed' \in Models \ {installed}
    /\ swapped' = (swapped \/ \E p \in Procs : ToLoad(p))
    /\ UNCHANGED <<collection, proc, commands, history>>

Next ==
    \/ \E p \in Procs :
          \/ Start(p)
          \/ Fingerprint(p) \/ List(p)
          \/ Open(p) \/ OpenRefused(p) \/ Create(p) \/ OpenRaises(p)
          \/ HandleLost(p)
          \/ Skip(p) \/ IdentifierFree(p) \/ FamilyFree(p) \/ RoomLeft(p)
          \/ AddRefused(p) \/ Embed(p) \/ Upsert(p) \/ Added(p)
          \/ Describe(p)
          \/ Count(p) \/ Query(p)
          \/ Delete(p)
          \/ Killed(p)
    \/ Upgrade

Spec == Init /\ [][Next]_vars

-----------------------------------------------------------------------------
(***************************************************************************)
(* Properties.                                                             *)
(***************************************************************************)

\* Distances are only meaningful between vectors of one model.  The check of
\* _store, once per adapter, keeps vectors and queries of other weights from a
\* collection, however it is deleted and created again under the processes that
\* have it open: unless the weights were replaced between the reading of their
\* fingerprint and their loading.
NeverMixed ==
    ~swapped =>
        /\ \A e \in stored : e.model = space
        /\ \A p \in Procs : At(p, "query") /\ Usable(p) => proc[p].weights = space

\* As long as no add upserted a case whose checks another upsert had crossed,
\* the index holds one case per family and at most max_cases, also after adds
\* that were killed or refused half way.
OneCasePerFamily ==
    ~overlap =>
        /\ Cardinality(stored) <= MaxCases
        /\ \A e, f \in stored : e.case.family = f.case.family => e = f

\* Only clear, which leaves another collection, and an add that another one
\* crossed between the first read for its case and its upsert take a case away.
\* Whatever earlier overlaps left, every other add replaces nothing.
AddNeverReplaces ==
    [][uid' = uid /\ present' /\ ~(stored \subseteq stored') =>
          \E p \in Procs : At(p, "upsert") /\ p \in crossed]_vars

\* A search returns at most k neighbours, of different families, none of
\* the email's own groups: also when two adds that overlapped left two cases
\* of a family in the index, or more of them than max_cases.
NeighboursAreDistinct ==
    \A p \in Procs :
        /\ Cardinality(proc[p].found) <= K
        /\ \A c, d \in proc[p].found : c.family = d.family => c = d
        /\ \A c \in proc[p].found : c.family \notin proc[p].exclusions

ForAnother(p) ==
    \/ StoredCases \ Range(proc[p].source) # {}
    \/ Len(proc[p].source) > MaxCases

\* What a killed add left behind never blocks the replay of its source: an add
\* that no other one crossed is refused for the sake of a case that its source
\* does not hold, or because the source alone is more than the index may hold.
RefusedForAnother ==
    [][\A p \in Procs :
          ~At(p, "idle") /\ proc'[p].outcome = "refused_index" =>
              ForAnother(p) \/ p \in crossed]_vars

-----------------------------------------------------------------------------
(***************************************************************************)
(* What the documents say, which the code does not do.                     *)
(***************************************************************************)

\* The message of RagModelError: "never mixed".
VectorsAreOfTheSpace == \A e \in stored : e.model = space

\* The message of RagIndexError: "idempotent add only replays identical cases".
\* An add that overlaps another one replaces a case by one of other content.
AddOnlyReplays == [][uid' = uid /\ present' => stored \subseteq stored']_vars

\* The docstring of add: "identical re-adds are skipped".  One that overlaps an
\* add of the same case is refused because of that case.
ReaddsAreSkipped ==
    [][\A p \in Procs :
          ~At(p, "idle") /\ proc'[p].outcome = "refused_index" => ForAnother(p)]_vars

\* docs/corpus.md 7.6 and the message of RagModelError: an index of another
\* model is refused, and rebuilt by clear and add.  clear is refused as well.
ClearIsTheCure ==
    \A p \in Procs : proc[p].cmd = "clear" => proc[p].outcome # "refused_model"
=============================================================================
