----------------------------- MODULE MCRagIndex -----------------------------
(***************************************************************************)
(* Two processes and an index with room for two cases.  The sources hold a *)
(* case, the same identifier with another content and family, another case *)
(* of its family and a case of another family; one holds more cases than   *)
(* the index: every reason to skip or to refuse.                           *)
(***************************************************************************)
EXTENDS RagIndex

CONSTANTS p, q, F, G, H, Gold, onnx1, onnx2

Case(id, family, text, rank) == [id |-> id, family |-> family, text |-> text, rank |-> rank]

first   == Case(1, F, "as published", 1)
changed == Case(1, H, "changed", 2)
sibling == Case(2, F, "as published", 3)
other   == Case(3, G, "as published", 4)
gold    == Case(4, Gold, "as published", 5)
third   == Case(5, H, "as published", 6)

MCProcs      == {p, q}
MCCases      == {first, changed, sibling, other, gold, third}
MCSources    == {<<first, other>>, <<changed>>, <<sibling>>, <<first, sibling>>,
                 <<gold>>, <<first, other, third>>}
MCExclusions == {{}, {F}}
MCProtected  == {Gold}
MCModels     == {onnx1, onnx2}

\* The properties are about steps and states, and tell neither the processes nor
\* the models apart.
Alike == Permutations(MCProcs) \cup Permutations(MCModels)
=============================================================================
