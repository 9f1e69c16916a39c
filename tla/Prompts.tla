------------------------------ MODULE Prompts ------------------------------
(***************************************************************************)
(* src/prompts.py: the part of a mail and of its registries that is sent   *)
(* to the model, under one budget per section.  An entry of a registry     *)
(* costs one unit, a character of the body one unit.                       *)
(***************************************************************************)
EXTENDS Parsing

CONSTANTS body_chars, urls_observables_chars, evidence_chars, total_user_chars

ASSUME ContextLimitsAssumption ==
  /\ {body_chars, urls_observables_chars, evidence_chars, total_user_chars} \subseteq Nat
  /\ body_chars + urls_observables_chars + evidence_chars <= total_user_chars

Least(a, b) == IF a <= b THEN a ELSE b
Monus(a, b) == IF a >= b THEN a - b ELSE 0

(* _select_links, _select_evidence: whole entries, up to the first that     *)
(* does not fit.                                                            *)
SelectEntries(entries, budget) == SubSeq(entries, 1, Least(Len(entries), budget))

(* _select_parts: the last one is cut.                                      *)
SelectPart(kept, part) ==
  LET size == Least(part.size, kept.remaining)
  IN IF kept.remaining = 0
     THEN [kept EXCEPT !.truncated = @ \/ part.size > 0]
     ELSE [parts |-> Append(kept.parts, [part EXCEPT !.size = size]),
           remaining |-> kept.remaining - size,
           truncated |-> kept.truncated \/ part.size > kept.remaining]

SelectParts(parts, budget) ==
  LET kept[n \in 0 .. Len(parts)] ==
        IF n = 0 THEN [parts |-> <<>>, remaining |-> budget, truncated |-> FALSE]
        ELSE SelectPart(kept[n - 1], parts[n])
  IN kept[Len(parts)]

(* _select_observables: first those the kept evidence refers to, in the     *)
(* order of their hashes (`first` is the ones that come first), then the    *)
(* others as the budget lasts.                                              *)
Mandatory(evidence, known) ==
  {fact.observable : fact \in ToSet(evidence)} \cap ToSet(known)

FirstInHashOrder(evidence, known, budget) ==
  LET mandatory == Mandatory(evidence, known)
  IN {first \in SUBSET mandatory :
        Cardinality(first) = Least(Cardinality(mandatory), budget)}

SelectObservables(known, first, budget) ==
  Only(known, first)
    \o SelectEntries(Only(known, ToSet(known) \ first), Monus(budget, Cardinality(first)))

\* Faulty variant: evidence whose observable was left out is kept.
KeepEvidence(evidence, first) == evidence

(* Evidence about an observable that did not fit goes with it.              *)
DropDangling(evidence, first) ==
  Only(evidence, {fact \in ToSet(evidence) : fact.observable \in first \cup {NoObservable}})

\* Faulty variant: a cut of the text parts is forgotten when the HTML fits.
TruncationFlagsOfHtml(text, html, more) ==
  IF html.truncated THEN more \cup {"body_truncated"} ELSE more

TruncationFlags(text, html, more) ==
  IF text.truncated \/ html.truncated THEN more \cup {"body_truncated"} ELSE more

(* build_internal_envelope, and build_final_envelope for what concerns the  *)
(* mail: `mail` is the parsed mail with the registries to be sent.          *)
Envelope(mail, first, supplied) ==
  LET text == SelectParts(mail.texts, body_chars)
      html == SelectParts(mail.htmls, text.remaining)
      sent_links == SelectEntries(mail.links, urls_observables_chars)
      budget == Monus(urls_observables_chars, Len(sent_links))
      evidence == SelectEntries(mail.evidence, evidence_chars)
      observables == SelectObservables(mail.observables, first, budget)
      urls == Len(sent_links) < Len(mail.links)
                \/ Len(observables) < Len(mail.observables)
      cut == (IF urls THEN {"urls_truncated"} ELSE {})
               \cup (IF Len(evidence) < Len(mail.evidence)
                     THEN {"evidence_truncated"} ELSE {})
  IN [texts |-> text.parts, htmls |-> html.parts, links |-> sent_links,
      observables |-> observables,
      evidence |-> DropDangling(evidence, first),
      attachments |-> mail.attachments, images |-> mail.images,
      defects |-> mail.defects,
      content_limits |-> mail.content_limits \cup TruncationFlags(text, html, cut),
      SUPPLIED_VISUAL_IDS |-> [i \in 1 .. Len(supplied) |-> supplied[i].visual]]

(* What the selection of the mandatory observables may come first to.       *)
Firsts(mail) ==
  FirstInHashOrder(SelectEntries(mail.evidence, evidence_chars), mail.observables,
                   Monus(urls_observables_chars,
                         Least(Len(mail.links), urls_observables_chars)))

Sizes(parts) == [i \in 1 .. Len(parts) |-> parts[i].size]

(* The length of the whole: attachments, images and defects have no budget. *)
UserChars(envelope) ==
  Total(Sizes(envelope.texts)) + Total(Sizes(envelope.htmls)) + Len(envelope.links)
    + Len(envelope.observables) + Len(envelope.evidence)
    + Len(envelope.attachments) + Len(envelope.images)
    + Cardinality(envelope.defects)
=============================================================================
