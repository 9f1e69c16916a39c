------------------------------ MODULE MCLookups ------------------------------
(* Two contexts of up to two lookups, two DNS types, an email of four ticks *)
(* and sources of one or two: a second hop, a second type, a source and a   *)
(* context can each find their budget spent, and an answer be one tick late.*)
EXTENDS Lookups
MCSettings ==
  LET all == [key |-> TRUE, consent |-> TRUE, urls |-> TRUE, transport |-> TRUE]
  IN {all} \cup {[all EXCEPT ![f] = FALSE] : f \in DOMAIN all}
MCPhases == [virustotal |-> 2, opencti |-> 2, osint |-> 3]
MCSources == [virustotal |-> 2, opencti |-> 2, threatfox |-> 1, rdap |-> 2, dns |-> 2, ct |-> 1]
=============================================================================
