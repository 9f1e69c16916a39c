--------------------------- MODULE MCUrlscanScan ---------------------------
(***************************************************************************)
(* Two runs with one URL each: the second may start while the submission   *)
(* of the first is still on its way.  Four ticks of budget leave room for  *)
(* the first wait and two polls; the email deadline falls before, within   *)
(* and after them.                                                         *)
(***************************************************************************)
EXTENDS UrlscanScan
=============================================================================
