------------------------------- MODULE Vision -------------------------------
(***************************************************************************)
(* src/vision.py: which images of a parsed mail are given to the model as  *)
(* pixels, which are read for QR codes, and what the payloads become.      *)
(* Neither switch needs the other, and either library may be absent.       *)
(***************************************************************************)
EXTENDS Parsing

CONSTANTS max_images, max_image_bytes, max_total_bytes   \* tools.vision

ASSUME VisionAssumption == {max_images, max_image_bytes, max_total_bytes} \subseteq Nat

(* MODEL_SUPPORTS_VISION, QR_DECODE_ENABLED, and the two optional libraries. *)
Switches == [vision : BOOLEAN, qr : BOOLEAN, pillow : BOOLEAN, zxing : BOOLEAN]
Off == [vision |-> FALSE, qr |-> FALSE, pillow |-> FALSE, zxing |-> FALSE]

(* What the bytes of an image turn out to be: a PNG or JPEG, of too many    *)
(* pixels, of another format, or no image at all.                           *)
Probes == {"image", "too_large", "other_format", "corrupt"}

Processed(on) == (on.vision \/ on.qr) /\ on.pillow

(* extract_image_parts walks the file anew, read a second time: at the      *)
(* place of an image it finds what the file now holds, within the limit of  *)
(* a part, or nothing.  An image of a declared type that is not read has no *)
(* use for it.  Bytes are known by their number, as in Parsing.             *)
NoBytes(why) == [probe |-> why, size |-> 0]
Contents(on) ==
  {NoBytes("missing"), NoBytes("undeclared")}
    \cup (IF Processed(on)
          THEN [probe : Probes, size : 1 .. max_decoded_bytes_per_part] ELSE {})

NotPrepared == [visuals |-> <<>>, staged |-> <<>>, staged_total |-> 0, accepted |-> 0]

(* The reasons of prepare_visual_bundle, in the order it looks for them.    *)
Reasons(prep, image, data, on) ==
  << <<image.status \in {"unavailable", "over_limit"}, image.status>>,
     <<data.probe = "undeclared", "unsupported">>,
     <<~Processed(on), image.status>>,
     <<data.probe = "missing", "unavailable">>,
     <<data.size > max_image_bytes, "over_limit">>,
     <<prep.staged_total + data.size > max_total_bytes, "over_limit">>,
     <<data.probe = "corrupt", "unavailable">>,
     <<data.probe = "other_format", "unsupported">>,
     <<data.probe = "too_large", "over_limit">> >>

Refusals(prep, image, data, on) ==
  {k \in 1 .. 9 : Reasons(prep, image, data, on)[k][1]}

\* Faulty variant: the bytes are taken for those of the image.
TakenForTheImage(data, image) == TRUE

(* derived_sha256: the bytes are those the parser hashed.                   *)
SameBytes(data, image) == data.size = image.sha256

Visual(image, status, decoded) ==
  [image |-> image, status |-> status, qr |-> IF decoded THEN image.links ELSE <<>>]

(* StagedVisual: the image it is said to be, and the bytes that are sent.   *)
Staged(image, data) == [visual |-> ImageRef(image), bytes |-> data.size]

Keep(prep, visual) == [prep EXCEPT !.visuals = Append(@, visual)]

(* One image.  The total counts staged pixels only: with QR alone it stays  *)
(* at zero and bounds nothing.  The hash comes last: bytes that are not the *)
(* image's have taken a place by then.                                      *)
PrepareVisual(prep, image, data, on) ==
  LET refusals == Refusals(prep, image, data, on)
      refused == Reasons(prep, image, data, on)[Min(refusals)][2]
      next == [prep EXCEPT !.accepted = @ + 1]
      decoded == on.qr /\ on.zxing
  IN CASE refusals # {} -> Keep(prep, Visual(image, refused, FALSE))
       [] refusals = {} /\ next.accepted > max_images ->
            Keep(next, Visual(image, "over_limit", FALSE))
       [] refusals = {} /\ next.accepted <= max_images /\ ~SameBytes(data, image) ->
            Keep(next, Visual(image, "unavailable", FALSE))
       [] /\ refusals = {} /\ next.accepted <= max_images
          /\ SameBytes(data, image) /\ ~on.vision ->
            Keep(next, Visual(image, image.status, decoded))
       [] OTHER ->
            [Keep(next, Visual(image, "supplied_to_model", decoded)) EXCEPT
               !.staged = Append(@, Staged(image, data)),
               !.staged_total = @ + data.size]

prepare_visual_bundle(images, found, on) ==
  LET prep[n \in 0 .. Len(images)] ==
        IF n = 0 THEN NotPrepared
        ELSE PrepareVisual(prep[n - 1], images[n], found[n], on)
  IN prep[Len(images)]

-----------------------------------------------------------------------------
(* qr_contract: every payload that is a URL becomes a link, an observable   *)
(* of its own (whatever the parser already knows of that URL) and facts.    *)

QrLinks(visuals) ==
  FlattenSeq([i \in 1 .. Len(visuals) |->
    [k \in 1 .. Len(visuals[i].qr) |-> LinkOf(visuals[i].image.part, visuals[i].qr[k])]])

QrEvidence(links) ==
  FlattenSeq([i \in 1 .. Len(links) |->
    <<Fact("qr_payload", <<"qr", links[i].part, links[i].url>>, NoObservable),
      Fact("url_found", LinkRef(links[i]), UrlObservable(links[i]))>>])
=============================================================================
