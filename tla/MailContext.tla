---------------------------- MODULE MailContext ----------------------------
(***************************************************************************)
(* From the bytes of a mail to the message sent to the model: the walk of  *)
(* src/parsing.py, the images of src/vision.py (the agentic runner with    *)
(* context; the pipeline and the other profiles leave them alone) and the  *)
(* envelope of src/prompts.py; and the targets of VirusTotal, planned from *)
(* the same registries.                                                    *)
(***************************************************************************)
EXTENDS Vision, Prompts

CONSTANT max_targets   \* tools.virustotal.max_targets

ASSUME TargetsAssumption == max_targets \in Nat

VARIABLES
  stage,      \* "walk", "parsed", "prepared", "sent" or "refused"
  switches,   \* the switches the images were prepared under
  prepared,   \* VisionPreparation
  envelope,   \* what is sent
  targets     \* plan_vt_targets

mailVars == <<document, open, walk, unread, stage, switches, prepared, envelope, targets>>

NoEnvelope == [content_limits |-> {}, evidence |-> <<>>, observables |-> <<>>,
               SUPPLIED_VISUAL_IDS |-> <<>>]

-----------------------------------------------------------------------------
(* The registries that are sent: those of the parser, and after them those  *)
(* of the QR codes.                                                         *)

Images == [i \in 1 .. Len(walk.images) |-> Visual(walk.images[i], walk.images[i].status, FALSE)]
ParsedObservables == BuildObservables(walk.links, walk.attachments)

Augmented ==
  LET qr == QrLinks(prepared.visuals)
  IN [texts |-> walk.texts, htmls |-> walk.htmls, links |-> walk.links \o qr,
      attachments |-> walk.attachments, images |-> prepared.visuals,
      defects |-> walk.defects, content_limits |-> walk.limits_hit,
      observables |-> ParsedObservables \o UrlsOf(qr),
      evidence |-> BuildEvidence(walk.links, walk.attachments, walk.images,
                                 ParsedObservables) \o QrEvidence(qr)]

(* plan_vt_targets: files, then URLs whose link shows another host, then    *)
(* the other URLs that can be followed, in the order of the registry.       *)
Eligible(links) ==
  {l \in ToSet(links) : l.role \in {"href", "visible_url", "form_action", "qr_url"}}
RefsOf(some) == {LinkRef(l) : l \in some}

Bucket(links, observable) ==
  LET refs == RefsOf(Eligible(links))
      mismatched == RefsOf({l \in Eligible(links) : l.mismatch})
  IN CASE observable.value[1] = "sha256" -> 0
       [] observable.ref \in mismatched -> 1
       [] observable.ref \in refs \ mismatched -> 2
       [] OTHER -> 99

\* Faulty variant: the targets are taken in the order of the registry.
RankedAsRegistered(links, known) ==
  Only(known, {o \in ToSet(known) : Bucket(links, o) # 99})

Ranked(links, known) ==
  LET bucket(rank) == Only(known, {o \in ToSet(known) : Bucket(links, o) = rank})
  IN bucket(0) \o bucket(1) \o bucket(2)

plan_vt_targets(links, known) ==
  LET ranked == Ranked(links, known)
  IN SubSeq(ranked, 1, Least(Len(ranked), max_targets))

-----------------------------------------------------------------------------
InitMail ==
  /\ ParseInit
  /\ stage = "walk"
  /\ switches = Off
  /\ prepared = NotPrepared
  /\ envelope = NoEnvelope
  /\ targets = <<>>

Walk ==
  /\ stage = "walk"
  /\ (\E part \in Parts : WalkPart(part)) \/ LeaveContainer
  /\ UNCHANGED <<stage, switches, prepared, envelope, targets>>

Parsed ==
  /\ stage = "walk"
  /\ EndOfWalk
  /\ stage' = "parsed"
  /\ targets' = plan_vt_targets(walk.links, ParsedObservables)
  /\ UNCHANGED <<switches, prepared, envelope>>

(* The pipeline, and the profiles without context: no image is prepared.    *)
LeaveVisuals ==
  /\ stage = "parsed"
  /\ prepared' = [NotPrepared EXCEPT !.visuals = Images]
  /\ stage' = "prepared"
  /\ UNCHANGED <<document, open, walk, unread, switches, envelope, targets>>

(* _vision_preprocess, on a second reading of the file: what it holds by    *)
(* then is used when one of the switches is on.                             *)
PrepareVisuals ==
  /\ stage = "parsed"
  /\ walk.images # <<>>
  /\ \E on \in Switches : \E found \in [1 .. Len(walk.images) -> Contents(on)] :
       /\ prepared' = prepare_visual_bundle(walk.images, found, on)
       /\ switches' = on
  /\ stage' = "prepared"
  /\ UNCHANGED <<document, open, walk, unread, envelope, targets>>

(* The file is gone by then: the run dies with it.                          *)
FileGone ==
  /\ stage = "parsed"
  /\ stage' = "refused"
  /\ UNCHANGED <<document, open, walk, unread, switches, prepared, envelope, targets>>

(* The messages are built; a payload over the total raises before any call. *)
Send ==
  /\ stage = "prepared"
  /\ \E first \in Firsts(Augmented) :
       LET built == Envelope(Augmented, first, prepared.staged)
       IN IF UserChars(built) > total_user_chars
          THEN stage' = "refused" /\ UNCHANGED envelope
          ELSE stage' = "sent" /\ envelope' = built
  /\ UNCHANGED <<document, open, walk, unread, switches, prepared, targets>>

NextMail == Walk \/ Parsed \/ LeaveVisuals \/ PrepareVisuals \/ FileGone \/ Send

MailSpec == InitMail /\ [][NextMail]_mailVars

-----------------------------------------------------------------------------
(* The model is given what was decoded of the part: the text to its last    *)
(* character (an empty one may be left out), each link and each fact about  *)
(* it, the hash of each file.                                               *)
Whole(shown, id, part) == part.size = 0 \/ Contains(shown, TextOf(id, part))

Shown(id, part) ==
  LET found == LinksOf(id, part)
      linked == \A i \in 1 .. Len(found) :
                  /\ Contains(envelope.links, found[i])
                  /\ Contains(envelope.evidence,
                              Fact("url_found", LinkRef(found[i]), NoObservable))
  IN CASE part.kind = "text" -> linked /\ Whole(envelope.texts, id, part)
       [] part.kind = "html" -> linked /\ Whole(envelope.htmls, id, part)
       [] part.kind = "attachment" ->
            \E i \in 1 .. Len(envelope.attachments) :
              LET a == envelope.attachments[i]
              IN /\ a.part = id /\ a.status = "ok"
                 /\ \E k \in 1 .. Len(envelope.observables) :
                      envelope.observables[k].value = <<"sha256", part.size>>
       [] part.kind = "image" ->
            \E i \in 1 .. Len(envelope.images) :
              envelope.images[i].image = Pictured(id, 0, part, part.size, "metadata_only")
       [] OTHER -> part.kind \in {"multipart", "rfc822"}

Noted(id) == \E defect \in walk.defects : defect[1] = id

(* NothingIsLostInSilence: when the message announces no limit, the walk    *)
(* has read the whole tree, and each of its parts has a defect to its name  *)
(* or is shown, with everything that was decoded of it; and what the        *)
(* decoding dropped was of such a part, or of a text or an image in broken  *)
(* base64, which the parser does not look for.  (What is announced sends    *)
(* the mail the complex way, by R3 of the gate.)                            *)
NothingIsLostInSilence ==
  stage = "sent" /\ envelope.content_limits = {} =>
    /\ ~unread
    /\ \A id \in 1 .. Len(document) :
         /\ Noted(id) \/ Shown(id, document[id])
         /\ document[id].lost # 0 =>
              Noted(id) \/ document[id].kind \in {"text", "html", "image"}

Hashes(parts) == [i \in 1 .. Len(parts) |-> parts[i].sha256]

Vouched(w) == Sizes(w.texts) \o Sizes(w.htmls) \o Hashes(w.attachments) \o Hashes(w.images)
VouchedTotal(w) ==
  Total(Sizes(w.texts)) + Total(Sizes(w.htmls))
    + Total(Hashes(w.attachments)) + Total(Hashes(w.images))

(* ContentIsWithinLimits: what the parser vouches for (a text it keeps, a   *)
(* hash it states) is within the limit of a part, and all of it together    *)
(* within the limit of the mail, whatever was charged for what it refused.  *)
ContentIsWithinLimits ==
  /\ \A size \in ToSet(Vouched(walk)) : ~TooBig(size)
  /\ VouchedTotal(walk) <= max_decoded_bytes_total
  /\ Len(walk.attachments) <= max_attachments
  /\ walk.html_images <= MAX_HTML_EMBEDDED_IMAGES

SuppliedOf(visuals) == {v \in ToSet(visuals) : v.status = "supplied_to_model"}

(* EnvelopeIsClosed: no fact that is sent is about an observable that is    *)
(* not; and the pixels that go with it are the bytes of images the parser   *)
(* accepted, within the limits of Vision, each shown as supplied, whatever  *)
(* became of the file since it was parsed.                                  *)
EnvelopeIsClosed ==
  /\ \A i \in 1 .. Len(envelope.evidence) :
       LET o == envelope.evidence[i].observable
       IN o = NoObservable \/ Contains(envelope.observables, o)
  /\ LET supplied == Only(prepared.visuals, SuppliedOf(prepared.visuals))
     IN /\ prepared.staged =
             [i \in 1 .. Len(supplied) |->
                [visual |-> ImageRef(supplied[i].image), bytes |-> supplied[i].image.sha256]]
        /\ \A i \in 1 .. Len(supplied) :
             /\ supplied[i].image.status = "metadata_only"
             /\ supplied[i].image.sha256 <= max_image_bytes
        /\ Len(supplied) <= max_images
        /\ Total([i \in 1 .. Len(supplied) |-> supplied[i].image.sha256]) <= max_total_bytes
        /\ (~switches.vision => supplied = <<>>)

(* FilesAreLookedUpFirst: the quota of VirusTotal goes to each content      *)
(* once, to no URL known only from a decorative resource, and to a URL only *)
(* when every file of the mail has its lookup.                              *)
FilesAreLookedUpFirst ==
  stage # "walk" =>
    LET planned == {targets[i].value : i \in 1 .. Len(targets)}
        files == {<<"sha256", a.sha256>> : a \in {walk.attachments[i] :
                    i \in {j \in 1 .. Len(walk.attachments) :
                             walk.attachments[j].status = "ok"}}}
        urls == {v \in planned : v[1] = "url"}
    IN /\ Cardinality(planned) = Len(targets)
       /\ \A v \in urls : \E i \in 1 .. Len(walk.links) :
            walk.links[i].url = v[2] /\ walk.links[i].role # "remote_resource"
       /\ (files \subseteq planned \/ urls = {})
       /\ \A v \in files : v \in planned \/ Len(targets) = max_targets

(* The docstring of _decode_text_part, src/parsing.py: "Charset and Base64/ *)
(* quoted-printable errors become defects, never exceptions."  What is left *)
(* of a text in broken base64 is kept with no defect at all.                *)
BrokenTransferIsADefect ==
  stage = "parsed" =>
    \A i \in 1 .. Len(walk.texts) :
      LET id == walk.texts[i].part
      IN document[id].lost # 0 => walk.texts[i].decode_defect \/ Noted(id)
=============================================================================
