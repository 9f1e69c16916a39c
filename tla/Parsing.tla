------------------------------ MODULE Parsing ------------------------------
(***************************************************************************)
(* The parser of src/parsing.py: the bounded walk of a MIME tree and the   *)
(* registries built from what it kept.  The mail is chosen while it is     *)
(* walked: an action gives the next part of the tree in document order, so *)
(* every tree over the given leaves is walked.  Bytes are abstracted to    *)
(* their number (the hash of a content is its size), a part to its kind,   *)
(* its size, its links and what is broken in it.                           *)
(***************************************************************************)
EXTENDS Naturals, Sequences, SequencesExt

CONSTANTS
  max_mime_parts, max_mime_depth, max_attachments,
  max_decoded_bytes_per_part, max_decoded_bytes_total,
  MAX_HTML_EMBEDDED_IMAGES,
  Leaves,         \* the leaf parts a mail may hold
  MaxDocument     \* bound: parts of the tree that are offered to the walk

(* The limits of tools.parsing are positive (config.py).                    *)
ASSUME ParseLimitsAssumption ==
  /\ {max_mime_parts, max_mime_depth, max_attachments,
      max_decoded_bytes_per_part, max_decoded_bytes_total,
      MAX_HTML_EMBEDDED_IMAGES} \subseteq Nat \ {0}
  /\ MaxDocument \in Nat

(* A leaf: `broken` is "no", "charset" (an unknown charset) or "transfer"   *)
(* (broken base64).  Its size, links and blobs are of what get_payload      *)
(* makes of it, and `lost` counts the bytes that get_payload drops then: it *)
(* skips the characters it does not know, and stops at a padding in the     *)
(* middle.  `links` are the links of a text or HTML part, or the QR         *)
(* payloads of an image; `blobs` are the decoded sizes of the data:image    *)
(* values of an HTML part, 0 when one does not decode.                      *)
Leaf(kind, size, broken, found, embedded) ==
  [kind |-> kind, size |-> size, broken |-> broken, lost |-> 0,
   links |-> found, blobs |-> embedded]
Partial(leaf, lost) == [leaf EXCEPT !.broken = "transfer", !.lost = lost]
Container(kind) == Leaf(kind, 0, "no", <<>>, <<>>)
Parts == Leaves \cup {Container("multipart"), Container("rfc822")}

ASSUME LeavesAssumption ==
  \A leaf \in Leaves :
    /\ leaf = [Leaf(leaf.kind, leaf.size, leaf.broken, leaf.links, leaf.blobs)
                 EXCEPT !.lost = leaf.lost]
    /\ leaf.lost \in Nat /\ (leaf.lost # 0 => leaf.broken = "transfer")
    /\ leaf.kind \in {"attachment", "image", "text", "html", "other"}
    /\ leaf.size \in Nat
    /\ leaf.links \in Seq(ToSet(leaf.links))
    /\ leaf.blobs \in Seq(Nat)

(* The elements of s that are in S, in their order; and a sum.              *)
Only(s, S) ==
  LET kept[n \in 0 .. Len(s)] ==
        IF n = 0 THEN <<>>
        ELSE IF s[n] \in S THEN Append(kept[n - 1], s[n]) ELSE kept[n - 1]
  IN kept[Len(s)]

Total(numbers) ==
  LET sum[n \in 0 .. Len(numbers)] ==
        IF n = 0 THEN 0 ELSE sum[n - 1] + numbers[n]
  IN sum[Len(numbers)]

NoWalk == [part_count |-> 0, decoded_total |-> 0, limits_hit |-> {},
           defects |-> {}, attachments |-> <<>>, images |-> <<>>,
           texts |-> <<>>, htmls |-> <<>>, links |-> <<>>,
           html_images |-> 0, aborted |-> FALSE]

VARIABLES
  document,   \* the parts offered to _walk so far, in document order
  open,       \* the containers being read: depth of the next child, and
              \* whether only one is read (an embedded message)
  walk,       \* _WalkState, with the parts and links it fills
  unread      \* the walk stopped with more of the mail behind it

parseVars == <<document, open, walk, unread>>

-----------------------------------------------------------------------------
(* The charges of _count_decoded and the limits.                            *)

TooBig(size) == size > max_decoded_bytes_per_part

Hit(w, limit) == [w EXCEPT !.limits_hit = @ \cup {limit}]
Abort(w, limit) == [Hit(w, limit) EXCEPT !.aborted = TRUE]
Defect(w, id, what) == [w EXCEPT !.defects = @ \cup {<<id, what>>}]

\* Faulty variant: the part that exceeds the total is the last one, the walk goes on.
CountWithoutStop(w, size) ==
  LET charged == [w EXCEPT !.decoded_total = @ + size]
  IN IF charged.decoded_total > max_decoded_bytes_total
     THEN Hit(charged, "max_decoded_bytes_total")
     ELSE charged

CountDecoded(w, size) ==
  LET charged == [w EXCEPT !.decoded_total = @ + size]
  IN IF charged.decoded_total > max_decoded_bytes_total
     THEN Abort(charged, "max_decoded_bytes_total")
     ELSE charged

\* Faulty variant: the limit of a part is not announced.
ChargeSilently(w, id, size) == CountDecoded(w, size)

(* A text, a MIME image and an embedded image are charged to the total even *)
(* when they are over the limit of a part; an attachment is not.            *)
Charge(w, id, size) ==
  CountDecoded(IF TooBig(size)
               THEN Defect(Hit(w, "max_decoded_bytes_per_part"), id, "over_limit")
               ELSE w, size)

-----------------------------------------------------------------------------
(* The handlers of the leaves: each returns the new walk state.             *)

Attached(id, part, status) ==
  [part |-> id, status |-> status,
   sha256 |-> IF status = "ok" THEN part.size ELSE 0]

(* _build_attachment, then the limit on their number: it is announced when  *)
(* the last admitted attachment is read, more parts or not.                 *)
WalkAttachment(w, id, part) ==
  LET big == TooBig(part.size)
      built == CASE part.broken = "transfer" -> Defect(w, id, "broken_transfer")
                 [] part.broken # "transfer" /\ big ->
                      Defect(Hit(w, "max_decoded_bytes_per_part"), id, "over_limit")
                 [] OTHER -> CountDecoded(w, part.size)
      status == CASE part.broken = "transfer" -> "error"
                  [] part.broken # "transfer" /\ (big \/ built.aborted) -> "over_limit"
                  [] OTHER -> "ok"
      kept == [built EXCEPT !.attachments = Append(@, Attached(id, part, status))]
  IN IF Len(kept.attachments) >= max_attachments
     THEN Abort(kept, "max_attachments")
     ELSE kept

(* _image_metadata, also of an embedded image: what is left of broken       *)
(* base64 is hashed with no defect, unlike an attachment's.                 *)
Pictured(id, index, part, size, status) ==
  [part |-> id, index |-> index, status |-> status, links |-> part.links,
   sha256 |-> IF status = "metadata_only" THEN size ELSE 0]

\* Faulty variant: only the limit of a part refuses an image.
ImageStatusOfThePart(w, size) ==
  IF TooBig(size) THEN "over_limit" ELSE "metadata_only"

ImageStatus(w, size) ==
  IF TooBig(size) \/ w.aborted THEN "over_limit" ELSE "metadata_only"

Refuse(w, id) == IF w.aborted THEN Defect(w, id, "not_accepted") ELSE w

WalkImage(w, id, part) ==
  LET charged == Refuse(Charge(w, id, part.size), id)
  IN [charged EXCEPT !.images = Append(@,
        Pictured(id, 0, part, part.size, ImageStatus(charged, part.size)))]

(* _extract_html_embedded_images: in document order, and on even when one   *)
(* of them exceeds the total.  The number of the images bounds them over    *)
(* the whole mail; further ones leave the text and are not decoded.         *)
Embedded(w, id, part, size) ==
  LET index == w.html_images + 1
      charged == Refuse(Charge(w, id, size), id)
      done == IF size = 0 THEN Defect(w, id, "undecodable_image") ELSE charged
      status == IF size = 0 THEN "unavailable" ELSE ImageStatus(charged, size)
  IN IF w.html_images >= MAX_HTML_EMBEDDED_IMAGES
     THEN Hit(w, "max_html_embedded_images")
     ELSE [done EXCEPT !.html_images = index,
                       !.images = Append(@, Pictured(id, index,
                                    [part EXCEPT !.links = <<>>], size, status))]

EmbeddedImages(w, id, part) ==
  LET read[n \in 0 .. Len(part.blobs)] ==
        IF n = 0 THEN w ELSE Embedded(read[n - 1], id, part, part.blobs[n])
  IN read[Len(part.blobs)]

LinkOf(id, link) == [part |-> id, role |-> link.role, url |-> link.url,
                     mismatch |-> link.mismatch]
LinksOf(id, part) == [i \in 1 .. Len(part.links) |-> LinkOf(id, part.links[i])]

(* A broken charset is decoded with replacement and noted on the part; what  *)
(* is left of broken base64 is kept with no defect: get_payload leaves its   *)
(* own on the message, where nobody looks for it.                            *)
TextOf(id, part) ==
  [part |-> id, size |-> part.size, decode_defect |-> part.broken = "charset"]

WalkText(w, id, part) ==
  LET charged == Charge(w, id, part.size)
      over == TooBig(part.size) \/ charged.aborted
      kept == IF part.kind = "html" THEN EmbeddedImages(charged, id, part) ELSE charged
      found == [kept EXCEPT !.links = @ \o LinksOf(id, part)]
  IN CASE over -> Defect(charged, id, "over_limit")
       [] ~over /\ part.kind = "text" ->
            [found EXCEPT !.texts = Append(@, TextOf(id, part))]
       [] OTHER -> [found EXCEPT !.htmls = Append(@, TextOf(id, part))]

WalkLeaf(w, id, part) ==
  CASE part.kind = "attachment" -> WalkAttachment(w, id, part)
    [] part.kind = "image" -> WalkImage(w, id, part)
    [] part.kind \in {"text", "html"} -> WalkText(w, id, part)
    [] part.kind = "rfc822" -> Defect(w, id, "embedded_message")
    [] part.kind = "multipart" -> w
    [] OTHER -> Defect(w, id, "unhandled_leaf")

-----------------------------------------------------------------------------
(* _walk, one part at a time.                                               *)

ParseInit ==
  /\ document = <<>>
  /\ open = <<[depth |-> 1, single |-> TRUE]>>
  /\ walk = NoWalk
  /\ unread = FALSE

Walking == ~walk.aborted /\ open # <<>>

Counted(w) == [w EXCEPT !.part_count = @ + 1]

(* The next part of the container that is being read.                       *)
WalkPart(part) ==
  LET top == Last(open)
      rest == IF top.single THEN Front(open) ELSE open
      deeper == [depth |-> top.depth + 1, single |-> part.kind = "rfc822"]
      id == walk.part_count + 1
  IN /\ Walking
     /\ Len(document) < MaxDocument
     /\ document' = Append(document, part)
     /\ open' = IF part.kind \in {"multipart", "rfc822"} THEN Append(rest, deeper) ELSE rest
     /\ walk' = CASE top.depth > max_mime_depth -> Abort(walk, "max_mime_depth")
                  [] top.depth <= max_mime_depth /\ id > max_mime_parts ->
                       Abort(Counted(walk), "max_mime_parts")
                  [] OTHER -> WalkLeaf(Counted(walk), id, part)
     /\ UNCHANGED unread

(* A container has no further part.                                         *)
LeaveContainer ==
  /\ Walking
  /\ document # <<>>
  /\ open' = Front(open)
  /\ UNCHANGED <<document, walk, unread>>

(* The walk returns to parse_bytes: at the end of the tree, or at the first *)
(* limit that stops it, with whatever is left of the open containers.       *)
EndOfWalk ==
  /\ ~Walking
  /\ unread' \in (IF open = <<>> THEN {FALSE} ELSE BOOLEAN)
  /\ UNCHANGED <<document, open, walk>>

-----------------------------------------------------------------------------
(* The registries of _build_observables and _build_evidence.  An observable *)
(* is known by its type and value and keeps the place it was first found    *)
(* at; a link is its own reference.                                         *)

LinkRef(link) == <<"link", link.part, link.role, link.url, link.mismatch>>
FileRef(attachment) == <<"file", attachment.part>>
ImageRef(image) == <<"image", image.part, image.index>>

\* Faulty variant: an observable is registered as often as it is found.
AddEachTime(known, new) == Append(known, new)

AddObservable(known, new) ==
  IF \E i \in 1 .. Len(known) : known[i].value = new.value
  THEN known
  ELSE Append(known, new)

UrlObservable(link) == [value |-> <<"url", link.url>>, ref |-> LinkRef(link)]
FileObservable(att) == [value |-> <<"sha256", att.sha256>>, ref |-> FileRef(att)]

Hashed(attachments) == Only(attachments, {a \in ToSet(attachments) : a.status = "ok"})

Registry(found) ==
  LET known[n \in 0 .. Len(found)] ==
        IF n = 0 THEN <<>> ELSE AddObservable(known[n - 1], found[n])
  IN known[Len(found)]

UrlsOf(links) == [i \in 1 .. Len(links) |-> UrlObservable(links[i])]
FilesOf(hashed) == [i \in 1 .. Len(hashed) |-> FileObservable(hashed[i])]

BuildObservables(links, attachments) ==
  Registry(UrlsOf(links) \o FilesOf(Hashed(attachments)))

(* The id of an observable hashes its type, its value and its reference.    *)
NoObservable == [value |-> <<"none">>, ref |-> <<"none">>]
ObservableOf(known, value) ==
  LET same == {o \in ToSet(known) : o.value = value}
  IN IF same = {} THEN NoObservable ELSE CHOOSE o \in same : TRUE

Fact(predicate, ref, observable) ==
  [predicate |-> predicate, ref |-> ref, observable |-> observable]

BuildEvidence(links, attachments, images, known) ==
  LET hashed == Hashed(attachments)
  IN [i \in 1 .. Len(links) |-> Fact("url_found", LinkRef(links[i]), NoObservable)]
     \o [i \in 1 .. Len(hashed) |->
           Fact("attachment_hash", FileRef(hashed[i]),
                ObservableOf(known, FileObservable(hashed[i]).value))]
     \o [i \in 1 .. Len(images) |-> Fact("image_present", ImageRef(images[i]), NoObservable)]
=============================================================================
