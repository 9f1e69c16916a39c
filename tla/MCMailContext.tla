--------------------------- MODULE MCMailContext ---------------------------
EXTENDS MailContext

Href(u) == [role |-> "href", url |-> u, mismatch |-> FALSE]
Disguised(u) == [role |-> "href", url |-> u, mismatch |-> TRUE]
Remote(u) == [role |-> "remote_resource", url |-> u, mismatch |-> FALSE]
Visible(u) == [role |-> "visible_url", url |-> u, mismatch |-> FALSE]
Qr(u) == [role |-> "qr_url", url |-> u, mismatch |-> FALSE]

MCLeaves ==
  {Leaf("attachment", 1, "no", <<>>, <<>>),
   Leaf("attachment", 2, "no", <<>>, <<>>),
   Leaf("attachment", 3, "no", <<>>, <<>>),
   Partial(Leaf("attachment", 1, "no", <<>>, <<>>), 1),
   Leaf("image", 1, "no", <<Qr("u1")>>, <<>>),
   Leaf("image", 2, "no", <<>>, <<>>),
   Leaf("image", 3, "no", <<>>, <<>>),
   Partial(Leaf("image", 1, "no", <<>>, <<>>), 1),
   Leaf("text", 1, "no", <<Visible("u1")>>, <<>>),
   Leaf("text", 0, "no", <<>>, <<>>),
   Leaf("text", 2, "charset", <<>>, <<>>),
   Partial(Leaf("text", 1, "no", <<>>, <<>>), 1),
   Leaf("text", 3, "no", <<Visible("u2")>>, <<>>),
   Leaf("html", 1, "no", <<Remote("u1")>>, <<>>),
   Leaf("html", 2, "no", <<Disguised("u1"), Href("u2")>>, <<1>>),
   Leaf("html", 2, "no", <<>>, <<1, 0, 1>>),
   Leaf("html", 3, "no", <<Href("u2")>>, <<1>>),
   Leaf("other", 1, "no", <<>>, <<>>)}
=============================================================================
