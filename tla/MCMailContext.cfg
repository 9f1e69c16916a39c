SPECIFICATION MailSpec
CONSTANTS
  max_mime_parts = 3
  max_mime_depth = 3
  max_attachments = 2
  max_decoded_bytes_per_part = 2
  max_decoded_bytes_total = 4
  MAX_HTML_EMBEDDED_IMAGES = 2
  Leaves <- MCLeaves
  MaxDocument = 4
  max_images = 2
  max_image_bytes = 2
  max_total_bytes = 2
  body_chars = 2
  urls_observables_chars = 2
  evidence_chars = 3
  total_user_chars = 9
  max_targets = 2
INVARIANTS NothingIsLostInSilence ContentIsWithinLimits EnvelopeIsClosed FilesAreLookedUpFirst
CHECK_DEADLOCK FALSE
