\* Two tabs start from one image, whose analysis may fail and be tried again, or
\* break and find one of two results; or two images are uploaded by a browser
\* without a cookie.
CONSTANTS
  patient = patient
  Clients = {patient, c2}
  cafe = cafe
  bar = bar
  street = street
  cups = cups
  Words = {cafe, bar, street, cups}
  Columns = {"scene", "anchors"}
  Required = {"scene"}
  Results <- CafeAndBar
  OldResult <- Street
  NoWord = NoWord
  CacheEnabled = TRUE
  AsyncEnabled = TRUE
  MayFail = TRUE
  MayBreak = TRUE
  Restarts <- OneRestart
  Retries <- OneRetry
  Uploads = {u1, u2}
  MaxBody = 3
  MaxFile = 1
SPECIFICATION PartSpec
INVARIANTS SceneInv CreatedFromResult MediaInv
PROPERTIES PendingEnds
