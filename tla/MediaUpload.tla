----------------------------- MODULE MediaUpload -----------------------------
(***************************************************************************)
(* Uploading an image, from the browser's request to the row of the media: *)
(*                                                                         *)
(*   the gate on the size of a body   src/api/common/middleware.py         *)
(*   who the caller is                src/api/common/deps.py               *)
(*   the route and its service        src/api/routes/v1/media.py,          *)
(*                                    src/api/services/media_service.py    *)
(*   the object and its row           src/api/integrations/storage/r2.py,  *)
(*                                    src/api/db/media_db.py               *)
(*                                                                         *)
(* Object storage and database know nothing of each other, any step of an  *)
(* upload may be its last, and an anonymous browser becomes somebody only  *)
(* by the cookie that an answer brings.  Sizes are in blocks.              *)
(***************************************************************************)
EXTENDS Naturals

CONSTANTS
  Uploads,   \* uploads of one browser
  MaxBody,   \* max_request_body_bytes
  MaxFile    \* max_file_size

ASSUME UploadAssumption ==
  MaxFile \in Nat \ {0} /\ MaxBody \in Nat /\ MaxFile < MaxBody

(* The multipart framing takes a block of the body.                        *)
Framing == 1
BodySizes == Framing..(MaxBody + 1)
Images == {"good", "unsupported", "bad signature"}

VARIABLES
  jar,       \* the visitor in the browser's signed cookie, 0 without one
  visitors,  \* visitors made up so far
  objects,   \* what storage holds
  rows,      \* the media rows
  upload,    \* the uploads
  shown      \* media that the browser was told of

mediaVars == << jar, visitors, objects, rows, upload, shown >>

(* size, declared and image describe the request, `visitor' is the one it  *)
(* is made for and `fresh' says that it came without a cookie.  `total' is *)
(* what the gate has counted, `starts' how often the server has begun an   *)
(* answer to the request, and `status' what the browser takes it to be.    *)
Stages ==
  {"none", "sent", "cut", "parsed", "owned", "measured", "stored", "saved", "signed", "answered"}

UploadState ==
  [pc : Stages, size : Nat, declared : BOOLEAN, image : Images, visitor : Nat,
   fresh : BOOLEAN, total : Nat, starts : Nat, status : Nat]

NotSent ==
  [pc |-> "none", size |-> 0, declared |-> FALSE, image |-> "good",
   visitor |-> 0, fresh |-> FALSE, total |-> 0, starts |-> 0, status |-> 0]

MediaInit ==
  /\ jar = 0 /\ visitors = 0 /\ objects = {} /\ rows = {} /\ shown = {}
  /\ upload = [u \in Uploads |-> NotSent]

FileSize(u) == upload[u].size - Framing

UploadGoes(u, from, to) ==
  /\ upload[u].pc = from /\ upload' = [upload EXCEPT ![u].pc = to]

(* The server begins to answer, and the browser keeps the first it gets.   *)
Answers(u, status, pc) ==
  upload' = [upload EXCEPT ![u] =
    [@ EXCEPT !.pc = pc, !.starts = upload[u].starts + 1,
              !.status = IF upload[u].starts = 0 THEN status ELSE upload[u].status]]

(* ---- uploadMedia ------------------------------------------------------ *)

SendUpload(u) ==
  /\ upload[u].pc = "none"
  /\ \E size \in BodySizes, declared \in BOOLEAN, image \in Images :
       upload' = [upload EXCEPT ![u] =
         [@ EXCEPT !.pc = "sent", !.size = size, !.declared = declared,
                   !.image = image, !.visitor = jar]]
  /\ UNCHANGED << jar, visitors, objects, rows, shown >>

(* ---- BodySizeLimitMiddleware ------------------------------------------ *)

(* With a declared length nothing is read of a body that is too large, and *)
(* one within the limit is not counted.                                    *)
Declared(u) ==
  /\ upload[u].pc = "sent" /\ upload[u].declared
  /\ IF upload[u].size > MaxBody
       THEN Answers(u, 413, "answered")
       ELSE UploadGoes(u, "sent", "parsed")
  /\ UNCHANGED << jar, visitors, objects, rows, shown >>

(* counting_receive lets the block through.                                *)
WithinLimit(total) == total <= MaxBody

CountBlock(u) ==
  LET total == upload[u].total + 1
  IN /\ upload[u].pc = "sent" /\ ~upload[u].declared
     /\ upload[u].total < upload[u].size
     /\ IF WithinLimit(total)
          THEN upload' = [upload EXCEPT ![u].total = total]
          ELSE IF upload[u].starts = 0 THEN Answers(u, 413, "cut")
                                       ELSE UploadGoes(u, "sent", "cut")
     /\ UNCHANGED << jar, visitors, objects, rows, shown >>

(* The framework turns the exception that ended the body into an answer of *)
(* its own, which the gate no longer suppresses.                           *)
ParsingFails(u) ==
  /\ upload[u].pc = "cut"
  /\ Answers(u, 400, "answered")
  /\ UNCHANGED << jar, visitors, objects, rows, shown >>

BodyEnds(u) ==
  /\ ~upload[u].declared /\ upload[u].total = upload[u].size
  /\ UploadGoes(u, "sent", "parsed")
  /\ UNCHANGED << jar, visitors, objects, rows, shown >>

(* ---- get_resource_owner and the route --------------------------------- *)

(* A caller without a cookie is a visitor made up for this request.  The   *)
(* limiter may refuse it; RateLimits has when.                             *)
ResolveOwner(u) ==
  /\ upload[u].pc = "parsed"
  /\ \/ IF upload[u].visitor # 0
          THEN UploadGoes(u, "parsed", "owned") /\ UNCHANGED visitors
          ELSE /\ visitors' = visitors + 1
               /\ upload' = [upload EXCEPT ![u].pc = "owned", ![u].fresh = TRUE,
                                           ![u].visitor = visitors + 1]
     \/ Answers(u, 429, "answered") /\ UNCHANGED visitors
  /\ UNCHANGED << jar, objects, rows, shown >>

(* ---- MediaService.upload_media ---------------------------------------- *)

(* The type, the signature in the first block, which an empty file has     *)
(* not, and the size, in the order in which they are noticed.              *)
Verdict(image, size) ==
  CASE image = "unsupported" -> 415
    [] image = "bad signature" \/ (image = "good" /\ size = 0) -> 400
    [] image = "good" /\ size > MaxFile -> 413
    [] OTHER -> 0

Measure(u) ==
  /\ upload[u].pc = "owned"
  /\ LET verdict == Verdict(upload[u].image, FileSize(u))
     IN IF verdict = 0 THEN UploadGoes(u, "owned", "measured")
                       ELSE Answers(u, verdict, "answered")
  /\ UNCHANGED << jar, visitors, objects, rows, shown >>

(* The key holds the owner and the new media's id.                         *)
Media(u) == [id |-> u, owner |-> upload[u].visitor, size |-> FileSize(u)]

(* A slip: a failure of the storage is only logged.                        *)
StoreOrGoOn(u) ==
  /\ UploadGoes(u, "measured", "stored")
  /\ objects' \in {objects, objects \cup {Media(u)}}
  /\ UNCHANGED << jar, visitors, rows, shown >>

StoreObject(u) ==
  /\ UploadGoes(u, "measured", "stored")
  /\ objects' = objects \cup {Media(u)}
  /\ UNCHANGED << jar, visitors, rows, shown >>

(* Storage fails, also after it has taken the object: nobody removes it.   *)
StoringFails(u) ==
  /\ upload[u].pc = "measured" /\ Answers(u, 500, "answered")
  /\ objects' \in {objects, objects \cup {Media(u)}}
  /\ UNCHANGED << jar, visitors, rows, shown >>

SaveMedia(u) ==
  /\ UploadGoes(u, "stored", "saved")
  /\ rows' = rows \cup {Media(u)}
  /\ UNCHANGED << jar, visitors, objects, shown >>

(* The commit fails, or has happened and is not known to have.             *)
SavingFails(u) ==
  /\ upload[u].pc = "stored" /\ Answers(u, 500, "answered")
  /\ rows' \in {rows, rows \cup {Media(u)}}
  /\ UNCHANGED << jar, visitors, objects, shown >>

(* The preview address is signed and the answer goes out, with the cookie  *)
(* of a fresh visitor; or the signing fails and the saved row stays.       *)
Sign(u) ==
  /\ upload[u].pc = "saved"
  /\ UploadGoes(u, "saved", "signed") \/ Answers(u, 500, "answered")
  /\ UNCHANGED << jar, visitors, objects, rows, shown >>

(* The answer arrives, or is lost and the learner tries again.             *)
UploadArrives(u) ==
  /\ upload[u].pc = "signed"
  /\ \/ /\ Answers(u, 200, "answered")
        /\ jar' = IF upload[u].fresh THEN upload[u].visitor ELSE jar
        /\ shown' = shown \cup {u}
     \/ Answers(u, 0, "answered") /\ UNCHANGED << jar, shown >>
  /\ UNCHANGED << visitors, objects, rows >>

UploadStep(u) ==
  \/ SendUpload(u) \/ Declared(u) \/ CountBlock(u) \/ ParsingFails(u) \/ BodyEnds(u)
  \/ ResolveOwner(u) \/ Measure(u) \/ StoreObject(u) \/ StoringFails(u)
  \/ SaveMedia(u) \/ SavingFails(u) \/ Sign(u) \/ UploadArrives(u)

MediaNext == \E u \in Uploads : UploadStep(u)

MediaSpec == MediaInit /\ [][MediaNext]_mediaVars

(* ---- get_media, get_media_access_url, the scene analysis' status ------ *)

(* Found by its owner; for everybody else there is no such media.          *)
Readable(m) == \E row \in rows : row.id = m /\ row.owner = jar

(* ---- Properties ------------------------------------------------------- *)

(* No more than the limit is counted of a body, and ids are unique.        *)
MediaTypeOK ==
  /\ visitors \in Nat /\ jar \in 0..visitors /\ shown \subseteq Uploads
  /\ upload \in [Uploads -> UploadState]
  /\ \A u \in Uploads : upload[u].total <= MaxBody
  /\ \A o, p \in objects : o.id = p.id => o = p

(* A row always has its object, of the size it records and under a key of  *)
(* the same owner, whatever failed on the way (upload_media); the other    *)
(* way round an object may be left without a row.                          *)
RowHasObject == \A row \in rows : row \in objects /\ row.size \in 1..MaxFile

(* Nothing of a body beyond the limit is kept, whether its length was      *)
(* declared or counted, and the browser is told 413 (middleware lines      *)
(* 55-58).                                                                 *)
LargeBodyRefused ==
  \A u \in Uploads :
    upload[u].size > MaxBody =>
      /\ \A o \in objects : o.id # u
      /\ upload[u].pc = "answered" => upload[u].status = 413

(* The browser can read every media it was told of, from its first upload  *)
(* on: the visitor made up for an upload is the one its cookie then names. *)
(* Only uploads that overlap before there is a cookie make up several, and *)
(* the last answer's remains (get_resource_owner, apply_visitor_cookie).   *)
ShownIsReadable ==
  (\A m, n \in shown : upload[m].fresh /\ upload[n].fresh => m = n)
    => \A m \in shown : Readable(m)

(* Why: an answer has begun only of a body that was cut or a request that  *)
(* is over, and what passed the gate is within the limit;                  *)
GateKept ==
  \A u \in Uploads :
    /\ upload[u].pc # "none" => upload[u].size >= Framing
    /\ upload[u].pc \notin {"cut", "answered"} => upload[u].starts = 0
    /\ upload[u].pc = "cut" =>
         upload[u].size > MaxBody /\ upload[u].starts > 0 /\ upload[u].status = 413
    /\ upload[u].pc \in Stages \ {"none", "sent", "cut", "answered"} => upload[u].size <= MaxBody

(* an object and a row are those of an upload that has come so far;        *)
StoredKept ==
  /\ \A u \in Uploads :
       /\ upload[u].pc \in {"measured", "stored", "saved", "signed"} => FileSize(u) \in 1..MaxFile
       /\ upload[u].pc \in {"stored", "saved", "signed"} => Media(u) \in objects
       /\ upload[u].pc \in {"saved", "signed"} => Media(u) \in rows
  /\ \A o \in objects :
       /\ o.id \in Uploads /\ o = Media(o.id) /\ FileSize(o.id) \in 1..MaxFile
       /\ upload[o.id].pc \in {"stored", "saved", "signed", "answered"}

(* and nobody is a visitor by cookie but through an upload that was shown. *)
FreshShown(visitor) == \E m \in shown : upload[m].fresh /\ upload[m].visitor = visitor

VisitorKnown ==
  /\ \A u \in Uploads :
       /\ upload[u].visitor <= visitors
       /\ upload[u].pc \in {"owned", "measured", "stored", "saved", "signed"} => upload[u].visitor # 0
       /\ upload[u].fresh => upload[u].pc \notin {"none", "sent", "cut", "parsed"}
       /\ upload[u].visitor # 0 /\ ~upload[u].fresh => FreshShown(upload[u].visitor)
  /\ jar # 0 => FreshShown(jar)
  /\ \A m \in shown :
       /\ upload[m].pc = "answered" /\ upload[m].visitor # 0 /\ Media(m) \in rows
       /\ upload[m].fresh => jar # 0

(* What the runs check of uploads, part by part.                           *)
MediaInv ==
  /\ MediaTypeOK /\ RowHasObject /\ LargeBodyRefused /\ ShownIsReadable
  /\ GateKept /\ StoredKept /\ VisitorKnown

(* middleware.py:119-120 of a body that is cut: what the application does  *)
(* to finish is swallowed and the request ends there; with the guard of    *)
(* lines 112-113 no request is answered twice.                             *)
AnsweredOnce == \A u \in Uploads : upload[u].starts <= 1

==============================================================================
