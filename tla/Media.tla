---------------------------------- MODULE Media ----------------------------------
(***************************************************************************)
(* Attachments of the client API.  An upload writes the file and, for a    *)
(* film or a sound, an image of it, publishes an event and is answered     *)
(* when the projection of the topic "media" has got there, or refused when *)
(* that takes too long.  Whoever publishes a status may attach to it what  *)
(* the table says that he has uploaded.                                    *)
(***************************************************************************)
EXTENDS Naturals, Sequences, FiniteSets

CONSTANTS Files,           \* ids
          Uploaders,
          MaxMediaStarts   \* bound: restarts

ASSUME MediaAssumption == IsFiniteSet(Files)

VARIABLES upload,     \* file -> [pc, by, poster]: the upload that has this id
          onDisk,     \* files that are written
          posters,    \* files whose variant "small" is written
          mediaLog,   \* topic "media": [file, by]
          mediaAt,
          media,      \* the table: rows [file, by]
          offered,    \* files that an uploader was answered
          mediaStarts

mdvars == <<upload, onDisk, posters, mediaLog, mediaAt, media, offered, mediaStarts>>

NoUpload == [pc |-> "none", by |-> "", poster |-> FALSE]

-----------------------------------------------------------------------------
(* process_upload.                                                           *)

\* An upload of an accepted kind within its limit of size.
Upload(f, u, poster) ==
  /\ upload[f] = NoUpload
  /\ upload' = [upload EXCEPT ![f] = [pc |-> "store", by |-> u, poster |-> poster]]
  /\ UNCHANGED <<onDisk, posters, mediaLog, mediaAt, media, offered, mediaStarts>>

Step(f, from, to) == upload[f].pc = from /\ upload' = [upload EXCEPT ![f].pc = to]

StoreFile(f) ==
  /\ Step(f, "store", IF upload[f].poster THEN "probe" ELSE "publish")
  /\ onDisk' = onDisk \cup {f}
  /\ UNCHANGED <<posters, mediaLog, mediaAt, media, offered, mediaStarts>>

AddPoster(f) ==
  /\ Step(f, "probe", "publish")
  /\ posters' = posters \cup {f}
  /\ UNCHANGED <<onDisk, mediaLog, mediaAt, media, offered, mediaStarts>>

PublishUploaded(f) ==
  /\ Step(f, "publish", "visible")
  /\ mediaLog' = Append(mediaLog, [file |-> f, by |-> upload[f].by])
  /\ UNCHANGED <<onDisk, posters, mediaAt, media, offered, mediaStarts>>

OwnedBy(ids, u) == {row \in media : row.file \in ids /\ row.by = u}

MAnswerUpload(f) ==               \* mutant: the answer does not wait for the projection
  /\ Step(f, "visible", "done")
  /\ offered' = offered \cup {f}
  /\ UNCHANGED <<onDisk, posters, mediaLog, mediaAt, media, mediaStarts>>

AnswerUpload(f) ==
  /\ Step(f, "visible", "done")
  /\ OwnedBy({f}, upload[f].by) # {}
  /\ offered' = offered \cup {f}
  /\ UNCHANGED <<onDisk, posters, mediaLog, mediaAt, media, mediaStarts>>

\* media_visible_timeout
NotReady(f) ==
  /\ Step(f, "visible", "done")
  /\ OwnedBy({f}, upload[f].by) = {}
  /\ UNCHANGED <<onDisk, posters, mediaLog, mediaAt, media, offered, mediaStarts>>

\* insert: the first row of a file stays.
Inserted(table, row) ==
  IF \E old \in table : old.file = row.file THEN table ELSE table \cup {row}
ProjectUploaded ==
  /\ mediaAt < Len(mediaLog) /\ mediaAt' = mediaAt + 1
  /\ media' = Inserted(media, mediaLog[mediaAt'])
  /\ UNCHANGED <<upload, onDisk, posters, mediaLog, offered, mediaStarts>>

\* What the topic amounts to: of every file its first row.
FirstRows == {mediaLog[i] : i \in {k \in DOMAIN mediaLog : \A j \in 1..(k - 1) : mediaLog[j].file # mediaLog[k].file}}

\* The requests end; the table is made of the topic before it is read.
RestartMedia ==
  /\ mediaStarts < MaxMediaStarts /\ mediaStarts' = mediaStarts + 1
  /\ upload' = [f \in Files |-> IF upload[f] = NoUpload THEN NoUpload ELSE [upload[f] EXCEPT !.pc = "done"]]
  /\ mediaAt' = Len(mediaLog) /\ media' = FirstRows
  /\ UNCHANGED <<onDisk, posters, mediaLog, offered>>

MediaInit ==
  /\ upload = [f \in Files |-> NoUpload] /\ onDisk = {} /\ posters = {}
  /\ mediaLog = <<>> /\ mediaAt = 0 /\ media = {} /\ offered = {} /\ mediaStarts = 0

MediaNext ==
  \/ \E f \in Files : \/ \E u \in Uploaders, poster \in BOOLEAN : Upload(f, u, poster)
                      \/ StoreFile(f) \/ AddPoster(f) \/ PublishUploaded(f) \/ AnswerUpload(f) \/ NotReady(f)
  \/ ProjectUploaded \/ RestartMedia

\* attachments of create_status: all of the files, or the request is refused.
Attachable(ids, u) == Cardinality(OwnedBy(ids, u)) = Cardinality(ids)

-----------------------------------------------------------------------------
\* Whoever was answered with attachments can publish a status with them at once
\* and after a restart, and nobody else can; whatever is attached is there,
\* with its image.
AttachmentsAreAtHand ==
  \A ids \in SUBSET Files, u \in Uploaders :
    /\ (\A f \in ids : f \in offered /\ upload[f].by = u) => Attachable(ids, u)
    /\ Attachable(ids, u) => \A f \in ids : /\ upload[f].by = u /\ f \in onDisk
                                           /\ upload[f].poster => f \in posters
=============================================================================
