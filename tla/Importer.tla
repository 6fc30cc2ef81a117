-------------------------------- MODULE Importer --------------------------------
(***************************************************************************)
(* profile_importer: a command that reads a web page, compares the profile *)
(* it finds there with what the topic "users" says of the user, and        *)
(* publishes the difference in one transaction.  The pictures of the page  *)
(* are downloaded before that, each under the id of a new file, unless the *)
(* file there is still good.  Two processes may import at once, and a      *)
(* process may end anywhere.  0 stands for what is not there.              *)
(***************************************************************************)
EXTENDS Naturals, Sequences

CONSTANTS Crews,          \* sets of processes, of which one imports
          Values,         \* what the page may say in a field; a picture by its source
          EditedFields,   \* fields that the page changes
          Redrawn,        \* images whose picture changes under its source
          MaxPageEdits,   \* bound, by the crew: changes of the page, and deletions of the user
          MaxImports      \* bound, by the crew

Images == {"avatar", "header"}
Fields == {"text", "cv"} \cup Images
NoFields == [f \in Fields |-> 0]

VARIABLES page,       \* field -> value
          drawn,      \* image -> of the picture that its sources serve
          files,      \* the topic "media": [field, source, drawn]; its place is its id
          userLog,    \* the topic "users": [type, profile, seen]
          import,     \* process -> [at, profile, current, seen, known, sent]
          pageEdits, imports

ivars == <<page, drawn, files, userLog, import, pageEdits, imports>>

NotImporting ==
  [at |-> "idle", profile |-> NoFields, current |-> <<>>, seen |-> 0, known |-> 0, sent |-> 0]

Importers == DOMAIN import
Edits == pageEdits < MaxPageEdits[Importers] /\ pageEdits' = pageEdits + 1

EditField(f, v) ==
  /\ Edits /\ v # page[f] /\ page' = [page EXCEPT ![f] = v]
  /\ UNCHANGED <<drawn, files, userLog, import, imports>>

EditPicture(f) ==
  /\ Edits /\ drawn' = [drawn EXCEPT ![f] = @ + 1]
  /\ UNCHANGED <<page, files, userLog, import, imports>>

-----------------------------------------------------------------------------
\* The profile that user_person and the other readers keep.
Apply(state, e) ==
  IF e.type = "created" THEN <<e.profile>>
  ELSE IF e.type = "deleted" \/ state = <<>> THEN <<>>
  ELSE <<[state[1] EXCEPT ![e.type] = e.profile[e.type]]>>

\* What the topic comes to for who does nothing on events of some types.
ReadBut(ignored, log) ==
  LET upto[n \in 0..Len(log)] ==
        IF n = 0 THEN <<>>
        ELSE IF log[n].type \in ignored THEN upto[n - 1] ELSE Apply(upto[n - 1], log[n])
  IN upto[Len(log)]

Profile == ReadBut({}, userLog)

\* The importer's own: it looks for the url of a header that changes, which the event
\* has not, and keeps the header that the user was created with.
Current == ReadBut({"header"}, userLog)

\* Deletions are read by everyone and published by nobody in this code.
DeleteUser ==
  /\ Edits /\ Profile # <<>>
  /\ userLog' = Append(userLog, [type |-> "deleted", profile |-> NoFields, seen |-> Len(userLog)])
  /\ UNCHANGED <<page, drawn, files, import, imports>>

-----------------------------------------------------------------------------
At(i, where) == import[i].at = where

\* A page that cannot be read or holds no profile ends the import here.
FetchPage(i) ==
  /\ (At(i, "idle") \/ At(i, "done")) /\ imports < MaxImports[Importers]
  /\ imports' = imports + 1
  /\ import' = [import EXCEPT ![i] = [NotImporting EXCEPT !.at = "users", !.profile = page]]
  /\ UNCHANGED <<page, drawn, files, userLog, pageEdits>>

\* The topics are read up to their heads.
ReadState(i) ==
  /\ At(i, "users")
  /\ import' = [import EXCEPT ![i].at = "media", ![i].seen = Len(userLog), ![i].current = Current]
  /\ UNCHANGED <<page, drawn, files, userLog, pageEdits, imports>>

ReadMedia(i) ==
  /\ At(i, "media")
  /\ import' = [import EXCEPT ![i].at = "avatar", ![i].known = Len(files)]
  /\ UNCHANGED <<page, drawn, files, userLog, pageEdits, imports>>

Existing(f, source, n) ==
  LET of == {k \in 1..n : files[k].field = f /\ files[k].source = source}
  IN IF of = {} THEN 0 ELSE CHOOSE k \in of : \A j \in of : j <= k

\* The server says that the picture is as it was, or the download has the same hash.
IsCurrent(f, id) == id # 0 /\ files[id].drawn = drawn[f]

UserEvent(r, type) == [type |-> type, profile |-> r.profile, seen |-> r.seen]
EditOf(r, f) == IF r.profile[f] # r.current[1][f] THEN <<UserEvent(r, f)>> ELSE <<>>

DiffEvents(r) ==
  IF r.current = <<>> THEN <<UserEvent(r, "created")>>
  ELSE EditOf(r, "text") \o EditOf(r, "avatar") \o EditOf(r, "header") \o EditOf(r, "cv")

\* What the field refers to, and where the import goes on.
Synced(r, f, id) ==
  [r EXCEPT !.profile[f] = id, !.at = IF f = "avatar" THEN "header" ELSE "publish"]

\* A download that fails leaves the file that is there, or no picture.
SyncOne(i, f) ==
  LET source == import[i].profile[f]
      there  == Existing(f, source, import[i].known)
      Refer(id) == import' = [import EXCEPT ![i] = Synced(@, f, id)]
  IN /\ At(i, f)
     /\ \/ Refer(there) /\ UNCHANGED files
        \/ /\ source # 0 /\ ~IsCurrent(f, there)
           /\ files' = Append(files, [field |-> f, source |-> source, drawn |-> drawn[f]])
           /\ Refer(Len(files'))
     /\ UNCHANGED <<page, drawn, userLog, pageEdits, imports>>

\* The events of one import become visible together.
PublishAll(i) ==
  LET events == DiffEvents(import[i])
  IN /\ At(i, "publish")
     /\ userLog' = userLog \o events
     /\ import' = [import EXCEPT ![i].at = "done", ![i].sent = Len(events)]
     /\ UNCHANGED <<page, drawn, files, pageEdits, imports>>

\* The process ends, or the transaction fails.
EndImporter(i) ==
  /\ ~At(i, "idle") /\ ~At(i, "done")
  /\ import' = [import EXCEPT ![i] = NotImporting]
  /\ UNCHANGED <<page, drawn, files, userLog, pageEdits, imports>>

ImporterInit ==
  /\ page \in [Fields -> {1}] /\ drawn = [f \in Images |-> 1] /\ files = <<>> /\ userLog = <<>>
  /\ import \in {[i \in crew |-> NotImporting] : crew \in Crews} /\ pageEdits = 0 /\ imports = 0

ImporterNext ==
  \/ \E f \in EditedFields, v \in Values : EditField(f, v)
  \/ \E f \in Redrawn : EditPicture(f)
  \/ DeleteUser
  \/ \E i \in Importers :
       \/ FetchPage(i) \/ ReadState(i) \/ ReadMedia(i) \/ \E f \in Images : SyncOne(i, f)
       \/ PublishAll(i) \/ EndImporter(i)

-----------------------------------------------------------------------------
\* An import during which nobody else published leaves the profile that it
\* found, also when two have raced, and whatever an earlier one has left:
\* all of it but for a header that is again the one the user was created with.
ImportedAsFetched ==
  \A i \in Importers :
    LET r == import[i]
        now == Profile
    IN (At(i, "done") /\ Len(userLog) = r.seen + r.sent)
       => /\ now # <<>>
          /\ \A f \in Fields : \/ now[1][f] = r.profile[f]
                               \/ f = "header" /\ r.current # <<>> /\ r.current[1][f] = r.profile[f]

\* A user who is there gets a new profile and new keys only from an import that
\* had looked before she was created.
CreatedOnce ==
  \A j \in DOMAIN userLog : \A k \in 1..j-1 :
    (/\ userLog[j].type = "created" /\ userLog[k].type = "created"
     /\ \A d \in k..j : userLog[d].type # "deleted")
    => k > userLog[j].seen
=============================================================================
