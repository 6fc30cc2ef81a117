---------------------------------- MODULE ApiProofs ----------------------------------
(***************************************************************************)
(* Proofs about parts of the APIs: what the outbox serves to whom, that a  *)
(* token and an attachment are good with the next request, conversations,  *)
(* threads, lists, and the statuses with their compression, boosts and     *)
(* reactions.  Each part has inductive invariants of its own; a step of    *)
(* the API is a step of one of them that the others do not see.            *)
(***************************************************************************)
EXTENDS MCApi, NatOrder, SequenceTheorems, FiniteSetTheorems

-----------------------------------------------------------------------------
(* Attachments.  A file is published once it is stored, and answered once
   it is in the table, which is a set of rows that the topic determines:
   what was answered is therefore in it, and what is in it was uploaded by
   whom its row names. *)
UploadSet == {NoUpload} \cup
             [pc : {"store", "probe", "publish", "visible", "done"}, by : Uploaders, poster : BOOLEAN]
MediaRow == [file : Files, by : Uploaders]

MediaTyped ==
  /\ upload \in [Files -> UploadSet]
  /\ onDisk \subseteq Files /\ posters \subseteq Files /\ offered \subseteq Files
  /\ mediaLog \in Seq(MediaRow) /\ mediaAt \in 0..Len(mediaLog)

\* A file is published once, by the one who uploads it, when it is written.
PublishedAsUploaded ==
  \A i \in DOMAIN mediaLog :
    LET f == mediaLog[i].file
    IN /\ upload[f] # NoUpload /\ upload[f].pc \in {"visible", "done"}
       /\ mediaLog[i].by = upload[f].by
       /\ f \in onDisk /\ (upload[f].poster => f \in posters)
       /\ \A j \in DOMAIN mediaLog : mediaLog[j].file = f => j = i

WrittenInOrder ==
  \A f \in Files :
    /\ upload[f].pc \in {"probe", "publish"} => f \in onDisk
    /\ (upload[f].pc = "publish" /\ upload[f].poster) => f \in posters
    /\ (upload[f] # NoUpload => upload[f].pc # "none")

\* The table is what the projection has read, and an answered file is in it.
TableIsTheTopic == media = {mediaLog[i] : i \in 1..mediaAt}
OfferedIsInTheTable == \A f \in offered : \E row \in media : row.file = f /\ row.by = upload[f].by

MediaInv == MediaTyped /\ PublishedAsUploaded /\ WrittenInOrder /\ TableIsTheTopic /\ OfferedIsInTheTable

\* The fields of a request that uploads.
LEMMA UploadParts ==
  ASSUME NEW p \in UploadSet
  PROVE  /\ p = NoUpload \/ (p # NoUpload /\ p.by \in Uploaders /\ p.pc \in {"store", "probe", "publish", "visible", "done"})
         /\ p.poster \in BOOLEAN
         /\ p.pc # "none" => p # NoUpload
<1> DEFINE R == [pc : {"store", "probe", "publish", "visible", "done"}, by : Uploaders, poster : BOOLEAN]
<1>1. NoUpload.pc = "none" /\ NoUpload.poster \in BOOLEAN
  BY DEF NoUpload
<1>2. p = NoUpload \/ p \in R
  BY DEF UploadSet
<1>3. p \in R => p.by \in Uploaders /\ p.poster \in BOOLEAN /\ p.pc \in {"store", "probe", "publish", "visible", "done"}
  OBVIOUS
<1> HIDE DEF R
<1> QED BY <1>1, <1>2, <1>3

\* A request that moves on keeps its uploader.
LEMMA MovedUpload ==
  ASSUME NEW p \in UploadSet, p.pc # "none", NEW to \in {"store", "probe", "publish", "visible", "done"}
  PROVE  /\ [p EXCEPT !.pc = to] \in UploadSet
         /\ [p EXCEPT !.pc = to] # NoUpload
         /\ [p EXCEPT !.pc = to].pc = to
         /\ [p EXCEPT !.pc = to].by = p.by
         /\ [p EXCEPT !.pc = to].poster = p.poster
<1>1. p \in [pc : {"store", "probe", "publish", "visible", "done"}, by : Uploaders, poster : BOOLEAN]
  <2>1. NoUpload.pc = "none"
    BY DEF NoUpload
  <2> QED BY <2>1 DEF UploadSet
<1>2. [p EXCEPT !.pc = to] \in [pc : {"store", "probe", "publish", "visible", "done"}, by : Uploaders, poster : BOOLEAN]
  BY <1>1
<1>3. [p EXCEPT !.pc = to].pc = to /\ [p EXCEPT !.pc = to].by = p.by /\ [p EXCEPT !.pc = to].poster = p.poster
  BY <1>1
<1>4. NoUpload.pc = "none"
  BY DEF NoUpload
<1> QED BY <1>2, <1>3, <1>4 DEF UploadSet

\* The fields of a row.
LEMMA MediaRowParts ==
  ASSUME NEW row \in MediaRow PROVE row.file \in Files /\ row.by \in Uploaders
BY DEF MediaRow

\* What the types say of the topic and its position.
LEMMA MediaTypes ==
  ASSUME MediaTyped
  PROVE  /\ upload \in [Files -> UploadSet]
         /\ onDisk \subseteq Files /\ posters \subseteq Files /\ offered \subseteq Files
         /\ mediaLog \in Seq(MediaRow) /\ mediaAt \in 0..Len(mediaLog)
         /\ DOMAIN mediaLog = 1..Len(mediaLog) /\ Len(mediaLog) \in Nat /\ mediaAt \in Nat
BY DEF MediaTyped

\* An upload goes on by a step, and no other upload does.
LEMMA StepMoves ==
  ASSUME MediaTyped, NEW f \in Files, NEW from, NEW to \in {"store", "probe", "publish", "visible", "done"},
         from # "none", Step(f, from, to)
  PROVE  /\ upload' \in [Files -> UploadSet] /\ upload'[f] # NoUpload
         /\ upload[f] # NoUpload /\ upload[f].pc = from
         /\ upload'[f].pc = to /\ upload'[f].by = upload[f].by /\ upload'[f].poster = upload[f].poster
         /\ \A g \in Files : g # f => upload'[g] = upload[g]
         /\ upload[f].by \in Uploaders
<1>1. upload[f] \in UploadSet /\ upload[f].pc # "none" /\ upload[f].pc = from
  BY MediaTypes DEF Step
<1>2. upload' = [upload EXCEPT ![f] = [upload[f] EXCEPT !.pc = to]]
  BY DEF Step
<1> DEFINE p == [upload[f] EXCEPT !.pc = to]
<1>3. /\ p \in UploadSet /\ p # NoUpload /\ p.pc = to /\ p.by = upload[f].by /\ p.poster = upload[f].poster
  BY <1>1, MovedUpload
<1>4. upload' = [upload EXCEPT ![f] = p]
  BY <1>2
<1> HIDE DEF p
<1>5. upload[f] # NoUpload /\ upload[f].by \in Uploaders
  BY <1>1, UploadParts
<1> QED BY <1>1, <1>3, <1>4, <1>5, MediaTypes

\* At the start there is nothing.
LEMMA MediaStart == MediaInit => MediaInv
<1> SUFFICES ASSUME MediaInit PROVE MediaInv
  OBVIOUS
<1> USE DEF MediaInit
<1>1. NoUpload \in UploadSet
  BY DEF UploadSet
<1>2. MediaTyped
  BY <1>1 DEF MediaTyped
<1>3. PublishedAsUploaded
  BY DEF PublishedAsUploaded
<1>4. WrittenInOrder
  BY DEF WrittenInOrder, NoUpload
<1>5. TableIsTheTopic /\ OfferedIsInTheTable
  BY DEF TableIsTheTopic, OfferedIsInTheTable
<1> QED BY <1>2, <1>3, <1>4, <1>5 DEF MediaInv

\* What a step that leaves the topic and the table alone has to see to.
LEMMA QuietMediaStep ==
  ASSUME MediaInv, NEW f \in Files, MediaTyped', WrittenInOrder',
         \A g \in Files : g # f => upload'[g] = upload[g],
         upload[f].pc # "none" => upload'[f].by = upload[f].by /\ upload'[f].poster = upload[f].poster,
         upload[f].pc \in {"visible", "done"} => upload'[f] # NoUpload /\ upload'[f].pc \in {"visible", "done"},
         onDisk \subseteq onDisk', posters \subseteq posters',
         UNCHANGED <<mediaLog, mediaAt, media>>,
         \A g \in offered' : g \in offered \/ (g = f /\ \E row \in media : row.file = f /\ row.by = upload'[f].by)
  PROVE  MediaInv'
<1> USE DEF MediaInv
<1>1. ASSUME NEW i \in DOMAIN mediaLog
      PROVE  LET g == mediaLog[i].file
             IN /\ upload'[g] # NoUpload /\ upload'[g].pc \in {"visible", "done"}
                /\ mediaLog[i].by = upload'[g].by
                /\ g \in onDisk' /\ (upload'[g].poster => g \in posters')
                /\ \A j \in DOMAIN mediaLog : mediaLog[j].file = g => j = i
  <2> DEFINE g == mediaLog[i].file
  <2>1. g \in Files
    BY <1>1, MediaTypes, MediaRowParts
  <2>2. /\ upload[g] # NoUpload /\ upload[g].pc \in {"visible", "done"}
        /\ mediaLog[i].by = upload[g].by
        /\ g \in onDisk /\ (upload[g].poster => g \in posters)
        /\ \A j \in DOMAIN mediaLog : mediaLog[j].file = g => j = i
    BY <1>1 DEF PublishedAsUploaded
  <2> HIDE DEF g
  <2>3. CASE g = f
    BY <2>2, <2>3 DEF g
  <2>4. CASE g # f
    BY <2>1, <2>2, <2>4 DEF g
  <2> QED BY <2>3, <2>4
<1>2. PublishedAsUploaded'
  BY <1>1 DEF PublishedAsUploaded
<1>3. TableIsTheTopic'
  BY DEF TableIsTheTopic
<1>4. ASSUME NEW g \in offered' PROVE \E row \in media : row.file = g /\ row.by = upload'[g].by
  <2>1. CASE g \in offered
    <3>1. PICK row \in media : row.file = g /\ row.by = upload[g].by
      BY <2>1 DEF OfferedIsInTheTable
    <3>2. PICK i \in 1..mediaAt : row = mediaLog[i]
      BY DEF TableIsTheTopic
    <3>3. i \in DOMAIN mediaLog
      BY MediaTypes
    <3>4. upload'[g].by = mediaLog[i].by
      BY <1>1, <3>1, <3>2, <3>3
    <3> QED BY <3>1, <3>2, <3>4
  <2>2. CASE g \notin offered
    BY <2>2
  <2> QED BY <2>1, <2>2
<1>5. OfferedIsInTheTable'
  BY <1>4 DEF OfferedIsInTheTable
<1> QED BY <1>2, <1>3, <1>5

\* The first rows of a topic that has one row of a file are all of its rows.
LEMMA FirstRowsAre ==
  ASSUME MediaInv
  PROVE  FirstRows = {mediaLog[i] : i \in 1..Len(mediaLog)}
<1>1. ASSUME NEW i \in DOMAIN mediaLog PROVE \A j \in 1..(i - 1) : mediaLog[j].file # mediaLog[i].file
  <2>1. \A j \in 1..(i - 1) : j \in DOMAIN mediaLog /\ j # i
    BY MediaTypes DEF MediaInv
  <2> QED BY <2>1 DEF MediaInv, PublishedAsUploaded
<1> QED BY <1>1, MediaTypes DEF FirstRows, MediaInv

\* Each action of the component keeps it.
LEMMA MediaStep == MediaInv /\ [MediaNext]_mdvars => MediaInv'
<1> SUFFICES ASSUME MediaInv, [MediaNext]_mdvars PROVE MediaInv'
  OBVIOUS
<1> USE DEF MediaInv
<1>1. ASSUME NEW f \in Files, NEW u \in Uploaders, NEW poster \in BOOLEAN, Upload(f, u, poster) PROVE MediaInv'
  <2> DEFINE new == [pc |-> "store", by |-> u, poster |-> poster]
  <2>1. /\ upload[f] = NoUpload /\ upload' = [upload EXCEPT ![f] = new]
        /\ UNCHANGED <<onDisk, posters, mediaLog, mediaAt, media, offered, mediaStarts>>
    BY <1>1 DEF Upload
  <2>2. NoUpload.pc = "none"
    BY DEF NoUpload
  <2>3. new \in UploadSet /\ new.pc = "store"
    BY DEF UploadSet
  <2>4. new # NoUpload
    BY <2>2, <2>3
  <2> HIDE DEF new
  <2>5. /\ upload' \in [Files -> UploadSet] /\ upload'[f] = new
        /\ \A g \in Files : g # f => upload'[g] = upload[g]
    BY <2>1, <2>3, MediaTypes
  <2>6. MediaTyped'
    BY <2>1, <2>5 DEF MediaTyped
  <2>7. WrittenInOrder'
    BY <2>1, <2>3, <2>5 DEF WrittenInOrder
  <2> QED BY <2>1, <2>2, <2>5, <2>6, <2>7, QuietMediaStep
<1>2. ASSUME NEW f \in Files, StoreFile(f) PROVE MediaInv'
  <2> DEFINE to == IF upload[f].poster THEN "probe" ELSE "publish"
  <2>1. /\ Step(f, "store", to) /\ onDisk' = onDisk \cup {f}
        /\ UNCHANGED <<posters, mediaLog, mediaAt, media, offered, mediaStarts>>
    BY <1>2 DEF StoreFile
  <2>2. to \in {"store", "probe", "publish", "visible", "done"} /\ (to = "publish" => ~upload[f].poster)
        /\ to \in {"probe", "publish"}
    BY MediaTypes, UploadParts
  <2> HIDE DEF to
  <2>3. /\ upload' \in [Files -> UploadSet] /\ upload'[f] # NoUpload
        /\ upload[f] # NoUpload /\ upload[f].pc = "store"
        /\ upload'[f].pc = to /\ upload'[f].by = upload[f].by /\ upload'[f].poster = upload[f].poster
        /\ \A g \in Files : g # f => upload'[g] = upload[g]
    BY <2>1, <2>2, StepMoves
  <2>4. MediaTyped'
    BY <2>1, <2>3 DEF MediaTyped
  <2>5. WrittenInOrder'
    BY <2>1, <2>2, <2>3 DEF WrittenInOrder
  <2> QED BY <2>1, <2>3, <2>4, <2>5, QuietMediaStep
<1>3. ASSUME NEW f \in Files, AddPoster(f) PROVE MediaInv'
  <2>1. /\ Step(f, "probe", "publish") /\ posters' = posters \cup {f}
        /\ UNCHANGED <<onDisk, mediaLog, mediaAt, media, offered, mediaStarts>>
    BY <1>3 DEF AddPoster
  <2>3. /\ upload' \in [Files -> UploadSet] /\ upload'[f] # NoUpload
        /\ upload[f] # NoUpload /\ upload[f].pc = "probe"
        /\ upload'[f].pc = "publish" /\ upload'[f].by = upload[f].by /\ upload'[f].poster = upload[f].poster
        /\ \A g \in Files : g # f => upload'[g] = upload[g]
    BY <2>1, StepMoves
  <2>4. MediaTyped'
    BY <2>1, <2>3 DEF MediaTyped
  <2>5. WrittenInOrder'
    BY <2>1, <2>3 DEF WrittenInOrder
  <2> QED BY <2>1, <2>3, <2>4, <2>5, QuietMediaStep
<1>4. ASSUME NEW f \in Files, PublishUploaded(f) PROVE MediaInv'
  <2> DEFINE row == [file |-> f, by |-> upload[f].by]
             n == Len(mediaLog)
  <2>1. /\ Step(f, "publish", "visible") /\ mediaLog' = Append(mediaLog, row)
        /\ UNCHANGED <<onDisk, posters, mediaAt, media, offered, mediaStarts>>
    BY <1>4 DEF PublishUploaded
  <2>2. /\ upload' \in [Files -> UploadSet] /\ upload'[f] # NoUpload
        /\ upload[f] # NoUpload /\ upload[f].pc = "publish" /\ upload[f].by \in Uploaders
        /\ upload'[f].pc = "visible" /\ upload'[f].by = upload[f].by /\ upload'[f].poster = upload[f].poster
        /\ \A g \in Files : g # f => upload'[g] = upload[g]
    BY <2>1, StepMoves
  <2>3. row \in MediaRow /\ row.file = f /\ row.by = upload[f].by
    BY <2>2 DEF MediaRow
  <2> HIDE DEF row
  <2>4. n \in Nat /\ mediaAt \in 0..n /\ DOMAIN mediaLog = 1..n
    BY MediaTypes
  <2>5. /\ mediaLog' \in Seq(MediaRow) /\ Len(mediaLog') = n + 1
        /\ mediaLog'[n + 1] = row /\ \A i \in 1..n : mediaLog'[i] = mediaLog[i]
    BY <2>1, <2>3, MediaTypes
  <2> HIDE DEF n
  <2>6. DOMAIN mediaLog' = 1..n + 1
    BY <2>5
  <2>7. MediaTyped'
    BY <2>1, <2>2, <2>4, <2>5, MediaTypes DEF MediaTyped
  <2>8. WrittenInOrder'
    BY <2>1, <2>2 DEF WrittenInOrder
  <2>9. f \in onDisk /\ (upload[f].poster => f \in posters)
    BY <2>2 DEF WrittenInOrder
  <2>10. \A i \in 1..n : mediaLog[i].file # f /\ mediaLog[i].file \in Files
    BY <2>2, <2>4, MediaTypes, MediaRowParts DEF PublishedAsUploaded
  <2>11. PublishedAsUploaded'
    <3>1. ASSUME NEW i \in 1..n + 1
          PROVE  LET g == mediaLog'[i].file
                 IN /\ upload'[g] # NoUpload /\ upload'[g].pc \in {"visible", "done"}
                    /\ mediaLog'[i].by = upload'[g].by
                    /\ g \in onDisk' /\ (upload'[g].poster => g \in posters')
                    /\ \A j \in 1..n + 1 : mediaLog'[j].file = g => j = i
      <4>1. CASE i = n + 1
        <5>1. \A j \in 1..n + 1 : mediaLog'[j].file = f => j = n + 1
          BY <2>5, <2>10, <2>4
        <5> QED BY <4>1, <5>1, <2>1, <2>2, <2>3, <2>5, <2>9
      <4>2. CASE i \in 1..n
        <5> DEFINE g == mediaLog[i].file
        <5>1. /\ upload[g] # NoUpload /\ upload[g].pc \in {"visible", "done"}
              /\ mediaLog[i].by = upload[g].by
              /\ g \in onDisk /\ (upload[g].poster => g \in posters)
              /\ \A j \in 1..n : mediaLog[j].file = g => j = i
          BY <4>2, <2>4 DEF PublishedAsUploaded
        <5>2. g # f /\ g \in Files /\ mediaLog'[i] = mediaLog[i]
          BY <4>2, <2>10, <2>5
        <5> HIDE DEF g
        <5>3. \A j \in 1..n + 1 : mediaLog'[j].file = g => j = i
          BY <5>1, <5>2, <2>3, <2>4, <2>5
        <5> QED BY <5>1, <5>2, <5>3, <2>1, <2>2 DEF g
      <4> QED BY <4>1, <4>2, <2>4
    <3> QED BY <3>1, <2>6 DEF PublishedAsUploaded
  <2>12. TableIsTheTopic'
    <3>1. \A i \in 1..mediaAt : mediaLog'[i] = mediaLog[i]
      BY <2>4, <2>5
    <3> QED BY <3>1, <2>1 DEF TableIsTheTopic
  <2>13. OfferedIsInTheTable'
    <3>1. \A g \in offered : upload'[g].by = upload[g].by
      BY <2>2, MediaTypes
    <3> QED BY <3>1, <2>1 DEF OfferedIsInTheTable
  <2> QED BY <2>7, <2>8, <2>11, <2>12, <2>13
<1>5. ASSUME NEW f \in Files, AnswerUpload(f) PROVE MediaInv'
  <2>1. /\ Step(f, "visible", "done") /\ offered' = offered \cup {f}
        /\ OwnedBy({f}, upload[f].by) # {}
        /\ UNCHANGED <<onDisk, posters, mediaLog, mediaAt, media, mediaStarts>>
    BY <1>5 DEF AnswerUpload
  <2>2. /\ upload' \in [Files -> UploadSet] /\ upload'[f] # NoUpload
        /\ upload[f] # NoUpload /\ upload[f].pc = "visible"
        /\ upload'[f].pc = "done" /\ upload'[f].by = upload[f].by /\ upload'[f].poster = upload[f].poster
        /\ \A g \in Files : g # f => upload'[g] = upload[g]
    BY <2>1, StepMoves
  <2>3. MediaTyped'
    BY <2>1, <2>2 DEF MediaTyped
  <2>4. WrittenInOrder'
    BY <2>1, <2>2 DEF WrittenInOrder
  <2>5. \E row \in media : row.file = f /\ row.by = upload'[f].by
    BY <2>1, <2>2 DEF OwnedBy
  <2> QED BY <2>1, <2>2, <2>3, <2>4, <2>5, QuietMediaStep
<1>6. ASSUME NEW f \in Files, NotReady(f) PROVE MediaInv'
  <2>1. /\ Step(f, "visible", "done")
        /\ UNCHANGED <<onDisk, posters, mediaLog, mediaAt, media, offered, mediaStarts>>
    BY <1>6 DEF NotReady
  <2>2. /\ upload' \in [Files -> UploadSet] /\ upload'[f] # NoUpload
        /\ upload[f] # NoUpload /\ upload[f].pc = "visible"
        /\ upload'[f].pc = "done" /\ upload'[f].by = upload[f].by /\ upload'[f].poster = upload[f].poster
        /\ \A g \in Files : g # f => upload'[g] = upload[g]
    BY <2>1, StepMoves
  <2>3. MediaTyped'
    BY <2>1, <2>2 DEF MediaTyped
  <2>4. WrittenInOrder'
    BY <2>1, <2>2 DEF WrittenInOrder
  <2> QED BY <2>1, <2>2, <2>3, <2>4, QuietMediaStep
<1>7. ASSUME ProjectUploaded PROVE MediaInv'
  <2> DEFINE k == mediaAt + 1
  <2>1. /\ mediaAt < Len(mediaLog) /\ mediaAt' = k /\ media' = Inserted(media, mediaLog[k])
        /\ UNCHANGED <<upload, onDisk, posters, mediaLog, offered, mediaStarts>>
    BY <1>7 DEF ProjectUploaded
  <2>2. k \in DOMAIN mediaLog /\ k \in 0..Len(mediaLog) /\ \A i \in 1..mediaAt : i \in DOMAIN mediaLog /\ i # k
    BY <2>1, MediaTypes
  <2>3. \A old \in media : old.file # mediaLog[k].file
    BY <2>2 DEF TableIsTheTopic, PublishedAsUploaded
  <2>4. media' = media \cup {mediaLog[k]}
    BY <2>1, <2>3 DEF Inserted
  <2>5. 1..k = 1..mediaAt \cup {k}
    BY MediaTypes
  <2> HIDE DEF k
  <2>6. TableIsTheTopic'
    BY <2>1, <2>4, <2>5 DEF TableIsTheTopic
  <2>7. MediaTyped'
    BY <2>1, <2>2 DEF MediaTyped
  <2>8. PublishedAsUploaded' /\ WrittenInOrder'
    BY <2>1 DEF PublishedAsUploaded, WrittenInOrder
  <2>9. OfferedIsInTheTable'
    BY <2>1, <2>4 DEF OfferedIsInTheTable
  <2> QED BY <2>6, <2>7, <2>8, <2>9
<1>8. ASSUME RestartMedia PROVE MediaInv'
  <2>1. /\ upload' = [f \in Files |-> IF upload[f] = NoUpload THEN NoUpload ELSE [upload[f] EXCEPT !.pc = "done"]]
        /\ mediaAt' = Len(mediaLog) /\ media' = FirstRows
        /\ UNCHANGED <<onDisk, posters, mediaLog, offered>>
    BY <1>8 DEF RestartMedia
  <2>2. ASSUME NEW f \in Files
        PROVE  /\ upload'[f] \in UploadSet
               /\ upload[f] = NoUpload => upload'[f] = NoUpload
               /\ upload[f] # NoUpload => /\ upload'[f] # NoUpload /\ upload'[f].pc = "done"
                                          /\ upload'[f].by = upload[f].by /\ upload'[f].poster = upload[f].poster
    <3>1. upload[f] \in UploadSet
      BY MediaTypes
    <3>2. CASE upload[f] = NoUpload
      BY <2>1, <3>1, <3>2
    <3>3. CASE upload[f] # NoUpload
      <4>1. upload[f].pc # "none"
        BY <3>1, <3>3 DEF WrittenInOrder
      <4>2. upload'[f] = [upload[f] EXCEPT !.pc = "done"]
        BY <2>1, <3>3
      <4> DEFINE p == [upload[f] EXCEPT !.pc = "done"]
      <4>3. p \in UploadSet /\ p # NoUpload /\ p.pc = "done" /\ p.by = upload[f].by /\ p.poster = upload[f].poster
        BY <3>1, <4>1, MovedUpload
      <4> HIDE DEF p
      <4> QED BY <4>2, <4>3, <3>3 DEF p
    <3> QED BY <3>2, <3>3
  <2>3. upload' \in [Files -> UploadSet]
    <3>1. upload' = [f \in Files |-> upload'[f]]
      BY <2>1
    <3> QED BY <2>2, <3>1
  <2>4. MediaTyped'
    BY <2>1, <2>3, MediaTypes DEF MediaTyped
  <2>5. PublishedAsUploaded'
    <3>1. \A i \in DOMAIN mediaLog : mediaLog[i].file \in Files
      BY MediaTypes, MediaRowParts
    <3> QED BY <3>1, <2>1, <2>2 DEF PublishedAsUploaded
  <2>6. WrittenInOrder'
    <3>1. NoUpload.pc = "none"
      BY DEF NoUpload
    <3> QED BY <3>1, <2>1, <2>2 DEF WrittenInOrder
  <2>7. TableIsTheTopic'
    BY <2>1, FirstRowsAre DEF TableIsTheTopic
  <2>8. media \subseteq media'
    BY <2>1, FirstRowsAre, MediaTypes DEF TableIsTheTopic
  <2>9. ASSUME NEW f \in offered PROVE \E row \in media' : row.file = f /\ row.by = upload'[f].by
    <3>1. PICK row \in media : row.file = f /\ row.by = upload[f].by
      BY <2>9 DEF OfferedIsInTheTable
    <3>2. PICK i \in 1..mediaAt : row = mediaLog[i]
      BY DEF TableIsTheTopic
    <3>3. upload[f] # NoUpload /\ f \in Files
      BY <3>1, <3>2, MediaTypes DEF PublishedAsUploaded
    <3> QED BY <2>2, <2>8, <3>1, <3>3
  <2>10. OfferedIsInTheTable'
    BY <2>1, <2>9 DEF OfferedIsInTheTable
  <2> QED BY <2>4, <2>5, <2>6, <2>7, <2>10
<1>9. CASE UNCHANGED mdvars
  BY <1>9 DEF mdvars, MediaTyped, PublishedAsUploaded, WrittenInOrder, TableIsTheTopic, OfferedIsInTheTable
<1> QED BY <1>1, <1>2, <1>3, <1>4, <1>5, <1>6, <1>7, <1>8, <1>9 DEF MediaNext

\* The rows of some files and of one uploader are as many as their files.
LEMMA OwnedAreFiles ==
  ASSUME MediaInv, NEW ids \in SUBSET Files, NEW u
  PROVE  /\ {row.file : row \in OwnedBy(ids, u)} \subseteq ids
         /\ Cardinality({row.file : row \in OwnedBy(ids, u)}) = Cardinality(OwnedBy(ids, u))
         /\ IsFiniteSet(ids) /\ IsFiniteSet(OwnedBy(ids, u))
<1> DEFINE O == OwnedBy(ids, u)
           F == {row.file : row \in O}
           toFile == [row \in O |-> row.file]
<1>1. \A row \in O : row \in media /\ row.file \in ids /\ row.by = u
  BY DEF OwnedBy
<1>2. IsFiniteSet(ids)
  BY MediaAssumption, FS_Subset
<1>3. \A r, s \in O : r.file = s.file => r = s
  BY <1>1, MediaTypes DEF MediaInv, TableIsTheTopic, PublishedAsUploaded
<1> HIDE DEF O
<1>4. F \subseteq ids
  BY <1>1
<1>5. IsFiniteSet(F)
  BY <1>2, <1>4, FS_Subset
<1>6. toFile \in Bijection(O, F)
  <2>1. toFile \in [O -> F]
    OBVIOUS
  <2>2. toFile \in Injection(O, F)
    BY <1>3, <2>1 DEF Injection, IsInjective
  <2>3. toFile \in Surjection(O, F)
    BY <2>1 DEF Surjection
  <2> QED BY <2>2, <2>3 DEF Bijection
<1>7. toFile \in Injection(O, F) /\ toFile \in Surjection(O, F)
  BY <1>6 DEF Bijection
<1> HIDE DEF F, toFile
<1>8. IsFiniteSet(O) /\ (Cardinality(O) = Cardinality(F) <=> toFile \in Surjection(O, F))
  BY <1>5, <1>7, FS_Injection
<1> QED BY <1>2, <1>4, <1>7, <1>8 DEF F, O

\* Whoever was answered with attachments can attach them, and nobody else can.
LEMMA MediaAtHand == MediaInv => AttachmentsAreAtHand
<1> SUFFICES ASSUME MediaInv, NEW ids \in SUBSET Files, NEW u \in Uploaders
             PROVE  /\ (\A f \in ids : f \in offered /\ upload[f].by = u) => Attachable(ids, u)
                    /\ Attachable(ids, u) => \A f \in ids : /\ upload[f].by = u /\ f \in onDisk
                                                           /\ upload[f].poster => f \in posters
  BY DEF AttachmentsAreAtHand
<1> DEFINE F == {row.file : row \in OwnedBy(ids, u)}
<1>1. F \subseteq ids /\ Cardinality(F) = Cardinality(OwnedBy(ids, u)) /\ IsFiniteSet(ids)
  BY OwnedAreFiles
<1>2. (\A f \in ids : f \in offered /\ upload[f].by = u) => ids \subseteq F
  BY DEF OwnedBy, MediaInv, OfferedIsInTheTable
<1>3. ASSUME NEW f \in F PROVE upload[f].by = u /\ f \in onDisk /\ (upload[f].poster => f \in posters)
  <2>1. PICK row \in media : row.file = f /\ row.by = u
    BY <1>3 DEF OwnedBy
  <2>2. PICK i \in 1..mediaAt : row = mediaLog[i]
    BY DEF MediaInv, TableIsTheTopic
  <2>3. i \in DOMAIN mediaLog
    BY MediaTypes DEF MediaInv
  <2> QED BY <2>1, <2>2, <2>3 DEF MediaInv, PublishedAsUploaded
<1> HIDE DEF F
<1>4. Attachable(ids, u) <=> Cardinality(F) = Cardinality(ids)
  BY <1>1 DEF Attachable
<1>5. Attachable(ids, u) => F = ids
  BY <1>1, <1>4, FS_Subset
<1>6. (\A f \in ids : f \in offered /\ upload[f].by = u) => Attachable(ids, u)
  BY <1>1, <1>2, <1>4
<1> QED BY <1>3, <1>5, <1>6

-----------------------------------------------------------------------------
(* Login.  The topic of the tokens says of each that it was issued, and at
   most then that it was revoked.  The memory has every token that was
   answered and is not revoked, although the projection may not have read
   of it; and whoever exchanges a code after another has not read that it
   was consumed, since what was consumed stays so in the topic. *)
CodeEvent == [verb : {"issued", "consumed"}, code : Codes]
TokenEvent == [verb : {"issued", "revoked"}, token : Nat]
Exchange == [pc : {"consume", "issue", "register"}, code : Codes, token : Nat]

OauthTyped ==
  /\ begun \in 0..MaxCodes /\ logins \subseteq Codes /\ codes \subseteq Codes
  /\ codesLog \in Seq(CodeEvent) /\ codesAt \in 0..Len(codesLog)
  /\ tokensLog \in Seq(TokenEvent) /\ tokensAt \in 0..Len(tokensLog)
  /\ slot \in [Slots -> {NoExchange} \cup Exchange]
  /\ madeFrom \in Seq(Codes) /\ rebuilt \in 0..3

\* A token is issued once, before it is revoked, and what is revoked was
\* answered before.
TokenTopicIsTrue ==
  /\ answered \subseteq DOMAIN madeFrom /\ revoked \subseteq answered
  /\ \A t \in DOMAIN madeFrom : \E i \in DOMAIN tokensLog : tokensLog[i] = [verb |-> "issued", token |-> t]
  /\ \A i \in DOMAIN tokensLog :
       /\ tokensLog[i].token \in DOMAIN madeFrom
       /\ tokensLog[i].verb = "issued" =>
            \A j \in DOMAIN tokensLog : (j # i /\ tokensLog[j].token = tokensLog[i].token)
                                          => j > i /\ tokensLog[j].verb = "revoked"
       /\ tokensLog[i].verb = "revoked" => tokensLog[i].token \in revoked
  /\ \A t \in revoked : \E i \in DOMAIN tokensLog : tokensLog[i] = [verb |-> "revoked", token |-> t]

\* An exchange that is about to answer has a token of its own.
RegisteringItsOwn ==
  \A s \in Slots : slot[s].pc = "register" =>
    /\ slot[s].token \in DOMAIN madeFrom \ answered
    /\ \A o \in Slots : (o # s /\ slot[o].pc = "register") => slot[o].token # slot[s].token

\* The memory has what was answered, and nothing of which it has read that it is revoked.
MemoryIsRight ==
  AllRebuilt => /\ answered \ revoked \subseteq tokens
                /\ \A j \in 1..tokensAt : tokensLog[j].verb = "revoked" => tokensLog[j].token \notin tokens

\* Whoever exchanges a code that was exchanged before, or is being exchanged, has not
\* read that it was.
Exchanged == {c \in Codes : Consumed(c)}
OnceACode ==
  /\ \A t \in DOMAIN madeFrom : madeFrom[t] \in Exchanged
  /\ \A t, u \in DOMAIN madeFrom : (t # u /\ madeFrom[t] = madeFrom[u]) => madeFrom[t] \in unread
  /\ \A s \in Slots :
       /\ slot[s].pc \in {"issue", "register"} => slot[s].code \in Exchanged
       /\ (slot[s].pc \in {"consume", "issue"} /\ slot[s].code \notin unread) =>
            \A t \in DOMAIN madeFrom : madeFrom[t] # slot[s].code
       /\ \A o \in Slots : (o # s /\ slot[o].pc # "none" /\ slot[o].code = slot[s].code) => slot[s].code \in unread

OauthInv == OauthTyped /\ TokenTopicIsTrue /\ RegisteringItsOwn /\ MemoryIsRight /\ OnceACode

\* What the types say of the topics and the positions.
LEMMA OauthTypes ==
  ASSUME OauthTyped
  PROVE  /\ begun \in Nat /\ begun <= MaxCodes /\ logins \subseteq Codes /\ codes \subseteq Codes
         /\ codesLog \in Seq(CodeEvent) /\ Len(codesLog) \in Nat /\ codesAt \in 0..Len(codesLog)
         /\ tokensLog \in Seq(TokenEvent) /\ Len(tokensLog) \in Nat /\ tokensAt \in 0..Len(tokensLog)
         /\ DOMAIN codesLog = 1..Len(codesLog) /\ DOMAIN tokensLog = 1..Len(tokensLog)
         /\ slot \in [Slots -> {NoExchange} \cup Exchange]
         /\ madeFrom \in Seq(Codes) /\ Len(madeFrom) \in Nat /\ DOMAIN madeFrom = 1..Len(madeFrom)
         /\ rebuilt \in 0..3
BY OauthAssumption DEF OauthTyped

\* No exchange has code 0 and token 0.
LEMMA NoExchangeIs == NoExchange.pc = "none" /\ NoExchange.code = 0 /\ NoExchange.token = 0
BY DEF NoExchange

\* The fields of an exchange.
LEMMA ExchangeParts ==
  ASSUME NEW e \in Exchange
  PROVE  e.pc \in {"consume", "issue", "register"} /\ e.code \in Codes /\ e.token \in Nat /\ e # NoExchange
<1>1. e.pc \in {"consume", "issue", "register"} /\ e.code \in Codes /\ e.token \in Nat
  BY DEF Exchange
<1> QED BY <1>1, NoExchangeIs

\* The fields of the events of the two topics.
LEMMA EventParts ==
  /\ \A e \in CodeEvent : e.code \in Codes /\ e.verb \in {"issued", "consumed"}
  /\ \A e \in TokenEvent : e.token \in Nat /\ e.verb \in {"issued", "revoked"}
BY DEF CodeEvent, TokenEvent

\* A code is a number, and no exchange has the code 0.
LEMMA CodesAreNumbers == Codes \subseteq Nat \ {0}
BY OauthAssumption DEF Codes

-----------------------------------------------------------------------------
\* Of a memory that is made of the topic: what was answered and is not revoked is in
\* it, and nothing that is revoked.
LEMMA TokensOfTopicAre ==
  ASSUME OauthTyped, TokenTopicIsTrue
  PROVE  /\ answered \ revoked \subseteq TokensOfTopic
         /\ \A j \in DOMAIN tokensLog : tokensLog[j].verb = "revoked" => tokensLog[j].token \notin TokensOfTopic
<1>1. ASSUME NEW t \in answered \ revoked PROVE t \in TokensOfTopic
  <2>1. PICK i \in DOMAIN tokensLog : tokensLog[i] = [verb |-> "issued", token |-> t]
    BY <1>1 DEF TokenTopicIsTrue
  <2>2. tokensLog[i].token = t
    BY <2>1
  <2>3. ASSUME NEW j \in i..Len(tokensLog), tokensLog[j].token = t PROVE tokensLog[j].verb = "issued"
    <3>1. j \in DOMAIN tokensLog
      BY <2>3, OauthTypes
    <3>2. tokensLog[j].verb \in {"issued", "revoked"}
      BY <3>1, OauthTypes, EventParts
    <3>3. tokensLog[j].verb # "revoked"
      BY <1>1, <2>3, <3>1 DEF TokenTopicIsTrue
    <3> QED BY <3>2, <3>3
  <2> QED BY <2>1, <2>2, <2>3 DEF TokensOfTopic
<1>2. ASSUME NEW j \in DOMAIN tokensLog, tokensLog[j].verb = "revoked", tokensLog[j].token \in TokensOfTopic
      PROVE  FALSE
  <2>1. PICK k \in DOMAIN tokensLog :
           /\ tokensLog[k].token = tokensLog[j].token
           /\ \A h \in k..Len(tokensLog) : tokensLog[h].token = tokensLog[k].token => tokensLog[h].verb = "issued"
    BY <1>2 DEF TokensOfTopic
  <2>2. tokensLog[k].verb = "issued"
    BY <2>1, OauthTypes
  <2>3. j > k
    BY <1>2, <2>1, <2>2 DEF TokenTopicIsTrue
  <2>4. j \in k..Len(tokensLog)
    BY <2>3, OauthTypes
  <2> QED BY <1>2, <2>1, <2>4
<1> QED BY <1>1, <1>2

\* At the start there is no code and no token.
LEMMA OauthStart == OauthInit => OauthInv
<1> SUFFICES ASSUME OauthInit PROVE OauthInv
  OBVIOUS
<1> USE DEF OauthInit
<1>1. OauthTyped
  BY OauthAssumption DEF OauthTyped
<1>2. TokenTopicIsTrue
  BY DEF TokenTopicIsTrue
<1>3. RegisteringItsOwn
  BY NoExchangeIs DEF RegisteringItsOwn
<1>4. MemoryIsRight
  BY DEF MemoryIsRight
<1>5. OnceACode
  BY NoExchangeIs DEF OnceACode
<1> QED BY <1>1, <1>2, <1>3, <1>4, <1>5 DEF OauthInv

\* What follows depends only on these variables.
LEMMA SameTokenTopic ==
  ASSUME TokenTopicIsTrue, UNCHANGED <<answered, revoked, madeFrom, tokensLog>> PROVE TokenTopicIsTrue'
BY DEF TokenTopicIsTrue
LEMMA SameRegistering ==
  ASSUME RegisteringItsOwn, UNCHANGED <<slot, madeFrom, answered>> PROVE RegisteringItsOwn'
BY DEF RegisteringItsOwn
LEMMA SameMemory ==
  ASSUME MemoryIsRight, UNCHANGED <<rebuilt, answered, revoked, tokens, tokensAt, tokensLog>> PROVE MemoryIsRight'
BY DEF MemoryIsRight, AllRebuilt
LEMMA SameCodes ==
  ASSUME OnceACode, UNCHANGED <<slot, madeFrom, unread, codesLog>> PROVE OnceACode'
BY DEF OnceACode, Exchanged, Consumed

\* The topic of the codes only grows, and so does what is consumed.
LEMMA CodePublished ==
  ASSUME OauthTyped, NEW e \in CodeEvent, codesLog' = Append(codesLog, e)
  PROVE  /\ codesLog' \in Seq(CodeEvent) /\ codesAt \in 0..Len(codesLog')
         /\ Exchanged \subseteq Exchanged'
         /\ \A c \in Codes : e = [verb |-> "consumed", code |-> c] => c \in Exchanged'
<1> DEFINE n == Len(codesLog)
<1>1. n \in Nat /\ codesLog \in Seq(CodeEvent) /\ codesAt \in 0..n /\ DOMAIN codesLog = 1..n
  BY OauthTypes
<1>2. /\ codesLog' \in Seq(CodeEvent) /\ Len(codesLog') = n + 1
      /\ codesLog'[n + 1] = e /\ \A i \in 1..n : codesLog'[i] = codesLog[i]
  BY <1>1
<1>3. DOMAIN codesLog' = 1..n + 1
  BY <1>2
<1> HIDE DEF n
<1>4. ASSUME NEW c \in Codes, Consumed(c) PROVE Consumed(c)'
  <2>1. PICK i \in 1..n : codesLog[i] = [verb |-> "consumed", code |-> c]
    BY <1>1, <1>4 DEF Consumed
  <2>2. i \in 1..n + 1 /\ codesLog'[i] = [verb |-> "consumed", code |-> c]
    BY <1>1, <1>2, <2>1
  <2> QED BY <1>3, <2>2 DEF Consumed
<1>5. ASSUME NEW c \in Codes, e = [verb |-> "consumed", code |-> c] PROVE Consumed(c)'
  <2>1. n + 1 \in 1..n + 1
    BY <1>1
  <2> QED BY <1>2, <1>3, <1>5, <2>1 DEF Consumed
<1> QED BY <1>1, <1>2, <1>4, <1>5 DEF Exchanged
\* Each action of the component keeps it.
LEMMA OauthStep == OauthInv /\ [OauthNext]_avars => OauthInv'
<1> SUFFICES ASSUME OauthInv, [OauthNext]_avars PROVE OauthInv'
  OBVIOUS
<1> USE DEF OauthInv
<1>1. ASSUME Authorize PROVE OauthInv'
  <2>1. /\ begun < MaxCodes /\ begun' = begun + 1 /\ logins' = logins \cup {begun'}
        /\ UNCHANGED <<codesLog, codesAt, codes, expired, tokensLog, tokensAt, tokens, slot, madeFrom,
                       answered, revoked, unread, rebuilt>>
    BY <1>1 DEF Authorize
  <2>2. begun' \in 0..MaxCodes /\ begun' \in Codes
    BY <2>1, OauthTypes, OauthAssumption DEF Codes
  <2>3. OauthTyped'
    BY <2>1, <2>2 DEF OauthTyped
  <2> QED BY <2>1, <2>3, SameTokenTopic, SameRegistering, SameMemory, SameCodes
<1>2. ASSUME NEW c \in Codes, Callback(c) PROVE OauthInv'
  <2>1. /\ c \in logins /\ logins' = logins \ {c} /\ (UNCHANGED codesLog \/ IssueCode(c))
        /\ UNCHANGED <<begun, codesAt, codes, expired, tokensLog, tokensAt, tokens, slot, madeFrom,
                       answered, revoked, unread, rebuilt>>
    BY <1>2 DEF Callback
  <2>2. CASE UNCHANGED codesLog
    <3>1. OauthTyped'
      BY <2>1, <2>2 DEF OauthTyped
    <3> QED BY <2>1, <2>2, <3>1, SameTokenTopic, SameRegistering, SameMemory, SameCodes
  <2>3. CASE IssueCode(c)
    <3> DEFINE e == [verb |-> "issued", code |-> c]
    <3>1. e \in CodeEvent /\ codesLog' = Append(codesLog, e)
      BY <1>2, <2>3 DEF IssueCode, CodeEvent
    <3> HIDE DEF e
    <3>2. /\ codesLog' \in Seq(CodeEvent) /\ codesAt \in 0..Len(codesLog')
          /\ Exchanged \subseteq Exchanged'
      BY <3>1, CodePublished
    <3>3. OauthTyped'
      BY <2>1, <3>2 DEF OauthTyped
    <3>4. OnceACode'
      <4>1. \A t \in DOMAIN madeFrom : madeFrom[t] \in Codes
        BY OauthTypes
      <4>2. \A s \in Slots : slot[s].pc \in {"issue", "register"} => slot[s].code \in Codes
        BY OauthTypes, ExchangeParts, NoExchangeIs
      <4> QED BY <2>1, <3>2, <4>1, <4>2 DEF OnceACode
    <3> QED BY <2>1, <3>3, <3>4, SameTokenTopic, SameRegistering, SameMemory
  <2> QED BY <2>1, <2>2, <2>3
<1>3. ASSUME NEW s \in Slots, NEW c \in Codes, BeginExchange(s, c) PROVE OauthInv'
  <2> DEFINE e == [pc |-> "consume", code |-> c, token |-> 0]
  <2>1. /\ slot[s] = NoExchange /\ slot' = [slot EXCEPT ![s] = e]
        /\ unread' = IF Consumed(c) \/ \E o \in Slots : slot[o].code = c THEN unread \cup {c} ELSE unread
        /\ UNCHANGED <<logins, begun, codesLog, codesAt, codes, expired, tokensLog, tokensAt, tokens,
                       madeFrom, answered, revoked, rebuilt>>
    BY <1>3 DEF BeginExchange
  <2>2. e \in Exchange /\ e.pc = "consume" /\ e.code = c
    BY <1>3 DEF Exchange
  <2> HIDE DEF e
  <2>3. /\ slot' \in [Slots -> {NoExchange} \cup Exchange] /\ slot'[s] = e
        /\ \A o \in Slots : o # s => slot'[o] = slot[o]
    BY <2>1, <2>2, OauthTypes
  <2>4. OauthTyped'
    BY <2>1, <2>3 DEF OauthTyped
  <2>5. RegisteringItsOwn'
    BY <2>1, <2>2, <2>3 DEF RegisteringItsOwn
  <2>6. unread \subseteq unread' /\ (c \notin unread' => c \notin Exchanged /\ \A o \in Slots : slot[o].code # c)
    BY <2>1 DEF Exchanged
  <2>7. Exchanged' = Exchanged
    BY <2>1 DEF Exchanged, Consumed
  <2>8. OnceACode'
    <3>1. \A t \in DOMAIN madeFrom' : madeFrom'[t] \in Exchanged'
      BY <2>1, <2>7 DEF OnceACode
    <3>2. \A t, u \in DOMAIN madeFrom' : (t # u /\ madeFrom'[t] = madeFrom'[u]) => madeFrom'[t] \in unread'
      BY <2>1, <2>6 DEF OnceACode
    <3>3. ASSUME NEW o \in Slots
          PROVE /\ slot'[o].pc \in {"issue", "register"} => slot'[o].code \in Exchanged'
                /\ (slot'[o].pc \in {"consume", "issue"} /\ slot'[o].code \notin unread') =>
                     \A t \in DOMAIN madeFrom' : madeFrom'[t] # slot'[o].code
      <4>1. CASE o = s
        <5>1. c \notin unread' => \A t \in DOMAIN madeFrom : madeFrom[t] # c
          BY <2>6 DEF OnceACode
        <5> QED BY <4>1, <5>1, <2>1, <2>2, <2>3
      <4>2. CASE o # s
        BY <4>2, <2>1, <2>3, <2>6, <2>7 DEF OnceACode
      <4> QED BY <4>1, <4>2
    <3>4. ASSUME NEW o \in Slots, NEW p \in Slots, p # o, slot'[p].pc # "none", slot'[p].code = slot'[o].code
          PROVE  slot'[o].code \in unread'
      <4>1. CASE o = s
        BY <4>1, <3>4, <2>2, <2>3, <2>6
      <4>2. CASE p = s
        BY <4>2, <3>4, <2>2, <2>3, <2>6
      <4>3. CASE o # s /\ p # s
        BY <4>3, <3>4, <2>3, <2>6 DEF OnceACode
      <4> QED BY <4>1, <4>2, <4>3
    <3> QED BY <3>1, <3>2, <3>3, <3>4 DEF OnceACode
  <2> QED BY <2>1, <2>4, <2>5, <2>8, SameTokenTopic, SameMemory
<1>4. ASSUME NEW s \in Slots, Consume(s) PROVE OauthInv'
  <2> DEFINE c == slot[s].code
             e == [verb |-> "consumed", code |-> c]
             x1 == [slot[s] EXCEPT !.pc = "issue"]
  <2>1. /\ slot[s].pc = "consume" /\ slot' = [slot EXCEPT ![s] = x1] /\ codesLog' = Append(codesLog, e)
        /\ UNCHANGED <<logins, begun, codesAt, codes, expired, tokensLog, tokensAt, tokens, madeFrom,
                       answered, revoked, unread, rebuilt>>
    BY <1>4 DEF Consume
  <2>2. slot[s] \in Exchange
    BY <2>1, OauthTypes, NoExchangeIs
  <2>3. x1 \in Exchange /\ x1.pc = "issue" /\ x1.code = c
    BY <2>2 DEF Exchange
  <2>4. c \in Codes /\ e \in CodeEvent
    BY <2>2, ExchangeParts DEF CodeEvent
  <2>5. e = [verb |-> "consumed", code |-> c]
    OBVIOUS
  <2> HIDE DEF c, e, x1
  <2>6. /\ codesLog' \in Seq(CodeEvent) /\ codesAt \in 0..Len(codesLog')
        /\ Exchanged \subseteq Exchanged'
        /\ c \in Exchanged'
    BY <2>1, <2>4, <2>5, CodePublished
  <2>7. /\ slot' \in [Slots -> {NoExchange} \cup Exchange] /\ slot'[s] = x1
        /\ \A o \in Slots : o # s => slot'[o] = slot[o]
    BY <2>1, <2>3, OauthTypes
  <2>8. OauthTyped'
    BY <2>1, <2>6, <2>7 DEF OauthTyped
  <2>9. RegisteringItsOwn'
    BY <2>1, <2>3, <2>7 DEF RegisteringItsOwn
  <2>10. OnceACode'
    <3>1. \A t \in DOMAIN madeFrom' : madeFrom'[t] \in Exchanged'
      BY <2>1, <2>6, OauthTypes DEF OnceACode
    <3>2. \A t, u \in DOMAIN madeFrom' : (t # u /\ madeFrom'[t] = madeFrom'[u]) => madeFrom'[t] \in unread'
      BY <2>1 DEF OnceACode
    <3>3. ASSUME NEW o \in Slots
          PROVE /\ slot'[o].pc \in {"issue", "register"} => slot'[o].code \in Exchanged'
                /\ (slot'[o].pc \in {"consume", "issue"} /\ slot'[o].code \notin unread') =>
                     \A t \in DOMAIN madeFrom' : madeFrom'[t] # slot'[o].code
      <4>1. CASE o = s
        <5>1. c \notin unread => \A t \in DOMAIN madeFrom : madeFrom[t] # c
          BY <2>1 DEF OnceACode, c
        <5> QED BY <4>1, <5>1, <2>1, <2>3, <2>6, <2>7
      <4>2. CASE o # s
        <5>1. slot[o].pc \in {"issue", "register"} => slot[o].code \in Codes
          BY OauthTypes, ExchangeParts, NoExchangeIs
        <5> QED BY <4>2, <5>1, <2>1, <2>6, <2>7 DEF OnceACode
      <4> QED BY <4>1, <4>2
    <3>4. ASSUME NEW o \in Slots, NEW p \in Slots, p # o, slot'[p].pc # "none", slot'[p].code = slot'[o].code
          PROVE  slot'[o].code \in unread'
      <4>1. slot'[o].code = slot[o].code /\ slot'[p].code = slot[p].code /\ slot[p].pc # "none"
        BY <3>4, <2>1, <2>3, <2>7 DEF c
      <4> QED BY <3>4, <4>1, <2>1 DEF OnceACode
    <3> QED BY <3>1, <3>2, <3>3, <3>4 DEF OnceACode
  <2> QED BY <2>1, <2>8, <2>9, <2>10, SameTokenTopic, SameMemory
<1>5. ASSUME NEW s \in Slots, IssueToken(s) PROVE OauthInv'
  <2> DEFINE c == slot[s].code
             t == Len(madeFrom) + 1
             e == [verb |-> "issued", token |-> t]
             x1 == [slot[s] EXCEPT !.pc = "register", !.token = t]
             m == Len(tokensLog)
  <2>1. Cardinality(DOMAIN madeFrom) + 1 = t
    <3>1. Len(madeFrom) \in Nat /\ DOMAIN madeFrom = 1..Len(madeFrom)
      BY OauthTypes
    <3>2. Cardinality(1..Len(madeFrom)) = Len(madeFrom)
      <4>1. Cardinality(1..Len(madeFrom)) = IF 1 > Len(madeFrom) THEN 0 ELSE Len(madeFrom) - 1 + 1
        BY <3>1, FS_Interval
      <4> QED BY <3>1, <4>1
    <3> QED BY <3>1, <3>2
  <2>2. /\ slot[s].pc = "issue" /\ slot' = [slot EXCEPT ![s] = x1]
        /\ madeFrom' = Append(madeFrom, c) /\ tokensLog' = Append(tokensLog, e)
        /\ UNCHANGED <<logins, begun, codesLog, codesAt, codes, expired, tokensAt, tokens, answered,
                       revoked, unread, rebuilt>>
    BY <1>5, <2>1 DEF IssueToken
  <2>3. slot[s] \in Exchange
    BY <2>2, OauthTypes, NoExchangeIs
  <2>4. c \in Codes /\ t \in Nat /\ e \in TokenEvent /\ e.verb = "issued" /\ e.token = t
    BY <2>3, ExchangeParts, OauthTypes DEF TokenEvent
  <2>5. x1 \in Exchange /\ x1.pc = "register" /\ x1.code = c /\ x1.token = t
    BY <2>3, <2>4 DEF Exchange
  <2>6. /\ t \in Nat /\ 1 <= t /\ t - 1 \in Nat /\ DOMAIN madeFrom = 1..t - 1 /\ t \notin DOMAIN madeFrom
        /\ m \in Nat /\ DOMAIN tokensLog = 1..m /\ tokensAt \in 0..m /\ tokensLog \in Seq(TokenEvent)
    BY OauthTypes
  <2>7. /\ madeFrom' \in Seq(Codes) /\ DOMAIN madeFrom' = 1..t /\ madeFrom'[t] = c
        /\ \A u \in 1..t - 1 : madeFrom'[u] = madeFrom[u]
    BY <2>2, <2>4, OauthTypes
  <2>8. e = [verb |-> "issued", token |-> t]
    OBVIOUS
  <2> HIDE DEF c, e, x1, t
  <2>9. /\ tokensLog' \in Seq(TokenEvent) /\ Len(tokensLog') = m + 1 /\ tokensLog'[m + 1] = e
        /\ \A i \in 1..m : tokensLog'[i] = tokensLog[i]
    BY <2>2, <2>4, <2>6
  <2> HIDE DEF m
  <2>10. DOMAIN tokensLog' = 1..m + 1
    BY <2>9
  <2>11. /\ slot' \in [Slots -> {NoExchange} \cup Exchange] /\ slot'[s] = x1
         /\ \A o \in Slots : o # s => slot'[o] = slot[o]
    BY <2>2, <2>5, OauthTypes
  <2>12. OauthTyped'
    <3>1. tokensAt \in 0..m + 1
      BY <2>6
    <3> QED BY <2>2, <2>7, <2>9, <2>11, <3>1 DEF OauthTyped
  <2>13. answered \subseteq 1..t - 1 /\ t \notin answered /\ t \notin revoked
    BY <2>6 DEF TokenTopicIsTrue
  <2>14. TokenTopicIsTrue'
    <3>1. answered' \subseteq DOMAIN madeFrom' /\ revoked' \subseteq answered'
      BY <2>2, <2>6, <2>7, <2>13 DEF TokenTopicIsTrue
    <3>2. ASSUME NEW u \in 1..t PROVE \E i \in 1..m + 1 : tokensLog'[i] = [verb |-> "issued", token |-> u]
      <4>1. CASE u = t
        BY <4>1, <2>6, <2>8, <2>9
      <4>2. CASE u # t
        <5>1. u \in 1..t - 1
          BY <4>2, <2>6
        <5>2. PICK i \in 1..m : tokensLog[i] = [verb |-> "issued", token |-> u]
          BY <5>1, <2>6 DEF TokenTopicIsTrue
        <5> QED BY <5>2, <2>6, <2>9
      <4> QED BY <4>1, <4>2
    <3>3. ASSUME NEW i \in 1..m + 1
          PROVE /\ tokensLog'[i].token \in 1..t
                /\ tokensLog'[i].verb = "issued" =>
                     \A j \in 1..m + 1 : (j # i /\ tokensLog'[j].token = tokensLog'[i].token)
                                            => j > i /\ tokensLog'[j].verb = "revoked"
                /\ tokensLog'[i].verb = "revoked" => tokensLog'[i].token \in revoked'
      <4>0. \A j \in 1..m : tokensLog[j].token \in 1..t - 1 /\ tokensLog[j].token # t
        BY <2>6 DEF TokenTopicIsTrue
      <4>1. CASE i = m + 1
        <5>1. \A j \in 1..m + 1 : j # i => tokensLog'[j].token # t
          BY <4>0, <4>1, <2>6, <2>9
        <5> QED BY <4>1, <5>1, <2>4, <2>6, <2>9
      <4>2. CASE i \in 1..m
        <5>1. /\ tokensLog[i].verb = "issued" =>
                   \A j \in 1..m : (j # i /\ tokensLog[j].token = tokensLog[i].token)
                                      => j > i /\ tokensLog[j].verb = "revoked"
              /\ tokensLog[i].verb = "revoked" => tokensLog[i].token \in revoked
          BY <4>2, <2>6 DEF TokenTopicIsTrue
        <5>2. tokensLog'[i] = tokensLog[i] /\ tokensLog[i].token # t /\ tokensLog[i].token \in 1..t
          BY <4>0, <4>2, <2>6, <2>9
        <5>3. ASSUME NEW j \in 1..m + 1, j # i, tokensLog'[j].token = tokensLog[i].token
              PROVE  j \in 1..m /\ tokensLog'[j] = tokensLog[j]
          BY <5>2, <5>3, <2>4, <2>6, <2>9
        <5> QED BY <5>1, <5>2, <5>3, <2>2
      <4> QED BY <4>1, <4>2, <2>6
    <3>4. ASSUME NEW u \in revoked PROVE \E i \in 1..m + 1 : tokensLog'[i] = [verb |-> "revoked", token |-> u]
      <4>1. PICK i \in 1..m : tokensLog[i] = [verb |-> "revoked", token |-> u]
        BY <3>4, <2>6 DEF TokenTopicIsTrue
      <4> QED BY <4>1, <2>6, <2>9
    <3>5. revoked' = revoked /\ DOMAIN madeFrom' = 1..t
      BY <2>2, <2>7
    <3> HIDE DEF OauthInv
    <3> QED BY <3>1, <3>2, <3>3, <3>4, <3>5, <2>10 DEF TokenTopicIsTrue
  <2>15. RegisteringItsOwn'
    <3>1. ASSUME NEW o \in Slots, o # s, slot[o].pc = "register"
          PROVE  slot[o].token \in 1..t - 1 /\ slot[o].token # t /\ slot[o].token \in 1..t
      BY <3>1, <2>6 DEF RegisteringItsOwn
    <3>2. t \in 1..t
      BY <2>6
    <3> QED BY <2>2, <2>5, <2>7, <2>11, <2>13, <3>1, <3>2 DEF RegisteringItsOwn
  <2>16. MemoryIsRight'
    <3>1. \A j \in 1..tokensAt : tokensLog'[j] = tokensLog[j]
      BY <2>6, <2>9
    <3> QED BY <2>2, <3>1 DEF MemoryIsRight, AllRebuilt
  <2>17. OnceACode'
    <3>0. Exchanged' = Exchanged
      BY <2>2 DEF Exchanged, Consumed
    <3>1. c \in Exchanged /\ (c \notin unread => \A u \in 1..t - 1 : madeFrom[u] # c)
      BY <2>2, <2>6 DEF OnceACode, c
    <3>2. \A u \in 1..t : u = t \/ u \in 1..t - 1
      BY <2>6
    <3>3. \A u \in DOMAIN madeFrom' : madeFrom'[u] \in Exchanged'
      BY <2>6, <2>7, <3>0, <3>1, <3>2 DEF OnceACode
    <3>4. ASSUME NEW u \in 1..t, NEW v \in 1..t, u # v, madeFrom'[u] = madeFrom'[v] PROVE madeFrom'[u] \in unread'
      <4>1. CASE u = t \/ v = t
        BY <4>1, <3>1, <3>2, <3>4, <2>2, <2>7
      <4>2. CASE u # t /\ v # t
        BY <4>2, <3>2, <3>4, <2>2, <2>6, <2>7 DEF OnceACode
      <4> QED BY <4>1, <4>2
    <3>5. ASSUME NEW o \in Slots
          PROVE /\ slot'[o].pc \in {"issue", "register"} => slot'[o].code \in Exchanged'
                /\ (slot'[o].pc \in {"consume", "issue"} /\ slot'[o].code \notin unread') =>
                     \A u \in DOMAIN madeFrom' : madeFrom'[u] # slot'[o].code
      <4>1. CASE o = s
        BY <4>1, <3>0, <3>1, <2>5, <2>11
      <4>2. CASE o # s
        <5>1. slot'[o] = slot[o]
          BY <4>2, <2>11
        <5>2. (slot[o].pc # "none" /\ slot[o].code = c) => c \in unread
          BY <4>2 DEF OnceACode, c
        <5> QED BY <5>1, <5>2, <3>0, <3>2, <2>2, <2>6, <2>7 DEF OnceACode
      <4> QED BY <4>1, <4>2
    <3>6. ASSUME NEW o \in Slots, NEW p \in Slots, p # o, slot'[p].pc # "none", slot'[p].code = slot'[o].code
          PROVE  slot'[o].code \in unread'
      <4>1. slot'[o].code = slot[o].code /\ slot'[p].code = slot[p].code /\ slot[p].pc # "none"
        BY <3>6, <2>2, <2>5, <2>11 DEF c
      <4> QED BY <3>6, <4>1, <2>2 DEF OnceACode
    <3> QED BY <3>3, <3>4, <3>5, <3>6, <2>7 DEF OnceACode
  <2> QED BY <2>12, <2>14, <2>15, <2>16, <2>17
<1>6. ASSUME NEW s \in Slots, RegisterToken(s) PROVE OauthInv'
  <2> DEFINE t == slot[s].token
  <2>1. /\ slot[s].pc = "register" /\ slot' = [slot EXCEPT ![s] = NoExchange]
        /\ tokens' = tokens \cup {t} /\ answered' = answered \cup {t}
        /\ UNCHANGED <<logins, begun, codesLog, codesAt, codes, expired, tokensLog, tokensAt, madeFrom,
                       revoked, unread, rebuilt>>
    BY <1>6 DEF RegisterToken
  <2>2. /\ t \in DOMAIN madeFrom \ answered
        /\ \A o \in Slots : (o # s /\ slot[o].pc = "register") => slot[o].token # t
    BY <2>1 DEF RegisteringItsOwn
  <2> HIDE DEF t
  <2>3. /\ slot' \in [Slots -> {NoExchange} \cup Exchange] /\ slot'[s] = NoExchange
        /\ \A o \in Slots : o # s => slot'[o] = slot[o]
    BY <2>1, OauthTypes
  <2>4. OauthTyped'
    BY <2>1, <2>3 DEF OauthTyped
  <2>5. TokenTopicIsTrue'
    BY <2>1, <2>2 DEF TokenTopicIsTrue
  <2>6. RegisteringItsOwn'
    BY <2>1, <2>2, <2>3, NoExchangeIs DEF RegisteringItsOwn
  <2>7. MemoryIsRight'
    <3>1. t \notin revoked
      BY <2>2 DEF TokenTopicIsTrue
    <3>2. \A j \in 1..tokensAt : tokensLog[j].verb = "revoked" => tokensLog[j].token # t
      <4>1. \A j \in 1..tokensAt : j \in DOMAIN tokensLog
        BY OauthTypes
      <4> QED BY <3>1, <4>1 DEF TokenTopicIsTrue
    <3> QED BY <2>1, <3>1, <3>2 DEF MemoryIsRight, AllRebuilt
  <2>8. OnceACode'
    <3>1. Exchanged' = Exchanged
      BY <2>1 DEF Exchanged, Consumed
    <3>2. \A d \in DOMAIN madeFrom : madeFrom[d] \in Exchanged /\ madeFrom[d] # 0
      <4>1. \A d \in DOMAIN madeFrom : madeFrom[d] \in Codes
        BY OauthTypes
      <4> QED BY <4>1, CodesAreNumbers DEF OnceACode
    <3>3. ASSUME NEW o \in Slots
          PROVE /\ slot'[o].pc \in {"issue", "register"} => slot'[o].code \in Exchanged'
                /\ (slot'[o].pc \in {"consume", "issue"} /\ slot'[o].code \notin unread') =>
                     \A u \in DOMAIN madeFrom' : madeFrom'[u] # slot'[o].code
      BY <2>1, <2>3, <3>1, NoExchangeIs DEF OnceACode
    <3>4. ASSUME NEW o \in Slots, NEW p \in Slots, p # o, slot'[p].pc # "none", slot'[p].code = slot'[o].code
          PROVE  slot'[o].code \in unread'
      <4>1. p # s /\ slot'[p] = slot[p]
        BY <3>4, <2>3, NoExchangeIs
      <4>2. slot[p].code # 0
        BY <3>4, <4>1, OauthTypes, ExchangeParts, NoExchangeIs, CodesAreNumbers
      <4>3. o # s /\ slot'[o] = slot[o]
        BY <3>4, <4>1, <4>2, <2>3, NoExchangeIs
      <4> QED BY <3>4, <4>1, <4>3, <2>1 DEF OnceACode
    <3> QED BY <2>1, <3>1, <3>2, <3>3, <3>4 DEF OnceACode
  <2> QED BY <2>4, <2>5, <2>6, <2>7, <2>8
<1>7. ASSUME NEW t \in Tokens, Revoke(t) PROVE OauthInv'
  <2> DEFINE e == [verb |-> "revoked", token |-> t]
             m == Len(tokensLog)
  <2>1. /\ t \in answered \cap tokens /\ t \notin revoked /\ revoked' = revoked \cup {t}
        /\ tokensLog' = Append(tokensLog, e)
        /\ UNCHANGED <<logins, begun, codesLog, codesAt, codes, expired, tokensAt, tokens, slot, madeFrom,
                       answered, unread, rebuilt>>
    BY <1>7 DEF Revoke
  <2>2. /\ m \in Nat /\ DOMAIN tokensLog = 1..m /\ tokensAt \in 0..m /\ tokensLog \in Seq(TokenEvent)
        /\ answered \subseteq DOMAIN madeFrom /\ DOMAIN madeFrom \subseteq Nat
    BY OauthTypes DEF TokenTopicIsTrue
  <2>3. e \in TokenEvent /\ e.verb = "revoked" /\ e.token = t
    BY <2>1, <2>2 DEF TokenEvent
  <2>4. e = [verb |-> "revoked", token |-> t]
    OBVIOUS
  <2> HIDE DEF e
  <2>5. /\ tokensLog' \in Seq(TokenEvent) /\ Len(tokensLog') = m + 1 /\ tokensLog'[m + 1] = e
        /\ \A i \in 1..m : tokensLog'[i] = tokensLog[i]
    BY <2>1, <2>2, <2>3
  <2> HIDE DEF m
  <2>6. DOMAIN tokensLog' = 1..m + 1
    BY <2>5
  <2>7. OauthTyped'
    <3>1. tokensAt \in 0..m + 1
      BY <2>2
    <3> QED BY <2>1, <2>5, <3>1 DEF OauthTyped
  <2>8. TokenTopicIsTrue'
    <3>1. \A u \in DOMAIN madeFrom : \E i \in 1..m + 1 : tokensLog'[i] = [verb |-> "issued", token |-> u]
      <4>1. SUFFICES ASSUME NEW u \in DOMAIN madeFrom
                     PROVE  \E i \in 1..m + 1 : tokensLog'[i] = [verb |-> "issued", token |-> u]
        OBVIOUS
      <4>2. PICK i \in 1..m : tokensLog[i] = [verb |-> "issued", token |-> u]
        BY <2>2 DEF TokenTopicIsTrue
      <4> QED BY <4>2, <2>2, <2>5
    <3>2. ASSUME NEW i \in 1..m + 1
          PROVE /\ tokensLog'[i].token \in DOMAIN madeFrom
                /\ tokensLog'[i].verb = "issued" =>
                     \A j \in 1..m + 1 : (j # i /\ tokensLog'[j].token = tokensLog'[i].token)
                                            => j > i /\ tokensLog'[j].verb = "revoked"
                /\ tokensLog'[i].verb = "revoked" => tokensLog'[i].token \in revoked'
      <4>1. CASE i = m + 1
        BY <4>1, <2>1, <2>2, <2>3, <2>5
      <4>2. CASE i \in 1..m
        <5>1. /\ tokensLog[i].token \in DOMAIN madeFrom
              /\ tokensLog[i].verb = "issued" =>
                   \A j \in 1..m : (j # i /\ tokensLog[j].token = tokensLog[i].token)
                                      => j > i /\ tokensLog[j].verb = "revoked"
              /\ tokensLog[i].verb = "revoked" => tokensLog[i].token \in revoked
          BY <4>2, <2>2 DEF TokenTopicIsTrue
        <5>2. tokensLog'[i] = tokensLog[i]
          BY <4>2, <2>5
        <5>3. ASSUME tokensLog[i].verb = "issued", NEW j \in 1..m + 1, j # i, tokensLog'[j].token = tokensLog[i].token
              PROVE  j > i /\ tokensLog'[j].verb = "revoked"
          <6>1. CASE j = m + 1
            BY <6>1, <4>2, <2>2, <2>3, <2>5
          <6>2. CASE j \in 1..m
            BY <6>2, <5>1, <5>3, <2>5
          <6> QED BY <6>1, <6>2, <2>2
        <5> QED BY <5>1, <5>2, <5>3, <2>1
      <4> QED BY <4>1, <4>2, <2>2
    <3>3. ASSUME NEW u \in revoked' PROVE \E i \in 1..m + 1 : tokensLog'[i] = [verb |-> "revoked", token |-> u]
      <4>1. CASE u = t
        <5>1. m + 1 \in 1..m + 1
          BY <2>2
        <5> QED BY <4>1, <5>1, <2>4, <2>5
      <4>2. CASE u \in revoked
        <5>1. PICK i \in 1..m : tokensLog[i] = [verb |-> "revoked", token |-> u]
          BY <4>2, <2>2 DEF TokenTopicIsTrue
        <5> QED BY <5>1, <2>2, <2>5
      <4> QED BY <4>1, <4>2, <2>1
    <3>4. answered \subseteq DOMAIN madeFrom /\ revoked' \subseteq answered
      BY <2>1 DEF TokenTopicIsTrue
    <3>5. madeFrom' = madeFrom /\ answered' = answered
      BY <2>1
    <3> HIDE DEF OauthInv
    <3> QED BY <3>1, <3>2, <3>3, <3>4, <3>5, <2>6 DEF TokenTopicIsTrue
  <2>9. MemoryIsRight'
    <3>1. \A j \in 1..tokensAt : tokensLog'[j] = tokensLog[j]
      BY <2>2, <2>5
    <3> QED BY <2>1, <3>1 DEF MemoryIsRight, AllRebuilt
  <2> QED BY <2>1, <2>7, <2>8, <2>9, SameRegistering, SameCodes
<1>8. ASSUME ProjectCode PROVE OauthInv'
  <2>1. /\ codesAt < Len(codesLog) /\ codesAt' = codesAt + 1
        /\ codes' = WithCode(codes, codesLog[codesAt + 1])
        /\ UNCHANGED <<logins, begun, codesLog, expired, tokensLog, tokensAt, tokens, slot, madeFrom,
                       answered, revoked, unread, rebuilt>>
    BY <1>8 DEF ProjectCode
  <2>2. codesAt' \in 0..Len(codesLog) /\ codesAt + 1 \in DOMAIN codesLog
    BY <2>1, OauthTypes
  <2>3. codes' \subseteq Codes
    BY <2>1, <2>2, OauthTypes, EventParts DEF WithCode
  <2>4. OauthTyped'
    BY <2>1, <2>2, <2>3 DEF OauthTyped
  <2> QED BY <2>1, <2>4, SameTokenTopic, SameRegistering, SameMemory, SameCodes
<1>9. ASSUME ProjectToken PROVE OauthInv'
  <2> DEFINE k == tokensAt + 1
  <2>1. /\ tokensAt < Len(tokensLog) /\ tokensAt' = k /\ tokens' = WithToken(tokens, tokensLog[k])
        /\ AllRebuilt
        /\ UNCHANGED <<logins, begun, codesLog, codesAt, codes, expired, tokensLog, slot, madeFrom,
                       answered, revoked, unread, rebuilt>>
    BY <1>9 DEF ProjectToken
  <2>2. /\ k \in 0..Len(tokensLog) /\ k \in DOMAIN tokensLog /\ tokensAt \in Nat
        /\ \A j \in 1..k : j \in DOMAIN tokensLog /\ (j = k \/ j \in 1..tokensAt)
        /\ \A j \in 1..k : ~ (j > k)
    BY <2>1, OauthTypes
  <2>3. OauthTyped'
    BY <2>1, <2>2 DEF OauthTyped
  <2>4. tokensLog[k].verb \in {"issued", "revoked"}
    BY <2>2, OauthTypes, EventParts
  <2> HIDE DEF k
  <2>5. MemoryIsRight'
    <3>1. CASE tokensLog[k].verb = "issued"
      <4>1. tokens' = tokens \cup {tokensLog[k].token}
        BY <2>1, <3>1 DEF WithToken
      <4>2. \A j \in 1..k : tokensLog[j].verb = "revoked" => tokensLog[j].token # tokensLog[k].token
        BY <2>2, <3>1 DEF TokenTopicIsTrue
      <4> QED BY <2>1, <2>2, <3>1, <4>1, <4>2 DEF MemoryIsRight, AllRebuilt
    <3>2. CASE tokensLog[k].verb = "revoked"
      <4>1. tokens' = tokens \ {tokensLog[k].token}
        BY <2>1, <3>2 DEF WithToken
      <4>2. tokensLog[k].token \in revoked
        BY <2>2, <3>2 DEF TokenTopicIsTrue
      <4> QED BY <2>1, <2>2, <4>1, <4>2 DEF MemoryIsRight, AllRebuilt
    <3> QED BY <2>4, <3>1, <3>2
  <2> QED BY <2>1, <2>3, <2>5, SameTokenTopic, SameRegistering, SameCodes
<1>10. ASSUME NEW c \in Codes, Expire(c) PROVE OauthInv'
  <2>1. UNCHANGED <<logins, begun, codesLog, codesAt, codes, tokensLog, tokensAt, tokens, slot, madeFrom,
                    answered, revoked, unread, rebuilt>>
    BY <1>10 DEF Expire
  <2>2. OauthTyped'
    BY <2>1 DEF OauthTyped
  <2> QED BY <2>1, <2>2, SameTokenTopic, SameRegistering, SameMemory, SameCodes
<1>11. ASSUME RestartOauth PROVE OauthInv'
  <2>1. /\ logins' = {} /\ codes' = {} /\ tokens' = {} /\ rebuilt' = 0
        /\ slot' = [s \in Slots |-> NoExchange]
        /\ UNCHANGED <<begun, codesLog, codesAt, expired, tokensLog, tokensAt, madeFrom, answered, revoked, unread>>
    BY <1>11 DEF RestartOauth
  <2>2. OauthTyped'
    BY <2>1 DEF OauthTyped
  <2>3. RegisteringItsOwn'
    BY <2>1, NoExchangeIs DEF RegisteringItsOwn
  <2>4. MemoryIsRight'
    BY <2>1 DEF MemoryIsRight, AllRebuilt
  <2>5. OnceACode'
    <3>1. Exchanged' = Exchanged
      BY <2>1 DEF Exchanged, Consumed
    <3> QED BY <2>1, <3>1, NoExchangeIs DEF OnceACode
  <2> QED BY <2>1, <2>2, <2>3, <2>4, <2>5, SameTokenTopic
<1>12. ASSUME Rebuild PROVE OauthInv'
  <2>1. /\ rebuilt # 3 /\ rebuilt' = rebuilt + 1
        /\ UNCHANGED <<logins, begun, codesLog, expired, tokensLog, slot, madeFrom, answered, revoked, unread>>
    BY <1>12 DEF Rebuild, AllRebuilt
  <2>2. /\ rebuilt = 1 => codes' = CodesOfTopic /\ codesAt' = Len(codesLog)
        /\ rebuilt # 1 => UNCHANGED <<codes, codesAt>>
        /\ rebuilt = 2 => tokens' = TokensOfTopic /\ tokensAt' = Len(tokensLog)
        /\ rebuilt # 2 => UNCHANGED <<tokens, tokensAt>>
    BY <1>12 DEF Rebuild
  <2>3. rebuilt' \in 0..3 /\ (rebuilt' = 3 => rebuilt = 2)
    BY <2>1, OauthTypes
  <2>4. CodesOfTopic \subseteq Codes
    BY OauthTypes, EventParts DEF CodesOfTopic
  <2>5. OauthTyped'
    <3>1. Len(codesLog) \in 0..Len(codesLog) /\ Len(tokensLog) \in 0..Len(tokensLog)
      BY OauthTypes
    <3> QED BY <2>1, <2>2, <2>3, <2>4, <3>1, OauthTypes DEF OauthTyped
  <2>6. MemoryIsRight'
    <3>1. SUFFICES ASSUME rebuilt = 2
                   PROVE /\ answered' \ revoked' \subseteq tokens'
                         /\ \A j \in 1..tokensAt' : tokensLog'[j].verb = "revoked" => tokensLog'[j].token \notin tokens'
      BY <2>3 DEF MemoryIsRight, AllRebuilt
    <3>2. 1..tokensAt' = DOMAIN tokensLog
      BY <2>2, <3>1, OauthTypes
    <3> QED BY <2>1, <2>2, <3>1, <3>2, TokensOfTopicAre
  <2> QED BY <2>1, <2>5, <2>6, SameTokenTopic, SameRegistering, SameCodes
<1>13. CASE UNCHANGED avars
  <2>1. OauthTyped'
    BY <1>13 DEF avars, OauthTyped
  <2> QED BY <1>13, <2>1, SameTokenTopic, SameRegistering, SameMemory, SameCodes DEF avars
<1> QED BY <1>1, <1>2, <1>3, <1>4, <1>5, <1>6, <1>7, <1>8, <1>9, <1>10, <1>11, <1>12, <1>13 DEF OauthNext

\* What was answered is good until it is revoked, and a code is good for one token.
LEMMA GoodTokens == OauthInv => TokensAreGood
<1> SUFFICES ASSUME OauthInv PROVE TokensAreGood
  OBVIOUS
<1> USE DEF OauthInv
<1>1. AllRebuilt => \A t \in answered \ revoked : Claims(t)
  BY DEF MemoryIsRight, Claims
<1>2. ASSUME AllRebuilt, tokensAt = Len(tokensLog), NEW t \in revoked PROVE ~Claims(t)
  <2>1. PICK i \in DOMAIN tokensLog : tokensLog[i] = [verb |-> "revoked", token |-> t]
    BY DEF TokenTopicIsTrue
  <2>2. i \in 1..tokensAt
    BY <1>2, OauthTypes
  <2>3. tokensLog[i].verb = "revoked" /\ tokensLog[i].token = t
    BY <2>1
  <2> QED BY <1>2, <2>2, <2>3 DEF MemoryIsRight, Claims
<1>3. \A t, u \in DOMAIN madeFrom : (t # u /\ madeFrom[t] = madeFrom[u]) => madeFrom[t] \in unread
  BY DEF OnceACode
<1> QED BY <1>1, <1>2, <1>3 DEF TokensAreGood

-----------------------------------------------------------------------------
(* The outbox.  What an activity is addressed to says who is meant, and
   the last that was published of the note, wherever it is on its way, is
   what the note has become, unless a deletion has overtaken it; the table
   keeps rows of what was read, the last of the note last. *)
NoteVerbs == {"Create", "Update", "Delete"}
Names == People \cup {Public, FollowersOf, Answered}
ActivitySet == [verb : NoteVerbs \cup {"Follow", "Like"}, to : SUBSET Names, cc : SUBSET Names]
RowSet == [verb : NoteVerbs \cup {"Follow", "Like"}, visibility : {"public", "followers", "direct"},
           recipients : SUBSET Names]
PostedSet == [visibility : {"public", "unlisted", "private", "direct"}, to : SUBSET People, linked : SUBSET People]
MoveSet == [verb : {"accepted", "deleted"}, who : Fans]

OutboxTyped ==
  /\ outgoing \in Seq(ActivitySet) /\ deliverable \in Seq(ActivitySet) /\ outboxAt \in 0..Len(deliverable)
  /\ outbox \in Seq(RowSet)
  /\ followings \in Seq(MoveSet) /\ followingsAt \in 0..Len(followings)
  /\ posted = Unposted \/ posted \in PostedSet
  /\ removed \in BOOLEAN /\ overtaken \in BOOLEAN

\* What an activity's addresses amount to.
ShownAs(visibility) ==
  IF visibility \in {"public", "unlisted"} THEN "public"
  ELSE IF visibility = "private" THEN "followers" ELSE "direct"

IsTrue(a) ==
  /\ a.verb \in {"Create", "Update"} => /\ posted # Unposted
                                       /\ VisibilityOf(a) = ShownAs(posted.visibility)
                                       /\ RecipientsOf(a) \subseteq posted.to \cup posted.linked
  /\ a.verb = "Follow" => VisibilityOf(a) = "direct" /\ RecipientsOf(a) = {}
  /\ a.verb = "Like" => VisibilityOf(a) = "direct" /\ RecipientsOf(a) = {Answered}
  /\ a.verb = "Delete" => removed

\* What is published says the truth, and a deletion that was overtaken is one.
ActivitiesAreTrue ==
  /\ \A i \in DOMAIN outgoing : IsTrue(outgoing[i])
  /\ \A i \in DOMAIN deliverable : IsTrue(deliverable[i])
  /\ overtaken => removed
  /\ removed => posted # Unposted

\* The last that is published of a note is what it has become.
IsLatest(s, k) == k \in DOMAIN s /\ s[k].verb \in NoteVerbs
                  /\ \A j \in DOMAIN s : s[j].verb \in NoteVerbs => j <= k
IsCurrent(a) ==
  IF removed THEN a.verb = "Delete"
  ELSE a.verb \in {"Create", "Update"} /\ RecipientsOf(a) = posted.to \cup posted.linked
OnTheWay == deliverable \o outgoing
LatestIsCurrent ==
  (posted # Unposted /\ ~overtaken) => \E k \in DOMAIN OnTheWay : IsLatest(OnTheWay, k) /\ IsCurrent(OnTheWay[k])

\* The table has what the projection has read; its last row of a note is the last
\* that it has read of one.
KeepsLatest(rows, n) ==
  \A k \in 1..n :
    (/\ deliverable[k].verb \in NoteVerbs
     /\ \A j \in 1..n : deliverable[j].verb \in NoteVerbs => j <= k)
      => \E i \in DOMAIN rows : /\ rows[i] = Row(deliverable[k])
                                /\ \A j \in DOMAIN rows : rows[j].verb \in NoteVerbs => j <= i
IsTable(rows, n) ==
  /\ rows \in Seq(RowSet)
  /\ \A i \in DOMAIN rows : \E k \in 1..n : rows[i] = Row(deliverable[k])
  /\ KeepsLatest(rows, n)

OutboxInv ==
  /\ OutboxTyped /\ ActivitiesAreTrue /\ LatestIsCurrent
  /\ IsTable(outbox, outboxAt) /\ fans = FollowersAfter(followingsAt)

-----------------------------------------------------------------------------
\* What the types say of the topics, the table and the position.
LEMMA OutboxTypes ==
  ASSUME OutboxTyped
  PROVE  /\ outgoing \in Seq(ActivitySet) /\ deliverable \in Seq(ActivitySet) /\ outboxAt \in 0..Len(deliverable)
         /\ Len(deliverable) \in Nat /\ outboxAt \in Nat /\ Len(outgoing) \in Nat
         /\ DOMAIN deliverable = 1..Len(deliverable) /\ DOMAIN outgoing = 1..Len(outgoing)
         /\ outbox \in Seq(RowSet) /\ Len(outbox) \in Nat /\ DOMAIN outbox = 1..Len(outbox)
         /\ followings \in Seq(MoveSet) /\ followingsAt \in 0..Len(followings) /\ Len(followings) \in Nat
         /\ DOMAIN followings = 1..Len(followings) /\ followingsAt \in Nat
         /\ posted = Unposted \/ posted \in PostedSet
         /\ removed \in BOOLEAN /\ overtaken \in BOOLEAN
BY DEF OutboxTyped

\* The fields of an activity.
LEMMA ActivityParts ==
  ASSUME NEW a \in ActivitySet
  PROVE  a.verb \in NoteVerbs \cup {"Follow", "Like"} /\ a.to \subseteq Names /\ a.cc \subseteq Names
BY DEF ActivitySet

\* The public and the collection of the followers are no actors.
LEMMA NotAnActor == /\ Public \notin People \cup {Answered} /\ FollowersOf \notin People \cup {Answered}
                    /\ Public # FollowersOf
BY OutboxAssumption DEF Public, FollowersOf

\* A row says of an activity whom it is for.
LEMMA RowIs ==
  ASSUME NEW a \in ActivitySet
  PROVE  /\ Row(a) \in RowSet /\ Row(a).verb = a.verb
         /\ Row(a).visibility = VisibilityOf(a) /\ Row(a).recipients = RecipientsOf(a)
<1>1. VisibilityOf(a) \in {"public", "followers", "direct"}
  BY DEF VisibilityOf
<1>2. RecipientsOf(a) \subseteq Names
  BY ActivityParts DEF RecipientsOf, Audience
<1>3. Row(a).verb = a.verb /\ Row(a).visibility = VisibilityOf(a) /\ Row(a).recipients = RecipientsOf(a)
  BY DEF Row
<1>4. Row(a) = [verb |-> a.verb, visibility |-> VisibilityOf(a), recipients |-> RecipientsOf(a)]
  BY DEF Row
<1>5. Row(a) \in RowSet
  BY <1>1, <1>2, <1>4, ActivityParts DEF RowSet
<1> QED BY <1>3, <1>5

\* Every activity of an author is one of those that the projection keeps.
LEMMA EveryRowAdded ==
  ASSUME NEW rows, NEW a \in ActivitySet PROVE AddRow(rows, a) = Append(rows, Row(a))
<1>1. a.verb \in Projected
  BY ActivityParts DEF Projected, NoteVerbs
<1> QED BY <1>1 DEF AddRow

\* What the addresses that create_status and the relinking choose amount to.
Reaches(a, A, L) == RecipientsOf(a) = A \cup L
Addressed(verb, v, A, L) == Activity(verb, ToOf(v, A), CcOf(v, A) \cup L)
LEMMA Addresses ==
  ASSUME NEW v \in {"public", "unlisted", "private", "direct"}, NEW A \in SUBSET People, NEW L \in SUBSET People,
         NEW verb \in {"Create", "Update"}, NEW a, a = Addressed(verb, v, A, L)
  PROVE  /\ a \in ActivitySet /\ a.verb = verb
         /\ VisibilityOf(a) = ShownAs(v) /\ Reaches(a, A, L)
<1> USE DEF Reaches
<1>1. a.verb = verb /\ a.to = ToOf(v, A) /\ a.cc = CcOf(v, A) \cup L
  BY DEF Addressed, Activity
<1>2. ToOf(v, A) \subseteq Names /\ CcOf(v, A) \subseteq Names
  BY DEF ToOf, CcOf, Names
<1>3. a \in ActivitySet
  <2>1. L \subseteq Names
    BY DEF Names
  <2> QED BY <1>2, <2>1 DEF Addressed, Activity, ActivitySet, NoteVerbs
<1>4. Audience(a) = ToOf(v, A) \cup CcOf(v, A) \cup L
  BY <1>1 DEF Audience
<1>5. Public \notin A \cup L /\ FollowersOf \notin A \cup L /\ Public # FollowersOf
  BY NotAnActor
<1>6. CASE v = "public"
  <2>1. ToOf(v, A) = {Public} /\ CcOf(v, A) = {FollowersOf} \cup A
    BY <1>6 DEF ToOf, CcOf
  <2>2. Audience(a) = {Public, FollowersOf} \cup A \cup L
    BY <1>4, <2>1
  <2> QED BY <1>1, <1>3, <1>5, <1>6, <2>2 DEF VisibilityOf, RecipientsOf, ShownAs
<1>7. CASE v = "unlisted"
  <2>1. ToOf(v, A) = {FollowersOf} /\ CcOf(v, A) = {Public} \cup A
    BY <1>7 DEF ToOf, CcOf
  <2>2. Audience(a) = {Public, FollowersOf} \cup A \cup L
    BY <1>4, <2>1
  <2> QED BY <1>1, <1>3, <1>5, <1>7, <2>2 DEF VisibilityOf, RecipientsOf, ShownAs
<1>8. CASE v = "private"
  <2>1. ToOf(v, A) = {FollowersOf} /\ CcOf(v, A) = A
    BY <1>8 DEF ToOf, CcOf
  <2>2. Audience(a) = {FollowersOf} \cup A \cup L
    BY <1>4, <2>1
  <2> QED BY <1>1, <1>3, <1>5, <1>8, <2>2 DEF VisibilityOf, RecipientsOf, ShownAs
<1>9. CASE v = "direct"
  <2>1. ToOf(v, A) = A /\ CcOf(v, A) = {}
    BY <1>9 DEF ToOf, CcOf
  <2>2. Audience(a) = A \cup L
    BY <1>4, <2>1
  <2> QED BY <1>1, <1>3, <1>5, <1>9, <2>2 DEF VisibilityOf, RecipientsOf, ShownAs
<1> QED BY <1>6, <1>7, <1>8, <1>9

-----------------------------------------------------------------------------
\* The table, row by row.
LEMMA RowKept ==
  ASSUME OutboxTyped, NEW n \in 0..Len(deliverable) - 1, NEW rows, IsTable(rows, n)
  PROVE  IsTable(AddRow(rows, deliverable[n + 1]), n + 1)
<1> DEFINE a == deliverable[n + 1]
           m == Len(rows)
           new == AddRow(rows, a)
<1>1. n \in Nat /\ n + 1 \in Nat /\ n + 1 \in DOMAIN deliverable /\ a \in ActivitySet
  BY OutboxTypes
<1>2. rows \in Seq(RowSet) /\ m \in Nat /\ DOMAIN rows = 1..m
  BY DEF IsTable
<1>3. Row(a) \in RowSet /\ Row(a).verb = a.verb
  BY <1>1, RowIs
<1>4. new = Append(rows, Row(a))
  BY <1>1, EveryRowAdded
<1> HIDE DEF a
<1>5. /\ new \in Seq(RowSet) /\ Len(new) = m + 1 /\ DOMAIN new = 1..m + 1
      /\ new[m + 1] = Row(a) /\ \A i \in 1..m : new[i] = rows[i]
  BY <1>2, <1>3, <1>4
<1> HIDE DEF new, m
<1>6. ASSUME NEW i \in 1..m + 1 PROVE \E k \in 1..n + 1 : new[i] = Row(deliverable[k])
  <2>1. CASE i = m + 1
    BY <2>1, <1>1, <1>5 DEF a
  <2>2. CASE i \in 1..m
    <3>1. PICK k \in 1..n : rows[i] = Row(deliverable[k])
      BY <2>2, <1>2 DEF IsTable
    <3>2. k \in 1..n + 1
      BY <1>1
    <3> QED BY <3>1, <3>2, <2>2, <1>5
  <2> QED BY <2>1, <2>2, <1>2
<1>7. ASSUME NEW k \in 1..n + 1, deliverable[k].verb \in NoteVerbs,
             \A j \in 1..n + 1 : deliverable[j].verb \in NoteVerbs => j <= k
      PROVE  \E i \in 1..m + 1 : /\ new[i] = Row(deliverable[k])
                                 /\ \A j \in 1..m + 1 : new[j].verb \in NoteVerbs => j <= i
  <2>1. CASE k = n + 1
    <3>1. m + 1 \in 1..m + 1 /\ \A j \in 1..m + 1 : j <= m + 1
      BY <1>2
    <3> QED BY <2>1, <3>1, <1>5 DEF a
  <2>2. CASE k # n + 1
    <3>1. k \in 1..n /\ \A j \in 1..n : j \in 1..n + 1
      BY <1>1, <2>2
    <3>2. a.verb \notin NoteVerbs
      <4>1. n + 1 \in 1..n + 1 /\ ~(n + 1 <= k)
        BY <1>1, <3>1
      <4> QED BY <1>7, <4>1 DEF a
    <3>3. PICK i \in 1..m : rows[i] = Row(deliverable[k]) /\ \A j \in 1..m : rows[j].verb \in NoteVerbs => j <= i
      BY <1>2, <1>7, <3>1 DEF IsTable, KeepsLatest
    <3>4. \A j \in 1..m + 1 : new[j].verb \in NoteVerbs => j <= i
      BY <1>2, <1>3, <1>5, <3>2, <3>3
    <3>5. i \in 1..m + 1
      BY <1>2
    <3> QED BY <1>5, <3>3, <3>4, <3>5
  <2> QED BY <2>1, <2>2
<1>8. IsTable(new, n + 1)
  BY <1>5, <1>6, <1>7 DEF IsTable, KeepsLatest
<1> QED BY <1>8 DEF new, a

\* A table that has its last row twice says the same.
LEMMA RowKeptTwice ==
  ASSUME OutboxTyped, NEW n \in 1..Len(deliverable), NEW rows, IsTable(rows, n)
  PROVE  IsTable(AddRow(rows, deliverable[n]), n)
<1> DEFINE a == deliverable[n]
           m == Len(rows)
           new == AddRow(rows, a)
<1>1. n \in Nat /\ n \in 1..n /\ n \in DOMAIN deliverable /\ a \in ActivitySet
  BY OutboxTypes
<1>2. rows \in Seq(RowSet) /\ m \in Nat /\ DOMAIN rows = 1..m
  BY DEF IsTable
<1>3. Row(a) \in RowSet /\ Row(a).verb = a.verb
  BY <1>1, RowIs
<1>4. new = Append(rows, Row(a))
  BY <1>1, EveryRowAdded
<1> HIDE DEF a
<1>5. /\ new \in Seq(RowSet) /\ Len(new) = m + 1 /\ DOMAIN new = 1..m + 1
      /\ new[m + 1] = Row(a) /\ \A i \in 1..m : new[i] = rows[i]
  BY <1>2, <1>3, <1>4
<1> HIDE DEF new, m
<1>6. ASSUME NEW i \in 1..m + 1 PROVE \E k \in 1..n : new[i] = Row(deliverable[k])
  <2>1. CASE i = m + 1
    BY <2>1, <1>1, <1>5 DEF a
  <2>2. CASE i \in 1..m
    BY <2>2, <1>2, <1>5 DEF IsTable
  <2> QED BY <2>1, <2>2, <1>2
<1>7. ASSUME NEW k \in 1..n, deliverable[k].verb \in NoteVerbs,
             \A j \in 1..n : deliverable[j].verb \in NoteVerbs => j <= k
      PROVE  \E i \in 1..m + 1 : /\ new[i] = Row(deliverable[k])
                                 /\ \A j \in 1..m + 1 : new[j].verb \in NoteVerbs => j <= i
  <2>1. CASE k = n
    <3>1. m + 1 \in 1..m + 1 /\ \A j \in 1..m + 1 : j <= m + 1
      BY <1>2
    <3> QED BY <2>1, <3>1, <1>5 DEF a
  <2>2. CASE k # n
    <3>1. a.verb \notin NoteVerbs
      BY <1>1, <1>7, <2>2 DEF a
    <3>2. PICK i \in 1..m : rows[i] = Row(deliverable[k]) /\ \A j \in 1..m : rows[j].verb \in NoteVerbs => j <= i
      BY <1>2, <1>7 DEF IsTable, KeepsLatest
    <3>3. \A j \in 1..m + 1 : new[j].verb \in NoteVerbs => j <= i
      BY <1>2, <1>3, <1>5, <3>1, <3>2
    <3>4. i \in 1..m + 1
      BY <1>2
    <3> QED BY <1>5, <3>2, <3>3, <3>4
  <2> QED BY <2>1, <2>2
<1>8. IsTable(new, n)
  BY <1>5, <1>6, <1>7 DEF IsTable, KeepsLatest
<1> QED BY <1>8 DEF new, a
\* What the recursion makes of the first events is the table of them.
LEMMA RowsAfterAre ==
  ASSUME OutboxTyped
  PROVE  \A n \in 0..Len(deliverable) : IsTable(RowsAfter[n], n)
<1> DEFINE N == Len(deliverable)
           adds == [n \in 1..N |-> [old \in Seq(RowSet) |-> AddRow(old, deliverable[n])]]
           Is(f) == f = [n \in 0..N |-> IF n = 0 THEN <<>> ELSE AddRow(f[n - 1], deliverable[n])]
<1>1. <<>> \in Seq(RowSet) /\ N \in Nat
  BY OutboxTypes
<1>2. ASSUME NEW n \in 1..N, NEW old \in Seq(RowSet) PROVE AddRow(old, deliverable[n]) \in Seq(RowSet)
  <2>1. deliverable[n] \in ActivitySet
    BY OutboxTypes
  <2>2. AddRow(old, deliverable[n]) = Append(old, Row(deliverable[n])) /\ Row(deliverable[n]) \in RowSet
    BY <2>1, EveryRowAdded, RowIs
  <2> QED BY <2>2
<1>3. adds \in [1..N -> [Seq(RowSet) -> Seq(RowSet)]]
  BY <1>2
<1>4. \A n \in 1..N : \A old \in Seq(RowSet) : adds[n][old] = AddRow(old, deliverable[n])
  OBVIOUS
<1> HIDE DEF adds, N, Is
<1>5. PICK f \in [0..N -> Seq(RowSet)] : f[0] = <<>> /\ \A n \in 1..N : f[n] = adds[n][f[n - 1]]
  <2>1. \E f \in [0..N -> Seq(RowSet)] : IsRecursion(f, N, <<>>, adds)
    BY <1>1, <1>3, RecursionExists
  <2> QED BY <2>1 DEF IsRecursion
<1>6. ASSUME NEW n \in 1..N PROVE f[n] = AddRow(f[n - 1], deliverable[n])
  <2>1. f[n - 1] \in Seq(RowSet)
    BY <1>1
  <2> QED BY <1>4, <1>5, <2>1
<1>7. f = [n \in 0..N |-> IF n = 0 THEN <<>> ELSE AddRow(f[n - 1], deliverable[n])]
  <2>1. \A n \in 0..N : f[n] = IF n = 0 THEN <<>> ELSE AddRow(f[n - 1], deliverable[n])
    <3>1. \A n \in 0..N : n = 0 \/ (n # 0 /\ n \in 1..N)
      BY <1>1
    <3> QED BY <1>5, <1>6, <3>1
  <2> QED BY <2>1
<1>8. RowsAfter = CHOOSE h : Is(h)
  BY DEF RowsAfter, Is, N
<1>9. Is(f)
  BY <1>7 DEF Is
<1> HIDE DEF Is
<1>10. Is(RowsAfter)
  BY <1>8, <1>9
<1>11. PICK h : h = RowsAfter
  OBVIOUS
<1>12. h = [n \in 0..N |-> IF n = 0 THEN <<>> ELSE AddRow(h[n - 1], deliverable[n])]
  BY <1>10, <1>11 DEF Is
<1>13. h[0] = <<>> /\ \A n \in 1..N : h[n] = AddRow(h[n - 1], deliverable[n])
  BY <1>1, <1>12
<1> DEFINE S == {n \in Nat : n <= N => IsTable(h[n], n)}
<1>14. 0 \in S
  <2>1. IsTable(<<>>, 0)
    BY <1>1 DEF IsTable, KeepsLatest
  <2> QED BY <1>13, <2>1
<1>15. ASSUME NEW n \in Nat, n \in S PROVE n + 1 \in S
  <2>1. SUFFICES ASSUME n + 1 <= N PROVE IsTable(h[n + 1], n + 1)
    OBVIOUS
  <2>2. n + 1 \in 1..N /\ (n + 1) - 1 = n /\ IsTable(h[n], n)
    BY <1>1, <1>15, <2>1
  <2>3. h[n + 1] = AddRow(h[n], deliverable[n + 1])
    BY <1>13, <2>2
  <2>4. n \in 0..Len(deliverable) - 1
    BY <1>1, <2>1 DEF N
  <2> QED BY <2>2, <2>3, <2>4, RowKept
<1> HIDE DEF S
<1>16. Nat \subseteq S
  BY <1>14, <1>15, SetInduction
<1>17. \A n \in 0..N : IsTable(h[n], n)
  BY <1>1, <1>16 DEF S
<1> QED BY <1>11, <1>17 DEF N

\* An element less.
LEMMA OneLess ==
  ASSUME NEW S, NEW s \in Seq(S), NEW i \in 1..Len(s)
  PROVE  /\ RemoveAt(s, i) \in Seq(S) /\ Len(RemoveAt(s, i)) = Len(s) - 1
         /\ \A j \in 1..Len(s) - 1 : RemoveAt(s, i)[j] = IF j < i THEN s[j] ELSE s[j + 1]
<1> DEFINE n == Len(s)
           b == SubSeq(s, 1, i - 1)
           c == SubSeq(s, i + 1, n)
<1>1. n \in Nat /\ i \in Nat /\ 1 <= i /\ i <= n /\ \A j \in 1..n : s[j] \in S
  OBVIOUS
<1>2. b \in Seq(S) /\ Len(b) = i - 1 /\ \A j \in 1..(i - 1) : b[j] = s[j]
  <2>1. \A j \in 1..(i - 1) : s[j] \in S
    BY <1>1
  <2>2. /\ b \in Seq(S) /\ Len(b) = IF 1 <= i - 1 THEN (i - 1) - 1 + 1 ELSE 0
        /\ \A j \in 1..(i - 1) - 1 + 1 : b[j] = s[1 + j - 1]
    BY <1>1, <2>1, SubSeqProperties
  <2> HIDE DEF b
  <2> QED BY <1>1, <2>2
<1>3. c \in Seq(S) /\ Len(c) = n - i /\ \A j \in 1..(n - i) : c[j] = s[i + j]
  <2>1. \A j \in i + 1..n : s[j] \in S
    BY <1>1
  <2>2. /\ c \in Seq(S) /\ Len(c) = IF i + 1 <= n THEN n - (i + 1) + 1 ELSE 0
        /\ \A j \in 1..n - (i + 1) + 1 : c[j] = s[(i + 1) + j - 1]
    BY <1>1, <2>1, SubSeqProperties
  <2> HIDE DEF c
  <2> QED BY <1>1, <2>2
<1>4. RemoveAt(s, i) = b \o c
  BY DEF RemoveAt
<1> HIDE DEF b, c
<1>5. /\ b \o c \in Seq(S) /\ Len(b \o c) = Len(b) + Len(c)
      /\ \A j \in 1..Len(b) + Len(c) : (b \o c)[j] = IF j <= Len(b) THEN b[j] ELSE c[j - Len(b)]
  BY <1>2, <1>3, ConcatProperties
<1>6. ASSUME NEW j \in 1..n - 1 PROVE (b \o c)[j] = IF j < i THEN s[j] ELSE s[j + 1]
  <2>1. j \in 1..Len(b) + Len(c)
    BY <1>1, <1>2, <1>3
  <2>2. CASE j < i
    <3>1. j <= Len(b) /\ j \in 1..(i - 1)
      BY <1>1, <1>2, <2>2
    <3> QED BY <1>2, <1>5, <2>1, <2>2, <3>1
  <2>3. CASE ~(j < i)
    <3>1. ~(j <= Len(b)) /\ j - Len(b) \in 1..(n - i) /\ i + (j - Len(b)) = j + 1
      BY <1>1, <1>2, <2>3
    <3>2. (b \o c)[j] = c[j - Len(b)]
      BY <1>5, <2>1, <3>1
    <3>3. c[j - Len(b)] = s[j + 1]
      BY <1>3, <3>1
    <3> QED BY <2>3, <3>2, <3>3
  <2> QED BY <2>2, <2>3
<1> HIDE DEF n
<1>7. Len(b \o c) = n - 1
  BY <1>1, <1>2, <1>3, <1>5
<1> QED BY <1>4, <1>5, <1>6, <1>7 DEF n

\* The elements of two sequences, one after the other.
LEMMA OneAfterTheOther ==
  ASSUME NEW S, NEW s \in Seq(S), NEW t \in Seq(S)
  PROVE  /\ s \o t \in Seq(S)
         /\ DOMAIN (s \o t) = 1..Len(s) + Len(t)
         /\ \A i \in 1..Len(s) + Len(t) : (s \o t)[i] = IF i <= Len(s) THEN s[i] ELSE t[i - Len(s)]
<1>1. /\ s \o t \in Seq(S) /\ Len(s \o t) = Len(s) + Len(t)
      /\ \A i \in 1..Len(s) + Len(t) : (s \o t)[i] = IF i <= Len(s) THEN s[i] ELSE t[i - Len(s)]
  BY ConcatProperties
<1>2. DOMAIN (s \o t) = 1..Len(s \o t)
  BY <1>1
<1> QED BY <1>1, <1>2

\* An activity more that the author has published.
LEMMA SentKeeps ==
  ASSUME OutboxInv, NEW a \in ActivitySet, outgoing' = Append(outgoing, a),
         UNCHANGED <<deliverable, outboxAt, outbox, followings, followingsAt, fans, overtaken>>,
         posted' = Unposted \/ posted' \in PostedSet, removed' \in BOOLEAN,
         removed' => posted' # Unposted, removed => removed',
         IsTrue(a)', \A b : IsTrue(b) => IsTrue(b)',
         (a.verb \in NoteVerbs /\ IsCurrent(a)') \/ (a.verb \notin NoteVerbs /\ UNCHANGED <<posted, removed>>)
  PROVE  OutboxInv'
<1> USE DEF OutboxInv
<1> DEFINE d == Len(deliverable)
           o == Len(outgoing)
<1>1. d \in Nat /\ o \in Nat /\ outgoing \in Seq(ActivitySet) /\ DOMAIN outgoing = 1..o
  BY OutboxTypes
<1>2. /\ outgoing' \in Seq(ActivitySet) /\ Len(outgoing') = o + 1 /\ DOMAIN outgoing' = 1..o + 1
      /\ outgoing'[o + 1] = a /\ \A i \in 1..o : outgoing'[i] = outgoing[i]
  BY <1>1
<1>3. OutboxTyped'
  BY <1>2 DEF OutboxTyped
<1>4. ActivitiesAreTrue'
  <2>1. \A i \in 1..o + 1 : IsTrue(outgoing[i])'
    <3>1. SUFFICES ASSUME NEW i \in 1..o + 1 PROVE IsTrue(outgoing[i])'
      OBVIOUS
    <3>2. PICK b : b = outgoing'[i]
      OBVIOUS
    <3>3. b = a \/ IsTrue(b)
      BY <1>1, <1>2, <3>2 DEF ActivitiesAreTrue
    <3>4. IsTrue(b)'
      BY <3>3
    <3> QED BY <3>2, <3>4 DEF IsTrue
  <2>2. \A i \in DOMAIN deliverable : IsTrue(deliverable[i])'
    <3>1. SUFFICES ASSUME NEW i \in DOMAIN deliverable PROVE IsTrue(deliverable[i])'
      OBVIOUS
    <3>2. PICK b : b = deliverable[i]
      OBVIOUS
    <3>3. IsTrue(b)'
      BY <3>2 DEF ActivitiesAreTrue
    <3> QED BY <3>2, <3>3 DEF IsTrue
  <2> QED BY <1>2, <2>1, <2>2 DEF ActivitiesAreTrue
<1>5. LatestIsCurrent'
  <2>1. /\ DOMAIN OnTheWay = 1..d + o /\ DOMAIN OnTheWay' = 1..d + (o + 1)
        /\ \A i \in 1..d + o :
             OnTheWay[i] = IF i <= d THEN deliverable[i] ELSE outgoing[i - d]
        /\ \A i \in 1..d + (o + 1) :
             OnTheWay'[i] = IF i <= d THEN deliverable[i] ELSE outgoing'[i - d]
    <3>1. /\ DOMAIN OnTheWay = 1..d + o
          /\ \A i \in 1..d + o : OnTheWay[i] = IF i <= d THEN deliverable[i] ELSE outgoing[i - d]
      BY OutboxTypes, OneAfterTheOther DEF OnTheWay
    <3>2. /\ DOMAIN OnTheWay' = 1..Len(deliverable') + Len(outgoing')
          /\ \A i \in 1..Len(deliverable') + Len(outgoing') :
               OnTheWay'[i] = IF i <= Len(deliverable') THEN deliverable'[i] ELSE outgoing'[i - Len(deliverable')]
      <4>1. OnTheWay' = deliverable' \o outgoing' /\ deliverable' \in Seq(ActivitySet)
        BY OutboxTypes DEF OnTheWay
      <4>2. outgoing' \in Seq(ActivitySet)
        BY <1>2
      <4> HIDE DEF d, o
      <4> QED BY <4>1, <4>2, OneAfterTheOther
    <3> HIDE DEF o
    <3> QED BY <1>2, <3>1, <3>2
  <2> HIDE DEF d, o
  <2>2. \A i \in 1..d + o : OnTheWay'[i] = OnTheWay[i] /\ i \in 1..d + (o + 1)
    BY <1>1, <1>2, <2>1
  <2>3. OnTheWay'[d + (o + 1)] = a /\ d + (o + 1) \in 1..d + (o + 1)
    BY <1>1, <1>2, <2>1
  <2>4. \A i \in 1..d + (o + 1) : i <= d + (o + 1) /\ (i = d + (o + 1) \/ i \in 1..d + o)
    BY <1>1
  <2>5. CASE a.verb \in NoteVerbs /\ IsCurrent(a)'
    <3>1. PICK k : k = d + (o + 1)
      OBVIOUS
    <3>2. IsLatest(OnTheWay, k)'
      BY <2>1, <2>3, <2>4, <2>5, <3>1 DEF IsLatest
    <3>3. IsCurrent(OnTheWay[k])'
      BY <2>3, <2>5, <3>1 DEF IsCurrent
    <3>4. k \in DOMAIN OnTheWay'
      BY <2>1, <2>3, <3>1
    <3> QED BY <3>2, <3>3, <3>4 DEF LatestIsCurrent
  <2>6. CASE a.verb \notin NoteVerbs /\ UNCHANGED <<posted, removed>>
    <3>1. SUFFICES ASSUME posted' # Unposted, ~overtaken'
                   PROVE  \E k \in DOMAIN OnTheWay' : IsLatest(OnTheWay, k)' /\ IsCurrent(OnTheWay[k])'
      BY DEF LatestIsCurrent
    <3>2. PICK k \in DOMAIN OnTheWay : IsLatest(OnTheWay, k) /\ IsCurrent(OnTheWay[k])
      BY <2>6, <3>1 DEF LatestIsCurrent
    <3>3. k \in 1..d + o /\ OnTheWay'[k] = OnTheWay[k] /\ k \in 1..d + (o + 1)
      BY <2>1, <2>2
    <3>4. IsLatest(OnTheWay, k)'
      BY <2>1, <2>2, <2>3, <2>4, <2>6, <3>2, <3>3 DEF IsLatest
    <3>5. IsCurrent(OnTheWay[k])'
      BY <2>6, <3>2, <3>3 DEF IsCurrent
    <3> QED BY <2>1, <3>3, <3>4, <3>5
  <2> QED BY <2>5, <2>6
<1>6. IsTable(outbox, outboxAt)'
  BY DEF IsTable, KeepsLatest
<1>7. (fans = FollowersAfter(followingsAt))'
  BY DEF FollowersAfter
<1> QED BY <1>3, <1>4, <1>5, <1>6, <1>7

-----------------------------------------------------------------------------
\* A move of a follower changes the table by that follower.
LEMMA FollowerMoved ==
  ASSUME OutboxTyped, NEW n \in 0..Len(followings) - 1
  PROVE  FollowersAfter(n + 1) = MovedFollower(FollowersAfter(n), followings[n + 1])
<1> DEFINE m == followings[n + 1]
<1>1. n \in Nat /\ n + 1 \in DOMAIN followings /\ m \in MoveSet
  BY OutboxTypes
<1>2. m.verb \in {"accepted", "deleted"} /\ m.who \in Fans
  BY <1>1 DEF MoveSet
<1>3. \A j \in 1..n + 1 : j = n + 1 \/ j \in 1..n
  BY <1>1
<1>4. \A j \in 1..n : j \in 1..n + 1 /\ j <= n + 1 /\ ~(n + 1 <= j)
  BY <1>1
<1>5. n + 1 \in 1..n + 1
  BY <1>1
<1>6. m.verb = "accepted" <=> m = [verb |-> "accepted", who |-> m.who]
  BY <1>1 DEF MoveSet
<1> HIDE DEF m
<1>7. ASSUME NEW a \in Fans, a # m.who PROVE a \in FollowersAfter(n + 1) <=> a \in FollowersAfter(n)
  <2>1. m # [verb |-> "accepted", who |-> a]
    BY <1>7
  <2>2. ASSUME NEW i \in 1..n + 1, followings[i] = [verb |-> "accepted", who |-> a] PROVE i \in 1..n
    BY <1>3, <2>1, <2>2 DEF m
  <2>3. ASSUME NEW i \in 1..n
        PROVE  (\A j \in 1..n + 1 : followings[j].who = a => j <= i) <=> (\A j \in 1..n : followings[j].who = a => j <= i)
    BY <1>3, <1>4, <1>7 DEF m
  <2> QED BY <1>4, <2>2, <2>3 DEF FollowersAfter
<1>8. CASE m.verb = "accepted"
  <2>1. m.who \in FollowersAfter(n + 1)
    <3>1. followings[n + 1] = [verb |-> "accepted", who |-> m.who]
      BY <1>6, <1>8 DEF m
    <3>2. \A j \in 1..n + 1 : j <= n + 1
      BY <1>1
    <3> QED BY <1>2, <1>5, <3>1, <3>2 DEF FollowersAfter
  <2>2. MovedFollower(FollowersAfter(n), m) = FollowersAfter(n) \cup {m.who}
    BY <1>8 DEF MovedFollower
  <2>3. FollowersAfter(n) \subseteq Fans /\ FollowersAfter(n + 1) \subseteq Fans
    BY DEF FollowersAfter
  <2>4. FollowersAfter(n + 1) = FollowersAfter(n) \cup {m.who}
    BY <1>2, <1>7, <2>1, <2>3
  <2> QED BY <2>2, <2>4 DEF m
<1>9. CASE m.verb = "deleted"
  <2>1. m.who \notin FollowersAfter(n + 1)
    <3>1. SUFFICES ASSUME NEW i \in 1..n + 1, followings[i] = [verb |-> "accepted", who |-> m.who],
                          \A j \in 1..n + 1 : followings[j].who = m.who => j <= i
                   PROVE  FALSE
      BY DEF FollowersAfter
    <3>2. n + 1 <= i
      BY <1>5, <3>1 DEF m
    <3>3. i = n + 1
      BY <1>3, <1>4, <3>2
    <3> QED BY <1>6, <1>9, <3>1, <3>3 DEF m
  <2>2. MovedFollower(FollowersAfter(n), m) = FollowersAfter(n) \ {m.who}
    BY <1>9 DEF MovedFollower
  <2>3. FollowersAfter(n) \subseteq Fans /\ FollowersAfter(n + 1) \subseteq Fans
    BY DEF FollowersAfter
  <2>4. FollowersAfter(n + 1) = FollowersAfter(n) \ {m.who}
    BY <1>2, <1>7, <2>1, <2>3
  <2> QED BY <2>2, <2>4 DEF m
<1> QED BY <1>2, <1>8, <1>9
-----------------------------------------------------------------------------
\* What is not posted is no note.
LEMMA UnpostedIs == Unposted.visibility = "" /\ Unposted \notin PostedSet
<1>1. Unposted.visibility = ""
  BY DEF Unposted
<1> QED BY <1>1 DEF PostedSet

\* The fields of a note.
LEMMA PostedParts ==
  ASSUME NEW p \in PostedSet
  PROVE  /\ p.visibility \in {"public", "unlisted", "private", "direct"}
         /\ p.to \subseteq People /\ p.linked \subseteq People
BY DEF PostedSet

\* At the start there is no note; who follows then is in the table.
LEMMA OutboxStart == OutboxInit => OutboxInv
<1> SUFFICES ASSUME OutboxInit PROVE OutboxInv
  OBVIOUS
<1>1. /\ outgoing = <<>> /\ deliverable = <<>> /\ outboxAt = 0 /\ outbox = <<>>
      /\ posted = Unposted /\ removed = FALSE /\ overtaken = FALSE
  BY DEF OutboxInit
<1>2. PICK before \in SUBSET Fans :
        /\ followings = SetToSeq({[verb |-> "accepted", who |-> a] : a \in before})
        /\ followingsAt = Len(followings) /\ fans = before
  BY DEF OutboxInit
<1> DEFINE B == {[verb |-> "accepted", who |-> a] : a \in before}
           n == Cardinality(B)
           toMove == [a \in before |-> [verb |-> "accepted", who |-> a]]
<1>3. IsFiniteSet(before)
  BY OutboxAssumption, FS_Subset
<1>4. toMove \in Surjection(before, B)
  BY DEF Surjection
<1>5. IsFiniteSet(B)
  <2> HIDE DEF B, toMove
  <2> QED BY <1>3, <1>4, FS_Surjection
<1>6. \A e \in B : e \in MoveSet /\ e.verb = "accepted" /\ e.who \in before /\ e = [verb |-> "accepted", who |-> e.who]
  BY DEF MoveSet
<1>7. \A a \in before : [verb |-> "accepted", who |-> a] \in B
  OBVIOUS
<1> HIDE DEF B
<1>8. n \in Nat /\ \E f \in [1..n -> B] : IsInjective(f)
  <2>1. n \in Nat /\ ExistsBijection(1..n, B)
    BY <1>5, FS_CardinalityType
  <2>2. PICK f : f \in Bijection(1..n, B)
    BY <2>1 DEF ExistsBijection
  <2>3. f \in [1..n -> B] /\ IsInjective(f)
    BY <2>2 DEF Bijection, Injection
  <2> QED BY <2>1, <2>3
<1>9. followings \in [1..n -> B] /\ IsInjective(followings)
  BY <1>2, <1>8 DEF SetToSeq, B
<1>10. followings \in Seq(B) /\ Len(followings) = n /\ DOMAIN followings = 1..n
  BY <1>8, <1>9
<1>11. \A e \in B : \E i \in 1..n : followings[i] = e
  <2>1. followings \in Injection(1..n, B)
    BY <1>9 DEF Injection
  <2>2. IsFiniteSet(1..n) /\ Cardinality(1..n) = n
    BY <1>8, FS_Interval
  <2>3. followings \in Surjection(1..n, B)
    BY <1>5, <2>1, <2>2, FS_Injection
  <2> QED BY <2>3 DEF Surjection
<1> HIDE DEF n
<1>12. OutboxTyped
  <2>1. followings \in Seq(MoveSet)
    BY <1>6, <1>8, <1>9
  <2>2. followingsAt \in 0..Len(followings)
    BY <1>2, <1>8, <1>10
  <2>3. outgoing \in Seq(ActivitySet) /\ deliverable \in Seq(ActivitySet) /\ outbox \in Seq(RowSet)
    BY <1>1
  <2>4. outboxAt \in 0..Len(deliverable)
    BY <1>1
  <2> QED BY <1>1, <2>1, <2>2, <2>3, <2>4 DEF OutboxTyped
<1>13. ActivitiesAreTrue
  BY <1>1 DEF ActivitiesAreTrue
<1>14. LatestIsCurrent
  BY <1>1 DEF LatestIsCurrent
<1>15. IsTable(outbox, outboxAt)
  BY <1>1 DEF IsTable, KeepsLatest
<1>16. fans = FollowersAfter(followingsAt)
  <2>1. followingsAt = n /\ fans = before
    BY <1>2, <1>10
  <2>2. ASSUME NEW a \in before PROVE a \in FollowersAfter(n)
    <3>1. PICK i \in 1..n : followings[i] = [verb |-> "accepted", who |-> a]
      BY <1>7, <1>11
    <3>2. ASSUME NEW j \in 1..n, followings[j].who = a PROVE j <= i
      <4>1. followings[j] = followings[i]
        BY <1>6, <1>9, <3>1, <3>2
      <4>2. j = i
        BY <1>9, <1>10, <4>1 DEF IsInjective
      <4> QED BY <1>8, <4>2
    <3>3. a \in Fans
      OBVIOUS
    <3> QED BY <3>1, <3>2, <3>3 DEF FollowersAfter
  <2>3. ASSUME NEW a \in FollowersAfter(n) PROVE a \in before
    <3>1. PICK i \in 1..n : followings[i] = [verb |-> "accepted", who |-> a]
      BY <2>3 DEF FollowersAfter
    <3>2. followings[i].who \in before /\ followings[i].who = a
      BY <1>6, <1>9, <3>1
    <3> QED BY <3>2
  <2> QED BY <2>1, <2>2, <2>3
<1> QED BY <1>12, <1>13, <1>14, <1>15, <1>16 DEF OutboxInv

-----------------------------------------------------------------------------
\* Each action of the component keeps it.
LEMMA OutboxStep == OutboxInv /\ [OutboxNext]_ovars => OutboxInv'
<1> SUFFICES ASSUME OutboxInv, [OutboxNext]_ovars PROVE OutboxInv'
  OBVIOUS
<1> USE DEF OutboxInv
<1>0. Readers \subseteq People
  BY DEF Readers
<1>1. ASSUME NEW v \in {"public", "unlisted", "private", "direct"}, NEW A \in SUBSET Readers, NEW L \in {{}, Readers},
             CreateStatus(v, A, A, L)
      PROVE  OutboxInv'
  <2> DEFINE new == Addressed("Create", v, A, L)
  <2>1. /\ posted = Unposted
        /\ posted' = [visibility |-> v, linked |-> L, to |-> IF v = "direct" THEN A ELSE A]
        /\ outgoing' = Append(outgoing, new)
        /\ UNCHANGED <<deliverable, outboxAt, outbox, followings, followingsAt, fans, removed, overtaken>>
    BY <1>1 DEF CreateStatus, Send, Addressed
  <2>2. A \in SUBSET People /\ L \in SUBSET People
    BY <1>0
  <2>3. new \in ActivitySet /\ new.verb = "Create" /\ VisibilityOf(new) = ShownAs(v) /\ RecipientsOf(new) = A \cup L
    <3>1. PICK b : b = Addressed("Create", v, A, L)
      OBVIOUS
    <3>2. "Create" \in {"Create", "Update"}
      OBVIOUS
    <3> HIDE DEF new
    <3>3. b \in ActivitySet /\ b.verb = "Create" /\ VisibilityOf(b) = ShownAs(v) /\ RecipientsOf(b) = A \cup L
      <4>1. b \in ActivitySet /\ b.verb = "Create" /\ VisibilityOf(b) = ShownAs(v) /\ Reaches(b, A, L)
        BY <2>2, <3>1, <3>2, Addresses
      <4> QED BY <4>1 DEF Reaches
    <3> QED BY <3>1, <3>3 DEF new
  <2>4. PICK a \in ActivitySet : a = new
    BY <2>3
  <2>5. posted' \in PostedSet /\ posted'.visibility = v /\ posted'.to = A /\ posted'.linked = L
    BY <2>1, <2>2 DEF PostedSet
  <2>6. posted' # Unposted
    BY <2>5, UnpostedIs
  <2> HIDE DEF new
  <2>7. removed = FALSE
    BY <2>1, OutboxTypes DEF ActivitiesAreTrue
  <2>8. IsTrue(a)'
    BY <2>3, <2>4, <2>5, <2>6 DEF IsTrue
  <2>9. ASSUME NEW b, IsTrue(b) PROVE IsTrue(b)'
    BY <2>1, <2>9 DEF IsTrue
  <2>10. a.verb \in NoteVerbs /\ IsCurrent(a)'
    BY <2>1, <2>3, <2>4, <2>5, <2>7 DEF IsCurrent, NoteVerbs
  <2>11. outgoing' = Append(outgoing, a) /\ removed' \in BOOLEAN /\ (removed' => posted' # Unposted) /\ (removed => removed')
    BY <2>1, <2>4, <2>6, <2>7
  <2> QED BY <2>1, <2>5, <2>8, <2>9, <2>10, <2>11, SentKeeps
<1>2. ASSUME NEW r \in Readers, Relink(r) PROVE OutboxInv'
  <2> DEFINE v == posted.visibility
             A == posted.to
             L == posted.linked \cup {r}
             new == Addressed("Update", v, A, L)
  <2>1. /\ posted # Unposted /\ ~removed
        /\ posted' = [posted EXCEPT !.linked = L]
        /\ outgoing' = Append(outgoing, Addressed("Update", v, A, posted'.linked))
        /\ UNCHANGED <<deliverable, outboxAt, outbox, followings, followingsAt, fans, removed, overtaken>>
    BY <1>2 DEF Relink, Send, Addressed
  <2>2. posted \in PostedSet
    BY <2>1, OutboxTypes
  <2>3. v \in {"public", "unlisted", "private", "direct"} /\ A \in SUBSET People /\ L \in SUBSET People
    BY <1>0, <2>2, PostedParts
  <2>4. new \in ActivitySet /\ new.verb = "Update" /\ VisibilityOf(new) = ShownAs(v) /\ RecipientsOf(new) = A \cup L
    <3>1. PICK b : b = Addressed("Update", v, A, L)
      OBVIOUS
    <3>2. "Update" \in {"Create", "Update"}
      OBVIOUS
    <3> HIDE DEF new, v, A, L
    <3>3. b \in ActivitySet /\ b.verb = "Update" /\ VisibilityOf(b) = ShownAs(v) /\ RecipientsOf(b) = A \cup L
      <4>1. b \in ActivitySet /\ b.verb = "Update" /\ VisibilityOf(b) = ShownAs(v) /\ Reaches(b, A, L)
        BY <2>3, <3>1, <3>2, Addresses
      <4> QED BY <4>1 DEF Reaches
    <3> QED BY <3>1, <3>3 DEF new
  <2>5. posted' \in PostedSet /\ posted'.visibility = v /\ posted'.to = A /\ posted'.linked = L
    BY <2>1, <2>2, <2>3 DEF PostedSet
  <2>6. PICK a \in ActivitySet : a = new
    BY <2>4
  <2>7. outgoing' = Append(outgoing, a)
    BY <2>1, <2>5, <2>6
  <2>8. posted' # Unposted
    BY <2>5, UnpostedIs
  <2>9. v = posted.visibility /\ A = posted.to /\ posted.linked \subseteq L
    OBVIOUS
  <2> HIDE DEF new, v, A, L
  <2>10. IsTrue(a)'
    BY <2>4, <2>5, <2>6, <2>8 DEF IsTrue
  <2>11. ASSUME NEW b, IsTrue(b) PROVE IsTrue(b)'
    BY <2>1, <2>5, <2>8, <2>9, <2>11 DEF IsTrue
  <2>12. a.verb \in NoteVerbs /\ IsCurrent(a)'
    BY <2>1, <2>4, <2>5, <2>6 DEF IsCurrent, NoteVerbs
  <2>13. removed' \in BOOLEAN /\ (removed' => posted' # Unposted) /\ (removed => removed')
    BY <2>1, <2>8, OutboxTypes
  <2> QED BY <2>1, <2>5, <2>7, <2>10, <2>11, <2>12, <2>13, SentKeeps
<1>3. ASSUME DeleteStatus PROVE OutboxInv'
  <2>1. /\ posted # Unposted /\ removed' = TRUE
        /\ outgoing' = Append(outgoing, Activity("Delete", {}, {}))
        /\ UNCHANGED <<deliverable, outboxAt, outbox, followings, followingsAt, fans, posted, overtaken>>
    BY <1>3 DEF DeleteStatus, Send
  <2>2. Activity("Delete", {}, {}) \in ActivitySet /\ Activity("Delete", {}, {}).verb = "Delete"
    BY DEF Activity, ActivitySet, NoteVerbs
  <2>3. PICK a \in ActivitySet : a = Activity("Delete", {}, {})
    BY <2>2
  <2>4. IsTrue(a)'
    BY <2>1, <2>2, <2>3 DEF IsTrue
  <2>5. ASSUME NEW b, IsTrue(b) PROVE IsTrue(b)'
    BY <2>1, <2>5 DEF IsTrue
  <2>6. a.verb \in NoteVerbs /\ IsCurrent(a)'
    BY <2>1, <2>2, <2>3 DEF IsCurrent, NoteVerbs
  <2>7. posted' = Unposted \/ posted' \in PostedSet
    BY <2>1, OutboxTypes
  <2> QED BY <2>1, <2>3, <2>4, <2>5, <2>6, <2>7, SentKeeps
<1>4. ASSUME NEW verb \in {"Follow", "Like"}, OtherActivity(verb, IF verb = "Follow" THEN {} ELSE {Answered})
      PROVE  OutboxInv'
  <2> DEFINE to == IF verb = "Follow" THEN {} ELSE {Answered}
             new == Activity(verb, to, {})
  <2>1. /\ outgoing' = Append(outgoing, new)
        /\ UNCHANGED <<deliverable, outboxAt, outbox, followings, followingsAt, fans, posted, removed, overtaken>>
    BY <1>4 DEF OtherActivity, Send
  <2>2. to \subseteq Names /\ to \subseteq {Answered} /\ (verb = "Follow" => to = {}) /\ (verb = "Like" => to = {Answered})
    BY DEF Names
  <2> HIDE DEF to
  <2>3. new \in ActivitySet /\ new.verb = verb /\ new.to = to /\ new.cc = {}
    BY <2>2 DEF Activity, ActivitySet
  <2>4. PICK a \in ActivitySet : a = new
    BY <2>3
  <2> HIDE DEF new
  <2>5. Audience(a) = to
    BY <2>3, <2>4 DEF Audience
  <2>6. Public \notin to /\ FollowersOf \notin to
    BY <2>2, NotAnActor
  <2>7. VisibilityOf(a) = "direct" /\ RecipientsOf(a) = to
    BY <2>5, <2>6 DEF VisibilityOf, RecipientsOf
  <2>8. IsTrue(a)'
    BY <2>2, <2>3, <2>4, <2>7 DEF IsTrue
  <2>9. ASSUME NEW b, IsTrue(b) PROVE IsTrue(b)'
    BY <2>1, <2>9 DEF IsTrue
  <2>10. a.verb \notin NoteVerbs
    BY <2>3, <2>4 DEF NoteVerbs
  <2>11. /\ posted' = Unposted \/ posted' \in PostedSet
         /\ removed' \in BOOLEAN /\ (removed' => posted' # Unposted) /\ (removed => removed')
    BY <2>1, OutboxTypes DEF ActivitiesAreTrue
  <2> QED BY <2>1, <2>4, <2>8, <2>9, <2>10, <2>11, SentKeeps
<1>5. ASSUME ReachTopic PROVE OutboxInv'
  <2> DEFINE d == Len(deliverable)
             o == Len(outgoing)
  <2>1. PICK i \in DOMAIN outgoing :
           /\ i = 1 \/ outgoing[i].verb = "Delete"
           /\ overtaken' = (overtaken \/ i # 1)
           /\ deliverable' = Append(deliverable, outgoing[i])
           /\ outgoing' = RemoveAt(outgoing, i)
           /\ UNCHANGED <<outboxAt, outbox, followings, followingsAt, fans, posted, removed>>
    BY <1>5 DEF ReachTopic
  <2>2. /\ d \in Nat /\ o \in Nat /\ i \in 1..o /\ outboxAt \in 0..d /\ outgoing[i] \in ActivitySet
        /\ outgoing \in Seq(ActivitySet) /\ deliverable \in Seq(ActivitySet) /\ overtaken \in BOOLEAN
        /\ DOMAIN deliverable = 1..d /\ DOMAIN outgoing = 1..o
    BY OutboxTypes
  <2>3. /\ outgoing' \in Seq(ActivitySet) /\ Len(outgoing') = o - 1
        /\ \A j \in 1..o - 1 : outgoing'[j] = IF j < i THEN outgoing[j] ELSE outgoing[j + 1]
    BY <2>1, <2>2, OneLess
  <2>4. /\ deliverable' \in Seq(ActivitySet) /\ Len(deliverable') = d + 1
        /\ deliverable'[d + 1] = outgoing[i] /\ \A j \in 1..d : deliverable'[j] = deliverable[j]
    BY <2>1, <2>2
  <2> HIDE DEF d, o
  <2>5. DOMAIN outgoing' = 1..o - 1 /\ DOMAIN deliverable' = 1..d + 1
    BY <2>3, <2>4
  <2>6. OutboxTyped'
    <3>1. outboxAt' \in 0..Len(deliverable')
      BY <2>1, <2>2, <2>4
    <3>2. overtaken' \in BOOLEAN
      BY <2>1, <2>2
    <3> QED BY <2>1, <2>3, <2>4, <3>1, <3>2 DEF OutboxTyped
  <2>7. \A b : IsTrue(b) => IsTrue(b)'
    BY <2>1 DEF IsTrue
  <2>8. ActivitiesAreTrue'
    <3>1. ASSUME NEW j \in 1..o - 1 PROVE IsTrue(outgoing[j])'
      <4>1. PICK k \in 1..o : outgoing'[j] = outgoing[k]
        BY <2>2, <2>3
      <4>2. PICK b : b = outgoing[k]
        OBVIOUS
      <4>3. IsTrue(b)'
        BY <2>2, <2>7, <4>2 DEF ActivitiesAreTrue
      <4> QED BY <4>1, <4>2, <4>3 DEF IsTrue
    <3>2. ASSUME NEW j \in 1..d + 1 PROVE IsTrue(deliverable[j])'
      <4>1. PICK b : b = deliverable'[j]
        OBVIOUS
      <4>2. CASE j = d + 1
        <5>1. IsTrue(b)'
          BY <2>2, <2>4, <2>7, <4>1, <4>2 DEF ActivitiesAreTrue
        <5> QED BY <4>1, <5>1 DEF IsTrue
      <4>3. CASE j # d + 1
        <5>1. j \in 1..d
          BY <2>2, <4>3
        <5>2. IsTrue(b)'
          BY <2>2, <2>4, <2>7, <4>1, <5>1 DEF ActivitiesAreTrue
        <5> QED BY <4>1, <5>2 DEF IsTrue
      <4> QED BY <4>2, <4>3
    <3>3. overtaken' => removed'
      <4>1. i # 1 => removed
        BY <2>1 DEF ActivitiesAreTrue, IsTrue
      <4> QED BY <2>1, <4>1 DEF ActivitiesAreTrue
    <3>4. removed' => posted' # Unposted
      BY <2>1 DEF ActivitiesAreTrue
    <3> QED BY <2>5, <3>1, <3>2, <3>3, <3>4 DEF ActivitiesAreTrue
  <2>9. LatestIsCurrent'
    <3>1. SUFFICES ASSUME posted' # Unposted, ~overtaken'
                   PROVE  \E k \in DOMAIN OnTheWay' : IsLatest(OnTheWay, k)' /\ IsCurrent(OnTheWay[k])'
      BY DEF LatestIsCurrent
    <3>2. i = 1 /\ ~overtaken /\ posted # Unposted
      BY <2>1, <2>2, <3>1
    <3>3. /\ OnTheWay \in Seq(ActivitySet) /\ DOMAIN OnTheWay = 1..d + o
          /\ \A j \in 1..d + o : OnTheWay[j] = IF j <= d THEN deliverable[j] ELSE outgoing[j - d]
      BY OutboxTypes, OneAfterTheOther DEF OnTheWay, d, o
    <3>4. /\ OnTheWay' \in Seq(ActivitySet)
          /\ DOMAIN OnTheWay' = 1..Len(deliverable') + Len(outgoing')
          /\ \A j \in 1..Len(deliverable') + Len(outgoing') :
               OnTheWay'[j] = IF j <= Len(deliverable') THEN deliverable'[j] ELSE outgoing'[j - Len(deliverable')]
      <4>1. OnTheWay' = deliverable' \o outgoing'
        BY DEF OnTheWay
      <4> QED BY <2>3, <2>4, <4>1, OneAfterTheOther
    <3>5. (d + 1) + (o - 1) = d + o
      BY <2>2
    <3>6. /\ DOMAIN OnTheWay' = 1..d + o
          /\ \A j \in 1..d + o : OnTheWay'[j] = IF j <= d + 1 THEN deliverable'[j] ELSE outgoing'[j - (d + 1)]
      BY <2>3, <2>4, <3>4, <3>5
    <3>7. ASSUME NEW j \in 1..d + o PROVE OnTheWay'[j] = OnTheWay[j]
      <4>1. CASE j <= d
        <5>1. j \in 1..d /\ j <= d + 1
          BY <2>2, <4>1
        <5> QED BY <2>4, <3>3, <3>6, <4>1, <5>1
      <4>2. CASE j = d + 1
        <5>1. ~(j <= d) /\ j - d = 1 /\ j <= d + 1
          BY <2>2, <4>2
        <5> QED BY <2>4, <3>2, <3>3, <3>6, <4>2, <5>1
      <4>3. CASE j > d + 1
        <5>1. /\ ~(j <= d) /\ ~(j <= d + 1) /\ j - (d + 1) \in 1..o - 1
              /\ ~(j - (d + 1) < 1) /\ (j - (d + 1)) + 1 = j - d
          BY <2>2, <4>3
        <5> QED BY <2>3, <3>2, <3>3, <3>6, <5>1
      <4> QED BY <2>2, <4>1, <4>2, <4>3
    <3>8. PICK k \in DOMAIN OnTheWay : IsLatest(OnTheWay, k) /\ IsCurrent(OnTheWay[k])
      BY <3>2 DEF LatestIsCurrent
    <3>9. IsLatest(OnTheWay, k)'
      BY <3>3, <3>6, <3>7, <3>8 DEF IsLatest
    <3>10. IsCurrent(OnTheWay[k])'
      BY <2>1, <3>3, <3>7, <3>8 DEF IsCurrent
    <3> QED BY <3>3, <3>6, <3>9, <3>10
  <2>10. IsTable(outbox, outboxAt)'
    <3>1. \A k \in 1..outboxAt : deliverable'[k] = deliverable[k]
      BY <2>2, <2>4
    <3> QED BY <2>1, <3>1 DEF IsTable, KeepsLatest
  <2>11. (fans = FollowersAfter(followingsAt))'
    BY <2>1 DEF FollowersAfter
  <2> QED BY <2>6, <2>8, <2>9, <2>10, <2>11
<1>6. ASSUME NEW a \in Fans, FollowerMoves(a) PROVE OutboxInv'
  <2> DEFINE m == [verb |-> IF Follows(a) THEN "deleted" ELSE "accepted", who |-> a]
             f == Len(followings)
  <2>1. /\ followings' = Append(followings, m)
        /\ UNCHANGED <<outgoing, deliverable, outboxAt, outbox, followingsAt, fans, posted, removed, overtaken>>
    BY <1>6 DEF FollowerMoves
  <2>2. m \in MoveSet
    BY DEF MoveSet
  <2> HIDE DEF m
  <2>3. f \in Nat /\ followingsAt \in 0..f /\ followings \in Seq(MoveSet)
    BY OutboxTypes
  <2>4. followings' \in Seq(MoveSet) /\ Len(followings') = f + 1 /\ \A j \in 1..f : followings'[j] = followings[j]
    BY <2>1, <2>2, <2>3
  <2> HIDE DEF f
  <2>5. OutboxTyped'
    <3>1. followingsAt \in 0..f + 1
      BY <2>3
    <3> QED BY <2>1, <2>4, <3>1 DEF OutboxTyped
  <2>6. ActivitiesAreTrue'
    BY <2>1 DEF ActivitiesAreTrue, IsTrue
  <2>7. LatestIsCurrent'
    BY <2>1 DEF LatestIsCurrent, OnTheWay, IsLatest, IsCurrent
  <2>8. IsTable(outbox, outboxAt)'
    BY <2>1 DEF IsTable, KeepsLatest
  <2>9. (fans = FollowersAfter(followingsAt))'
    <3>1. \A j \in 1..followingsAt : followings'[j] = followings[j]
      BY <2>3, <2>4
    <3> QED BY <2>1, <3>1 DEF FollowersAfter
  <2> QED BY <2>5, <2>6, <2>7, <2>8, <2>9
<1>7. ASSUME StoreActivity PROVE OutboxInv'
  <2>1. PICK n : n = outboxAt
    OBVIOUS
  <2>2. /\ n < Len(deliverable) /\ outboxAt' = n + 1 /\ outbox' = AddRow(outbox, deliverable[n + 1])
        /\ UNCHANGED <<outgoing, deliverable, followings, followingsAt, fans, posted, removed, overtaken>>
    BY <1>7, <2>1 DEF StoreActivity
  <2>3. n \in 0..Len(deliverable) - 1 /\ n + 1 \in 0..Len(deliverable)
    BY <2>1, <2>2, OutboxTypes
  <2>4. IsTable(AddRow(outbox, deliverable[n + 1]), n + 1)
    BY <2>1, <2>3, RowKept
  <2>5. IsTable(outbox, outboxAt)'
    BY <2>2, <2>4 DEF IsTable, KeepsLatest
  <2>6. OutboxTyped'
    BY <2>2, <2>3, <2>5 DEF OutboxTyped, IsTable
  <2>7. ActivitiesAreTrue'
    BY <2>2 DEF ActivitiesAreTrue, IsTrue
  <2>8. LatestIsCurrent'
    BY <2>2 DEF LatestIsCurrent, OnTheWay, IsLatest, IsCurrent
  <2>9. (fans = FollowersAfter(followingsAt))'
    BY <2>2 DEF FollowersAfter
  <2> QED BY <2>5, <2>6, <2>7, <2>8, <2>9
<1>8. ASSUME StoreFollower PROVE OutboxInv'
  <2>1. PICK n : n = followingsAt
    OBVIOUS
  <2>2. /\ n < Len(followings) /\ followingsAt' = n + 1 /\ fans' = MovedFollower(fans, followings[n + 1])
        /\ UNCHANGED <<outgoing, deliverable, outboxAt, outbox, followings, posted, removed, overtaken>>
    BY <1>8, <2>1 DEF StoreFollower
  <2>3. n \in 0..Len(followings) - 1 /\ n + 1 \in 0..Len(followings)
    BY <2>1, <2>2, OutboxTypes
  <2>4. fans' = FollowersAfter(n + 1)
    BY <2>1, <2>2, <2>3, FollowerMoved
  <2>5. (fans = FollowersAfter(followingsAt))'
    BY <2>2, <2>4 DEF FollowersAfter
  <2>6. OutboxTyped'
    BY <2>2, <2>3 DEF OutboxTyped
  <2>7. ActivitiesAreTrue'
    BY <2>2 DEF ActivitiesAreTrue, IsTrue
  <2>8. LatestIsCurrent'
    BY <2>2 DEF LatestIsCurrent, OnTheWay, IsLatest, IsCurrent
  <2>9. IsTable(outbox, outboxAt)'
    BY <2>2 DEF IsTable, KeepsLatest
  <2> QED BY <2>5, <2>6, <2>7, <2>8, <2>9
<1>9. ASSUME RestartOutbox PROVE OutboxInv'
  <2> DEFINE rows == RowsAfter[Len(deliverable)]
  <2>1. /\ outboxAt' = Len(deliverable) /\ followingsAt' = Len(followings)
        /\ outbox' \in {rows} \cup (IF rows = <<>> THEN {} ELSE {AddRow(rows, Last(deliverable))})
        /\ fans' = FollowersAfter(Len(followings))
        /\ UNCHANGED <<outgoing, deliverable, followings, posted, removed, overtaken>>
    BY <1>9 DEF RestartOutbox
  <2>2. Len(deliverable) \in 0..Len(deliverable) /\ Len(followings) \in 0..Len(followings) /\ Len(deliverable) \in Nat
    BY OutboxTypes
  <2>3. IsTable(rows, Len(deliverable))
    BY <2>2, RowsAfterAre
  <2> HIDE DEF rows
  <2>4. IsTable(outbox', Len(deliverable))
    <3>1. CASE outbox' = rows
      BY <2>3, <3>1
    <3>2. CASE rows # <<>> /\ outbox' = AddRow(rows, Last(deliverable))
      <4>1. 1 \in DOMAIN rows
        BY <2>3, <3>2 DEF IsTable
      <4>2. PICK k \in 1..Len(deliverable) : TRUE
        BY <2>3, <4>1 DEF IsTable
      <4>3. Len(deliverable) \in 1..Len(deliverable)
        BY <2>2, <4>2
      <4>4. Last(deliverable) = deliverable[Len(deliverable)]
        BY DEF Last
      <4> QED BY <2>3, <3>2, <4>3, <4>4, RowKeptTwice
    <3> QED BY <2>1, <3>1, <3>2
  <2>5. IsTable(outbox, outboxAt)'
    BY <2>1, <2>4 DEF IsTable, KeepsLatest
  <2>6. OutboxTyped'
    BY <2>1, <2>2, <2>5 DEF OutboxTyped, IsTable
  <2>7. ActivitiesAreTrue'
    BY <2>1 DEF ActivitiesAreTrue, IsTrue
  <2>8. LatestIsCurrent'
    BY <2>1 DEF LatestIsCurrent, OnTheWay, IsLatest, IsCurrent
  <2>9. (fans = FollowersAfter(followingsAt))'
    BY <2>1 DEF FollowersAfter
  <2> QED BY <2>5, <2>6, <2>7, <2>8, <2>9
<1>10. CASE UNCHANGED ovars
  <2>1. OutboxTyped'
    BY <1>10 DEF ovars, OutboxTyped
  <2>2. ActivitiesAreTrue'
    BY <1>10 DEF ovars, ActivitiesAreTrue, IsTrue
  <2>3. LatestIsCurrent'
    BY <1>10 DEF ovars, LatestIsCurrent, OnTheWay, IsLatest, IsCurrent
  <2>4. IsTable(outbox, outboxAt)' /\ (fans = FollowersAfter(followingsAt))'
    BY <1>10 DEF ovars, IsTable, KeepsLatest, FollowersAfter
  <2> QED BY <2>1, <2>2, <2>3, <2>4
<1> QED BY <1>1, <1>2, <1>3, <1>4, <1>5, <1>6, <1>7, <1>8, <1>9, <1>10 DEF OutboxNext
-----------------------------------------------------------------------------
\* Whoever may see a row of the note is meant.
LEMMA SeenIsMeant ==
  ASSUME OutboxInv, CaughtUp, NEW a \in ActivitySet, a.verb \in {"Create", "Update"}, IsTrue(a), NEW r,
         MaySee(Row(a), r)
  PROVE  Meant(r)
<1> USE DEF OutboxInv
<1>1. /\ Row(a).visibility = ShownAs(posted.visibility)
      /\ Row(a).recipients \subseteq posted.to \cup posted.linked /\ posted # Unposted
  BY RowIs DEF IsTrue
<1>2. posted.visibility \in {"public", "unlisted", "private", "direct"}
  BY <1>1, OutboxTypes, PostedParts
<1>3. CASE Row(a).visibility = "public"
  <2>1. posted.visibility \in {"public", "unlisted"}
    BY <1>1, <1>2, <1>3 DEF ShownAs
  <2> QED BY <2>1 DEF Meant
<1>4. CASE Row(a).visibility = "followers" /\ ReachFollows(r)
  <2>1. posted.visibility = "private"
    BY <1>1, <1>2, <1>4 DEF ShownAs
  <2>2. PICK b : b \in Reach(r) /\ b \in fans
    BY <1>4 DEF ReachFollows
  <2>3. Follows(b)
    BY <2>2 DEF Follows, CaughtUp
  <2> QED BY <2>1, <2>2, <2>3 DEF Meant
<1>5. CASE Row(a).recipients \cap Reach(r) # {}
  <2>1. PICK b : b \in Row(a).recipients /\ b \in Reach(r)
    BY <1>5
  <2> QED BY <1>1, <2>1 DEF Meant
<1> QED BY <1>3, <1>4, <1>5 DEF MaySee

\* Whoever is meant may see the row of the note as it has become.
LEMMA MeantIsSeen ==
  ASSUME OutboxInv, CaughtUp, NEW a \in ActivitySet, a.verb \in {"Create", "Update"}, IsTrue(a),
         RecipientsOf(a) = posted.to \cup posted.linked, NEW r, Meant(r)
  PROVE  MaySee(Row(a), r)
<1> USE DEF OutboxInv
<1>1. Row(a).visibility = ShownAs(posted.visibility) /\ Row(a).recipients = posted.to \cup posted.linked
  BY RowIs DEF IsTrue
<1>2. CASE posted.visibility \in {"public", "unlisted"}
  BY <1>1, <1>2 DEF MaySee, ShownAs
<1>3. CASE \E b \in posted.to \cup posted.linked : b \in Reach(r)
  BY <1>1, <1>3 DEF MaySee
<1>4. CASE posted.visibility = "private" /\ \E b \in Reach(r) : Follows(b)
  <2>1. Row(a).visibility = "followers"
    BY <1>1, <1>4 DEF ShownAs
  <2>2. ReachFollows(r)
    BY <1>4 DEF ReachFollows, Follows, CaughtUp
  <2> QED BY <2>1, <2>2 DEF MaySee
<1> QED BY <1>2, <1>3, <1>4 DEF Meant

\* Every row is that of an activity that says the truth.
LEMMA RowOfAnActivity ==
  ASSUME OutboxInv, NEW i \in DOMAIN outbox
  PROVE  \E a \in ActivitySet : IsTrue(a) /\ outbox[i] = Row(a)
<1>1. PICK k \in 1..outboxAt : outbox[i] = Row(deliverable[k])
  BY DEF OutboxInv, IsTable
<1>2. k \in DOMAIN deliverable
  BY OutboxTypes DEF OutboxInv
<1>3. deliverable[k] \in ActivitySet
  BY <1>2, OutboxTypes DEF OutboxInv
<1>4. IsTrue(deliverable[k])
  BY <1>2 DEF OutboxInv, ActivitiesAreTrue
<1> QED BY <1>1, <1>3, <1>4

\* A table with rows of the note has a last one.
LEMMA LatestRow ==
  ASSUME OutboxInv, OfTheNote # {}
  PROVE  \E i \in OfTheNote : Latest = outbox[i] /\ \A j \in OfTheNote : j <= i
<1>1. OfTheNote \subseteq 0..Len(outbox) /\ Len(outbox) \in Nat
  BY OutboxTypes DEF OutboxInv, OfTheNote
<1>2. \E i \in OfTheNote : \A j \in OfTheNote : j <= i
  BY <1>1, GreatestExists
<1> QED BY <1>2 DEF Latest

\* When everything has arrived in order, the last row of the note is its last activity.
LEMMA LatestIsIt ==
  ASSUME OutboxInv, CaughtUp, posted # Unposted, ~overtaken
  PROVE  OfTheNote # {} /\ \E a \in ActivitySet : IsTrue(a) /\ IsCurrent(a) /\ Latest = Row(a)
<1> USE DEF OutboxInv
<1>1. OnTheWay = deliverable
  BY OutboxTypes, ConcatEmptySeq DEF OnTheWay, CaughtUp
<1>2. PICK k \in DOMAIN deliverable : IsLatest(deliverable, k) /\ IsCurrent(deliverable[k])
  BY <1>1 DEF LatestIsCurrent
<1>3. k \in 1..outboxAt /\ \A j \in 1..outboxAt : j \in DOMAIN deliverable
  BY OutboxTypes DEF CaughtUp
<1>4. deliverable[k] \in ActivitySet /\ IsTrue(deliverable[k])
  BY OutboxTypes DEF ActivitiesAreTrue
<1>5. PICK i \in DOMAIN outbox : outbox[i] = Row(deliverable[k])
                                 /\ \A j \in DOMAIN outbox : outbox[j].verb \in NoteVerbs => j <= i
  BY <1>2, <1>3 DEF IsLatest, IsTable, KeepsLatest
<1>6. outbox[i].verb \in NoteVerbs
  BY <1>2, <1>4, <1>5, RowIs DEF IsLatest
<1>7. i \in OfTheNote
  BY <1>6 DEF OfTheNote, NoteVerbs
<1>8. PICK m \in OfTheNote : Latest = outbox[m] /\ \A j \in OfTheNote : j <= m
  BY <1>7, LatestRow
<1>9. m \in DOMAIN outbox /\ outbox[m].verb \in NoteVerbs
  BY DEF OfTheNote, NoteVerbs
<1>10. m = i
  <2>1. m <= i /\ i <= m /\ m \in Nat /\ i \in Nat
    BY <1>5, <1>7, <1>8, <1>9, OutboxTypes
  <2> QED BY <2>1
<1> QED BY <1>2, <1>4, <1>5, <1>7, <1>8, <1>10

\* Whom the note is meant for is served it, and nobody else.
LEMMA ServedAsMeant == OutboxInv => ServedToTheEntitled
<1> SUFFICES ASSUME OutboxInv, CaughtUp, posted # Unposted, NEW r \in People \cup {Anonymous}
             PROVE  /\ Cacheable(r) => Meant(Anonymous)
                    /\ ~removed => ResolveNote(r) = (IF Meant(r) THEN "note" ELSE "refused")
                    /\ (removed /\ ~overtaken) => ResolveNote(r) # "note"
                    /\ \A row \in Listed(r) : /\ row.verb \in {"Create", "Update"} => Meant(r)
                                              /\ row.verb # "Follow"
                                              /\ row.verb = "Like" => Answered \in Reach(r)
  BY DEF ServedToTheEntitled
<1> USE DEF OutboxInv
<1>1. Cacheable(r) => Meant(Anonymous)
  <2>1. SUFFICES ASSUME ResolveNote(r) = "note", Latest.visibility = "public" PROVE Meant(Anonymous)
    BY DEF Cacheable
  <2>2. OfTheNote # {} /\ Latest.verb # "Delete"
    BY <2>1 DEF ResolveNote
  <2>3. PICK i \in OfTheNote : Latest = outbox[i]
    BY <2>2, LatestRow
  <2>4. i \in DOMAIN outbox /\ outbox[i].verb \in {"Create", "Update"}
    BY <2>2, <2>3 DEF OfTheNote
  <2>5. PICK a \in ActivitySet : IsTrue(a) /\ outbox[i] = Row(a)
    BY <2>4, RowOfAnActivity
  <2>6. a.verb \in {"Create", "Update"}
    BY <2>4, <2>5, RowIs
  <2>7. MaySee(Row(a), Anonymous)
    BY <2>1, <2>3, <2>5 DEF MaySee
  <2> QED BY <2>5, <2>6, <2>7, SeenIsMeant
<1>2. removed \in BOOLEAN /\ (~removed => ~overtaken)
  BY OutboxTypes DEF ActivitiesAreTrue
<1>3. ASSUME ~removed PROVE ResolveNote(r) = (IF Meant(r) THEN "note" ELSE "refused")
  <2>1. ~overtaken
    BY <1>2, <1>3
  <2>2. OfTheNote # {}
    BY <2>1, LatestIsIt
  <2>3. PICK a \in ActivitySet : IsTrue(a) /\ IsCurrent(a) /\ Latest = Row(a)
    BY <2>1, LatestIsIt
  <2>4. a.verb \in {"Create", "Update"} /\ RecipientsOf(a) = posted.to \cup posted.linked
    BY <1>3, <2>3 DEF IsCurrent
  <2>5. MaySee(Latest, r) <=> Meant(r)
    BY <2>3, <2>4, SeenIsMeant, MeantIsSeen
  <2>6. Latest.verb # "Delete"
    BY <2>3, <2>4, RowIs
  <2> QED BY <2>2, <2>5, <2>6 DEF ResolveNote
<1>4. ASSUME removed, ~overtaken PROVE ResolveNote(r) # "note"
  <2>1. PICK a \in ActivitySet : IsTrue(a) /\ IsCurrent(a) /\ Latest = Row(a)
    BY <1>4, LatestIsIt
  <2>2. Latest.verb = "Delete"
    BY <1>4, <2>1, RowIs DEF IsCurrent
  <2> QED BY <2>2 DEF ResolveNote
<1>5. ASSUME NEW row \in Listed(r)
      PROVE  /\ row.verb \in {"Create", "Update"} => Meant(r)
             /\ row.verb # "Follow"
             /\ row.verb = "Like" => Answered \in Reach(r)
  <2>1. PICK i \in DOMAIN outbox : row = outbox[i]
    BY DEF Listed, Range
  <2>2. PICK a \in ActivitySet : IsTrue(a) /\ row = Row(a)
    BY <2>1, RowOfAnActivity
  <2>3. MaySee(Row(a), r)
    BY <2>2 DEF Listed
  <2>4. Row(a).verb = a.verb /\ Row(a).visibility = VisibilityOf(a) /\ Row(a).recipients = RecipientsOf(a)
    BY RowIs
  <2>5. row.verb \in {"Create", "Update"} => Meant(r)
    BY <2>2, <2>3, <2>4, SeenIsMeant
  <2>6. row.verb # "Follow"
    BY <2>2, <2>3, <2>4 DEF MaySee, IsTrue
  <2>7. row.verb = "Like" => Answered \in Reach(r)
    BY <2>2, <2>3, <2>4 DEF MaySee, IsTrue
  <2> QED BY <2>5, <2>6, <2>7
<1> QED BY <1>1, <1>3, <1>4, <1>5

-----------------------------------------------------------------------------
(* Conversations.  Once a record is complete each message is in the
   conversation of its parent, if that is known, and the participants are
   the earliest entries of all who are named.  Between two statements of
   record the tables say less, in a way that the next statement makes up
   for: that is what PartsAre says, statement by statement. *)
\* Whom a message is between.  Who is involved in which conversation, when F says which
\* one a message belongs to; and of several entries the earliest.
Between == [m \in Messages |-> {Sender[m]} \cup mentions[m]]
Involved(who, F, E) == UNION {{<<F[m], a, m>> : a \in who[m]} : m \in E}
Both(who, F, G, E) == Involved(who, F, E) \cup Involved(who, G, E)
First(S) == KeepEarliest({}, S)

Recording == step # <<>> \/ ended

\* Where messages belong once the conversations that wait for this record are joined.
Joined == [m \in DOMAIN conv |-> IF conv[m] \in FirstBelow(Message) THEN step[2] ELSE conv[m]]

Statements == {"add participants", "consolidate", "drop", "move"}

ConversationsTyped ==
  /\ parent \in [Messages -> Messages \cup {Nobody}] /\ \A m \in Messages : parent[m] < m
  /\ topic \in Seq(Messages) /\ recorded \in 0..Len(topic)
  /\ DOMAIN conv \subseteq Messages /\ conv \in [DOMAIN conv -> Messages]
  /\ step = <<>> \/ step \in Statements \X Messages
  /\ ended \in BOOLEAN /\ (step = <<>> \/ ~ended) /\ (Recording => recorded < Len(topic))

\* A conversation is named by its first message, and a table is finite.
NamedByFirst ==
  /\ \A m \in DOMAIN conv : conv[m] \in DOMAIN conv /\ conv[conv[m]] = conv[m] /\ conv[m] <= m
  /\ \E b \in Nat : \A m \in DOMAIN conv : m <= b

\* A message is in the conversation of its parent, or starts one; a reply that came
\* before the message that is being recorded waits to be joined.
WithItsParent ==
  \A m \in DOMAIN conv :
    \/ conv[m] = IF parent[m] \in DOMAIN conv THEN conv[parent[m]] ELSE m
    \/ Recording /\ m \in FirstBelow(Message)

HandledIsKnown == \A i \in 1..recorded : topic[i] \in DOMAIN conv
RecordedIsKnown == step # <<>> => Message \in DOMAIN conv /\ conv[Message] = step[2]

\* The participants: those of all that is known; but of the message that is being
\* recorded not before they are added, and of the conversations that are joined to
\* that of their parent not before they are moved.
Covers(E) == parts = First(Involved(Between, conv, E)) /\ \A i \in 1..recorded : topic[i] \in E
PartsAre ==
  /\ (step = <<>> /\ ~ended) => parts = First(Involved(Between, conv, DOMAIN conv))
  /\ (ended \/ (step # <<>> /\ step[1] = "add participants")) => \E E \in {DOMAIN conv, DOMAIN conv \ {Message}} : Covers(E)
  /\ (step # <<>> /\ step[1] = "consolidate") => parts = First(Involved(Between, conv, DOMAIN conv))
  /\ (step # <<>> /\ step[1] = "drop") =>
       parts = First(Both(Between, conv, Joined, DOMAIN conv))
  /\ (step # <<>> /\ step[1] = "move") => parts = First(Involved(Between, Joined, DOMAIN conv))

ConversationsInv ==
  /\ ConversationsTyped /\ NamedByFirst /\ WithItsParent
  /\ HandledIsKnown /\ RecordedIsKnown /\ PartsAre

\* What keeping the earliest entries means.
IsEntry(p) == p = <<p[1], p[2], p[3]>> /\ p[3] \in Nat
Entries(S) == \A p \in S : IsEntry(p)

LEMMA FirstIs ==
  ASSUME NEW S
  PROVE  First(S) = {p \in S : \A q \in S : q[1] = p[1] /\ q[2] = p[2] => p[3] <= q[3]}
BY DEF First, KeepEarliest

LEMMA KeptIs ==
  ASSUME NEW P, NEW N PROVE KeepEarliest(P, N) = First(P \cup N)
<1>1. {} \cup (P \cup N) = P \cup N
  OBVIOUS
<1> QED BY <1>1 DEF First, KeepEarliest

\* Of every entry there is an earliest one.
LEMMA FirstExists ==
  ASSUME NEW S, Entries(S), NEW p \in S
  PROVE  \E q \in First(S) : q[1] = p[1] /\ q[2] = p[2] /\ q[3] <= p[3]
<1> DEFINE Same == {q \in S : q[1] = p[1] /\ q[2] = p[2]}
           Times == {q[3] : q \in Same}
<1>1. Times \subseteq Nat /\ p \in Same
  BY DEF Entries, IsEntry
<1>2. Times # {} /\ p[3] \in Times
  BY <1>1
<1> HIDE DEF Times
<1>3. PICK t \in Times : \A u \in Times : t <= u
  BY <1>1, <1>2, LeastExists
<1>4. PICK q \in Same : q[3] = t
  BY <1>3 DEF Times
<1>5. \A r \in Same : q[3] <= r[3]
  BY <1>3, <1>4 DEF Times
<1>6. q \in S /\ q[1] = p[1] /\ q[2] = p[2]
  BY <1>4
<1>7. \A r \in S : r[1] = q[1] /\ r[2] = q[2] => q[3] <= r[3]
  BY <1>5, <1>6
<1>8. q \in First(S)
  BY <1>6, <1>7, FirstIs
<1>9. q[3] <= p[3]
  BY <1>2, <1>3, <1>4
<1> QED BY <1>6, <1>8, <1>9

\* Entries that others are earlier than do not count.
LEMMA FirstSame ==
  ASSUME NEW X, NEW Y, Entries(Y), X \subseteq Y,
         \A e \in Y : \E d \in X : d[1] = e[1] /\ d[2] = e[2] /\ d[3] <= e[3]
  PROVE  First(X) = First(Y)
<1>1. ASSUME NEW p \in First(X) PROVE p \in First(Y)
  <2>1. p \in X /\ p \in Y /\ \A q \in X : q[1] = p[1] /\ q[2] = p[2] => p[3] <= q[3]
    BY <1>1, FirstIs
  <2>2. ASSUME NEW q \in Y, q[1] = p[1], q[2] = p[2] PROVE p[3] <= q[3]
    <3>1. PICK d \in X : d[1] = q[1] /\ d[2] = q[2] /\ d[3] <= q[3]
      OBVIOUS
    <3>2. p[3] <= d[3]
      BY <2>1, <2>2, <3>1
    <3>3. p[3] \in Nat /\ d[3] \in Nat /\ q[3] \in Nat
      BY <2>1 DEF Entries, IsEntry
    <3> QED BY <3>1, <3>2, <3>3
  <2> QED BY <2>1, <2>2, FirstIs
<1>2. ASSUME NEW p \in First(Y) PROVE p \in First(X)
  <2>1. p \in Y /\ \A q \in Y : q[1] = p[1] /\ q[2] = p[2] => p[3] <= q[3]
    BY <1>2, FirstIs
  <2>2. PICK d \in X : d[1] = p[1] /\ d[2] = p[2] /\ d[3] <= p[3]
    BY <2>1
  <2>3. p[3] <= d[3]
    BY <2>1, <2>2
  <2>4. p[3] \in Nat /\ d[3] \in Nat /\ p = <<p[1], p[2], p[3]>> /\ d = <<d[1], d[2], d[3]>>
    BY <2>1 DEF Entries, IsEntry
  <2>5. d = p
    BY <2>2, <2>3, <2>4
  <2> QED BY <2>1, <2>5, FirstIs
<1> QED BY <1>1, <1>2

\* What is kept of what was kept and more is what is kept of all.
LEMMA FirstAgain ==
  ASSUME NEW A, NEW N, NEW Y, Entries(Y), A \subseteq Y, N \subseteq Y,
         \A e \in Y : e \in A \/ \E d \in N : d[1] = e[1] /\ d[2] = e[2] /\ d[3] <= e[3]
  PROVE  First(First(A) \cup N) = First(Y)
<1>1. Entries(A)
  BY DEF Entries
<1>2. First(A) \subseteq A
  BY FirstIs
<1>3. ASSUME NEW e \in Y PROVE \E d \in First(A) \cup N : d[1] = e[1] /\ d[2] = e[2] /\ d[3] <= e[3]
  <2>1. CASE e \in A
    BY <1>1, <2>1, FirstExists
  <2>2. CASE e \notin A
    BY <2>2
  <2> QED BY <2>1, <2>2
<1> DEFINE Z == First(A) \cup N
<1>4. Z \subseteq Y
  BY <1>2
<1> HIDE DEF Z
<1>5. \A e \in Y : \E d \in Z : d[1] = e[1] /\ d[2] = e[2] /\ d[3] <= e[3]
  BY <1>3 DEF Z
<1>6. First(Z) = First(Y)
  BY <1>4, <1>5, FirstSame
<1> QED BY <1>6 DEF Z

\* Without some conversations, what is kept is what is kept of the others.
Without(S, O) == {p \in S : p[1] \notin O}
LEMMA FirstWithout ==
  ASSUME NEW C, NEW B, NEW O, B \subseteq C, \A e \in C : e[1] \notin O <=> e \in B
  PROVE  Without(First(C), O) = First(B)
<1>1. ASSUME NEW p \in First(C), p[1] \notin O PROVE p \in First(B)
  <2>1. p \in C /\ \A q \in C : q[1] = p[1] /\ q[2] = p[2] => p[3] <= q[3]
    BY <1>1, FirstIs
  <2> QED BY <1>1, <2>1, FirstIs
<1>2. ASSUME NEW p \in First(B) PROVE p \in First(C) /\ p[1] \notin O
  <2>1. p \in B /\ \A q \in B : q[1] = p[1] /\ q[2] = p[2] => p[3] <= q[3]
    BY <1>2, FirstIs
  <2>2. p \in C /\ p[1] \notin O
    BY <2>1
  <2>3. ASSUME NEW q \in C, q[1] = p[1], q[2] = p[2] PROVE p[3] <= q[3]
    BY <2>1, <2>2, <2>3
  <2> QED BY <2>2, <2>3, FirstIs
<1> QED BY <1>1, <1>2 DEF Without

\* The entries of those who are involved.
LEMMA InvolvedIs ==
  ASSUME NEW who, NEW F, NEW E, NEW e
  PROVE  e \in Involved(who, F, E) <=> \E m \in E : \E a \in who[m] : e = <<F[m], a, m>>
BY DEF Involved

LEMMA InvolvedEntries ==
  ASSUME NEW who, NEW F, NEW E, E \subseteq Nat PROVE Entries(Involved(who, F, E))
<1>1. ASSUME NEW e \in Involved(who, F, E) PROVE IsEntry(e)
  <2>1. \E m \in E : \E a \in who[m] : e = <<F[m], a, m>>
    BY <1>1 DEF Involved
  <2>2. PICK m \in E : \E a \in who[m] : e = <<F[m], a, m>>
    BY <2>1
  <2>3. PICK a \in who[m] : e = <<F[m], a, m>>
    BY <2>2
  <2> QED BY <2>2, <2>3 DEF IsEntry
<1> QED BY <1>1 DEF Entries

LEMMA InvolvedSame ==
  ASSUME NEW who, NEW F, NEW G, NEW E, \A m \in E : F[m] = G[m]
  PROVE  Involved(who, F, E) = Involved(who, G, E)
<1>1. \A e : e \in Involved(who, F, E) => e \in Involved(who, G, E)
  BY InvolvedIs
<1>2. \A e : e \in Involved(who, G, E) => e \in Involved(who, F, E)
  BY InvolvedIs
<1> QED BY <1>1, <1>2

LEMMA InvolvedOne ==
  ASSUME NEW who, NEW F, NEW E, NEW m \in E, NEW a \in who[m] PROVE <<F[m], a, m>> \in Involved(who, F, E)
BY DEF Involved

Numbers(D) == D \subseteq Nat

\* A message is added to those that the participants are known of.
AllButPerhaps(E, D, m) == E = D \/ E = D \ {m}
AddedBy(N, who, F, m) == N = {<<F[m], a, m>> : a \in who[m]}
LEMMA Added ==
  ASSUME NEW who, NEW F, NEW D, Numbers(D), NEW m \in D, NEW E, AllButPerhaps(E, D, m),
         NEW N, AddedBy(N, who, F, m)
  PROVE  KeepEarliest(First(Involved(who, F, E)), N) = First(Involved(who, F, D))
<1> DEFINE A == Involved(who, F, E)
           Y == Involved(who, F, D)
<1>1. Entries(Y)
  BY InvolvedEntries DEF Numbers
<1>2. A \subseteq Y
  <2>1. SUFFICES ASSUME NEW e \in A PROVE e \in Y
    OBVIOUS
  <2>2. \E n \in E : \E a \in who[n] : e = <<F[n], a, n>>
    BY <2>1 DEF Involved
  <2>3. PICK n \in E : \E a \in who[n] : e = <<F[n], a, n>>
    BY <2>2
  <2>4. PICK a \in who[n] : e = <<F[n], a, n>>
    BY <2>3
  <2>5. n \in D
    BY DEF AllButPerhaps
  <2> QED BY <2>4, <2>5, InvolvedOne
<1>3. N \subseteq Y
  BY InvolvedOne DEF AddedBy
<1>0. E \subseteq D /\ \A n \in D : n \in E \/ n = m
  BY DEF AllButPerhaps
<1>4. ASSUME NEW e \in Y PROVE e \in A \/ \E d \in N : d[1] = e[1] /\ d[2] = e[2] /\ d[3] <= e[3]
  <2>1. \E n \in D : \E a \in who[n] : e = <<F[n], a, n>>
    BY <1>4 DEF Involved
  <2>2. PICK n \in D : \E a \in who[n] : e = <<F[n], a, n>>
    BY <2>1
  <2>3. PICK a \in who[n] : e = <<F[n], a, n>>
    BY <2>2
  <2>4. CASE n \in E
    BY <2>3, <2>4, InvolvedOne
  <2>5. CASE n = m
    <3>1. e \in N
      BY <2>3, <2>5 DEF AddedBy
    <3>2. e[3] <= e[3]
      BY <1>1, <1>4 DEF Entries, IsEntry
    <3> QED BY <3>1, <3>2
  <2> QED BY <1>0, <2>4, <2>5
<1> HIDE DEF A, Y
<1>5. First(First(A) \cup N) = First(Y)
  BY <1>1, <1>2, <1>3, <1>4, FirstAgain
<1> QED BY <1>5, KeptIs DEF A, Y

\* The participants of conversations that are joined to another are added to it.
JoinedTo(G, F, D, O, c) == \A m \in D : G[m] = IF F[m] \in O THEN c ELSE F[m]
MovedFrom(N, P, O, c) == N = {<<c, p[2], p[3]>> : p \in {q \in P : q[1] \in O}}
LEMMA Consolidated ==
  ASSUME NEW who, NEW F, NEW G, NEW D, Numbers(D), NEW O, NEW c, JoinedTo(G, F, D, O, c),
         NEW N, MovedFrom(N, First(Involved(who, F, D)), O, c)
  PROVE  KeepEarliest(First(Involved(who, F, D)), N) = First(Both(who, F, G, D))
<1> DEFINE A == Involved(who, F, D)
           B == Involved(who, G, D)
           Y == Both(who, F, G, D)
<1>1. Entries(A) /\ Entries(B)
  BY InvolvedEntries DEF Numbers
<1>2. Entries(Y) /\ A \subseteq Y /\ B \subseteq Y
  BY <1>1 DEF Entries, Both
<1>3. \A p \in A : p[1] \in O => <<c, p[2], p[3]>> \in B
  <2>1. SUFFICES ASSUME NEW e \in A, e[1] \in O PROVE <<c, e[2], e[3]>> \in B
    OBVIOUS
  <2>2. \E n \in D : \E a \in who[n] : e = <<F[n], a, n>>
    BY <2>1 DEF Involved
  <2>3. PICK n \in D : \E a \in who[n] : e = <<F[n], a, n>>
    BY <2>2
  <2>4. PICK a \in who[n] : e = <<F[n], a, n>>
    BY <2>3
  <2>5. G[n] = c
    BY <2>1, <2>4 DEF JoinedTo
  <2>6. <<G[n], a, n>> \in B
    BY InvolvedOne
  <2> QED BY <2>4, <2>5, <2>6
<1>4. First(A) \subseteq A
  BY FirstIs
<1> HIDE DEF A, B, Y
<1>5. N \subseteq Y
  <2>1. ASSUME NEW p \in First(A), p[1] \in O PROVE <<c, p[2], p[3]>> \in Y
    BY <1>2, <1>3, <1>4, <2>1
  <2> QED BY <2>1 DEF MovedFrom, A
<1>6. ASSUME NEW e \in Y PROVE e \in A \/ \E d \in N : d[1] = e[1] /\ d[2] = e[2] /\ d[3] <= e[3]
  <2>1. SUFFICES ASSUME e \in B, e \notin A PROVE \E d \in N : d[1] = e[1] /\ d[2] = e[2] /\ d[3] <= e[3]
    BY <1>6 DEF A, B, Y, Both
  <2>2. \E n \in D : \E a \in who[n] : e = <<G[n], a, n>>
    BY <2>1 DEF Involved, B
  <2>3. PICK n \in D : \E a \in who[n] : e = <<G[n], a, n>>
    BY <2>2
  <2>4. PICK a \in who[n] : e = <<G[n], a, n>>
    BY <2>3
  <2>5. <<F[n], a, n>> \in A
    BY InvolvedOne DEF A
  <2>6. F[n] \in O /\ G[n] = c
    BY <2>1, <2>4, <2>5 DEF JoinedTo
  <2>7. PICK q \in First(A) : q[1] = F[n] /\ q[2] = a /\ q[3] <= n
    BY <1>1, <2>5, FirstExists
  <2> DEFINE d == <<c, q[2], q[3]>>
  <2>8. d \in N
    BY <2>6, <2>7 DEF MovedFrom, A
  <2>9. d[1] = e[1] /\ d[2] = e[2] /\ d[3] <= e[3]
    BY <2>4, <2>6, <2>7
  <2> QED BY <2>8, <2>9
<1>7. First(First(A) \cup N) = First(Y)
  BY <1>2, <1>5, <1>6, FirstAgain
<1> QED BY <1>7, KeptIs DEF A, Y

\* ... and those conversations lose theirs.
LEMMA Dropped ==
  ASSUME NEW who, NEW F, NEW G, NEW D, NEW O, NEW c, c \notin O, JoinedTo(G, F, D, O, c)
  PROVE  Without(First(Both(who, F, G, D)), O) = First(Involved(who, G, D))
<1> DEFINE A == Involved(who, F, D)
           B == Involved(who, G, D)
<1>1. ASSUME NEW e \in A, e[1] \notin O PROVE e \in B
  <2>1. \E n \in D : \E a \in who[n] : e = <<F[n], a, n>>
    BY <1>1 DEF Involved
  <2>2. PICK n \in D : \E a \in who[n] : e = <<F[n], a, n>>
    BY <2>1
  <2>3. PICK a \in who[n] : e = <<F[n], a, n>>
    BY <2>2
  <2>4. G[n] = F[n]
    BY <1>1, <2>3 DEF JoinedTo
  <2> QED BY <2>3, <2>4, InvolvedOne
<1>2. ASSUME NEW e \in B PROVE e[1] \notin O
  <2>1. \E n \in D : \E a \in who[n] : e = <<G[n], a, n>>
    BY <1>2 DEF Involved
  <2>2. PICK n \in D : \E a \in who[n] : e = <<G[n], a, n>>
    BY <2>1
  <2>3. e[1] = G[n]
    BY <2>2
  <2> QED BY <2>3 DEF JoinedTo
<1> DEFINE C == Both(who, F, G, D)
<1>3. B \subseteq C /\ \A e \in C : e \in A \/ e \in B
  BY DEF Both
<1> HIDE DEF A, B, C
<1>4. Without(First(C), O) = First(B)
  BY <1>1, <1>2, <1>3, FirstWithout
<1> QED BY <1>4 DEF B, C

\* What the invariant says of a message that is being recorded.
LEMMA BeingRecorded ==
  ASSUME ConversationsInv, step # <<>>
  PROVE  /\ Message \in DOMAIN conv /\ Message \in Messages /\ conv[Message] = step[2]
         /\ step[2] \in DOMAIN conv /\ step[2] \in Messages /\ conv[step[2]] = step[2] /\ step[2] <= Message
         /\ step[2] \notin FirstBelow(Message)
         /\ JoinedTo(Joined, conv, DOMAIN conv, FirstBelow(Message), step[2])
         /\ ~ended /\ recorded < Len(topic) /\ Recording
         /\ DOMAIN conv \subseteq Nat /\ Numbers(DOMAIN conv)
<1>1. Message \in DOMAIN conv /\ conv[Message] = step[2]
  BY DEF ConversationsInv, RecordedIsKnown
<1>2. ~ended /\ recorded < Len(topic) /\ Recording /\ DOMAIN conv \subseteq Messages
  BY DEF ConversationsInv, ConversationsTyped, Recording
<1>3. step[2] \in DOMAIN conv /\ conv[step[2]] = step[2] /\ step[2] <= Message
  BY <1>1 DEF ConversationsInv, NamedByFirst
<1>4. DOMAIN conv \subseteq Nat /\ Numbers(DOMAIN conv)
  BY <1>2, ConversationsAssumption DEF Numbers
<1>5. step[2] \notin FirstBelow(Message)
  <2>1. parent[step[2]] < step[2]
    BY <1>2, <1>3 DEF ConversationsInv, ConversationsTyped
  <2>2. step[2] \in Nat /\ Message \in Nat
    BY <1>1, <1>3, <1>4
  <2>3. SUFFICES ASSUME parent[step[2]] = Message PROVE FALSE
    BY DEF FirstBelow
  <2> QED BY <1>3, <2>1, <2>2, <2>3
<1>6. JoinedTo(Joined, conv, DOMAIN conv, FirstBelow(Message), step[2])
  BY DEF JoinedTo, Joined
<1> QED BY <1>1, <1>2, <1>3, <1>4, <1>5, <1>6

LEMMA ConvStart == ConversationsInit => ConversationsInv
<1> SUFFICES ASSUME ConversationsInit PROVE ConversationsInv
  OBVIOUS
<1>0. conv = <<>> /\ topic = <<>>
  BY DEF ConversationsInit
<1>9. DOMAIN conv = {} /\ Len(topic) = 0 /\ topic \in Seq(Messages)
  BY <1>0
<1>1. DOMAIN conv = {} /\ topic = <<>> /\ Len(topic) = 0 /\ topic \in Seq(Messages) /\ recorded = 0
      /\ step = <<>> /\ ~ended /\ ended \in BOOLEAN /\ parts = {}
  BY <1>9 DEF ConversationsInit
<1>2. ConversationsTyped
  <2>1. conv \in [DOMAIN conv -> Messages]
    BY DEF ConversationsInit
  <2> QED BY <1>1, <2>1 DEF ConversationsTyped, ConversationsInit, Recording
<1>3. NamedByFirst /\ WithItsParent /\ HandledIsKnown /\ RecordedIsKnown
  BY <1>1 DEF NamedByFirst, WithItsParent, HandledIsKnown, RecordedIsKnown
<1>4. parts = First(Involved(Between, conv, DOMAIN conv))
  BY <1>1 DEF First, KeepEarliest, Involved
<1> QED BY <1>1, <1>2, <1>3, <1>4 DEF ConversationsInv, PartsAre

LEMMA AddKeeps == ConversationsInv /\ AddParticipants => ConversationsInv'
<1> SUFFICES ASSUME ConversationsInv, AddParticipants PROVE ConversationsInv'
  OBVIOUS
<1> DEFINE M == Message
           D == DOMAIN conv
<1>1. step # <<>> /\ step[1] = "add participants" /\ UNCHANGED <<parent, mentions, topic, recorded, conv>>
  BY DEF AddParticipants, Rest
<1>2. /\ M \in D /\ M \in Messages /\ conv[M] = step[2] /\ step[2] \in Messages
      /\ ~ended /\ recorded < Len(topic) /\ Recording /\ Numbers(D)
  BY <1>1, BeingRecorded
<1>3. PICK E \in {D, D \ {M}} : Covers(E)
  BY <1>1 DEF ConversationsInv, PartsAre
<1>4. parts = First(Involved(Between, conv, E)) /\ \A i \in 1..recorded : topic[i] \in E
  BY <1>3 DEF Covers
<1>5. M' = M /\ Between' = Between /\ D' = D
  BY <1>1 DEF Message, Between
<1>6. NamedByFirst' /\ HandledIsKnown'
  BY <1>1 DEF ConversationsInv, NamedByFirst, HandledIsKnown
<1>7. CASE Sender[M] \in mentions[M]
  <2>1. ended' = TRUE /\ step' = <<>> /\ parts' = parts
    BY <1>7 DEF AddParticipants, Rest
  <2>2. ConversationsTyped'
    BY <1>1, <1>2, <2>1 DEF ConversationsInv, ConversationsTyped
  <2>3. WithItsParent'
    BY <1>1, <1>2, <1>5, <2>1 DEF ConversationsInv, WithItsParent, FirstBelow, Recording
  <2>4. Covers(E)'
    BY <1>1, <1>4, <1>5, <2>1 DEF Covers
  <2>5. PartsAre'
    BY <1>3, <1>5, <2>1, <2>4 DEF PartsAre
  <2> QED BY <1>6, <2>1, <2>2, <2>3, <2>5 DEF ConversationsInv, RecordedIsKnown
<1>8. CASE Sender[M] \notin mentions[M]
  <2> DEFINE N == {<<step[2], a, M>> : a \in {Sender[M]} \cup mentions[M]}
  <2>1. ended' = ended /\ step' = <<"consolidate", step[2]>> /\ parts' = KeepEarliest(parts, N)
    BY <1>8 DEF AddParticipants, Rest
  <2>2. ConversationsTyped'
    <3>1. step' \in Statements \X Messages
      BY <1>2, <2>1 DEF Statements
    <3>2. Recording'
      BY <2>1 DEF Recording
    <3> QED BY <1>1, <1>2, <2>1, <3>1, <3>2 DEF ConversationsInv, ConversationsTyped
  <2>3. WithItsParent'
    BY <1>1, <1>2, <1>5, <2>1 DEF ConversationsInv, WithItsParent, FirstBelow, Recording
  <2>4. RecordedIsKnown'
    BY <1>1, <1>2, <1>5, <2>1 DEF RecordedIsKnown
  <2>5. AddedBy(N, Between, conv, M)
    BY <1>2 DEF AddedBy, Between
  <2> HIDE DEF N
  <2>6. AllButPerhaps(E, D, M)
    BY <1>3 DEF AllButPerhaps
  <2> HIDE DEF M, D
  <2>7. KeepEarliest(First(Involved(Between, conv, E)), N) = First(Involved(Between, conv, D))
    BY <1>2, <2>5, <2>6, Added
  <2>8. parts' = First(Involved(Between, conv, D))
    BY <1>4, <2>1, <2>7
  <2>9. PartsAre'
    <3>1. (First(Involved(Between, conv, D)))' = First(Involved(Between, conv, D))
      BY <1>1, <1>5 DEF D
    <3>2. step'[1] = "consolidate" /\ step' # <<>>
      BY <2>1
    <3> QED BY <1>2, <2>1, <2>8, <3>1, <3>2 DEF PartsAre, D
  <2> QED BY <1>6, <2>2, <2>3, <2>4, <2>9 DEF ConversationsInv
<1> QED BY <1>7, <1>8

LEMMA StoreKeeps == ConversationsInv /\ StoreMessage => ConversationsInv'
<1> SUFFICES ASSUME ConversationsInv, StoreMessage PROVE ConversationsInv'
  OBVIOUS
<1> DEFINE M == Message
           D == DOMAIN conv
           c == IF M \in D THEN conv[M] ELSE IF parent[M] \in D THEN conv[parent[M]] ELSE M
           next == [n \in D \cup {M} |-> IF n = M THEN c ELSE conv[n]]
<1>1. /\ step = <<>> /\ ~ended /\ recorded < Len(topic) /\ ~Recording
      /\ UNCHANGED <<parent, mentions, topic, recorded, parts, ended>>
  BY DEF StoreMessage, Rest, Recording
<1>2. conv' = next /\ step' = <<"add participants", c>>
  BY DEF StoreMessage, Rest
<1>3. M \in Messages /\ recorded \in Nat /\ D \subseteq Messages /\ Messages \subseteq Nat \ {0}
  BY <1>1, ConversationsAssumption DEF ConversationsInv, ConversationsTyped, Message
<1>4. /\ \A m \in D : conv[m] \in D /\ conv[conv[m]] = conv[m] /\ conv[m] <= m
      /\ \A m \in D : conv[m] = IF parent[m] \in D THEN conv[parent[m]] ELSE m
      /\ \A i \in 1..recorded : topic[i] \in D
      /\ parts = First(Involved(Between, conv, D))
      /\ \A m \in Messages : parent[m] < m
      /\ \A m \in D : parent[m] = M => M < m
  BY <1>1, <1>3 DEF ConversationsInv, ConversationsTyped, NamedByFirst, WithItsParent, HandledIsKnown, PartsAre
<1>5. M' = M /\ Between' = Between /\ Recording'
  BY <1>1, <1>2 DEF Message, Between, Recording
<1>6. c \in Messages
  BY <1>3, <1>4
<1>7. DOMAIN next = D \cup {M} /\ \A m \in D : next[m] = conv[m]
  OBVIOUS
<1>8. next[M] = c
  OBVIOUS
<1>9. /\ M \in D => c = conv[M]
      /\ M \notin D /\ parent[M] \in D => c = conv[parent[M]]
      /\ M \notin D /\ parent[M] \notin D => c = M
  OBVIOUS
<1> HIDE DEF M, D, c, next
<1>10. ConversationsTyped'
  <2>1. D \cup {M} \subseteq Messages /\ next \in [D \cup {M} -> Messages]
    <3>1. \A m \in D : conv[m] \in Messages
      BY <1>3, <1>4
    <3> QED BY <1>3, <1>6, <3>1 DEF next
  <2>2. step' \in Statements \X Messages
    BY <1>2, <1>6 DEF Statements
  <2> QED BY <1>1, <1>2, <1>7, <2>1, <2>2 DEF ConversationsInv, ConversationsTyped
<1>11. NamedByFirst'
  <2>1. ASSUME NEW m \in D \cup {M} PROVE next[m] \in D \cup {M} /\ next[next[m]] = next[m] /\ next[m] <= m
    <3>1. CASE m \in D
      BY <1>4, <1>7, <3>1
    <3>2. CASE m = M /\ M \notin D
      <4>1. CASE parent[M] \in D
        <5>1. c = conv[parent[M]] /\ c \in D /\ conv[c] = c /\ c <= parent[M]
          BY <1>4, <1>9, <3>2, <4>1
        <5>2. c \in Nat /\ parent[M] \in Nat /\ M \in Nat /\ parent[M] < M
          <6>1. c \in Messages /\ parent[M] \in Messages
            BY <1>3, <4>1, <5>1
          <6> QED BY <1>3, <1>4, <6>1
        <5>3. c <= M
          BY <5>1, <5>2
        <5> QED BY <1>7, <1>8, <3>2, <5>1, <5>3
      <4>2. CASE parent[M] \notin D
        BY <1>3, <1>8, <1>9, <3>2, <4>2
      <4> QED BY <4>1, <4>2
    <3> QED BY <2>1, <3>1, <3>2
  <2>2. PICK b \in Nat : \A m \in D : m <= b
    BY DEF ConversationsInv, NamedByFirst, D
  <2>3. \A m \in D \cup {M} : m <= b + M
    BY <1>3, <2>2
  <2>4. b + M \in Nat
    BY <1>3, <2>2
  <2> QED BY <1>2, <1>7, <2>1, <2>3, <2>4 DEF NamedByFirst
<1>12. WithItsParent'
  <2>1. ASSUME NEW m \in D \cup {M}
        PROVE  \/ next[m] = IF parent[m] \in D \cup {M} THEN next[parent[m]] ELSE m
               \/ parent[m] = M /\ next[m] = m
    <3>1. CASE m \in D
      <4>1. CASE parent[m] \in D
        BY <1>4, <1>7, <3>1, <4>1
      <4>2. CASE parent[m] \notin D
        BY <1>4, <1>7, <3>1, <4>2
      <4> QED BY <4>1, <4>2
    <3>2. CASE m = M /\ M \notin D
      <4>0. parent[M] # M
        <5>1. parent[M] < M /\ M \in Nat
          BY <1>3, <1>4
        <5> QED BY <5>1
      <4>1. CASE parent[M] \in D
        BY <1>7, <1>8, <1>9, <3>2, <4>1
      <4>2. CASE parent[M] \notin D
        BY <1>8, <1>9, <3>2, <4>0, <4>2
      <4> QED BY <4>1, <4>2
    <3> QED BY <2>1, <3>1, <3>2
  <2> QED BY <1>1, <1>2, <1>5, <1>7, <2>1 DEF WithItsParent, FirstBelow, M
<1>13. HandledIsKnown' /\ RecordedIsKnown'
  BY <1>1, <1>2, <1>4, <1>5, <1>7, <1>8 DEF HandledIsKnown, RecordedIsKnown, M
<1>14. PartsAre'
  <2>1. Involved(Between, conv, D) = Involved(Between, next, D)
    BY <1>7, InvolvedSame
  <2>2. D = D \cup {M} \/ D = (D \cup {M}) \ {M}
    OBVIOUS
  <2>3. (DOMAIN conv)' = D \cup {M}
    BY <1>2, <1>7
  <2>4. parts' = First(Involved(Between, next, D)) /\ \A i \in 1..recorded' : topic'[i] \in D
    BY <1>1, <1>4, <2>1
  <2>5. \E E \in {(DOMAIN conv)', (DOMAIN conv)' \ {M'}} : parts' = First(Involved(Between', conv', E)) /\ \A i \in 1..recorded' : topic'[i] \in E
    BY <1>2, <1>5, <2>2, <2>3, <2>4
  <2>6. step'[1] = "add participants" /\ step' # <<>>
    BY <1>2
  <2> QED BY <2>5, <2>6, <1>1 DEF PartsAre, Covers, M
<1> QED BY <1>10, <1>11, <1>12, <1>13, <1>14 DEF ConversationsInv

LEMMA ConsolidateKeeps == ConversationsInv /\ Consolidate => ConversationsInv'
<1> SUFFICES ASSUME ConversationsInv, Consolidate PROVE ConversationsInv'
  OBVIOUS
<1> DEFINE M == Message
           D == DOMAIN conv
           O == FirstBelow(Message)
           found == {p \in parts : p[1] \in O}
<1>1. step # <<>> /\ step[1] = "consolidate" /\ UNCHANGED <<parent, mentions, topic, conv, ended>>
  BY DEF Consolidate, Rest, Done
<1>2. /\ M \in D /\ M \in Messages /\ conv[M] = step[2] /\ step[2] \in Messages
      /\ ~ended /\ recorded < Len(topic) /\ Recording /\ Numbers(D) /\ JoinedTo(Joined, conv, D, O, step[2])
  BY <1>1, BeingRecorded
<1>3. parts = First(Involved(Between, conv, D))
  BY <1>1 DEF ConversationsInv, PartsAre
<1>4. Between' = Between /\ D' = D /\ recorded \in Nat
  BY <1>1 DEF Between, ConversationsInv, ConversationsTyped
<1>5. NamedByFirst'
  BY <1>1 DEF ConversationsInv, NamedByFirst
<1>6. CASE found = {}
  <2>1. recorded' = recorded + 1 /\ step' = <<>> /\ parts' = parts
    BY <1>6 DEF Consolidate, Done, Rest
  <2>2. O = {}
    <3>1. SUFFICES ASSUME NEW o \in O PROVE FALSE
      OBVIOUS
    <3>2. o \in D /\ conv[o] = o /\ o \in Messages
      BY DEF ConversationsInv, ConversationsTyped, FirstBelow
    <3>3. Sender[o] \in Between[o]
      BY <3>2 DEF Between
    <3> DEFINE A == Involved(Between, conv, D)
               e == <<conv[o], Sender[o], o>>
    <3>4. e \in A
      BY <3>2, <3>3, InvolvedOne
    <3>5. Entries(A)
      BY <1>2, InvolvedEntries DEF Numbers
    <3> HIDE DEF A
    <3>6. PICK q \in First(A) : q[1] = e[1]
      BY <3>4, <3>5, FirstExists
    <3>7. q \in found
      BY <1>3, <3>2, <3>6 DEF A
    <3> QED BY <1>6, <3>7
  <2>3. ConversationsTyped' /\ ~Recording'
    <3>1. recorded + 1 \in 0..Len(topic)
      BY <1>2, <1>4 DEF ConversationsInv, ConversationsTyped
    <3> QED BY <1>1, <1>2, <2>1, <3>1 DEF ConversationsInv, ConversationsTyped, Recording
  <2>4. WithItsParent'
    BY <1>1, <2>2 DEF ConversationsInv, WithItsParent
  <2>5. HandledIsKnown'
    <3>1. ASSUME NEW i \in 1..recorded + 1 PROVE topic[i] \in D
      BY <1>2, <1>4, <3>1 DEF ConversationsInv, HandledIsKnown, Message
    <3> QED BY <1>1, <2>1, <3>1 DEF HandledIsKnown
  <2>6. PartsAre'
    BY <1>1, <1>2, <1>3, <1>4, <2>1 DEF PartsAre
  <2> QED BY <1>5, <2>1, <2>3, <2>4, <2>5, <2>6 DEF ConversationsInv, RecordedIsKnown
<1>7. CASE found # {}
  <2> DEFINE N == {<<step[2], p[2], p[3]>> : p \in found}
  <2>1. recorded' = recorded /\ step' = <<"drop", step[2]>> /\ parts' = KeepEarliest(parts, N)
    BY <1>7 DEF Consolidate, Rest
  <2>2. M' = M /\ O' = O /\ Recording'
    BY <1>1, <2>1 DEF Message, FirstBelow, Recording
  <2>3. Joined' = Joined
    BY <1>1, <2>1, <2>2 DEF Joined
  <2>4. ConversationsTyped'
    <3>1. step' \in Statements \X Messages
      BY <1>2, <2>1 DEF Statements
    <3> QED BY <1>1, <1>2, <2>1, <3>1 DEF ConversationsInv, ConversationsTyped
  <2>5. WithItsParent'
    BY <1>1, <1>2, <2>2 DEF ConversationsInv, WithItsParent
  <2>6. HandledIsKnown' /\ RecordedIsKnown'
    BY <1>1, <1>2, <2>1, <2>2 DEF ConversationsInv, HandledIsKnown, RecordedIsKnown
  <2>7. MovedFrom(N, First(Involved(Between, conv, D)), O, step[2])
    BY <1>3 DEF MovedFrom
  <2> HIDE DEF N, D, O, M, found
  <2>8. KeepEarliest(First(Involved(Between, conv, D)), N) = First(Both(Between, conv, Joined, D))
    BY <1>2, <2>7, Consolidated
  <2>9. parts' = First(Both(Between, conv, Joined, D))
    BY <1>3, <2>1, <2>8
  <2>10. (First(Both(Between, conv, Joined, D)))' = First(Both(Between, conv, Joined, D))
    BY <1>1, <1>4, <2>3 DEF D
  <2>11. step'[1] = "drop" /\ step' # <<>>
    BY <2>1
  <2>12. PartsAre'
    BY <1>1, <1>2, <2>9, <2>10, <2>11 DEF PartsAre, D
  <2> QED BY <1>5, <2>4, <2>5, <2>6, <2>12 DEF ConversationsInv
<1> QED BY <1>6, <1>7

LEMMA DropKeeps == ConversationsInv /\ DropOrphans => ConversationsInv'
<1> SUFFICES ASSUME ConversationsInv, DropOrphans PROVE ConversationsInv'
  OBVIOUS
<1> DEFINE M == Message
           D == DOMAIN conv
           O == FirstBelow(Message)
<1>1. /\ step # <<>> /\ step[1] = "drop" /\ UNCHANGED <<parent, mentions, topic, recorded, conv, ended>>
      /\ step' = <<"move", step[2]>> /\ parts' = {p \in parts : p[1] \notin O}
  BY DEF DropOrphans, Rest
<1>2. /\ M \in D /\ M \in Messages /\ conv[M] = step[2] /\ step[2] \in Messages /\ step[2] \notin O
      /\ ~ended /\ recorded < Len(topic) /\ Recording /\ JoinedTo(Joined, conv, D, O, step[2])
  BY <1>1, BeingRecorded
<1>3. parts = First(Both(Between, conv, Joined, D))
  BY <1>1 DEF ConversationsInv, PartsAre
<1>4. Between' = Between /\ D' = D /\ M' = M /\ O' = O /\ Recording'
  BY <1>1 DEF Between, Message, FirstBelow, Recording
<1>5. Joined' = Joined
  BY <1>1, <1>4 DEF Joined
<1>6. NamedByFirst' /\ WithItsParent' /\ HandledIsKnown'
  BY <1>1, <1>2, <1>4 DEF ConversationsInv, NamedByFirst, WithItsParent, HandledIsKnown
<1>7. RecordedIsKnown'
  BY <1>1, <1>2, <1>4 DEF RecordedIsKnown
<1>8. ConversationsTyped'
  <2>1. step' \in Statements \X Messages
    BY <1>1, <1>2 DEF Statements
  <2> QED BY <1>1, <1>2, <2>1 DEF ConversationsInv, ConversationsTyped
<1>9. PartsAre'
  <2>1. parts' = Without(First(Both(Between, conv, Joined, D)), O)
    BY <1>1, <1>3 DEF Without
  <2> HIDE DEF D, O
  <2>2. Without(First(Both(Between, conv, Joined, D)), O) = First(Involved(Between, Joined, D))
    BY <1>2, Dropped
  <2>3. (First(Involved(Between, Joined, D)))' = First(Involved(Between, Joined, D))
    BY <1>1, <1>4, <1>5
  <2>4. step'[1] = "move" /\ step' # <<>>
    BY <1>1
  <2> QED BY <1>1, <1>2, <2>1, <2>2, <2>3, <2>4 DEF PartsAre, D
<1> QED BY <1>6, <1>7, <1>8, <1>9 DEF ConversationsInv

LEMMA MoveKeeps == ConversationsInv /\ MoveOrphans => ConversationsInv'
<1> SUFFICES ASSUME ConversationsInv, MoveOrphans PROVE ConversationsInv'
  OBVIOUS
<1> DEFINE M == Message
           D == DOMAIN conv
           O == FirstBelow(Message)
           c == step[2]
<1>1. /\ step # <<>> /\ step[1] = "move" /\ UNCHANGED <<parent, mentions, topic, parts, ended>>
      /\ step' = <<>> /\ recorded' = recorded + 1 /\ conv' = Joined
  BY DEF MoveOrphans, Rest, Done, Joined
<1>2. /\ M \in D /\ M \in Messages /\ conv[M] = c /\ c \in D /\ c \in Messages /\ conv[c] = c /\ c <= M /\ c \notin O
      /\ ~ended /\ recorded < Len(topic) /\ Recording
  BY <1>1, BeingRecorded
<1>3. parts = First(Involved(Between, Joined, D))
  BY <1>1 DEF ConversationsInv, PartsAre
<1>4. /\ DOMAIN Joined = D
      /\ \A m \in D : conv[m] \in O => Joined[m] = c
      /\ \A m \in D : conv[m] \notin O => Joined[m] = conv[m]
  BY DEF Joined
<1>5. /\ \A m \in D : conv[m] \in D /\ conv[conv[m]] = conv[m] /\ conv[m] <= m
      /\ \A m \in D : conv[m] = (IF parent[m] \in D THEN conv[parent[m]] ELSE m) \/ m \in O
      /\ \A i \in 1..recorded : topic[i] \in D
      /\ D \subseteq Messages /\ Messages \subseteq Nat /\ recorded \in Nat
      /\ \A m \in Messages : parent[m] < m
  BY ConversationsAssumption DEF ConversationsInv, ConversationsTyped, NamedByFirst, WithItsParent, HandledIsKnown
<1>6. \A o \in O : o \in D /\ conv[o] = o /\ parent[o] = M /\ M < o
  BY <1>5 DEF FirstBelow
<1>7. Between' = Between /\ DOMAIN conv' = D
  BY <1>1, <1>4 DEF Between
<1>8. M = topic[recorded + 1]
  BY DEF Message
<1> HIDE DEF M, D, O, c
<1>9. ConversationsTyped' /\ ~Recording'
  <2>1. Joined \in [D -> Messages]
    BY <1>2, <1>4, <1>5 DEF Joined, D
  <2>2. recorded + 1 \in 0..Len(topic)
    BY <1>2, <1>5 DEF ConversationsInv, ConversationsTyped
  <2> QED BY <1>1, <1>2, <1>5, <1>7, <2>1, <2>2 DEF ConversationsInv, ConversationsTyped, Recording
<1>10. NamedByFirst'
  <2>1. ASSUME NEW m \in D PROVE Joined[m] \in D /\ Joined[Joined[m]] = Joined[m] /\ Joined[m] <= m
    <3>1. CASE conv[m] \in O
      <4>1. Joined[m] = c /\ Joined[c] = c
        BY <1>2, <1>4, <2>1, <3>1
      <4>2. conv[m] <= m /\ M < conv[m] /\ c <= M
        BY <1>2, <1>5, <1>6, <2>1, <3>1
      <4>3. c \in Nat /\ M \in Nat /\ conv[m] \in Nat /\ m \in Nat
        BY <1>2, <1>5, <2>1
      <4> QED BY <1>2, <4>1, <4>2, <4>3
    <3>2. CASE conv[m] \notin O
      BY <1>4, <1>5, <2>1, <3>2
    <3> QED BY <3>1, <3>2
  <2>2. PICK b \in Nat : \A m \in D : m <= b
    BY DEF ConversationsInv, NamedByFirst, D
  <2> QED BY <1>1, <1>7, <2>1, <2>2 DEF NamedByFirst
<1>11. WithItsParent'
  <2>1. ASSUME NEW m \in D PROVE Joined[m] = IF parent[m] \in D THEN Joined[parent[m]] ELSE m
    <3>1. CASE m \in O
      <4>1. conv[m] = m /\ parent[m] = M
        BY <1>6, <3>1
      <4>2. Joined[m] = c /\ Joined[M] = c
        BY <1>2, <1>4, <2>1, <3>1, <4>1
      <4> QED BY <1>2, <4>1, <4>2
    <3>2. CASE m \notin O /\ parent[m] \in D
      <4>1. conv[m] = conv[parent[m]]
        BY <1>5, <2>1, <3>2
      <4> QED BY <1>4, <2>1, <3>2, <4>1
    <3>3. CASE m \notin O /\ parent[m] \notin D
      <4>1. conv[m] = m
        BY <1>5, <2>1, <3>3
      <4> QED BY <1>4, <2>1, <3>3, <4>1
    <3> QED BY <3>1, <3>2, <3>3
  <2> QED BY <1>1, <1>7, <2>1 DEF WithItsParent
<1>12. HandledIsKnown'
  <2>1. ASSUME NEW i \in 1..recorded + 1 PROVE topic[i] \in D
    BY <1>2, <1>5, <1>8, <2>1
  <2> QED BY <1>1, <1>7, <2>1 DEF HandledIsKnown
<1>13. PartsAre'
  <2>1. (First(Involved(Between, conv, DOMAIN conv)))' = First(Involved(Between, Joined, D))
    BY <1>1, <1>7
  <2> QED BY <1>1, <1>2, <1>3, <2>1 DEF PartsAre
<1> QED BY <1>1, <1>9, <1>10, <1>11, <1>12, <1>13 DEF ConversationsInv, RecordedIsKnown

LEMMA ArriveKeeps == ConversationsInv /\ Arrive => ConversationsInv'
<1> SUFFICES ASSUME ConversationsInv, Arrive PROVE ConversationsInv'
  OBVIOUS
<1>1. PICK m \in Messages : topic' = Append(topic, m)
  BY DEF Arrive
<1>2. UNCHANGED <<parent, mentions, recorded, conv, parts, step, ended>>
  BY DEF Arrive
<1>3. topic \in Seq(Messages) /\ recorded \in 0..Len(topic)
  BY DEF ConversationsInv, ConversationsTyped
<1>4. topic' \in Seq(Messages) /\ Len(topic') = Len(topic) + 1 /\ \A i \in 1..Len(topic) : topic'[i] = topic[i]
  BY <1>1, <1>3
<1>5. Len(topic) \in Nat /\ recorded \in Nat /\ recorded <= Len(topic)
  BY <1>3
<1>6. Recording => recorded < Len(topic)
  BY DEF ConversationsInv, ConversationsTyped
<1>7. Recording' = Recording /\ Between' = Between
  BY <1>2 DEF Recording, Between
<1>8. Recording => Message' = Message /\ FirstBelow(Message)' = FirstBelow(Message)
  <2>1. SUFFICES ASSUME Recording PROVE Message' = Message /\ FirstBelow(Message)' = FirstBelow(Message)
    OBVIOUS
  <2>2. recorded + 1 \in 1..Len(topic)
    BY <1>5, <1>6, <2>1
  <2>3. Message' = Message
    BY <1>2, <1>4, <2>2 DEF Message
  <2> QED BY <1>2, <2>3 DEF FirstBelow
<1>9. Recording => Joined' = Joined
  BY <1>2, <1>8 DEF Joined
<1>10. \A i \in 1..recorded : topic'[i] = topic[i]
  BY <1>4, <1>5
<1>11. ConversationsTyped'
  <2>1. recorded \in 0..Len(topic') /\ (Recording => recorded < Len(topic'))
    BY <1>4, <1>5, <1>6
  <2> QED BY <1>2, <1>4, <1>7, <2>1 DEF ConversationsInv, ConversationsTyped
<1>12. NamedByFirst' /\ HandledIsKnown'
  BY <1>2, <1>10 DEF ConversationsInv, NamedByFirst, HandledIsKnown
<1>13. WithItsParent'
  BY <1>2, <1>7, <1>8 DEF ConversationsInv, WithItsParent
<1>14. RecordedIsKnown'
  BY <1>2, <1>7, <1>8 DEF ConversationsInv, RecordedIsKnown, Recording
<1>15. PartsAre'
  <2>1. \A E : Covers(E) => (parts' = First(Involved(Between', conv', E)) /\ \A i \in 1..recorded' : topic'[i] \in E)
    BY <1>2, <1>7, <1>10 DEF Covers
  <2>2. (ended' \/ (step' # <<>> /\ step'[1] = "add participants")) =>
          \E E \in {DOMAIN conv', DOMAIN conv' \ {Message'}} : parts' = First(Involved(Between', conv', E)) /\ \A i \in 1..recorded' : topic'[i] \in E
    <3>1. SUFFICES ASSUME ended \/ (step # <<>> /\ step[1] = "add participants")
          PROVE  \E E \in {DOMAIN conv', DOMAIN conv' \ {Message'}} : parts' = First(Involved(Between', conv', E)) /\ \A i \in 1..recorded' : topic'[i] \in E
      BY <1>2
    <3>2. PICK E \in {DOMAIN conv, DOMAIN conv \ {Message}} : Covers(E)
      BY <3>1 DEF ConversationsInv, PartsAre
    <3>3. Message' = Message
      BY <1>8, <3>1 DEF Recording
    <3> QED BY <1>2, <2>1, <3>2, <3>3
  <2>3. (First(Involved(Between, conv, DOMAIN conv)))' = First(Involved(Between, conv, DOMAIN conv))
    BY <1>2, <1>7
  <2>4. Recording => (First(Both(Between, conv, Joined, DOMAIN conv)))' = First(Both(Between, conv, Joined, DOMAIN conv))
    BY <1>2, <1>7, <1>9
  <2>5. Recording => (First(Involved(Between, Joined, DOMAIN conv)))' = First(Involved(Between, Joined, DOMAIN conv))
    BY <1>2, <1>7, <1>9
  <2>6. step # <<>> => Recording
    BY DEF Recording
  <2> QED BY <1>2, <2>2, <2>3, <2>4, <2>5, <2>6 DEF ConversationsInv, PartsAre, Covers
<1> QED BY <1>11, <1>12, <1>13, <1>14, <1>15 DEF ConversationsInv

LEMMA StartAgainKeeps == ConversationsInv /\ StartAgain => ConversationsInv'
<1> SUFFICES ASSUME ConversationsInv, StartAgain PROVE ConversationsInv'
  OBVIOUS
<1>1. /\ recorded' = 0 /\ conv' = <<>> /\ parts' = {} /\ step' = <<>> /\ ended' = FALSE
      /\ UNCHANGED <<parent, mentions, topic>>
  BY DEF StartAgain
<1>2. DOMAIN conv' = {}
  BY <1>1
<1>3. ConversationsTyped'
  <2>1. conv' \in [DOMAIN conv' -> Messages] /\ DOMAIN conv' \subseteq Messages
    BY <1>1, <1>2
  <2>2. 0 \in 0..Len(topic)
    BY DEF ConversationsInv, ConversationsTyped
  <2> QED BY <1>1, <2>1, <2>2 DEF ConversationsInv, ConversationsTyped, Recording
<1>4. NamedByFirst' /\ WithItsParent' /\ HandledIsKnown' /\ RecordedIsKnown'
  BY <1>1, <1>2 DEF NamedByFirst, WithItsParent, HandledIsKnown, RecordedIsKnown
<1>5. PartsAre'
  <2>1. parts' = First(Involved(Between', conv', DOMAIN conv'))
    BY <1>1, <1>2 DEF First, KeepEarliest, Involved
  <2> QED BY <1>1, <2>1 DEF PartsAre
<1> QED BY <1>3, <1>4, <1>5 DEF ConversationsInv

LEMMA ConvStep == ConversationsInv /\ [ConversationsNext]_cvars => ConversationsInv'
<1> SUFFICES ASSUME ConversationsInv, [ConversationsNext]_cvars PROVE ConversationsInv'
  OBVIOUS
<1>1. CASE UNCHANGED cvars
  <2>1. UNCHANGED <<parent, mentions, topic, recorded, conv, parts, step, ended>>
    BY <1>1 DEF cvars
  <2>2. Between' = Between /\ Message' = Message /\ Recording' = Recording /\ FirstBelow(Message)' = FirstBelow(Message)
    BY <2>1 DEF Between, Message, Recording, FirstBelow
  <2>3. Joined' = Joined
    BY <2>1, <2>2 DEF Joined
  <2>4. ConversationsTyped' /\ NamedByFirst' /\ WithItsParent' /\ HandledIsKnown' /\ RecordedIsKnown'
    BY <2>1, <2>2 DEF ConversationsInv, ConversationsTyped, NamedByFirst, WithItsParent, HandledIsKnown, RecordedIsKnown
  <2>5. PartsAre'
    BY <2>1, <2>2, <2>3 DEF ConversationsInv, PartsAre, Covers
  <2> QED BY <2>4, <2>5 DEF ConversationsInv
<1> QED BY <1>1, StoreKeeps, AddKeeps, ConsolidateKeeps, DropKeeps, MoveKeeps, ArriveKeeps, StartAgainKeeps DEF ConversationsNext

\* The topmost message above one is what its conversation is named by, for the equation
\* of Top has a solution, and only one.
LEMMA TopIs ==
  ASSUME ConversationsInv, ~Recording PROVE \A m \in DOMAIN conv : Top[m] = conv[m]
<1> DEFINE D == DOMAIN conv
           g == [m \in Messages |-> IF m \in D THEN conv[m] ELSE IF parent[m] \in D THEN conv[parent[m]] ELSE m]
           IsTop(f) == f = [m \in Messages |-> IF parent[m] \in D THEN f[parent[m]] ELSE m]
<1>1. /\ D \subseteq Messages /\ Messages \subseteq Nat
      /\ \A m \in Messages : parent[m] < m
      /\ \A m \in D : conv[m] = IF parent[m] \in D THEN conv[parent[m]] ELSE m
  BY ConversationsAssumption DEF ConversationsInv, ConversationsTyped, WithItsParent
<1>2. IsTop(g)
  <2>1. ASSUME NEW m \in Messages PROVE g[m] = IF parent[m] \in D THEN g[parent[m]] ELSE m
    BY <1>1
  <2>2. g = [m \in Messages |-> g[m]]
    OBVIOUS
  <2> HIDE DEF g
  <2> QED BY <2>1, <2>2
<1>3. Top = CHOOSE f : IsTop(f)
  BY DEF Top
<1> HIDE DEF g, IsTop
<1>4. IsTop(Top)
  BY <1>2, <1>3
<1>5. \A m \in Messages : Top[m] = IF parent[m] \in D THEN Top[parent[m]] ELSE m
  BY <1>4 DEF IsTop
<1> DEFINE Wrong == {m \in D : Top[m] # conv[m]}
<1>6. Wrong = {}
  <2>1. SUFFICES ASSUME Wrong # {} PROVE FALSE
    OBVIOUS
  <2>2. Wrong \subseteq Nat
    BY <1>1
  <2> HIDE DEF Wrong
  <2>3. PICK m \in Wrong : \A n \in Wrong : m <= n
    BY <2>1, <2>2, LeastExists
  <2>4. m \in D /\ Top[m] # conv[m] /\ m \in Messages
    BY <1>1, <2>3 DEF Wrong
  <2>5. parent[m] \in D
    BY <1>1, <1>5, <2>4
  <2>6. parent[m] \in Wrong
    BY <1>1, <1>5, <2>4, <2>5 DEF Wrong
  <2>7. parent[m] < m /\ parent[m] \in Nat /\ m \in Nat
    BY <1>1, <2>4, <2>5
  <2> QED BY <2>3, <2>6, <2>7
<1> QED BY <1>6

LEMMA ThreadsAreConversations == ConversationsInv => ConversationsAreThreads
<1> SUFFICES ASSUME ConversationsInv, step = <<>>, ~ended
             PROVE  /\ \A m \in DOMAIN conv : conv[m] = Top[m]
                    /\ parts = KeepEarliest({}, UNION {{<<Top[m], a, m>> : a \in {Sender[m]} \cup mentions[m]} : m \in DOMAIN conv})
  BY DEF ConversationsAreThreads
<1> DEFINE D == DOMAIN conv
           U == UNION {{<<Top[m], a, m>> : a \in {Sender[m]} \cup mentions[m]} : m \in D}
<1>1. \A m \in D : Top[m] = conv[m]
  BY TopIs DEF Recording
<1>2. parts = First(Involved(Between, conv, D))
  BY DEF ConversationsInv, PartsAre
<1>3. D \subseteq Messages
  BY DEF ConversationsInv, ConversationsTyped
<1> HIDE DEF D
<1>4. \A m \in D : Between[m] = {Sender[m]} \cup mentions[m]
  BY <1>3 DEF Between
<1>5. U = Involved(Between, Top, D)
  BY <1>4 DEF Involved
<1>6. Involved(Between, Top, D) = Involved(Between, conv, D)
  BY <1>1, InvolvedSame
<1> HIDE DEF U
<1>7. parts = KeepEarliest({}, U)
  BY <1>2, <1>5, <1>6 DEF First
<1> QED BY <1>1, <1>7 DEF D, U

\* Whoever a handled message is between takes part in its conversation.
TakesPart(P, c, b) == \E p \in P : p[1] = c /\ p[2] = b
LEMMA TakingPart ==
  ASSUME NEW who, NEW F, NEW E, Numbers(E), NEW m \in E, NEW b \in who[m]
  PROVE  TakesPart(First(Involved(who, F, E)), F[m], b)
<1>1. Entries(Involved(who, F, E)) /\ <<F[m], b, m>> \in Involved(who, F, E)
  BY InvolvedEntries, InvolvedOne DEF Numbers
<1>2. PICK q \in First(Involved(who, F, E)) : q[1] = F[m] /\ q[2] = b
  BY <1>1, FirstExists
<1> QED BY <1>2 DEF TakesPart

LEMMA TakingPartInBoth ==
  ASSUME NEW who, NEW F, NEW G, NEW E, Numbers(E), NEW m \in E, NEW b \in who[m]
  PROVE  TakesPart(First(Both(who, F, G, E)), F[m], b)
<1>1. Entries(Involved(who, F, E)) /\ Entries(Involved(who, G, E)) /\ <<F[m], b, m>> \in Involved(who, F, E)
  BY InvolvedEntries, InvolvedOne DEF Numbers
<1> DEFINE Y == Both(who, F, G, E)
<1>2. Entries(Y) /\ <<F[m], b, m>> \in Y
  BY <1>1 DEF Both, Entries
<1> HIDE DEF Y
<1>3. PICK q \in First(Y) : q[1] = F[m] /\ q[2] = b
  BY <1>2, FirstExists
<1> QED BY <1>3 DEF TakesPart, Y

LEMMA HandledTakePart ==
  ASSUME ConversationsInv, NEW i \in 1..recorded, NEW b \in Between[topic[i]],
         step = <<>> \/ step[1] # "move" \/ conv[topic[i]] \notin FirstBelow(Message)
  PROVE  TakesPart(parts, conv[topic[i]], b)
<1> DEFINE D == DOMAIN conv
           m == topic[i]
<1>1. m \in D
  BY DEF ConversationsInv, HandledIsKnown
<1>2. Numbers(D)
  BY ConversationsAssumption DEF ConversationsInv, ConversationsTyped, Numbers
<1>3. step = <<>> \/ step[1] \in Statements
  BY DEF ConversationsInv, ConversationsTyped
<1> HIDE DEF m, D
<1>4. CASE step = <<>> /\ ~ended
  <2>1. parts = First(Involved(Between, conv, D))
    BY <1>4 DEF ConversationsInv, PartsAre, D
  <2> QED BY <1>1, <1>2, <2>1, TakingPart DEF m
<1>5. CASE ended \/ (step # <<>> /\ step[1] = "add participants")
  <2>1. PICK E \in {D, D \ {Message}} : Covers(E)
    BY <1>5 DEF ConversationsInv, PartsAre, D
  <2>2. parts = First(Involved(Between, conv, E)) /\ m \in E
    BY <2>1 DEF Covers, m
  <2>3. Numbers(E)
    BY <1>2, <2>1 DEF Numbers
  <2> QED BY <2>2, <2>3, TakingPart DEF m
<1>6. CASE step # <<>> /\ step[1] = "consolidate"
  <2>1. parts = First(Involved(Between, conv, D))
    BY <1>6 DEF ConversationsInv, PartsAre, D
  <2> QED BY <1>1, <1>2, <2>1, TakingPart DEF m
<1>7. CASE step # <<>> /\ step[1] = "drop"
  <2>1. parts = First(Both(Between, conv, Joined, D))
    BY <1>7 DEF ConversationsInv, PartsAre, D
  <2> QED BY <1>1, <1>2, <2>1, TakingPartInBoth DEF m
<1>8. CASE step # <<>> /\ step[1] = "move"
  <2>1. parts = First(Involved(Between, Joined, D))
    BY <1>8 DEF ConversationsInv, PartsAre, D
  <2>2. Joined[m] = conv[m]
    BY <1>1, <1>8 DEF Joined, D, m
  <2>3. TakesPart(parts, Joined[m], b)
    BY <1>1, <1>2, <2>1, TakingPart DEF m
  <2> QED BY <2>2, <2>3 DEF m
<1> QED BY <1>3, <1>4, <1>5, <1>6, <1>7, <1>8 DEF Statements

LEMMA NobodyIsLost == ConversationsInv => NobodyIsForgotten
<1> SUFFICES ASSUME ConversationsInv PROVE NobodyIsForgotten
  OBVIOUS
<1> SUFFICES ASSUME NEW i \in 1..recorded, step = <<>> \/ step[1] # "move" \/ conv[topic[i]] \notin FirstBelow(Message),
                    NEW a \in {Sender[topic[i]]} \cup mentions[topic[i]]
             PROVE  LET m == topic[i]
                        all == {Sender[m]} \cup mentions[m]
                    IN /\ all \ {a} \subseteq RecipientsFor(m, a)
                       /\ all # {a} => \E c \in ConversationsOf(a) :
                            /\ m \in MessagesOf(c.id) /\ m <= c.last
                            /\ all \subseteq c.accounts \cup {a}
  BY DEF NobodyIsForgotten
<1> DEFINE m == topic[i]
           all == {Sender[m]} \cup mentions[m]
           D == DOMAIN conv
           there == {p[2] : p \in {q \in parts : q[1] = conv[m]}}
<1>1. m \in D /\ m \in Messages /\ D \subseteq Messages /\ Messages \subseteq Nat
  BY ConversationsAssumption DEF ConversationsInv, ConversationsTyped, HandledIsKnown
<1>2. Between[m] = all
  BY <1>1 DEF Between
<1>3. \A b \in all : TakesPart(parts, conv[m], b)
  BY <1>2, HandledTakePart
<1>4. all \subseteq there
  BY <1>3 DEF TakesPart
<1>5. all \ {a} \subseteq RecipientsFor(m, a)
  BY <1>1, <1>4 DEF RecipientsFor
<1>6. ASSUME all # {a}
      PROVE  \E c \in ConversationsOf(a) : m \in MessagesOf(c.id) /\ m <= c.last /\ all \subseteq c.accounts \cup {a}
  <2> DEFINE IsLast(k, l) == conv[l] = k /\ \A n \in D : conv[n] = k => n <= l
             last(k) == CHOOSE l \in D : IsLast(k, l)
             others(k) == {p[2] : p \in {q \in parts : q[1] = k}} \ {a}
             rec(k) == [id |-> k, accounts |-> others(k), last |-> last(k)]
             mine == {n \in D : /\ \E p \in parts : p[1] = conv[n] /\ p[2] = a
                                /\ \E p \in parts : p[1] = conv[n] /\ p[2] # a}
             S == {n \in D : conv[n] = conv[m]}
  <2>1. ConversationsOf(a) = {rec(k) : k \in {conv[n] : n \in mine}}
    BY DEF ConversationsOf
  <2>2. m \in mine
    <3>1. PICK b \in all : b # a
      BY <1>6
    <3>2. a \in all
      OBVIOUS
    <3>3. TakesPart(parts, conv[m], a) /\ TakesPart(parts, conv[m], b)
      BY <1>3, <3>1, <3>2
    <3> QED BY <1>1, <3>1, <3>3 DEF TakesPart
  <2>3. PICK bound \in Nat : \A n \in D : n <= bound
    BY DEF ConversationsInv, NamedByFirst
  <2>4. S \subseteq 0..bound /\ m \in S
    BY <1>1, <2>3
  <2> HIDE DEF S
  <2>5. PICK l \in S : \A n \in S : n <= l
    BY <2>4, GreatestExists
  <2>6. l \in D /\ IsLast(conv[m], l)
    BY <2>5 DEF S
  <2> HIDE DEF IsLast
  <2>7. last(conv[m]) \in D /\ IsLast(conv[m], last(conv[m]))
    BY <2>6
  <2> HIDE DEF last
  <2>8. m <= last(conv[m])
    BY <1>1, <2>7 DEF IsLast
  <2>9. rec(conv[m]).id = conv[m] /\ rec(conv[m]).last = last(conv[m]) /\ rec(conv[m]).accounts = there \ {a}
    OBVIOUS
  <2> HIDE DEF rec
  <2>10. rec(conv[m]) \in ConversationsOf(a)
    BY <2>1, <2>2
  <2>11. m \in MessagesOf(conv[m])
    BY <1>1 DEF MessagesOf
  <2>12. all \subseteq rec(conv[m]).accounts \cup {a}
    BY <1>4, <2>9
  <2> HIDE DEF there, all
  <2> QED BY <2>8, <2>9, <2>10, <2>11, <2>12
<1> QED BY <1>5, <1>6

-----------------------------------------------------------------------------
(* Statuses.  A note refers to nothing and everything else to something,
   before and after a compression; what is addressed to its recipients
   only is a note that says so; and whoever was sent a note that was not
   deleted since has it, has it on his timeline and may read it. *)
SaysWhatItIs(e) ==
  /\ e.verb \in {"Create", "Update"} => e.url \in Contents /\ e.target = NoUrl
  /\ e.verb = "Create" => (e.url \in Direct => e.user \in Recipients[e.url])
  /\ e.verb = "Announce" => e.url \in Announces /\ e.target # NoUrl
  /\ e.verb = "Like" => e.url \in Likes /\ e.target # NoUrl

StatusVerbs == {"Create", "Update", "Announce", "Like", "Delete"}
StatusEvents ==
  {e \in [verb : StatusVerbs, url : Urls, target : Urls \cup {NoUrl}, user : Users, id : Nat] : SaysWhatItIs(e)}
StatusRow == [id : Nat, target : Urls \cup {NoUrl}, vis : {"public", "direct"}]

TopicsTyped ==
  /\ pending \in Seq(StatusEvents) /\ timeline \in Seq(StatusEvents)
  /\ applied \in 0..Len(timeline) /\ emitted \in Nat /\ cast \subseteq Urls
  /\ half # <<>> => half[1].url \in Likes /\ half[1].target \in Urls

IsStatusTable(T) == DOMAIN T \subseteq Urls /\ T \in [DOMAIN T -> StatusRow]

TablesTyped ==
  /\ IsStatusTable(objects)
  /\ edges.boosts \subseteq Urls \X Urls /\ edges.reactions \subseteq Urls \X Urls

\* A note refers to nothing and everything else to something; what is addressed to its
\* recipients only is a note that says so.
PointsAsItShould(T) ==
  \A u \in DOMAIN T : (u \in Contents <=> T[u].target = NoUrl) /\ (T[u].vis = "direct" => u \in Direct)

\* A compression that has not committed moves rows that are there and that refer to
\* something, to something.
MovesOf(m, T) ==
  /\ DOMAIN m \subseteq DOMAIN T /\ m \in [DOMAIN m -> Urls]
  /\ \A u \in DOMAIN m : u \notin Contents
CompressionTyped ==
  tx # <<>> => /\ MovesOf(tx[1].refs, objects)
               /\ tx[1].boosts \subseteq Urls \X Urls /\ tx[1].reactions \subseteq Urls \X Urls

\* Who was sent a note that was not deleted since has it.
DeliveredIsThere ==
  \A i \in 1..applied :
    (/\ timeline[i].verb = "Create"
     /\ \A j \in (i + 1)..applied : ~(timeline[j].verb = "Delete" /\ timeline[j].url = timeline[i].url))
    => /\ timeline[i].url \in DOMAIN objects
       /\ <<timeline[i].user, timeline[i].url>> \in home
       /\ timeline[i].url \in Direct => <<timeline[i].url, timeline[i].user>> \in access

StatusInv ==
  /\ TopicsTyped /\ TablesTyped /\ PointsAsItShould(objects) /\ CompressionTyped /\ DeliveredIsThere

-----------------------------------------------------------------------------
LEMMA KindIs ==
  ASSUME NEW u \in Urls
  PROVE  /\ Kind(u) = "content" <=> u \in Contents
         /\ Kind(u) = "announce" <=> u \in Announces
         /\ Kind(u) = "like" <=> u \in Likes
BY StatusesAssumption DEF Kind, Urls

\* The fields of an event, of a row and of the edges.
LEMMA StatusEventParts ==
  ASSUME NEW e \in StatusEvents
  PROVE  /\ e.verb \in StatusVerbs /\ e.url \in Urls /\ e.target \in Urls \cup {NoUrl} /\ e.user \in Users
         /\ e.id \in Nat /\ SaysWhatItIs(e)
<1> DEFINE R == [verb : StatusVerbs, url : Urls, target : Urls \cup {NoUrl}, user : Users, id : Nat]
<1>1. e \in R /\ SaysWhatItIs(e)
  BY DEF StatusEvents
<1>2. e \in R => e.verb \in StatusVerbs /\ e.url \in Urls /\ e.target \in Urls \cup {NoUrl} /\ e.user \in Users /\ e.id \in Nat
  OBVIOUS
<1> HIDE DEF R
<1> QED BY <1>1, <1>2

LEMMA EventIs ==
  ASSUME NEW verb \in StatusVerbs, NEW u \in Urls, NEW t \in Urls \cup {NoUrl}, NEW user \in Users, emitted \in Nat,
         verb \in {"Create", "Update"} => u \in Contents /\ t = NoUrl,
         verb = "Create" => (u \in Direct => user \in Recipients[u]),
         verb = "Announce" => u \in Announces /\ t # NoUrl,
         verb = "Like" => u \in Likes /\ t # NoUrl
  PROVE  /\ Event(verb, u, t, user) \in StatusEvents
         /\ Event(verb, u, t, user).verb = verb /\ Event(verb, u, t, user).url = u
         /\ Event(verb, u, t, user).target = t /\ Event(verb, u, t, user).id = emitted + 1
<1> DEFINE e == Event(verb, u, t, user)
<1>1. e = [verb |-> verb, url |-> u, target |-> t, user |-> user, id |-> emitted + 1]
  BY DEF Event
<1>2. emitted + 1 \in Nat
  OBVIOUS
<1>3. e \in [verb : StatusVerbs, url : Urls, target : Urls \cup {NoUrl}, user : Users, id : Nat]
  BY <1>1, <1>2
<1>4. e.verb = verb /\ e.url = u /\ e.target = t /\ e.user = user /\ e.id = emitted + 1
  BY <1>1
<1>5. SaysWhatItIs(e)
  BY <1>4 DEF SaysWhatItIs
<1> HIDE DEF e
<1> QED BY <1>3, <1>4, <1>5 DEF e, StatusEvents

LEMMA RowParts ==
  ASSUME NEW T, IsStatusTable(T), NEW u \in DOMAIN T
  PROVE  /\ u \in Urls /\ T[u] \in StatusRow
         /\ T[u].id \in Nat /\ T[u].target \in Urls \cup {NoUrl} /\ T[u].vis \in {"public", "direct"}
BY DEF IsStatusTable, StatusRow

\* Rows over others.
LEMMA OverIs ==
  ASSUME NEW f, NEW g
  PROVE  /\ DOMAIN Over(f, g) = DOMAIN f \cup DOMAIN g
         /\ \A k \in DOMAIN f : Over(f, g)[k] = f[k]
         /\ \A k \in DOMAIN g : k \notin DOMAIN f => Over(f, g)[k] = g[k]
BY DEF Over

\* What refreshing does to each of the four tables.
CountedBoosts(T, S, valid) ==
  [c \in {c \in S : c \in DOMAIN T /\ Kind(c) = "content"} |-> Cardinality({v \in valid : v[2] = c})]
EmojiCounted(valid) == {<<v[2], EmojiOf[v[1]]>> : v \in valid}
CountedReactions(valid) ==
  [k \in EmojiCounted(valid) |-> Cardinality({v \in valid : <<v[2], EmojiOf[v[1]]>> = k})]
StayingReactions(old, S, valid) ==
  [k \in {k \in DOMAIN old : k[1] \in S => k \in EmojiCounted(valid)} |-> old[k]]

LEMMA BoostsRefreshed ==
  ASSUME NEW T, NEW E, NEW S, NEW valid
  PROVE  /\ RefreshBoosts(T, E, valid, S).boosts = Edges(E.boosts, valid, S)
         /\ RefreshBoosts(T, E, valid, S).nBoosts = Over(CountedBoosts(T, S, valid), E.nBoosts)
         /\ RefreshBoosts(T, E, valid, S).reactions = E.reactions
         /\ RefreshBoosts(T, E, valid, S).nReactions = E.nReactions
BY DEF RefreshBoosts, CountedBoosts

LEMMA ReactionsRefreshed ==
  ASSUME NEW E, NEW S, NEW valid
  PROVE  /\ RefreshReactions(E, valid, S).reactions = Edges(E.reactions, valid, S)
         /\ RefreshReactions(E, valid, S).nReactions = Over(CountedReactions(valid), StayingReactions(E.nReactions, S, valid))
         /\ RefreshReactions(E, valid, S).boosts = E.boosts
         /\ RefreshReactions(E, valid, S).nBoosts = E.nBoosts
BY DEF RefreshReactions, CountedReactions, StayingReactions, EmojiCounted

LEMMA EdgesTyped ==
  ASSUME NEW rows, NEW valid, NEW S, rows \subseteq Urls \X Urls, valid \subseteq Urls \X Urls
  PROVE  Edges(rows, valid, S) \subseteq Urls \X Urls
BY DEF Edges

LEMMA ValidTyped ==
  ASSUME NEW T, IsStatusTable(T), NEW k, NEW S, S \subseteq Urls
  PROVE  ValidRows(T, k, S) \subseteq Urls \X Urls
<1>1. \A c \in S : Valid(T, k, c) \subseteq Urls
  BY DEF Valid, IsStatusTable
<1> QED BY <1>1 DEF ValidRows

\* What is published changes the topics and what comes of a request, and no table.
LEMMA PublishKeeps ==
  ASSUME StatusInv, timeline' = timeline \/ (\E e \in StatusEvents : timeline' = Append(timeline, e)),
         pending' \in Seq(StatusEvents), emitted' \in Nat,
         half' # <<>> => half'[1].url \in Likes /\ half'[1].target \in Urls,
         UNCHANGED <<applied, objects, access, edges, home, tx, cast>>
  PROVE  StatusInv'
<1>1. timeline \in Seq(StatusEvents) /\ applied \in 0..Len(timeline)
  BY DEF StatusInv, TopicsTyped
<1>2. timeline' \in Seq(StatusEvents) /\ applied \in 0..Len(timeline') /\ \A i \in 1..Len(timeline) : timeline'[i] = timeline[i]
  <2>1. CASE timeline' = timeline
    BY <1>1, <2>1
  <2>2. CASE \E e \in StatusEvents : timeline' = Append(timeline, e)
    <3>1. PICK e \in StatusEvents : timeline' = Append(timeline, e)
      BY <2>2
    <3>2. timeline' \in Seq(StatusEvents) /\ Len(timeline') = Len(timeline) + 1
      BY <1>1, <3>1
    <3>3. \A i \in 1..Len(timeline) : timeline'[i] = timeline[i]
      BY <1>1, <3>1
    <3>4. Len(timeline) \in Nat
      BY <1>1
    <3> QED BY <1>1, <3>2, <3>3, <3>4
  <2> QED BY <2>1, <2>2
<1>3. TopicsTyped'
  BY <1>2 DEF StatusInv, TopicsTyped
<1>4. TablesTyped' /\ PointsAsItShould(objects)' /\ CompressionTyped'
  BY DEF StatusInv, TablesTyped, CompressionTyped
<1>5. \A i \in 1..applied : timeline'[i] = timeline[i]
  <2>1. Len(timeline) \in Nat
    BY <1>1
  <2> QED BY <1>1, <1>2, <2>1
<1>6. DeliveredIsThere'
  <2>1. applied \in Nat
    BY <1>1
  <2>2. \A i \in 1..applied : \A j \in (i + 1)..applied : timeline'[j] = timeline[j]
    BY <1>5, <2>1
  <2> QED BY <1>5, <2>2 DEF StatusInv, DeliveredIsThere
<1> QED BY <1>3, <1>4, <1>6 DEF StatusInv

LEMMA IncomingKeeps ==
  ASSUME StatusInv, NEW e \in StatusEvents, Incoming(e) PROVE StatusInv'
<1>1. timeline' = Append(timeline, e) /\ emitted' = emitted + 1 /\ pending' = pending /\ half' = half
      /\ UNCHANGED <<applied, objects, access, edges, home, tx, cast>>
  BY DEF Incoming
<1>2. pending' \in Seq(StatusEvents) /\ emitted' \in Nat /\ (half' # <<>> => half'[1].url \in Likes /\ half'[1].target \in Urls)
  BY <1>1 DEF StatusInv, TopicsTyped
<1> QED BY <1>1, <1>2, PublishKeeps

LEMMA FreshIs ==
  ASSUME NEW S, NEW u \in Fresh(S) PROVE u \in S /\ u \in cast /\ u \notin Used
BY DEF Fresh

\* What was used is a url.
LEMMA UsedIs == ASSUME StatusInv PROVE Used \subseteq Urls
<1>1. pending \in Seq(StatusEvents) /\ timeline \in Seq(StatusEvents)
  BY DEF StatusInv, TopicsTyped
<1>2. \A i \in DOMAIN timeline : timeline[i] \in StatusEvents
  BY <1>1
<1>3. \A i \in DOMAIN pending : pending[i] \in StatusEvents
  BY <1>1
<1>4. \A e \in StatusEvents : e.url \in Urls
  BY StatusEventParts
<1> QED BY <1>2, <1>3, <1>4 DEF Used

LEMMA RemoteKeeps ==
  ASSUME StatusInv, RemoteCreate \/ RemoteUpdate \/ RemoteAnnounce \/ RemoteLike \/ RemoteDelete PROVE StatusInv'
<1>0. emitted \in Nat /\ Me \in Users /\ Contents \subseteq Urls /\ Announces \subseteq Urls /\ Likes \subseteq Urls /\ NoUrl \notin Urls
  BY StatusesAssumption DEF StatusInv, TopicsTyped, Urls
<1>1. CASE RemoteCreate
  <2>1. PICK c \in Contents \cap cast, user \in Users : (c \in Direct => user \in Recipients[c]) /\ Incoming(Event("Create", c, NoUrl, user))
    BY <1>1 DEF RemoteCreate
  <2>2. Event("Create", c, NoUrl, user) \in StatusEvents
    BY <1>0, <2>1, EventIs DEF StatusVerbs
  <2> QED BY <2>1, <2>2, IncomingKeeps
<1>2. CASE RemoteUpdate
  <2>1. PICK c \in Contents \cap cast : Incoming(Event("Update", c, NoUrl, Me))
    BY <1>2 DEF RemoteUpdate
  <2>2. Event("Update", c, NoUrl, Me) \in StatusEvents
    BY <1>0, <2>1, EventIs DEF StatusVerbs
  <2> QED BY <2>1, <2>2, IncomingKeeps
<1>3. CASE RemoteAnnounce
  <2>1. PICK a \in Fresh(Announces), t \in (Contents \cup Announces) \cap cast : Incoming(Event("Announce", a, t, Me))
    BY <1>3 DEF RemoteAnnounce
  <2>2. a \in Announces
    BY FreshIs
  <2>3. Event("Announce", a, t, Me) \in StatusEvents
    BY <1>0, <2>1, <2>2, EventIs DEF StatusVerbs
  <2> QED BY <2>1, <2>3, IncomingKeeps
<1>4. CASE RemoteLike
  <2>1. PICK l \in Fresh(Likes), t \in (Contents \cup Announces) \cap cast : Incoming(Event("Like", l, t, Me))
    BY <1>4 DEF RemoteLike
  <2>2. l \in Likes
    BY FreshIs
  <2>3. Event("Like", l, t, Me) \in StatusEvents
    BY <1>0, <2>1, <2>2, EventIs DEF StatusVerbs
  <2> QED BY <2>1, <2>3, IncomingKeeps
<1>5. CASE RemoteDelete
  <2>1. PICK u \in Used : Incoming(Event("Delete", u, NoUrl, Me))
    BY <1>5 DEF RemoteDelete
  <2>2. Event("Delete", u, NoUrl, Me) \in StatusEvents
    BY <1>0, <2>1, UsedIs, EventIs DEF StatusVerbs
  <2> QED BY <2>1, <2>2, IncomingKeeps
<1> QED BY <1>1, <1>2, <1>3, <1>4, <1>5

\* What a request is about is a note that is there.
LEMMA ShownIs ==
  ASSUME NEW u, NEW viewer, Shown(u, viewer) # NoUrl, IsStatusTable(objects)
  PROVE  Shown(u, viewer) \in DOMAIN objects /\ Shown(u, viewer) \in Contents
<1>1. Shown(u, viewer) = Content(objects, u)
  BY DEF Shown
<1> DEFINE t == IF u \notin DOMAIN objects THEN u
                ELSE IF objects[u].target = NoUrl THEN u ELSE objects[u].target
<1>2. Content(objects, u) = IF u \in DOMAIN objects /\ t \in DOMAIN objects /\ Kind(t) = "content" THEN t ELSE NoUrl
  BY DEF Content
<1> HIDE DEF t
<1>3. t \in DOMAIN objects /\ Kind(t) = "content" /\ Shown(u, viewer) = t
  BY <1>1, <1>2
<1>4. t \in Urls
  BY <1>3 DEF IsStatusTable
<1> QED BY <1>3, <1>4, KindIs

\* The boosts and reactions of a user that a request reads.
LEMMA OwnEdgeIs ==
  ASSUME StatusInv, NEW c, NEW a, a \in BoostOf(Me, c) \/ a \in OwnReaction(Me, c) PROVE a \in Urls
BY DEF StatusInv, TablesTyped, BoostOf, OwnReaction

\* The event that a request publishes first.
LEMMA RequestKeeps ==
  ASSUME StatusInv, NEW c, Request(c), NEW e \in StatusEvents, Own(e),
         half' = half \/ (\E l \in Likes, t \in Urls : half' = <<[url |-> l, target |-> t]>>)
  PROVE  StatusInv'
<1>1. /\ pending' = Append(pending, e) /\ emitted' = emitted + 1 /\ half = <<>>
      /\ UNCHANGED <<timeline, applied, objects, access, edges, home, tx, cast>>
  BY DEF Request, Own
<1>2. pending' \in Seq(StatusEvents) /\ emitted' \in Nat
  BY <1>1 DEF StatusInv, TopicsTyped
<1>3. half' # <<>> => half'[1].url \in Likes /\ half'[1].target \in Urls
  BY <1>1
<1> QED BY <1>1, <1>2, <1>3, PublishKeeps

LEMMA RequestsKeep ==
  ASSUME StatusInv, Reblog \/ Unreblog \/ React \/ Reacted \/ Unreact PROVE StatusInv'
<1>0. /\ emitted \in Nat /\ Me \in Users /\ Contents \subseteq Urls /\ Announces \subseteq Urls /\ Likes \subseteq Urls /\ NoUrl \notin Urls
      /\ IsStatusTable(objects)
  BY StatusesAssumption DEF StatusInv, TopicsTyped, TablesTyped, Urls
<1>1. CASE Reblog
  <2>1. PICK u \in DOMAIN objects, a \in Fresh(Announces) : Request(Shown(u, Me)) /\ Own(Event("Announce", a, Shown(u, Me), Me)) /\ half' = half
    BY <1>1 DEF Reblog
  <2>2. a \in Announces /\ Shown(u, Me) # NoUrl
    BY <2>1, FreshIs DEF Request
  <2>3. Shown(u, Me) \in Urls
    BY <1>0, <2>2, ShownIs
  <2>4. Event("Announce", a, Shown(u, Me), Me) \in StatusEvents
    BY <1>0, <2>2, <2>3, EventIs DEF StatusVerbs
  <2> QED BY <2>1, <2>4, RequestKeeps
<1>2. CASE Unreblog
  <2>1. PICK u \in DOMAIN objects : \E a \in BoostOf(Me, Shown(u, Me)) :
             Request(Shown(u, Me)) /\ Own(Event("Delete", a, NoUrl, Me)) /\ half' = half
    BY <1>2 DEF Unreblog
  <2>2. PICK a \in BoostOf(Me, Shown(u, Me)) : Request(Shown(u, Me)) /\ Own(Event("Delete", a, NoUrl, Me)) /\ half' = half
    BY <2>1
  <2>3. Event("Delete", a, NoUrl, Me) \in StatusEvents
    BY <1>0, OwnEdgeIs, EventIs DEF StatusVerbs
  <2> QED BY <2>2, <2>3, RequestKeeps
<1>3. CASE Unreact
  <2>1. PICK u \in DOMAIN objects : \E a \in OwnReaction(Me, Shown(u, Me)) :
             Request(Shown(u, Me)) /\ Own(Event("Delete", a, NoUrl, Me)) /\ half' = half
    BY <1>3 DEF Unreact
  <2>2. PICK a \in OwnReaction(Me, Shown(u, Me)) : Request(Shown(u, Me)) /\ Own(Event("Delete", a, NoUrl, Me)) /\ half' = half
    BY <2>1
  <2>3. Event("Delete", a, NoUrl, Me) \in StatusEvents
    BY <1>0, OwnEdgeIs, EventIs DEF StatusVerbs
  <2> QED BY <2>2, <2>3, RequestKeeps
<1>4. CASE React
  <2>1. PICK u \in DOMAIN objects, l \in Fresh(Likes) :
          /\ Request(Shown(u, Me))
          /\ \/ Own(Event("Like", l, Shown(u, Me), Me)) /\ half' = half
             \/ \E own \in OwnReaction(Me, Shown(u, Me)) :
                  Own(Event("Delete", own, NoUrl, Me)) /\ half' = <<[url |-> l, target |-> Shown(u, Me)]>>
    BY <1>4 DEF React
  <2>2. l \in Likes /\ Shown(u, Me) # NoUrl
    BY <2>1, FreshIs DEF Request
  <2>3. Shown(u, Me) \in Urls
    BY <1>0, <2>2, ShownIs
  <2>4. CASE Own(Event("Like", l, Shown(u, Me), Me)) /\ half' = half
    <3>1. Event("Like", l, Shown(u, Me), Me) \in StatusEvents
      BY <1>0, <2>2, <2>3, EventIs DEF StatusVerbs
    <3> QED BY <2>1, <2>4, <3>1, RequestKeeps
  <2>5. CASE \E own \in OwnReaction(Me, Shown(u, Me)) :
                  Own(Event("Delete", own, NoUrl, Me)) /\ half' = <<[url |-> l, target |-> Shown(u, Me)]>>
    <3>1. PICK own \in OwnReaction(Me, Shown(u, Me)) :
                  Own(Event("Delete", own, NoUrl, Me)) /\ half' = <<[url |-> l, target |-> Shown(u, Me)]>>
      BY <2>5
    <3>2. Event("Delete", own, NoUrl, Me) \in StatusEvents
      BY <1>0, OwnEdgeIs, EventIs DEF StatusVerbs
    <3> QED BY <2>1, <2>2, <2>3, <3>1, <3>2, RequestKeeps
  <2> QED BY <2>1, <2>4, <2>5
<1>5. CASE Reacted
  <2> DEFINE e == Event("Like", half[1].url, half[1].target, Me)
  <2>1. half # <<>> /\ Own(e) /\ half' = <<>> /\ UNCHANGED <<timeline, applied, objects, access, edges, home, tx, cast>>
    BY <1>5 DEF Reacted
  <2>2. half[1].url \in Likes /\ half[1].target \in Urls
    BY <2>1 DEF StatusInv, TopicsTyped
  <2>3. e \in StatusEvents
    BY <1>0, <2>2, EventIs DEF StatusVerbs
  <2>4. pending' \in Seq(StatusEvents) /\ emitted' \in Nat
    BY <1>0, <2>1, <2>3 DEF Own, StatusInv, TopicsTyped
  <2> QED BY <2>1, <2>4, PublishKeeps
<1> QED BY <1>1, <1>2, <1>3, <1>4, <1>5

LEMMA ForwardKeeps == ASSUME StatusInv, Forward PROVE StatusInv'
<1>1. /\ pending # <<>> /\ timeline' = Append(timeline, Head(pending)) /\ pending' = Tail(pending)
      /\ UNCHANGED <<applied, objects, access, edges, home, tx, half, emitted, cast>>
  BY DEF Forward
<1>2. pending \in Seq(StatusEvents)
  BY DEF StatusInv, TopicsTyped
<1>3. Head(pending) \in StatusEvents /\ Tail(pending) \in Seq(StatusEvents)
  BY <1>1, <1>2
<1>4. emitted' \in Nat /\ (half' # <<>> => half'[1].url \in Likes /\ half'[1].target \in Urls)
  BY <1>1 DEF StatusInv, TopicsTyped
<1> QED BY <1>1, <1>3, <1>4, PublishKeeps

\* What storing and deleting an object do, on a table of any content.
Touched(u, target) == ({u} \cap Contents) \cup ({target} \ {NoUrl})
StatReaders(u, vis) == IF vis = "direct" THEN {u} \X Recipients[u] ELSE {}

StoredAs(u, id, target, vis) ==
  /\ DOMAIN objects' = DOMAIN objects \cup {u}
  /\ \A v \in DOMAIN objects : objects'[v] = objects[v]
  /\ u \notin DOMAIN objects => objects'[u] = [id |-> id, target |-> target, vis |-> vis]
  /\ objects' = [v \in DOMAIN objects' |-> objects'[v]]
  /\ access' = access \cup StatReaders(u, vis)
  /\ edges' = RefreshEdges(objects', edges, Touched(u, target))

LEMMA StoreIs ==
  ASSUME NEW u, NEW id, NEW target, NEW vis, StoreObject(u, id, target, vis)
  PROVE  StoredAs(u, id, target, vis)
<1> DEFINE new == [v \in {u} |-> [id |-> id, target |-> target, vis |-> vis]]
<1>1. objects' = Over(objects, new) /\ access' = access \cup StatReaders(u, vis)
      /\ edges' = RefreshEdges(objects', edges, Touched(u, target))
  BY DEF StoreObject, StatReaders, Touched
<1>2. DOMAIN new = {u} /\ new[u] = [id |-> id, target |-> target, vis |-> vis]
  OBVIOUS
<1> HIDE DEF new
<1>3. /\ DOMAIN Over(objects, new) = DOMAIN objects \cup DOMAIN new
      /\ \A v \in DOMAIN objects : Over(objects, new)[v] = objects[v]
      /\ \A v \in DOMAIN new : v \notin DOMAIN objects => Over(objects, new)[v] = new[v]
  BY OverIs
<1>4. objects' = [v \in DOMAIN objects' |-> objects'[v]]
  BY <1>1 DEF Over
<1>5. /\ DOMAIN objects' = DOMAIN objects \cup {u}
      /\ \A v \in DOMAIN objects : objects'[v] = objects[v]
      /\ u \notin DOMAIN objects => objects'[u] = [id |-> id, target |-> target, vis |-> vis]
  BY <1>1, <1>2, <1>3
<1> QED BY <1>1, <1>4, <1>5 DEF StoredAs

LEMMA DropIs ==
  ASSUME NEW u, DeleteObject(u)
  PROVE  /\ DOMAIN objects' = DOMAIN objects \ {u}
         /\ \A v \in DOMAIN objects' : objects'[v] = objects[v]
         /\ access' = access
         /\ edges' = RefreshEdges(objects', edges, IF u \in DOMAIN objects THEN {objects[u].target} \ {NoUrl} ELSE {})
<1>1. objects' = [v \in DOMAIN objects \ {u} |-> objects[v]] /\ access' = access
      /\ edges' = RefreshEdges(objects', edges, IF u \in DOMAIN objects THEN {objects[u].target} \ {NoUrl} ELSE {})
  BY DEF DeleteObject
<1> QED BY <1>1

LEMMA EdgesRefreshed ==
  ASSUME NEW T, NEW E, NEW S
  PROVE  /\ RefreshEdges(T, E, S).boosts = Edges(E.boosts, ValidRows(T, "announce", S), S)
         /\ RefreshEdges(T, E, S).reactions = Edges(E.reactions, ValidRows(T, "like", S), S)
BY BoostsRefreshed, ReactionsRefreshed DEF RefreshEdges

LEMMA RefreshTyped ==
  ASSUME NEW T, IsStatusTable(T), NEW E, NEW S, S \subseteq Urls, E.boosts \subseteq Urls \X Urls, E.reactions \subseteq Urls \X Urls
  PROVE  RefreshEdges(T, E, S).boosts \subseteq Urls \X Urls /\ RefreshEdges(T, E, S).reactions \subseteq Urls \X Urls
<1>1. ValidRows(T, "announce", S) \subseteq Urls \X Urls /\ ValidRows(T, "like", S) \subseteq Urls \X Urls
  BY ValidTyped
<1> QED BY <1>1, EdgesRefreshed, EdgesTyped

\* An event that stores, with what it stores.
VisOf(e) == IF e.verb \in {"Create", "Announce"} /\ e.url \in Direct THEN "direct" ELSE "public"
Applying(e) == applied < Len(timeline) /\ e = timeline[applied + 1] /\ applied' = applied + 1
LEMMA AppliesIs ==
  ASSUME StatusInv, Apply
  PROVE  \E e \in StatusEvents :
           /\ Applying(e)
           /\ \/ e.verb # "Delete" /\ StoreObject(e.url, e.id, e.target, VisOf(e))
                 /\ home' = IF e.verb \in {"Create", "Announce"} THEN home \cup {<<e.user, e.url>>} ELSE home
              \/ e.verb = "Delete" /\ ~Blocked(e.url) /\ DeleteObject(e.url) /\ home' = {h \in home : h[2] # e.url}
           /\ UNCHANGED <<pending, timeline, tx, half, emitted, restarts, rebuiltTo, raced, cast>>
<1> DEFINE e == timeline[applied + 1]
<1>1. applied < Len(timeline) /\ applied' = applied + 1
      /\ UNCHANGED <<pending, timeline, tx, half, emitted, restarts, rebuiltTo, raced, cast>>
  BY DEF Apply
<1>2. e \in StatusEvents
  BY <1>1 DEF StatusInv, TopicsTyped
<1>3. \/ e.verb \in {"Create", "Announce"} /\ OnStore(e)
      \/ e.verb = "Update" /\ OnUpdate(e)
      \/ e.verb = "Like" /\ OnReact(e)
      \/ e.verb = "Delete" /\ ~Blocked(e.url) /\ OnDelete(e)
  BY DEF Apply
<1> HIDE DEF e
<1>4. \/ e.verb # "Delete" /\ StoreObject(e.url, e.id, e.target, VisOf(e))
         /\ home' = IF e.verb \in {"Create", "Announce"} THEN home \cup {<<e.user, e.url>>} ELSE home
      \/ e.verb = "Delete" /\ ~Blocked(e.url) /\ DeleteObject(e.url) /\ home' = {h \in home : h[2] # e.url}
  <2>1. CASE e.verb \in {"Create", "Announce"} /\ OnStore(e)
    <3>1. VisOf(e) = IF e.url \in Direct THEN "direct" ELSE "public"
      BY <2>1 DEF VisOf
    <3> QED BY <2>1, <3>1 DEF OnStore
  <2>2. CASE e.verb = "Update" /\ OnUpdate(e)
    <3>1. VisOf(e) = "public"
      BY <2>2 DEF VisOf
    <3> QED BY <2>2, <3>1 DEF OnUpdate
  <2>3. CASE e.verb = "Like" /\ OnReact(e)
    <3>1. VisOf(e) = "public"
      BY <2>3 DEF VisOf
    <3> QED BY <2>3, <3>1 DEF OnReact
  <2>4. CASE e.verb = "Delete" /\ ~Blocked(e.url) /\ OnDelete(e)
    BY <2>4 DEF OnDelete
  <2> QED BY <1>3, <2>1, <2>2, <2>3, <2>4
<1> QED BY <1>1, <1>2, <1>4 DEF Applying, e

LEMMA ApplyKeeps == ASSUME StatusInv, Apply PROVE StatusInv'
<1>1. PICK e \in StatusEvents :
           /\ Applying(e)
           /\ \/ e.verb # "Delete" /\ StoreObject(e.url, e.id, e.target, VisOf(e))
                 /\ home' = IF e.verb \in {"Create", "Announce"} THEN home \cup {<<e.user, e.url>>} ELSE home
              \/ e.verb = "Delete" /\ ~Blocked(e.url) /\ DeleteObject(e.url) /\ home' = {h \in home : h[2] # e.url}
           /\ UNCHANGED <<pending, timeline, tx, half, emitted, restarts, rebuiltTo, raced, cast>>
  BY AppliesIs
<1>2. /\ e.verb \in StatusVerbs /\ e.url \in Urls /\ e.target \in Urls \cup {NoUrl} /\ e.user \in Users /\ e.id \in Nat
      /\ SaysWhatItIs(e)
  BY StatusEventParts
<1>3. applied \in Nat /\ applied + 1 \in 0..Len(timeline) /\ timeline[applied + 1] = e /\ applied' = applied + 1
  BY <1>1 DEF Applying, StatusInv, TopicsTyped
<1>4. TopicsTyped'
  BY <1>1, <1>3 DEF StatusInv, TopicsTyped
<1>5. /\ IsStatusTable(objects) /\ edges.boosts \subseteq Urls \X Urls /\ edges.reactions \subseteq Urls \X Urls
      /\ PointsAsItShould(objects) /\ NoUrl \notin Urls
  BY StatusesAssumption DEF StatusInv, TablesTyped
<1>6. CASE e.verb # "Delete" /\ StoreObject(e.url, e.id, e.target, VisOf(e))
           /\ home' = IF e.verb \in {"Create", "Announce"} THEN home \cup {<<e.user, e.url>>} ELSE home
  <2> DEFINE row == [id |-> e.id, target |-> e.target, vis |-> VisOf(e)]
             S == Touched(e.url, e.target)
  <2>0. StoredAs(e.url, e.id, e.target, VisOf(e))
    BY <1>6, StoreIs
  <2>1. /\ DOMAIN objects' = DOMAIN objects \cup {e.url}
        /\ \A v \in DOMAIN objects : objects'[v] = objects[v]
        /\ e.url \notin DOMAIN objects => objects'[e.url] = row
        /\ access' = access \cup (IF VisOf(e) = "direct" THEN {e.url} \X Recipients[e.url] ELSE {})
        /\ edges' = RefreshEdges(objects', edges, S)
        /\ objects' = [v \in DOMAIN objects' |-> objects'[v]]
    BY <2>0 DEF StoredAs, StatReaders
  <2>2. VisOf(e) \in {"public", "direct"} /\ (VisOf(e) = "direct" => e.url \in Direct)
    BY DEF VisOf
  <2>3. row \in StatusRow
    BY <1>2, <2>2 DEF StatusRow
  <2>4. objects' \in [DOMAIN objects' -> StatusRow]
    <3>1. \A v \in DOMAIN objects' : objects'[v] \in StatusRow
      BY <1>5, <2>1, <2>3 DEF IsStatusTable
    <3> HIDE DEF row
    <3> QED BY <2>1, <3>1
  <2>5. IsStatusTable(objects')
    BY <1>2, <1>5, <2>1, <2>4 DEF IsStatusTable
  <2>6. S \subseteq Urls
    BY <1>2 DEF Touched
  <2> HIDE DEF S
  <2>7. edges'.boosts \subseteq Urls \X Urls /\ edges'.reactions \subseteq Urls \X Urls
    BY <1>5, <2>1, <2>5, <2>6, RefreshTyped
  <2>8. TablesTyped'
    BY <2>5, <2>7 DEF TablesTyped
  <2>9. e.url \in Contents <=> e.target = NoUrl
    <3>1. e.verb \in {"Create", "Update", "Announce", "Like"}
      BY <1>2, <1>6 DEF StatusVerbs
    <3> QED BY <1>2, <3>1, StatusesAssumption DEF SaysWhatItIs
  <2>10. PointsAsItShould(objects')
    <3>1. row.target = e.target /\ row.vis = VisOf(e)
      OBVIOUS
    <3> HIDE DEF row
    <3> QED BY <1>5, <2>1, <2>2, <2>9, <3>1 DEF PointsAsItShould
  <2>11. CompressionTyped'
    BY <1>1, <2>1 DEF StatusInv, CompressionTyped, MovesOf
  <2>12. DeliveredIsThere'
    <3> SUFFICES ASSUME NEW i \in 1..(applied + 1), timeline[i].verb = "Create",
                        \A j \in (i + 1)..(applied + 1) : ~(timeline[j].verb = "Delete" /\ timeline[j].url = timeline[i].url)
                 PROVE  /\ timeline[i].url \in DOMAIN objects'
                        /\ <<timeline[i].user, timeline[i].url>> \in home'
                        /\ timeline[i].url \in Direct => <<timeline[i].url, timeline[i].user>> \in access'
      BY <1>1, <1>3 DEF DeliveredIsThere
    <3>1. CASE i = applied + 1
      <4>1. timeline[i] = e /\ e.verb = "Create"
        BY <1>3, <3>1
      <4>2. e.url \in Direct => e.user \in Recipients[e.url] /\ VisOf(e) = "direct"
        BY <1>2, <4>1 DEF SaysWhatItIs, VisOf
      <4>3. e.url \in Direct => <<e.url, e.user>> \in {e.url} \X Recipients[e.url]
        BY <4>2
      <4> QED BY <1>6, <2>1, <4>1, <4>2, <4>3
    <3>2. CASE i \in 1..applied
      <4>1. \A j \in (i + 1)..applied : ~(timeline[j].verb = "Delete" /\ timeline[j].url = timeline[i].url)
        BY <1>3
      <4>2. /\ timeline[i].url \in DOMAIN objects
            /\ <<timeline[i].user, timeline[i].url>> \in home
            /\ timeline[i].url \in Direct => <<timeline[i].url, timeline[i].user>> \in access
        BY <3>2, <4>1 DEF StatusInv, DeliveredIsThere
      <4>3. home \subseteq home' /\ access \subseteq access'
        BY <1>6, <2>1
      <4> QED BY <2>1, <4>2, <4>3
    <3> QED BY <1>3, <3>1, <3>2
  <2> QED BY <1>4, <2>8, <2>10, <2>11, <2>12 DEF StatusInv
<1>7. CASE e.verb = "Delete" /\ ~Blocked(e.url) /\ DeleteObject(e.url) /\ home' = {h \in home : h[2] # e.url}
  <2> DEFINE S == IF e.url \in DOMAIN objects THEN {objects[e.url].target} \ {NoUrl} ELSE {}
  <2>1. /\ DOMAIN objects' = DOMAIN objects \ {e.url}
        /\ \A v \in DOMAIN objects' : objects'[v] = objects[v]
        /\ access' = access
        /\ edges' = RefreshEdges(objects', edges, S)
    BY <1>7, DropIs
  <2>2. objects' \in [DOMAIN objects' -> StatusRow]
    <3>1. objects' = [v \in DOMAIN objects \ {e.url} |-> objects[v]]
      BY <1>7 DEF DeleteObject
    <3> QED BY <1>5, <3>1 DEF IsStatusTable
  <2>3. IsStatusTable(objects')
    BY <1>5, <2>1, <2>2 DEF IsStatusTable
  <2>4. S \subseteq Urls
    BY <1>5, RowParts
  <2> HIDE DEF S
  <2>5. edges'.boosts \subseteq Urls \X Urls /\ edges'.reactions \subseteq Urls \X Urls
    BY <1>5, <2>1, <2>3, <2>4, RefreshTyped
  <2>6. TablesTyped' /\ PointsAsItShould(objects')
    BY <1>5, <2>1, <2>3, <2>5 DEF TablesTyped, PointsAsItShould
  <2>7. CompressionTyped'
    <3> SUFFICES ASSUME tx # <<>> PROVE MovesOf(tx[1].refs, objects')
      BY <1>1 DEF StatusInv, CompressionTyped
    <3>1. MovesOf(tx[1].refs, objects) /\ e.url \notin DOMAIN tx[1].refs
      BY <1>7 DEF StatusInv, CompressionTyped, Blocked
    <3> QED BY <2>1, <3>1 DEF MovesOf
  <2>8. DeliveredIsThere'
    <3> SUFFICES ASSUME NEW i \in 1..(applied + 1), timeline[i].verb = "Create",
                        \A j \in (i + 1)..(applied + 1) : ~(timeline[j].verb = "Delete" /\ timeline[j].url = timeline[i].url)
                 PROVE  /\ timeline[i].url \in DOMAIN objects'
                        /\ <<timeline[i].user, timeline[i].url>> \in home'
                        /\ timeline[i].url \in Direct => <<timeline[i].url, timeline[i].user>> \in access'
      BY <1>1, <1>3 DEF DeliveredIsThere
    <3>1. i \in 1..applied
      BY <1>3, <1>7
    <3>2. \A j \in (i + 1)..applied : ~(timeline[j].verb = "Delete" /\ timeline[j].url = timeline[i].url)
      BY <1>3
    <3>3. /\ timeline[i].url \in DOMAIN objects
          /\ <<timeline[i].user, timeline[i].url>> \in home
          /\ timeline[i].url \in Direct => <<timeline[i].url, timeline[i].user>> \in access
      BY <3>1, <3>2 DEF StatusInv, DeliveredIsThere
    <3>4. timeline[i].url # e.url
      <4>1. applied + 1 \in (i + 1)..(applied + 1)
        BY <1>3, <3>1
      <4> QED BY <1>3, <1>7, <4>1
    <3> QED BY <1>7, <2>1, <3>3, <3>4
  <2> QED BY <1>4, <2>6, <2>7, <2>8 DEF StatusInv
<1> QED BY <1>1, <1>6, <1>7
-----------------------------------------------------------------------------
\* The oldest of three rows is one of them, and what a row is given to refer to is a url.
LEMMA SmallestIs ==
  ASSUME NEW T, IsStatusTable(T), NEW a \in DOMAIN T, NEW b \in DOMAIN T, NEW c \in DOMAIN T
  PROVE  Smallest(T, {a, b, c}) \in {a, b, c} /\ \A v \in {a, b, c} : T[Smallest(T, {a, b, c})].id <= T[v].id
<1>1. T[a].id \in Nat /\ T[b].id \in Nat /\ T[c].id \in Nat
  BY RowParts
<1>2. \E w \in {a, b, c} : \A v \in {a, b, c} : T[w].id <= T[v].id
  BY <1>1
<1> QED BY <1>2 DEF Smallest

LEMMA SmallerIs ==
  ASSUME NEW T, IsStatusTable(T), NEW b \in DOMAIN T, NEW c \in DOMAIN T
  PROVE  Smallest(T, {b, c}) \in {b, c} /\ \A v \in {b, c} : T[Smallest(T, {b, c})].id <= T[v].id
<1>1. T[b].id \in Nat /\ T[c].id \in Nat
  BY RowParts
<1>2. \E w \in {b, c} : \A v \in {b, c} : T[w].id <= T[v].id
  BY <1>1
<1> QED BY <1>2 DEF Smallest

LEMMA NewRefIs ==
  ASSUME NEW T, IsStatusTable(T), NEW a \in DOMAIN T, NEW b \in DOMAIN T, NEW c \in DOMAIN T
  PROVE  NewRef(T, a, b, c) \in Urls
<1>1. a \in Urls /\ b \in Urls /\ c \in Urls /\ T[c].target \in Urls \cup {NoUrl}
  BY RowParts
<1>2. Smallest(T, {a, b, c}) \in {a, b, c} /\ Smallest(T, {b, c}) \in {b, c}
  BY SmallestIs, SmallerIs
<1>3. Smallest(T, {a, b, c}) \in Urls /\ Smallest(T, {b, c}) \in Urls
  BY <1>1, <1>2
<1> QED BY <1>1, <1>3 DEF NewRef

\* A pair that can be compressed: a row that refers to a row that refers to a row.
IsPair(T, p) ==
  /\ p.a \in DOMAIN T /\ p.b = T[p.a].target /\ p.b \in DOMAIN T /\ T[p.b].target \in DOMAIN T
  /\ p.ref = NewRef(T, p.a, p.b, T[p.b].target) /\ p.ref \notin {p.a, p.b}

LEMMA PairIs ==
  ASSUME NEW T, NEW p \in Compressible(T) PROVE IsPair(T, p)
BY DEF Compressible, IsPair

LEMMA PickedIs ==
  ASSUME NEW T, NEW picked \in Picks(T) PROVE picked \subseteq Compressible(T)
BY DEF Picks

\* A row that a compression moves is of one of the pairs picked.
LEMMA MoveIs ==
  ASSUME NEW T, NEW picked, NEW m \in Moves(T, picked)
  PROVE  \A u \in DOMAIN m : \E p \in picked : u \in {p.a, p.b} /\ m[u] = p.ref /\ p.ref # T[u].target
<1> DEFINE named == {u \in {p.a : p \in picked} \cup {p.b : p \in picked} :
                        \E p \in picked : u \in {p.a, p.b} /\ p.ref # T[u].target}
           refs(u) == {p.ref : p \in {q \in picked : u \in {q.a, q.b}}} \ {T[u].target}
<1>1. m \in [named -> UNION {refs(u) : u \in named}] /\ \A u \in named : m[u] \in refs(u)
  BY DEF Moves
<1>2. DOMAIN m = named
  BY <1>1
<1>3. \A u \in DOMAIN m : m[u] \in refs(u)
  BY <1>1, <1>2
<1> QED BY <1>3

LEMMA MovesAreFunctions ==
  ASSUME NEW T, NEW picked, NEW m \in Moves(T, picked) PROVE m = [u \in DOMAIN m |-> m[u]]
BY DEF Moves

\* Rows that refer to something are not notes.
LEMMA PointersAreNotNotes ==
  ASSUME NEW T, IsStatusTable(T), PointsAsItShould(T), NEW u \in DOMAIN T, T[u].target \in DOMAIN T
  PROVE  u \notin Contents
BY StatusesAssumption DEF PointsAsItShould, IsStatusTable

LEMMA MovesAreTyped ==
  ASSUME NEW T, IsStatusTable(T), PointsAsItShould(T), NEW picked \in Picks(T), NEW m \in Moves(T, picked)
  PROVE  MovesOf(m, T)
<1>1. \A u \in DOMAIN m : u \in DOMAIN T /\ m[u] \in Urls /\ u \notin Contents
  <2> SUFFICES ASSUME NEW u \in DOMAIN m PROVE u \in DOMAIN T /\ m[u] \in Urls /\ u \notin Contents
    OBVIOUS
  <2>1. PICK p \in picked : u \in {p.a, p.b} /\ m[u] = p.ref
    BY MoveIs
  <2>2. IsPair(T, p)
    BY PairIs, PickedIs
  <2>3. p.a \in DOMAIN T /\ p.b \in DOMAIN T /\ T[p.b].target \in DOMAIN T /\ T[p.a].target \in DOMAIN T
        /\ p.ref = NewRef(T, p.a, p.b, T[p.b].target)
    BY <2>2 DEF IsPair
  <2>4. p.ref \in Urls
    BY <2>3, NewRefIs
  <2>5. p.a \notin Contents /\ p.b \notin Contents
    BY <2>3, PointersAreNotNotes
  <2> QED BY <2>1, <2>3, <2>4, <2>5
<1>2. m = [u \in DOMAIN m |-> m[u]]
  BY MovesAreFunctions
<1>3. m \in [DOMAIN m -> Urls]
  BY <1>1, <1>2
<1> QED BY <1>1, <1>3 DEF MovesOf

\* Moving rows changes what they refer to.
LEMMA MovedTyped ==
  ASSUME NEW T, IsStatusTable(T), PointsAsItShould(T), NEW m, MovesOf(m, T)
  PROVE  /\ IsStatusTable(Moved(T, m)) /\ PointsAsItShould(Moved(T, m)) /\ DOMAIN Moved(T, m) = DOMAIN T
         /\ \A u \in DOMAIN T : /\ Moved(T, m)[u].target = IF u \in DOMAIN m THEN m[u] ELSE T[u].target
                                /\ Moved(T, m)[u].id = T[u].id /\ Moved(T, m)[u].vis = T[u].vis
<1> DEFINE M == Moved(T, m)
<1>1. M = [u \in DOMAIN T |-> IF u \in DOMAIN m THEN [T[u] EXCEPT !.target = m[u]] ELSE T[u]]
  BY DEF Moved
<1>2. DOMAIN M = DOMAIN T
  BY <1>1
<1>3. ASSUME NEW u \in DOMAIN T
      PROVE  /\ M[u] \in StatusRow /\ M[u].target = IF u \in DOMAIN m THEN m[u] ELSE T[u].target
             /\ M[u].id = T[u].id /\ M[u].vis = T[u].vis
  <2>1. M[u] = IF u \in DOMAIN m THEN [T[u] EXCEPT !.target = m[u]] ELSE T[u]
    BY <1>1
  <2>2. T[u] \in [id : Nat, target : Urls \cup {NoUrl}, vis : {"public", "direct"}]
    BY RowParts DEF StatusRow
  <2>3. u \in DOMAIN m => m[u] \in Urls
    BY DEF MovesOf
  <2> HIDE DEF M
  <2>4. CASE u \in DOMAIN m
    BY <2>1, <2>2, <2>3, <2>4 DEF StatusRow
  <2>5. CASE u \notin DOMAIN m
    BY <2>1, <2>2, <2>5 DEF StatusRow
  <2> QED BY <2>4, <2>5
<1>4. M = [u \in DOMAIN M |-> M[u]]
  BY <1>1
<1> HIDE DEF M
<1>5. M \in [DOMAIN M -> StatusRow]
  BY <1>2, <1>3, <1>4
<1>6. IsStatusTable(M)
  BY <1>2, <1>5 DEF IsStatusTable
<1>7. PointsAsItShould(M)
  <2> SUFFICES ASSUME NEW u \in DOMAIN M
               PROVE  (u \in Contents <=> M[u].target = NoUrl) /\ (M[u].vis = "direct" => u \in Direct)
    BY DEF PointsAsItShould
  <2>1. (u \in Contents <=> T[u].target = NoUrl) /\ (T[u].vis = "direct" => u \in Direct)
    BY <1>2 DEF PointsAsItShould
  <2>2. u \in DOMAIN m => u \notin Contents /\ m[u] # NoUrl
    BY StatusesAssumption DEF MovesOf
  <2> QED BY <1>2, <1>3, <2>1, <2>2
<1> QED BY <1>2, <1>3, <1>6, <1>7 DEF M

LEMMA CompressKeeps == ASSUME StatusInv, Compress PROVE StatusInv'
<1>1. PICK picked \in Picks(objects) : \E m \in Moves(objects, picked) :
         tx' = <<[refs |-> m,
                  boosts |-> ValidRows(Moved(objects, m), "announce", {m[u] : u \in DOMAIN m}),
                  reactions |-> ValidRows(Moved(objects, m), "like", {m[u] : u \in DOMAIN m})]>>
  BY DEF Compress
<1>2. PICK m \in Moves(objects, picked) :
         tx' = <<[refs |-> m,
                  boosts |-> ValidRows(Moved(objects, m), "announce", {m[u] : u \in DOMAIN m}),
                  reactions |-> ValidRows(Moved(objects, m), "like", {m[u] : u \in DOMAIN m})]>>
  BY <1>1
<1>3. /\ IsStatusTable(objects) /\ PointsAsItShould(objects)
      /\ UNCHANGED <<pending, timeline, applied, objects, access, edges, home, half, emitted, cast>>
  BY DEF StatusInv, TablesTyped, Compress
<1>4. MovesOf(m, objects)
  BY <1>3, MovesAreTyped
<1>5. IsStatusTable(Moved(objects, m))
  BY <1>3, <1>4, MovedTyped
<1>6. {m[u] : u \in DOMAIN m} \subseteq Urls
  BY <1>4 DEF MovesOf
<1>7. /\ ValidRows(Moved(objects, m), "announce", {m[u] : u \in DOMAIN m}) \subseteq Urls \X Urls
      /\ ValidRows(Moved(objects, m), "like", {m[u] : u \in DOMAIN m}) \subseteq Urls \X Urls
  BY <1>5, <1>6, ValidTyped
<1>8. CompressionTyped'
  <2>1. tx'[1].refs = m
        /\ tx'[1].boosts = ValidRows(Moved(objects, m), "announce", {m[u] : u \in DOMAIN m})
        /\ tx'[1].reactions = ValidRows(Moved(objects, m), "like", {m[u] : u \in DOMAIN m})
    BY <1>2
  <2> QED BY <1>3, <1>4, <1>7, <2>1 DEF CompressionTyped
<1> QED BY <1>3, <1>8 DEF StatusInv, TopicsTyped, TablesTyped, DeliveredIsThere

LEMMA CommitKeeps == ASSUME StatusInv, CompressCommits PROVE StatusInv'
<1> DEFINE m == tx[1].refs
           S == {m[u] : u \in DOMAIN m}
<1>1. /\ tx # <<>> /\ tx' = <<>> /\ objects' = Moved(objects, m)
      /\ edges' = RefreshReactions(RefreshBoosts(objects', edges, tx[1].boosts, S), tx[1].reactions, S)
      /\ UNCHANGED <<pending, timeline, applied, access, home, half, emitted, cast>>
  BY DEF CompressCommits
<1>2. /\ IsStatusTable(objects) /\ PointsAsItShould(objects) /\ MovesOf(m, objects)
      /\ tx[1].boosts \subseteq Urls \X Urls /\ tx[1].reactions \subseteq Urls \X Urls
      /\ edges.boosts \subseteq Urls \X Urls /\ edges.reactions \subseteq Urls \X Urls
  BY <1>1 DEF StatusInv, TablesTyped, CompressionTyped
<1> HIDE DEF m, S
<1>3. IsStatusTable(objects') /\ PointsAsItShould(objects') /\ DOMAIN objects' = DOMAIN objects
  BY <1>1, <1>2, MovedTyped
<1>4. edges'.boosts = Edges(edges.boosts, tx[1].boosts, S) /\ edges'.reactions = Edges(edges.reactions, tx[1].reactions, S)
  BY <1>1, BoostsRefreshed, ReactionsRefreshed
<1>5. edges'.boosts \subseteq Urls \X Urls /\ edges'.reactions \subseteq Urls \X Urls
  BY <1>2, <1>4, EdgesTyped
<1>6. TablesTyped' /\ CompressionTyped' /\ TopicsTyped' /\ PointsAsItShould(objects)'
  BY <1>1, <1>3, <1>5 DEF TablesTyped, CompressionTyped, StatusInv, TopicsTyped
<1>7. DeliveredIsThere'
  BY <1>1, <1>3 DEF StatusInv, DeliveredIsThere
<1> QED BY <1>6, <1>7 DEF StatusInv

LEMMA SweepKeeps == ASSUME StatusInv, Sweep PROVE StatusInv'
<1>1. UNCHANGED <<pending, timeline, applied, objects, access, home, tx, half, emitted, cast>>
      /\ edges'.boosts \subseteq edges.boosts /\ edges'.reactions \subseteq edges.reactions
  BY DEF Sweep
<1> QED BY <1>1 DEF StatusInv, TopicsTyped, TablesTyped, CompressionTyped, DeliveredIsThere

LEMMA ReplayKeepsStatuses == ASSUME StatusInv, Restart PROVE StatusInv'
<1>1. /\ applied' = 0 /\ objects' = <<>> /\ edges' = NoEdges /\ tx' = <<>> /\ half' = <<>>
      /\ UNCHANGED <<pending, timeline, emitted, cast>>
  BY DEF Restart
<1>2. TopicsTyped' /\ CompressionTyped' /\ DeliveredIsThere'
  BY <1>1 DEF StatusInv, TopicsTyped, CompressionTyped, DeliveredIsThere
<1>3. TablesTyped' /\ PointsAsItShould(objects)'
  BY <1>1 DEF TablesTyped, IsStatusTable, PointsAsItShould, NoEdges
<1> QED BY <1>2, <1>3 DEF StatusInv

LEMMA StatusesStart == ASSUME StatusesInit PROVE StatusInv
<1>1. TopicsTyped /\ CompressionTyped /\ DeliveredIsThere
  BY StatusesAssumption DEF StatusesInit, TopicsTyped, CompressionTyped, DeliveredIsThere
<1>2. TablesTyped /\ PointsAsItShould(objects)
  BY DEF StatusesInit, TablesTyped, IsStatusTable, PointsAsItShould, NoEdges
<1> QED BY <1>1, <1>2 DEF StatusInv

LEMMA StatusesStep == StatusInv /\ [StatusesNext]_vars => StatusInv'
<1> SUFFICES ASSUME StatusInv, [StatusesNext]_vars PROVE StatusInv'
  OBVIOUS
<1>1. CASE Apply
  BY <1>1, ApplyKeeps
<1>2. CASE Compress
  BY <1>2, CompressKeeps
<1>3. CASE CompressCommits
  BY <1>3, CommitKeeps
<1>4. CASE Sweep
  BY <1>4, SweepKeeps
<1>5. CASE Forward
  BY <1>5, ForwardKeeps
<1>6. CASE Restart
  BY <1>6, ReplayKeepsStatuses
<1>7. CASE RemoteCreate \/ RemoteUpdate \/ RemoteAnnounce \/ RemoteLike \/ RemoteDelete
  BY <1>7, RemoteKeeps
<1>8. CASE Reblog \/ Unreblog \/ React \/ Reacted \/ Unreact
  BY <1>8, RequestsKeep
<1>9. CASE UNCHANGED vars
  BY <1>9 DEF vars, StatusInv, TopicsTyped, TablesTyped, CompressionTyped, DeliveredIsThere
<1> QED BY <1>1, <1>2, <1>3, <1>4, <1>5, <1>6, <1>7, <1>8, <1>9 DEF StatusesNext

\* What the queries show, when rows refer to what they should.
LEMMA ContentIs ==
  ASSUME NEW T, IsStatusTable(T), PointsAsItShould(T), NEW u \in DOMAIN T
  PROVE  /\ u \in Contents => Content(T, u) = u
         /\ Content(T, u) # NoUrl => Content(T, u) \in DOMAIN T /\ Content(T, u) = IF T[u].target = NoUrl THEN u ELSE T[u].target
<1>1. u \in Urls /\ (u \in Contents <=> T[u].target = NoUrl)
  BY RowParts DEF PointsAsItShould
<1> DEFINE t == IF u \notin DOMAIN T THEN u
                ELSE IF T[u].target = NoUrl THEN u ELSE T[u].target
<1>2. Content(T, u) = IF u \in DOMAIN T /\ t \in DOMAIN T /\ Kind(t) = "content" THEN t ELSE NoUrl
  BY DEF Content
<1>3. t = IF T[u].target = NoUrl THEN u ELSE T[u].target
  OBVIOUS
<1> HIDE DEF t
<1>4. u \in Contents => t = u /\ Kind(u) = "content"
  BY <1>1, <1>3, KindIs
<1> QED BY <1>2, <1>3, <1>4

LEMMA WhatIsSentIsShown == StatusInv => RecipientsCanRead
<1> SUFFICES ASSUME StatusInv, NEW i \in 1..applied, timeline[i].verb = "Create",
                    \A j \in (i + 1)..applied : ~(timeline[j].verb = "Delete" /\ timeline[j].url = timeline[i].url)
             PROVE  /\ timeline[i].url \in Home(timeline[i].user) \cap FetchByActor(Author[timeline[i].url], timeline[i].user)
                    /\ \A u \in Home(timeline[i].user) : /\ Shown(u, timeline[i].user) = Content(objects, u)
                                                         /\ u \in RowsForUrls({u}, timeline[i].user)
  BY DEF RecipientsCanRead
<1> DEFINE e == timeline[i]
           viewer == e.user
<1>1. timeline \in Seq(StatusEvents) /\ applied \in 0..Len(timeline)
  BY DEF StatusInv, TopicsTyped
<1>2. e \in StatusEvents
  BY <1>1
<1>3. e.verb = "Create" /\ e.url \in Contents /\ e.url \in Urls
  BY <1>2, StatusEventParts DEF SaysWhatItIs
<1>4. e.url \in DOMAIN objects /\ <<viewer, e.url>> \in home /\ (e.url \in Direct => <<e.url, viewer>> \in access)
  BY DEF StatusInv, DeliveredIsThere
<1>5. IsStatusTable(objects) /\ PointsAsItShould(objects) /\ NoUrl \notin Urls
  BY StatusesAssumption DEF StatusInv, TablesTyped
<1> HIDE DEF e, viewer
<1>6. Visible(e.url, viewer)
  <2>1. objects[e.url].vis \in {"public", "direct"} /\ (objects[e.url].vis = "direct" => e.url \in Direct)
    BY <1>4, <1>5, RowParts DEF PointsAsItShould
  <2> QED BY <1>4, <2>1 DEF Visible
<1>7. Content(objects, e.url) = e.url /\ e.url # NoUrl /\ Kind(e.url) # "like"
  BY <1>3, <1>4, <1>5, ContentIs, KindIs, StatusesAssumption
<1>8. e.url \in Home(viewer) /\ e.url \in FetchByActor(Author[e.url], viewer)
  BY <1>4, <1>6, <1>7 DEF Home, FetchByActor
<1>9. ASSUME NEW u \in Home(viewer)
      PROVE  Shown(u, viewer) = Content(objects, u) /\ u \in RowsForUrls({u}, viewer)
  <2>1. u \in DOMAIN objects /\ Content(objects, u) # NoUrl /\ Visible(Content(objects, u), viewer)
    BY DEF Home
  <2>2. Content(objects, u) = IF objects[u].target = NoUrl THEN u ELSE objects[u].target
    BY <1>5, <2>1, ContentIs
  <2>3. Visible(u, viewer)
    <3>1. CASE u \in Contents
      BY <1>5, <2>1, <3>1, ContentIs
    <3>2. CASE u \notin Contents
      <4>1. objects[u].vis = "public"
        BY <1>5, <2>1, <3>2, RowParts, StatusesAssumption DEF PointsAsItShould
      <4> QED BY <2>1, <4>1 DEF Visible
    <3> QED BY <3>1, <3>2
  <2>4. Shown(u, viewer) = Content(objects, u)
    BY <2>3 DEF Shown
  <2> QED BY <2>1, <2>2, <2>3, <2>4 DEF RowsForUrls
<1> QED BY <1>8, <1>9 DEF e, viewer

-----------------------------------------------------------------------------
(* The way from a place along the targets of a table: the least set that
   has the place and, with each url of the table, its target.  Whoever
   goes it meets no url twice or goes round; it ends where a url is not in
   the table, or behind a note. *)
Places == Urls \cup {NoUrl}
IsPlain(P) ==
  DOMAIN P \subseteq Urls /\ \A u \in DOMAIN P : P[u].target \in Places /\ (u \in Contents <=> P[u].target = NoUrl)
Closed(P, S) == \A w \in S : w \in DOMAIN P => P[w].target \in S
Way(P, t) == {v \in Places : \A S \in SUBSET Places : (t \in S /\ Closed(P, S)) => v \in S}

LEMMA WayIs ==
  ASSUME NEW P, IsPlain(P), NEW t \in Places
  PROVE  t \in Way(P, t) /\ Way(P, t) \subseteq Places /\ Closed(P, Way(P, t))
<1>1. t \in Way(P, t) /\ Way(P, t) \subseteq Places
  BY DEF Way
<1>2. ASSUME NEW w \in Way(P, t), w \in DOMAIN P PROVE P[w].target \in Way(P, t)
  <2>1. P[w].target \in Places
    BY <1>2 DEF IsPlain
  <2>2. ASSUME NEW S \in SUBSET Places, t \in S, Closed(P, S) PROVE P[w].target \in S
    <3>1. w \in S
      BY <2>2 DEF Way
    <3> QED BY <1>2, <2>2, <3>1 DEF Closed
  <2> QED BY <2>1, <2>2 DEF Way
<1> QED BY <1>1, <1>2 DEF Closed

LEMMA WayLeast ==
  ASSUME NEW P, NEW t, NEW S, S \subseteq Places, t \in S, Closed(P, S)
  PROVE  Way(P, t) \subseteq S
BY DEF Way

LEMMA WayOn ==
  ASSUME NEW P, IsPlain(P), NEW t \in Places, NEW r \in Way(P, t)
  PROVE  Way(P, r) \subseteq Way(P, t)
BY WayIs, WayLeast

LEMMA WayStep ==
  ASSUME NEW P, IsPlain(P), NEW t \in DOMAIN P
  PROVE  /\ P[t].target \in Places /\ t \in Urls
         /\ Way(P, P[t].target) \subseteq Way(P, t)
         /\ \A v \in Way(P, t) : v = t \/ v \in Way(P, P[t].target)
<1> DEFINE n == P[t].target
           S == {v \in Places : v = t \/ v \in Way(P, n)}
<1>1. n \in Places /\ t \in Urls /\ t \in Places
  BY DEF IsPlain, Places
<1>2. t \in Way(P, t) /\ Closed(P, Way(P, t))
  BY <1>1, WayIs
<1>3. n \in Way(P, t)
  BY <1>2 DEF Closed
<1>4. n \in Way(P, n) /\ Closed(P, Way(P, n)) /\ Way(P, n) \subseteq Places
  BY <1>1, WayIs
<1>5. Closed(P, S)
  BY <1>1, <1>4 DEF Closed
<1>6. Way(P, t) \subseteq S
  BY <1>1, <1>5, WayLeast
<1> QED BY <1>1, <1>3, <1>6, WayOn

LEMMA WayEnds ==
  ASSUME NEW P, IsPlain(P), NEW t \in Places, t \notin DOMAIN P \/ t \in Contents
  PROVE  \A v \in Way(P, t) : v = t \/ (v = NoUrl /\ t \in DOMAIN P)
<1> DEFINE S == {v \in Places : v = t \/ (v = NoUrl /\ t \in DOMAIN P)}
<1>1. NoUrl \notin DOMAIN P /\ NoUrl \in Places
  BY StatusesAssumption DEF IsPlain, Places
<1>2. Closed(P, S)
  BY <1>1 DEF Closed, IsPlain
<1> QED BY <1>2, WayLeast

\* Of two urls on one way one is behind the other.
LEMMA WayLinear ==
  ASSUME NEW P, IsPlain(P), NEW t \in Places, NEW q \in Way(P, t), NEW r \in Way(P, t)
  PROVE  q \in Way(P, r) \/ r \in Way(P, q)
<1> DEFINE S == {v \in Way(P, t) : q \in Way(P, v) \/ v \in Way(P, q)}
<1>1. t \in S /\ Way(P, t) \subseteq Places /\ Closed(P, Way(P, t)) /\ q \in Places
  BY WayIs
<1>2. q \in Way(P, q) /\ Closed(P, Way(P, q))
  BY <1>1, WayIs
<1>3. ASSUME NEW w \in S, w \in DOMAIN P PROVE P[w].target \in S
  <2>1. P[w].target \in Way(P, t)
    BY <1>1, <1>3 DEF Closed
  <2>2. CASE w \in Way(P, q)
    BY <1>2, <1>3, <2>1, <2>2 DEF Closed
  <2>3. CASE q \in Way(P, w)
    <3>1. q = w \/ q \in Way(P, P[w].target)
      BY <1>3, <2>3, WayStep
    <3>2. q = w => w \in Way(P, q)
      BY <1>2
    <3> QED BY <2>1, <2>2, <3>1, <3>2
  <2> QED BY <2>2, <2>3
<1>4. Closed(P, S)
  BY <1>3 DEF Closed
<1> HIDE DEF S
<1>5. S \subseteq Places
  BY <1>1 DEF S
<1>6. Way(P, t) \subseteq S
  BY <1>1, <1>4, <1>5, WayLeast
<1> QED BY <1>6 DEF S

\* What is hoped for: a note, or a url that may still come.  A way is lost when it has
\* nothing of that, and a shortcut leads to what is on the way or from a lost one.
Gone(P, H) == H \subseteq Urls /\ Contents \subseteq H /\ \A u \in DOMAIN P : u \notin Contents => u \notin H
Lost(P, H, t) == \A v \in Way(P, t) : v \notin H
Shortcut(P, H, t, r) == Lost(P, H, t) \/ r \in Way(P, t)

LEMMA LostThrough ==
  ASSUME NEW P, IsPlain(P), NEW H, Gone(P, H), NEW t \in Places, NEW u \in Way(P, t), u # NoUrl, Lost(P, H, u)
  PROVE  Lost(P, H, t)
<1> SUFFICES ASSUME NEW q \in Way(P, t), q \in H PROVE FALSE
  BY DEF Lost
<1>1. q \in Way(P, u) \/ u \in Way(P, q)
  BY WayLinear
<1>2. q \notin Way(P, u)
  BY DEF Lost
<1>3. q \in Places /\ u \in Places /\ u \in Way(P, u)
  BY WayIs
<1>4. q # u
  BY <1>2, <1>3
<1>5. q \in DOMAIN P /\ q \notin Contents
  BY <1>1, <1>2, <1>3, <1>4, WayEnds
<1> QED BY <1>5 DEF Gone

LEMMA Through ==
  ASSUME NEW P, IsPlain(P), NEW H, Gone(P, H), NEW t \in Places, NEW n \in DOMAIN P, n \notin Contents, NEW z,
         Shortcut(P, H, t, n), Shortcut(P, H, P[n].target, z)
  PROVE  Shortcut(P, H, t, z)
<1>1. CASE n \in Way(P, t)
  <2>1. n \in Urls /\ n # NoUrl /\ Way(P, P[n].target) \subseteq Way(P, n)
    BY WayStep, StatusesAssumption
  <2>2. Way(P, n) \subseteq Way(P, t)
    BY <1>1, WayOn
  <2>3. CASE z \in Way(P, P[n].target)
    BY <2>1, <2>2, <2>3 DEF Shortcut
  <2>4. CASE Lost(P, H, P[n].target)
    <3>1. n \notin H
      BY DEF Gone
    <3>2. Lost(P, H, n)
      BY <2>4, <3>1, WayStep DEF Lost
    <3> QED BY <1>1, <2>1, <3>2, LostThrough DEF Shortcut
  <2> QED BY <2>3, <2>4 DEF Shortcut
<1> QED BY <1>1 DEF Shortcut

\* Rows that come and rows that leave.
Within(P, Q) == DOMAIN P \subseteq DOMAIN Q /\ \A u \in DOMAIN P : Q[u].target = P[u].target

LEMMA WayGrows ==
  ASSUME NEW P, NEW Q, Within(P, Q), IsPlain(Q), NEW t \in Places
  PROVE  Way(P, t) \subseteq Way(Q, t)
<1>1. t \in Way(Q, t) /\ Way(Q, t) \subseteq Places /\ Closed(Q, Way(Q, t))
  BY WayIs
<1>2. Closed(P, Way(Q, t))
  BY <1>1 DEF Closed, Within
<1> QED BY <1>1, <1>2, WayLeast

LEMMA WayStays ==
  ASSUME NEW P, NEW Q, Within(P, Q), IsPlain(P), NEW t \in Places, \A v \in Way(P, t) : v \in DOMAIN Q => v \in DOMAIN P
  PROVE  Way(Q, t) \subseteq Way(P, t)
<1>1. t \in Way(P, t) /\ Way(P, t) \subseteq Places /\ Closed(P, Way(P, t))
  BY WayIs
<1>2. Closed(Q, Way(P, t))
  BY <1>1 DEF Closed, Within
<1> QED BY <1>1, <1>2, WayLeast

LEMMA RowComes ==
  ASSUME NEW P, NEW Q, IsPlain(P), IsPlain(Q), Within(P, Q), NEW H, \A v \in DOMAIN Q : v \in DOMAIN P \/ v \in H,
         NEW I, I \subseteq H, NEW t \in Places, NEW r, Shortcut(P, H, t, r)
  PROVE  Shortcut(Q, I, t, r)
<1>1. CASE r \in Way(P, t)
  BY <1>1, WayGrows DEF Shortcut
<1>2. CASE Lost(P, H, t)
  <2>1. \A v \in Way(P, t) : v \in DOMAIN Q => v \in DOMAIN P
    BY <1>2 DEF Lost
  <2>2. Way(Q, t) \subseteq Way(P, t)
    BY <2>1, WayStays
  <2> QED BY <1>2, <2>2 DEF Lost, Shortcut
<1> QED BY <1>1, <1>2 DEF Shortcut

\* P is what is left of Q.
LEMMA RowLeaves ==
  ASSUME NEW P, NEW Q, NEW u \in DOMAIN Q, IsPlain(P), IsPlain(Q), Within(P, Q), u \notin DOMAIN P,
         \A v \in DOMAIN Q : v \in DOMAIN P \/ v = u,
         NEW H, Gone(Q, H), NEW t \in Places, NEW r, r # NoUrl, Shortcut(Q, H, t, r)
  PROVE  Shortcut(P, H, t, r)
<1>0. Gone(P, H) /\ Way(P, t) \subseteq Way(Q, t) /\ u \in Urls /\ u # NoUrl
  BY WayGrows, StatusesAssumption DEF Gone, Within, IsPlain
<1>1. CASE Lost(Q, H, t)
  BY <1>0, <1>1 DEF Lost, Shortcut
<1>2. CASE r \in Way(Q, t) /\ u \notin Way(P, t)
  <2>1. Way(Q, t) \subseteq Way(P, t)
    BY <1>2, WayStays
  <2> QED BY <1>2, <2>1 DEF Shortcut
<1>3. CASE u \in Way(P, t) /\ u \notin Contents
  <2>1. u \notin H /\ u \in Places
    BY <1>0, <1>3 DEF Gone, Places
  <2>2. \A v \in Way(P, u) : v = u
    BY <2>1, WayEnds
  <2>3. Lost(P, H, u)
    BY <2>1, <2>2 DEF Lost
  <2> QED BY <1>0, <1>3, <2>3, LostThrough DEF Shortcut
<1>4. CASE r \in Way(Q, t) /\ u \in Way(P, t) /\ u \in Contents
  <2> DEFINE S == {v \in Places : v \in Way(P, t) \/ v = NoUrl}
  <2>1. t \in Way(P, t) /\ Way(P, t) \subseteq Places /\ Closed(P, Way(P, t))
    BY WayIs
  <2>2. Q[u].target = NoUrl /\ NoUrl \notin DOMAIN Q /\ NoUrl \in Places
    BY <1>4, StatusesAssumption DEF IsPlain, Places
  <2>3. Closed(Q, S)
    BY <2>1, <2>2 DEF Closed, Within
  <2>4. Way(Q, t) \subseteq S
    BY <2>1, <2>3, WayLeast
  <2> QED BY <1>4, <2>4 DEF Shortcut
<1> QED BY <1>1, <1>2, <1>3, <1>4 DEF Shortcut

\* What leads to a note without shortcuts leads there with them.
LEMMA ShortcutsLead ==
  ASSUME NEW P, NEW T, IsPlain(P), IsPlain(T), DOMAIN T = DOMAIN P, NEW H, Gone(P, H),
         \A w \in DOMAIN T : w \notin Contents => Shortcut(P, H, P[w].target, T[w].target),
         NEW u \in DOMAIN P, NEW k \in Reached(P, u), k \in Contents
  PROVE  k \in Reached(T, u)
<1>0. k \in DOMAIN P /\ DOMAIN P \subseteq Urls /\ Urls \subseteq Places /\ NoUrl \notin Urls
  BY StatusesAssumption DEF Reached, IsPlain, Places
<1> SUFFICES ASSUME NEW S \in SUBSET DOMAIN T, u \in S, \A w \in S : T[w].target \in DOMAIN T => T[w].target \in S
             PROVE  k \in S
  BY <1>0 DEF Reached
<1> DEFINE D == {w \in DOMAIN P : k \in Way(P, w) => \E d \in Way(P, w) : d \in S}
<1>1. u \in D
  BY <1>0, WayIs
<1>2. ASSUME NEW w \in D, P[w].target \in DOMAIN P PROVE P[w].target \in D
  <2> DEFINE n == P[w].target
  <2>1. SUFFICES ASSUME k \in Way(P, n) PROVE \E d \in Way(P, n) : d \in S
    BY <1>2
  <2>2. k \in Way(P, w) /\ w \in DOMAIN P /\ n \in Places /\ w \notin Contents
    BY <1>0, <1>2, <2>1, WayStep DEF IsPlain
  <2>3. PICK d \in Way(P, w) : d \in S
    BY <2>2
  <2>4. CASE d \in Way(P, n)
    BY <2>3, <2>4
  <2>5. CASE d = w
    <3>1. Shortcut(P, H, n, T[w].target)
      BY <2>2
    <3>2. k \in H
      BY DEF Gone
    <3>3. T[w].target \in Way(P, n)
      BY <2>1, <3>1, <3>2 DEF Shortcut, Lost
    <3>4. k \in Way(P, T[w].target) \/ T[w].target \in Way(P, k)
      BY <2>1, <2>2, <3>3, WayLinear
    <3>5. T[w].target \in Places /\ T[w].target # NoUrl
      BY <2>2 DEF IsPlain
    <3>6. k \in Places
      BY <1>0
    <3>7. T[w].target \in DOMAIN P
      <4>1. CASE T[w].target \in Way(P, k)
        BY <1>0, <3>5, <3>6, <4>1, WayEnds
      <4>2. CASE k \in Way(P, T[w].target)
        BY <1>0, <3>5, <4>2, WayEnds
      <4> QED BY <3>4, <4>1, <4>2
    <3>8. T[w].target \in S
      BY <2>3, <2>5, <3>7
    <3> QED BY <3>3, <3>8
  <2> QED BY <2>2, <2>3, <2>4, <2>5, WayStep
<1> HIDE DEF D
<1>3. D \in SUBSET DOMAIN P
  BY DEF D
<1>4. k \in D
  BY <1>1, <1>2, <1>3 DEF Reached
<1>5. k \in Way(P, k)
  BY <1>0, WayIs
<1>6. PICK d \in Way(P, k) : d \in S
  BY <1>4, <1>5 DEF D
<1>7. d = k
  BY <1>0, <1>6, WayEnds
<1> QED BY <1>6, <1>7

\* When nothing is left to compress, what leads to a note refers to it.
LEMMA NothingLeftToCompress ==
  ASSUME NEW T, IsStatusTable(T), PointsAsItShould(T), Picks(T) = {}, NEW u \in DOMAIN T, NEW k \in Reached(T, u), k \in Contents
  PROVE  k = Content(T, u)
<1>0. DOMAIN T \subseteq Urls /\ NoUrl \notin Urls /\ u \in Urls /\ k \in Urls
  BY StatusesAssumption DEF IsStatusTable, Urls
<1>1. Compressible(T) = {}
  BY DEF Picks
<1>2. \A S \in SUBSET DOMAIN T : (u \in S /\ \A w \in S : T[w].target \in DOMAIN T => T[w].target \in S) => k \in S
  BY DEF Reached
<1> DEFINE b == T[u].target
<1>3. CASE u \in Contents
  <2>1. b = NoUrl
    BY <1>3 DEF PointsAsItShould
  <2>2. {u} \in SUBSET DOMAIN T /\ \A w \in {u} : T[w].target \in DOMAIN T => T[w].target \in {u}
    BY <1>0, <2>1
  <2>3. k \in {u}
    BY <1>2, <2>2
  <2> QED BY <1>3, <2>3, ContentIs
<1>4. CASE u \notin Contents /\ b \notin DOMAIN T
  <2>1. {u} \in SUBSET DOMAIN T /\ \A w \in {u} : T[w].target \in DOMAIN T => T[w].target \in {u}
    BY <1>4
  <2>2. k \in {u}
    BY <1>2, <2>1
  <2> QED BY <1>4, <2>2
<1>5. CASE u \notin Contents /\ b \in DOMAIN T /\ b \in Contents
  <2>1. T[b].target = NoUrl /\ b # NoUrl
    BY <1>0, <1>5 DEF PointsAsItShould
  <2>2. k \in {u, b}
    BY <1>0, <1>2, <1>5, <2>1
  <2>3. k = b /\ Kind(b) = "content" /\ b # NoUrl
    BY <1>0, <1>5, <2>2, KindIs
  <2>4. Content(T, u) = b
    BY <1>5, <2>3 DEF Content
  <2> QED BY <2>3, <2>4
<1>6. CASE u \notin Contents /\ b \in DOMAIN T /\ b \notin Contents /\ T[b].target \notin DOMAIN T
  <2>1. k \in {u, b}
    BY <1>0, <1>2, <1>6
  <2> QED BY <1>6, <2>1
<1>7. CASE u \notin Contents /\ b \in DOMAIN T /\ b \notin Contents /\ T[b].target \in DOMAIN T
  <2> DEFINE c == T[b].target
             p == [a |-> u, b |-> T[u].target, ref |-> NewRef(T, u, T[u].target, T[T[u].target].target),
                   start |-> \A o \in DOMAIN T : T[o].target # u]
  <2>1. p.ref \in {p.a, p.b}
    BY <1>1, <1>7 DEF Compressible
  <2>2. NewRef(T, u, b, c) \in {u, b}
    BY <2>1
  <2>3. c \notin Contents
    <3> SUFFICES ASSUME c \in Contents PROVE FALSE
      OBVIOUS
    <3>1. T[c].target = NoUrl
      BY <1>7 DEF PointsAsItShould
    <3>2. NewRef(T, u, b, c) = c
      BY <3>1 DEF NewRef
    <3> QED BY <1>7, <2>2, <3>2
  <2>4. T[c].target # NoUrl
    BY <1>7, <2>3 DEF PointsAsItShould
  <2>5. T[c].target \in {u, b}
    BY <2>2, <2>4 DEF NewRef
  <2>6. k \in {u, b, c}
    BY <1>2, <1>7, <2>5
  <2> QED BY <1>7, <2>3, <2>6
<1> QED BY <1>3, <1>4, <1>5, <1>6, <1>7
-----------------------------------------------------------------------------
(* The table as it is without compression.  A url that is not of a note is
   stored by one event only, so one that was stored and is gone does not
   come back. *)
Saves(e) == e.verb # "Delete" /\ e.url \notin Contents
NewTo(s, u) == \A i \in DOMAIN s : Saves(s[i]) => s[i].url # u
Distinct(s) == \A i \in DOMAIN s : \A j \in DOMAIN s : i # j /\ Saves(s[i]) /\ Saves(s[j]) => s[i].url # s[j].url
OfTheCast(s) == \A i \in DOMAIN s : s[i].verb # "Delete" => s[i].url \in cast
StoredOnce ==
  /\ Distinct(timeline) /\ Distinct(pending) /\ OfTheCast(timeline) /\ OfTheCast(pending)
  /\ \A i \in DOMAIN pending : Saves(pending[i]) => NewTo(timeline, pending[i].url)
  /\ half # <<>> => /\ NewTo(timeline, half[1].url) /\ NewTo(pending, half[1].url)
                    /\ Author[half[1].url] = Me /\ half[1].url \in cast

\* A note, or a url that was not stored yet.
Coming == {u \in Urls : u \notin Contents => \A i \in 1..applied : Saves(timeline[i]) => timeline[i].url # u}

AsStored ==
  /\ DOMAIN objects = DOMAIN Plain
  /\ \A u \in DOMAIN objects : objects[u].id = Plain[u].id
RefersAhead ==
  /\ \A u \in DOMAIN objects : u \notin Contents => Shortcut(Plain, Coming, Plain[u].target, objects[u].target)
  /\ tx # <<>> => \A u \in DOMAIN tx[1].refs : Shortcut(Plain, Coming, Plain[u].target, tx[1].refs[u])

LEMMA MinIs ==
  ASSUME NEW S, S \subseteq Nat, S # {}
  PROVE  Min(S) \in S /\ \A i \in S : Min(S) <= i
BY LeastExists DEF Min

\* Each row of the plain table is that of one of the events handled.
FirstOf(u) == Min(StoredBy(u))
LEMMA FirstStoredIs ==
  ASSUME applied \in Nat, NEW u \in DOMAIN Plain
  PROVE  /\ u \in cast /\ FirstOf(u) \in StoredBy(u) /\ \A i \in StoredBy(u) : FirstOf(u) <= i
         /\ FirstOf(u) \in 1..applied /\ timeline[FirstOf(u)].url = u /\ timeline[FirstOf(u)].verb # "Delete"
         /\ Plain[u].id = timeline[FirstOf(u)].id /\ Plain[u].target = timeline[FirstOf(u)].target
<1>1. u \in cast /\ StoredBy(u) # {}
  BY DEF Plain
<1>2. StoredBy(u) \subseteq Nat
  BY DEF StoredBy
<1>3. FirstOf(u) \in StoredBy(u) /\ \A i \in StoredBy(u) : FirstOf(u) <= i
  BY <1>1, <1>2, MinIs DEF FirstOf
<1>4. FirstOf(u) \in 1..applied /\ timeline[FirstOf(u)].url = u /\ timeline[FirstOf(u)].verb # "Delete"
  BY <1>3 DEF StoredBy
<1>5. Plain[u] = [id |-> timeline[FirstOf(u)].id, target |-> timeline[FirstOf(u)].target]
  BY <1>1 DEF Plain, FirstOf
<1> QED BY <1>1, <1>3, <1>4, <1>5

LEMMA PlainDomain == ASSUME TRUE PROVE \A u : u \in DOMAIN Plain <=> u \in cast /\ StoredBy(u) # {}
BY DEF Plain

LEMMA PlainIs == ASSUME TopicsTyped PROVE IsPlain(Plain) /\ Gone(Plain, Coming)
<1>0. applied \in Nat /\ timeline \in Seq(StatusEvents) /\ cast \subseteq Urls /\ 1..applied \subseteq DOMAIN timeline
  BY DEF TopicsTyped
<1>1. ASSUME NEW u \in DOMAIN Plain
      PROVE  /\ u \in Urls /\ Plain[u].target \in Places /\ (u \in Contents <=> Plain[u].target = NoUrl)
             /\ u \notin Contents => u \notin Coming
  <2> DEFINE e == timeline[FirstOf(u)]
  <2>1. u \in cast /\ FirstOf(u) \in 1..applied /\ e.url = u /\ e.verb # "Delete" /\ Plain[u].target = e.target
    BY <1>0, FirstStoredIs
  <2>2. e \in StatusEvents
    BY <1>0, <2>1
  <2>3. e.verb \in StatusVerbs /\ e.target \in Places /\ SaysWhatItIs(e)
    BY <2>2, StatusEventParts DEF Places
  <2>4. e.url \in Contents <=> e.target = NoUrl
    BY <2>1, <2>3, StatusesAssumption DEF SaysWhatItIs, StatusVerbs
  <2>5. u \notin Contents => u \notin Coming
    BY <2>1 DEF Coming, Saves
  <2> QED BY <1>0, <2>1, <2>3, <2>4, <2>5
<1>2. Coming \subseteq Urls /\ Contents \subseteq Coming
  BY DEF Coming, Urls
<1> QED BY <1>1, <1>2 DEF IsPlain, Gone

\* What does not change the events handled does not change the plain table.
LEMMA PlainStays ==
  ASSUME UNCHANGED <<applied, cast>>, \A i \in 1..applied : timeline'[i] = timeline[i], applied \in Nat
  PROVE  Plain' = Plain /\ Coming' = Coming
<1>1. \A v : StoredBy(v)' = StoredBy(v)
  BY DEF StoredBy
<1>2. Coming' = Coming
  BY DEF Coming
<1>3. \A v : Min(StoredBy(v)) = Min(StoredBy(v)')
  BY <1>1
<1>4. ASSUME NEW v, StoredBy(v) # {} PROVE timeline'[Min(StoredBy(v))] = timeline[Min(StoredBy(v))]
  <2>1. StoredBy(v) \subseteq 1..applied
    BY DEF StoredBy
  <2>2. Min(StoredBy(v)) \in StoredBy(v)
    BY <1>4, <2>1, MinIs
  <2> QED BY <2>1, <2>2
<1>5. Plain' = Plain
  BY <1>1, <1>4 DEF Plain
<1> QED BY <1>2, <1>5

\* Events that are written at the end, and the first one taken away.
LEMMA OneMoreStored ==
  ASSUME NEW s \in Seq(StatusEvents), NEW e \in StatusEvents, NEW C
  PROVE  /\ Distinct(s) /\ (Saves(e) => NewTo(s, e.url)) => Distinct(Append(s, e))
         /\ \A u : NewTo(s, u) /\ (Saves(e) => e.url # u) => NewTo(Append(s, e), u)
         /\ OfTheCast(s) /\ (e.verb # "Delete" => e.url \in cast) => OfTheCast(Append(s, e))
<1> DEFINE t == Append(s, e)
<1>1. Len(s) \in Nat /\ DOMAIN s = 1..Len(s)
  OBVIOUS
<1>2. DOMAIN t = 1..(Len(s) + 1) /\ t[Len(s) + 1] = e
  BY <1>1
<1>3. \A i \in DOMAIN s : t[i] = s[i]
  OBVIOUS
<1>4. \A i \in DOMAIN t : i \in DOMAIN s \/ i = Len(s) + 1
  BY <1>1, <1>2
<1> HIDE DEF t
<1>5. Distinct(s) /\ (Saves(e) => NewTo(s, e.url)) => Distinct(t)
  BY <1>2, <1>3, <1>4 DEF Distinct, NewTo
<1>6. \A u : NewTo(s, u) /\ (Saves(e) => e.url # u) => NewTo(t, u)
  BY <1>2, <1>3, <1>4 DEF NewTo
<1>7. OfTheCast(s) /\ (e.verb # "Delete" => e.url \in cast) => OfTheCast(t)
  BY <1>2, <1>3, <1>4 DEF OfTheCast
<1> QED BY <1>5, <1>6, <1>7 DEF t

LEMMA IncomingStored ==
  ASSUME StatusInv, StoredOnce, NEW e \in StatusEvents, Incoming(e), e.verb # "Delete" => e.url \in cast,
         Saves(e) => NewTo(timeline, e.url) /\ NewTo(pending, e.url) /\ Author[e.url] # Me
  PROVE  StoredOnce'
<1>1. timeline' = Append(timeline, e) /\ UNCHANGED <<pending, half, cast>>
  BY DEF Incoming
<1>2. timeline \in Seq(StatusEvents)
  BY DEF StatusInv, TopicsTyped
<1>3. Distinct(timeline') /\ OfTheCast(timeline)'
  BY <1>1, <1>2, OneMoreStored DEF StoredOnce, OfTheCast
<1>4. \A u : NewTo(timeline, u) /\ (Saves(e) => e.url # u) => NewTo(timeline', u)
  BY <1>1, <1>2, OneMoreStored
<1>5. \A i \in DOMAIN pending : Saves(pending[i]) => NewTo(timeline', pending[i].url)
  BY <1>4 DEF StoredOnce, NewTo
<1>6. half # <<>> => NewTo(timeline', half[1].url)
  BY <1>4 DEF StoredOnce
<1> QED BY <1>1, <1>3, <1>5, <1>6 DEF StoredOnce, OfTheCast

\* An own activity, of a url that is new or that a request has kept for itself.
LEMMA OwnStored ==
  ASSUME StatusInv, StoredOnce, NEW e \in StatusEvents, pending' = Append(pending, e), UNCHANGED <<timeline, cast>>,
         e.verb # "Delete" => e.url \in cast, Saves(e) => NewTo(timeline, e.url) /\ NewTo(pending, e.url),
         half' # <<>> => /\ NewTo(timeline, half'[1].url) /\ NewTo(pending, half'[1].url)
                         /\ Author[half'[1].url] = Me /\ half'[1].url \in cast /\ (Saves(e) => e.url # half'[1].url)
  PROVE  StoredOnce'
<1>1. pending \in Seq(StatusEvents)
  BY DEF StatusInv, TopicsTyped
<1>2. Distinct(pending') /\ OfTheCast(pending)'
  BY <1>1, OneMoreStored DEF StoredOnce, OfTheCast
<1>3. half' # <<>> => NewTo(pending', half'[1].url)
  BY <1>1, OneMoreStored
<1>4. ASSUME NEW i \in DOMAIN pending', Saves(pending'[i]) PROVE NewTo(timeline, pending'[i].url)
  <2>1. Len(pending) \in Nat /\ DOMAIN pending' = 1..(Len(pending) + 1) /\ DOMAIN pending = 1..Len(pending)
    BY <1>1
  <2>2. pending'[Len(pending) + 1] = e /\ \A j \in DOMAIN pending : pending'[j] = pending[j]
    BY <1>1
  <2>3. CASE i = Len(pending) + 1
    BY <1>4, <2>2, <2>3
  <2>4. CASE i \in DOMAIN pending
    BY <1>4, <2>2, <2>4 DEF StoredOnce
  <2> QED BY <2>1, <2>3, <2>4
<1> QED BY <1>2, <1>3, <1>4 DEF StoredOnce, OfTheCast
LEMMA FreshIsNew ==
  ASSUME NEW S, NEW u \in Fresh(S) PROVE NewTo(timeline, u) /\ NewTo(pending, u) /\ u \in cast /\ u \in S
BY DEF Fresh, Used, NewTo

LEMMA RemoteStored ==
  ASSUME StatusInv, StoredOnce, RemoteCreate \/ RemoteUpdate \/ RemoteAnnounce \/ RemoteLike \/ RemoteDelete PROVE StoredOnce'
<1>0. emitted \in Nat /\ Me \in Users /\ Contents \subseteq Urls /\ Announces \subseteq Urls /\ Likes \subseteq Urls /\ NoUrl \notin Urls
  BY StatusesAssumption DEF StatusInv, TopicsTyped, Urls
<1>1. CASE RemoteCreate
  <2>1. PICK c \in Contents \cap cast, user \in Users : (c \in Direct => user \in Recipients[c]) /\ Incoming(Event("Create", c, NoUrl, user))
    BY <1>1 DEF RemoteCreate
  <2> DEFINE e == Event("Create", c, NoUrl, user)
  <2>2. e \in StatusEvents /\ e.verb = "Create" /\ e.url = c
    BY <1>0, <2>1, EventIs DEF StatusVerbs
  <2> HIDE DEF e
  <2>3. ~Saves(e) /\ e.url \in cast
    BY <2>2 DEF Saves
  <2> QED BY <2>1, <2>2, <2>3, IncomingStored DEF e
<1>2. CASE RemoteUpdate
  <2>1. PICK c \in Contents \cap cast : Incoming(Event("Update", c, NoUrl, Me))
    BY <1>2 DEF RemoteUpdate
  <2> DEFINE e == Event("Update", c, NoUrl, Me)
  <2>2. e \in StatusEvents /\ e.verb = "Update" /\ e.url = c
    BY <1>0, <2>1, EventIs DEF StatusVerbs
  <2> HIDE DEF e
  <2>3. ~Saves(e) /\ e.url \in cast
    BY <2>2 DEF Saves
  <2> QED BY <2>1, <2>2, <2>3, IncomingStored DEF e
<1>3. CASE RemoteAnnounce
  <2>1. PICK a \in Fresh(Announces), t \in (Contents \cup Announces) \cap cast : Author[a] # Me /\ Incoming(Event("Announce", a, t, Me))
    BY <1>3 DEF RemoteAnnounce
  <2> DEFINE e == Event("Announce", a, t, Me)
  <2>2. a \in Announces /\ a \in cast /\ NewTo(timeline, a) /\ NewTo(pending, a)
    BY FreshIsNew
  <2>3. e \in StatusEvents /\ e.url = a
    BY <1>0, <2>1, <2>2, EventIs DEF StatusVerbs
  <2> HIDE DEF e
  <2> QED BY <2>1, <2>2, <2>3, IncomingStored DEF e
<1>4. CASE RemoteLike
  <2>1. PICK l \in Fresh(Likes), t \in (Contents \cup Announces) \cap cast : Author[l] # Me /\ Incoming(Event("Like", l, t, Me))
    BY <1>4 DEF RemoteLike
  <2> DEFINE e == Event("Like", l, t, Me)
  <2>2. l \in Likes /\ l \in cast /\ NewTo(timeline, l) /\ NewTo(pending, l)
    BY FreshIsNew
  <2>3. e \in StatusEvents /\ e.url = l
    BY <1>0, <2>1, <2>2, EventIs DEF StatusVerbs
  <2> HIDE DEF e
  <2> QED BY <2>1, <2>2, <2>3, IncomingStored DEF e
<1>5. CASE RemoteDelete
  <2>1. PICK u \in Used : Incoming(Event("Delete", u, NoUrl, Me))
    BY <1>5 DEF RemoteDelete
  <2> DEFINE e == Event("Delete", u, NoUrl, Me)
  <2>2. e \in StatusEvents /\ e.verb = "Delete"
    BY <1>0, <2>1, UsedIs, EventIs DEF StatusVerbs
  <2> HIDE DEF e
  <2>3. ~Saves(e)
    BY <2>2 DEF Saves
  <2> QED BY <2>1, <2>2, <2>3, IncomingStored DEF e
<1> QED BY <1>1, <1>2, <1>3, <1>4, <1>5

\* A request takes a fresh url, or undoes.
LEMMA UndoStored ==
  ASSUME StatusInv, StoredOnce, NEW c, Request(c), NEW a \in Urls, Own(Event("Delete", a, NoUrl, Me)),
         half' = half \/ (\E l \in Fresh(Likes), t \in Urls : Author[l] = Me /\ half' = <<[url |-> l, target |-> t]>>)
  PROVE  StoredOnce'
<1> DEFINE e == Event("Delete", a, NoUrl, Me)
<1>0. emitted \in Nat /\ Me \in Users /\ "Delete" \in StatusVerbs
  BY StatusesAssumption DEF StatusInv, TopicsTyped, StatusVerbs
<1>1. e \in StatusEvents /\ e.verb = "Delete"
  BY <1>0, EventIs
<1>2. pending' = Append(pending, e) /\ UNCHANGED <<timeline, cast>> /\ half = <<>>
  BY DEF Own, Request
<1> HIDE DEF e
<1>3. ~Saves(e)
  BY <1>1 DEF Saves
<1>4. half' # <<>> => /\ NewTo(timeline, half'[1].url) /\ NewTo(pending, half'[1].url)
                      /\ Author[half'[1].url] = Me /\ half'[1].url \in cast
  <2> SUFFICES ASSUME half' # <<>>
               PROVE  /\ NewTo(timeline, half'[1].url) /\ NewTo(pending, half'[1].url)
                      /\ Author[half'[1].url] = Me /\ half'[1].url \in cast
    OBVIOUS
  <2>1. PICK l \in Fresh(Likes) : \E t \in Urls : Author[l] = Me /\ half' = <<[url |-> l, target |-> t]>>
    BY <1>2
  <2>2. half'[1].url = l /\ Author[l] = Me
    BY <2>1
  <2> QED BY <2>2, FreshIsNew
<1> QED BY <1>1, <1>2, <1>3, <1>4, OwnStored

LEMMA SayStored ==
  ASSUME StatusInv, StoredOnce, NEW e \in StatusEvents, Own(e), UNCHANGED <<timeline, cast>>, half' = <<>>,
         e.url \in cast, NewTo(timeline, e.url), NewTo(pending, e.url)
  PROVE  StoredOnce'
<1>1. pending' = Append(pending, e)
  BY DEF Own
<1> QED BY <1>1, OwnStored

LEMMA RequestsStored ==
  ASSUME StatusInv, StoredOnce, Reblog \/ Unreblog \/ React \/ Reacted \/ Unreact PROVE StoredOnce'
<1>0. /\ emitted \in Nat /\ Me \in Users /\ Contents \subseteq Urls /\ Announces \subseteq Urls /\ Likes \subseteq Urls /\ NoUrl \notin Urls
      /\ IsStatusTable(objects) /\ "Announce" \in StatusVerbs /\ "Like" \in StatusVerbs
  BY StatusesAssumption DEF StatusInv, TopicsTyped, TablesTyped, Urls, StatusVerbs
<1>1. CASE Reblog
  <2>1. PICK u \in DOMAIN objects, a \in Fresh(Announces) : Request(Shown(u, Me)) /\ Own(Event("Announce", a, Shown(u, Me), Me)) /\ half' = half
    BY <1>1 DEF Reblog
  <2>2. a \in Announces /\ a \in cast /\ NewTo(timeline, a) /\ NewTo(pending, a)
    BY FreshIsNew
  <2>3. Shown(u, Me) # NoUrl /\ UNCHANGED <<timeline, cast>> /\ half' = <<>>
    BY <2>1 DEF Request
  <2>4. Shown(u, Me) \in Urls
    BY <1>0, <2>3, ShownIs
  <2>5. Event("Announce", a, Shown(u, Me), Me) \in StatusEvents /\ Event("Announce", a, Shown(u, Me), Me).url = a
    BY <1>0, <2>2, <2>4, EventIs
  <2> QED BY <2>1, <2>2, <2>3, <2>5, SayStored
<1>2. CASE Unreblog
  <2>1. PICK u \in DOMAIN objects : \E a \in BoostOf(Me, Shown(u, Me)) :
             Request(Shown(u, Me)) /\ Own(Event("Delete", a, NoUrl, Me)) /\ half' = half
    BY <1>2 DEF Unreblog
  <2>2. PICK a \in BoostOf(Me, Shown(u, Me)) : Request(Shown(u, Me)) /\ Own(Event("Delete", a, NoUrl, Me)) /\ half' = half
    BY <2>1
  <2>3. a \in Urls
    BY OwnEdgeIs
  <2> QED BY <2>2, <2>3, UndoStored
<1>3. CASE Unreact
  <2>1. PICK u \in DOMAIN objects : \E a \in OwnReaction(Me, Shown(u, Me)) :
             Request(Shown(u, Me)) /\ Own(Event("Delete", a, NoUrl, Me)) /\ half' = half
    BY <1>3 DEF Unreact
  <2>2. PICK a \in OwnReaction(Me, Shown(u, Me)) : Request(Shown(u, Me)) /\ Own(Event("Delete", a, NoUrl, Me)) /\ half' = half
    BY <2>1
  <2>3. a \in Urls
    BY OwnEdgeIs
  <2> QED BY <2>2, <2>3, UndoStored
<1>4. CASE React
  <2>1. PICK u \in DOMAIN objects, l \in Fresh(Likes) :
          /\ Request(Shown(u, Me)) /\ Author[l] = Me
          /\ \/ Own(Event("Like", l, Shown(u, Me), Me)) /\ half' = half
             \/ \E own \in OwnReaction(Me, Shown(u, Me)) :
                  Own(Event("Delete", own, NoUrl, Me)) /\ half' = <<[url |-> l, target |-> Shown(u, Me)]>>
    BY <1>4 DEF React
  <2>2. l \in Likes /\ l \in cast /\ NewTo(timeline, l) /\ NewTo(pending, l)
    BY FreshIsNew
  <2>3. Shown(u, Me) # NoUrl /\ UNCHANGED <<timeline, cast>> /\ half = <<>>
    BY <2>1 DEF Request
  <2>4. Shown(u, Me) \in Urls
    BY <1>0, <2>3, ShownIs
  <2>5. CASE Own(Event("Like", l, Shown(u, Me), Me)) /\ half' = half
    <3>1. Event("Like", l, Shown(u, Me), Me) \in StatusEvents /\ Event("Like", l, Shown(u, Me), Me).url = l
      BY <1>0, <2>2, <2>4, EventIs
    <3> QED BY <2>2, <2>3, <2>5, <3>1, SayStored
  <2>6. CASE \E own \in OwnReaction(Me, Shown(u, Me)) :
                  Own(Event("Delete", own, NoUrl, Me)) /\ half' = <<[url |-> l, target |-> Shown(u, Me)]>>
    <3>1. PICK own \in OwnReaction(Me, Shown(u, Me)) :
                  Own(Event("Delete", own, NoUrl, Me)) /\ half' = <<[url |-> l, target |-> Shown(u, Me)]>>
      BY <2>6
    <3>2. own \in Urls
      BY OwnEdgeIs
    <3>3. \E k \in Fresh(Likes), t \in Urls : Author[k] = Me /\ half' = <<[url |-> k, target |-> t]>>
      BY <2>1, <2>4, <3>1
    <3> QED BY <2>1, <3>1, <3>2, <3>3, UndoStored
  <2> QED BY <2>1, <2>5, <2>6
<1>5. CASE Reacted
  <2>1. /\ half # <<>> /\ half' = <<>> /\ Own(Event("Like", half[1].url, half[1].target, Me)) /\ UNCHANGED <<timeline, cast>>
    BY <1>5 DEF Reacted
  <2>2. /\ half[1].url \in Likes /\ half[1].target \in Urls /\ half[1].url \in cast
        /\ NewTo(timeline, half[1].url) /\ NewTo(pending, half[1].url)
    BY <2>1 DEF StatusInv, TopicsTyped, StoredOnce
  <2>3. Event("Like", half[1].url, half[1].target, Me) \in StatusEvents /\ Event("Like", half[1].url, half[1].target, Me).url = half[1].url
    BY <1>0, <2>2, EventIs
  <2> QED BY <2>1, <2>2, <2>3, SayStored
<1> QED BY <1>1, <1>2, <1>3, <1>4, <1>5

LEMMA ForwardStored == ASSUME StatusInv, StoredOnce, Forward PROVE StoredOnce'
<1> DEFINE e == Head(pending)
<1>1. pending # <<>> /\ timeline' = Append(timeline, e) /\ pending' = Tail(pending) /\ UNCHANGED <<half, cast>>
  BY DEF Forward
<1>2. pending \in Seq(StatusEvents) /\ timeline \in Seq(StatusEvents)
  BY DEF StatusInv, TopicsTyped
<1>3. 1 \in DOMAIN pending /\ e = pending[1] /\ e \in StatusEvents
  BY <1>1, <1>2
<1>4. \A i \in DOMAIN pending' : i + 1 \in DOMAIN pending /\ i + 1 # 1 /\ pending'[i] = pending[i + 1] /\ i \in Nat
  BY <1>1, <1>2
<1> HIDE DEF e
<1>5. /\ Distinct(timeline) /\ Distinct(pending) /\ OfTheCast(timeline) /\ OfTheCast(pending)
      /\ \A i \in DOMAIN pending : Saves(pending[i]) => NewTo(timeline, pending[i].url)
  BY DEF StoredOnce
<1>6. (Saves(e) => NewTo(timeline, e.url)) /\ (e.verb # "Delete" => e.url \in cast)
  BY <1>3, <1>5 DEF OfTheCast
<1>7. Distinct(timeline') /\ OfTheCast(timeline)'
  BY <1>1, <1>2, <1>3, <1>5, <1>6, OneMoreStored DEF OfTheCast
<1>8. \A u : NewTo(timeline, u) /\ (Saves(e) => e.url # u) => NewTo(timeline', u)
  BY <1>1, <1>2, <1>3, OneMoreStored
<1>9. Distinct(pending')
  BY <1>4, <1>5 DEF Distinct
<1>10. OfTheCast(pending)'
  BY <1>1, <1>4, <1>5 DEF OfTheCast
<1>11. \A i \in DOMAIN pending' : Saves(pending'[i]) => NewTo(timeline', pending'[i].url)
  <2> SUFFICES ASSUME NEW i \in DOMAIN pending', Saves(pending'[i]) PROVE NewTo(timeline', pending'[i].url)
    OBVIOUS
  <2>1. i + 1 \in DOMAIN pending /\ i + 1 # 1 /\ pending'[i] = pending[i + 1]
    BY <1>4
  <2>2. Saves(e) => e.url # pending[i + 1].url
    BY <1>3, <1>5, <2>1 DEF Distinct
  <2> QED BY <1>5, <1>8, <2>1, <2>2
<1>12. half # <<>> => NewTo(timeline', half[1].url) /\ NewTo(pending', half[1].url)
  <2> SUFFICES ASSUME half # <<>> PROVE NewTo(timeline', half[1].url) /\ NewTo(pending', half[1].url)
    OBVIOUS
  <2>1. NewTo(timeline, half[1].url) /\ NewTo(pending, half[1].url)
    BY DEF StoredOnce
  <2>2. NewTo(pending', half[1].url)
    BY <1>4, <2>1 DEF NewTo
  <2>3. Saves(e) => e.url # half[1].url
    BY <1>3, <2>1 DEF NewTo
  <2> QED BY <1>8, <2>1, <2>2, <2>3
<1> QED BY <1>1, <1>7, <1>9, <1>10, <1>11, <1>12 DEF StoredOnce
\* What the event that is handled does to the plain table.
LEMMA StoredNow ==
  ASSUME NEW e, Applying(e), UNCHANGED timeline, applied \in Nat
  PROVE  /\ \A v : e.url # v => StoredBy(v)' = StoredBy(v)
         /\ e.verb = "Delete" => StoredBy(e.url)' = {}
         /\ e.verb # "Delete" => \A i : i \in StoredBy(e.url)' <=> i \in StoredBy(e.url) \/ i = applied + 1
<1> DEFINE n == applied + 1
<1>1. applied' = n /\ timeline[n] = e /\ n \in Nat /\ n \in 1..n /\ 1..n = 1..applied \cup {n} /\ n \notin 1..applied
  BY DEF Applying
<1>2. \A i \in 1..applied : \A j : j \in (i + 1)..n <=> j \in (i + 1)..applied \/ j = n
  OBVIOUS
<1>3. \A v : StoredBy(v)' = {i \in 1..n : /\ timeline[i].url = v /\ timeline[i].verb # "Delete"
                                          /\ \A j \in (i + 1)..n : ~(timeline[j].url = v /\ timeline[j].verb = "Delete")}
  BY <1>1 DEF StoredBy
<1>4. \A v : StoredBy(v) = {i \in 1..applied : /\ timeline[i].url = v /\ timeline[i].verb # "Delete"
                                               /\ \A j \in (i + 1)..applied : ~(timeline[j].url = v /\ timeline[j].verb = "Delete")}
  BY DEF StoredBy
<1>5. \A j \in (n + 1)..n : FALSE
  OBVIOUS
<1> HIDE DEF n
<1>6. ASSUME NEW v, e.url # v PROVE StoredBy(v)' = StoredBy(v)
  <2>1. \A i : i \in StoredBy(v)' <=> i \in StoredBy(v)
    BY <1>1, <1>2, <1>3, <1>4, <1>6
  <2>2. \A i \in StoredBy(v)' : i \in StoredBy(v)
    BY <2>1
  <2>3. \A i \in StoredBy(v) : i \in StoredBy(v)'
    BY <2>1
  <2> QED BY <2>2, <2>3
<1>7. ASSUME e.verb = "Delete", NEW i \in StoredBy(e.url)' PROVE FALSE
  <2>1. CASE i = n
    BY <1>1, <1>3, <1>7, <2>1
  <2>2. CASE i \in 1..applied
    BY <1>1, <1>2, <1>3, <1>7, <2>2
  <2> QED BY <1>1, <1>3, <1>7, <2>1, <2>2
<1>8. ASSUME e.verb # "Delete", NEW i PROVE i \in StoredBy(e.url)' <=> i \in StoredBy(e.url) \/ i = n
  <2>1. CASE i = n
    BY <1>1, <1>3, <1>5, <1>8, <2>1
  <2>2. CASE i # n
    BY <1>1, <1>2, <1>3, <1>4, <1>8, <2>2
  <2> QED BY <2>1, <2>2
<1> QED BY <1>6, <1>7, <1>8 DEF n

\* How a table is after a row was stored, or was dropped.
RowStored(P, Q, u, id, target) ==
  /\ \A v : v \in DOMAIN Q <=> v \in DOMAIN P \/ v = u
  /\ \A v \in DOMAIN P : Q[v].id = P[v].id /\ Q[v].target = P[v].target
  /\ u \notin DOMAIN P => Q[u].id = id /\ Q[u].target = target
RowDropped(P, Q, u) ==
  /\ \A v : v \in DOMAIN Q <=> v \in DOMAIN P /\ v # u
  /\ \A v \in DOMAIN Q : Q[v].id = P[v].id /\ Q[v].target = P[v].target

LEMMA PlainNow ==
  ASSUME NEW e, Applying(e), UNCHANGED <<timeline, cast>>, applied \in Nat
  PROVE  /\ e.verb # "Delete" /\ e.url \in cast => RowStored(Plain, Plain', e.url, e.id, e.target)
         /\ e.verb = "Delete" => RowDropped(Plain, Plain', e.url)
         /\ Coming' \subseteq Coming
<1>1. /\ \A v : e.url # v => StoredBy(v)' = StoredBy(v)
      /\ e.verb = "Delete" => StoredBy(e.url)' = {}
      /\ e.verb # "Delete" => \A i : i \in StoredBy(e.url)' <=> i \in StoredBy(e.url) \/ i = applied + 1
  BY StoredNow
<1>2. applied' = applied + 1 /\ timeline[applied + 1] = e
  BY DEF Applying
<1>3. \A v : v \in DOMAIN Plain <=> v \in cast /\ StoredBy(v) # {}
  BY DEF Plain
<1>4. \A v : v \in DOMAIN Plain' <=> v \in cast /\ StoredBy(v)' # {}
  BY DEF Plain
<1>5. \A v \in DOMAIN Plain : Plain[v].id = timeline[Min(StoredBy(v))].id /\ Plain[v].target = timeline[Min(StoredBy(v))].target
  BY DEF Plain
<1>6. \A v \in DOMAIN Plain' : Plain'[v].id = timeline[Min(StoredBy(v)')].id /\ Plain'[v].target = timeline[Min(StoredBy(v)')].target
  BY DEF Plain
<1>7. Coming' \subseteq Coming
  <2>1. 1..applied \subseteq 1..applied'
    BY <1>2
  <2> QED BY <2>1 DEF Coming
<1>8. \A v : StoredBy(v) \subseteq 1..applied
  BY DEF StoredBy
<1>9. ASSUME e.verb # "Delete", e.url \in cast PROVE RowStored(Plain, Plain', e.url, e.id, e.target)
  <2>1. \A v : v \in DOMAIN Plain' <=> v \in DOMAIN Plain \/ v = e.url
    BY <1>1, <1>3, <1>4, <1>9
  <2>2. ASSUME StoredBy(e.url) # {} PROVE Min(StoredBy(e.url)') = Min(StoredBy(e.url))
    <3> DEFINE S == StoredBy(e.url)
               Z == StoredBy(e.url)'
    <3>1. S \subseteq 1..applied /\ S # {} /\ \A i : i \in Z <=> i \in S \/ i = applied + 1
      BY <1>1, <1>8, <1>9, <2>2
    <3> HIDE DEF S, Z
    <3>2. S \subseteq Nat /\ Z \subseteq Nat /\ Z # {}
      <4>1. S \subseteq Nat
        BY <3>1
      <4>2. ASSUME NEW i \in Z PROVE i \in Nat
        <5>1. i \in S \/ i = applied + 1
          BY <3>1
        <5>2. applied + 1 \in Nat
          OBVIOUS
        <5>3. CASE i \in S
          BY <4>1, <5>3
        <5>4. CASE i = applied + 1
          BY <5>2, <5>4
        <5> QED BY <5>1, <5>3, <5>4
      <4>3. applied + 1 \in Z
        BY <3>1
      <4> QED BY <4>1, <4>2, <4>3
    <3>3. Min(S) \in S /\ Min(Z) \in Z /\ (\A i \in S : Min(S) <= i) /\ (\A i \in Z : Min(Z) <= i)
      BY <3>1, <3>2, MinIs
    <3>4. Min(S) \in 1..applied /\ Min(Z) <= Min(S) /\ Min(Z) \in Nat
      BY <3>1, <3>2, <3>3
    <3>5. Min(Z) \in S
      BY <3>1, <3>3, <3>4
    <3>6. Min(S) <= Min(Z)
      BY <3>3, <3>5
    <3> QED BY <3>4, <3>6 DEF S, Z
  <2>3. ASSUME NEW v \in DOMAIN Plain PROVE Plain'[v].id = Plain[v].id /\ Plain'[v].target = Plain[v].target
    <3>1. v \in DOMAIN Plain' /\ StoredBy(v) # {}
      BY <1>3, <2>1
    <3>2. Min(StoredBy(v)') = Min(StoredBy(v))
      BY <1>1, <2>2, <3>1
    <3> QED BY <1>5, <1>6, <3>1, <3>2
  <2>4. ASSUME e.url \notin DOMAIN Plain PROVE Plain'[e.url].id = e.id /\ Plain'[e.url].target = e.target
    <3>1. StoredBy(e.url) = {}
      BY <1>3, <1>9, <2>4
    <3>2. applied + 1 \in StoredBy(e.url)' /\ \A i \in StoredBy(e.url)' : i = applied + 1
      BY <1>1, <1>9, <3>1
    <3>3. StoredBy(e.url)' \subseteq Nat /\ StoredBy(e.url)' # {}
      BY <3>2
    <3>4. Min(StoredBy(e.url)') \in StoredBy(e.url)'
      BY <3>3, MinIs
    <3>5. Min(StoredBy(e.url)') = applied + 1
      BY <3>2, <3>4
    <3> QED BY <1>2, <1>6, <2>1, <3>5
  <2> QED BY <2>1, <2>3, <2>4 DEF RowStored
<1>10. ASSUME e.verb = "Delete" PROVE RowDropped(Plain, Plain', e.url)
  <2>1. \A v : v \in DOMAIN Plain' <=> v \in DOMAIN Plain /\ v # e.url
    BY <1>1, <1>3, <1>4, <1>10
  <2>2. ASSUME NEW v \in DOMAIN Plain' PROVE Plain'[v].id = Plain[v].id /\ Plain'[v].target = Plain[v].target
    <3>1. v \in DOMAIN Plain /\ StoredBy(v)' = StoredBy(v)
      BY <1>1, <2>1
    <3> QED BY <1>5, <1>6, <3>1
  <2> QED BY <2>1, <2>2 DEF RowDropped
<1> QED BY <1>7, <1>9, <1>10

\* A table is plain after such a step, and what was a shortcut still is one.
LEMMA StoredRefers ==
  ASSUME NEW P, NEW Q, IsPlain(P), NEW u \in Urls, NEW id, NEW t \in Places, u \in Contents <=> t = NoUrl, RowStored(P, Q, u, id, t),
         NEW H, u \in DOMAIN P \/ u \in H, NEW I, I \subseteq H
  PROVE  /\ IsPlain(Q) /\ \A v \in DOMAIN P : Q[v].target = P[v].target
         /\ \A w \in Places : \A r : Shortcut(P, H, w, r) => Shortcut(Q, I, w, r)
         /\ u \notin DOMAIN P => Q[u].target = t /\ Shortcut(Q, I, t, t)
<1>1. IsPlain(Q)
  BY DEF IsPlain, RowStored
<1>2. Within(P, Q) /\ \A v \in DOMAIN Q : v \in DOMAIN P \/ v \in H
  BY DEF Within, RowStored
<1>3. \A w \in Places : \A r : Shortcut(P, H, w, r) => Shortcut(Q, I, w, r)
  BY <1>1, <1>2, RowComes
<1>4. Shortcut(Q, I, t, t)
  BY <1>1, WayIs DEF Shortcut
<1> QED BY <1>1, <1>3, <1>4 DEF RowStored

LEMMA DroppedRefers ==
  ASSUME NEW P, NEW Q, IsPlain(P), NEW u, RowDropped(P, Q, u), NEW H, Gone(P, H), NEW I, I \subseteq H
  PROVE  \A w \in Places : \A r : r # NoUrl /\ Shortcut(P, H, w, r) => Shortcut(Q, I, w, r)
<1>1. IsPlain(Q)
  BY DEF IsPlain, RowDropped
<1>2. Within(Q, P) /\ (\A v \in DOMAIN P : v \in DOMAIN Q \/ v = u) /\ u \notin DOMAIN Q
  BY DEF Within, RowDropped
<1>3. \A w : \A r : Shortcut(Q, H, w, r) => Shortcut(Q, I, w, r)
  BY DEF Shortcut, Lost
<1>4. CASE u \in DOMAIN P
  BY <1>1, <1>2, <1>3, <1>4, RowLeaves
<1>5. CASE u \notin DOMAIN P
  <2>1. Within(P, Q) /\ \A v \in DOMAIN Q : v \in DOMAIN P \/ v \in H
    BY <1>5 DEF Within, RowDropped
  <2> QED BY <1>1, <2>1, RowComes
<1> QED BY <1>4, <1>5
CompressionInv == StoredOnce /\ AsStored /\ RefersAhead

LEMMA ApplyRefers == ASSUME StatusInv, CompressionInv, Apply PROVE CompressionInv'
<1>1. PICK e \in StatusEvents :
           /\ Applying(e)
           /\ \/ e.verb # "Delete" /\ StoreObject(e.url, e.id, e.target, VisOf(e))
                 /\ home' = IF e.verb \in {"Create", "Announce"} THEN home \cup {<<e.user, e.url>>} ELSE home
              \/ e.verb = "Delete" /\ ~Blocked(e.url) /\ DeleteObject(e.url) /\ home' = {h \in home : h[2] # e.url}
           /\ UNCHANGED <<pending, timeline, tx, half, emitted, restarts, rebuiltTo, raced, cast>>
  BY AppliesIs
<1>2. /\ e.verb \in StatusVerbs /\ e.url \in Urls /\ e.target \in Urls \cup {NoUrl} /\ e.user \in Users /\ e.id \in Nat
      /\ SaysWhatItIs(e)
  BY StatusEventParts
<1>3. applied \in Nat /\ applied + 1 \in DOMAIN timeline /\ 1..applied \subseteq DOMAIN timeline
      /\ timeline[applied + 1] = e /\ applied + 1 \notin 1..applied
  BY <1>1 DEF Applying, StatusInv, TopicsTyped
<1>4. StoredOnce'
  BY <1>1 DEF CompressionInv, StoredOnce, OfTheCast
<1>5. /\ IsPlain(Plain) /\ Gone(Plain, Coming) /\ DOMAIN objects = DOMAIN Plain /\ IsStatusTable(objects) /\ PointsAsItShould(objects)
      /\ tx # <<>> => MovesOf(tx[1].refs, objects)
  BY PlainIs DEF StatusInv, CompressionInv, AsStored, TablesTyped, CompressionTyped
<1>6. /\ e.verb # "Delete" /\ e.url \in cast => RowStored(Plain, Plain', e.url, e.id, e.target)
      /\ e.verb = "Delete" => RowDropped(Plain, Plain', e.url)
      /\ Coming' \subseteq Coming
  BY <1>1, <1>3, PlainNow
<1>7. \A w \in DOMAIN Plain : Plain[w].target \in Places
  BY <1>5 DEF IsPlain
<1>8. /\ \A w \in DOMAIN objects : objects[w].id = Plain[w].id
      /\ \A w \in DOMAIN objects : w \notin Contents => Shortcut(Plain, Coming, Plain[w].target, objects[w].target)
      /\ tx # <<>> => \A w \in DOMAIN tx[1].refs : Shortcut(Plain, Coming, Plain[w].target, tx[1].refs[w])
  BY DEF CompressionInv, AsStored, RefersAhead
<1>9. CASE e.verb # "Delete" /\ StoreObject(e.url, e.id, e.target, VisOf(e))
  <2> DEFINE row == [id |-> e.id, target |-> e.target, vis |-> VisOf(e)]
  <2>1. StoredAs(e.url, e.id, e.target, VisOf(e))
    BY <1>9, StoreIs
  <2>2. /\ DOMAIN objects' = DOMAIN objects \cup {e.url} /\ \A v \in DOMAIN objects : objects'[v] = objects[v]
        /\ e.url \notin DOMAIN objects => objects'[e.url] = row
    BY <2>1 DEF StoredAs
  <2>3. e.url \in cast
    BY <1>3, <1>9 DEF CompressionInv, StoredOnce, OfTheCast
  <2>4. e.url \in Contents <=> e.target = NoUrl
    <3>1. e.verb \in {"Create", "Update", "Announce", "Like"}
      BY <1>2, <1>9 DEF StatusVerbs
    <3> QED BY <1>2, <3>1, StatusesAssumption DEF SaysWhatItIs
  <2>5. e.url \in Coming
    <3> SUFFICES ASSUME e.url \notin Contents, NEW i \in 1..applied, Saves(timeline[i]) PROVE timeline[i].url # e.url
      BY <1>2 DEF Coming
    <3>1. Saves(e)
      BY <1>9 DEF Saves
    <3> QED BY <1>3, <3>1 DEF CompressionInv, StoredOnce, Distinct
  <2>6. RowStored(Plain, Plain', e.url, e.id, e.target)
    BY <1>6, <1>9, <2>3
  <2>7. /\ IsPlain(Plain') /\ \A v \in DOMAIN Plain : Plain'[v].target = Plain[v].target
        /\ \A w \in Places : \A r : Shortcut(Plain, Coming, w, r) => Shortcut(Plain', Coming', w, r)
        /\ e.url \notin DOMAIN Plain => Plain'[e.url].target = e.target /\ Shortcut(Plain', Coming', e.target, e.target)
    <3>1. e.target \in Places
      BY <1>2 DEF Places
    <3> QED BY <1>2, <1>5, <1>6, <2>4, <2>5, <2>6, <3>1, StoredRefers
  <2>8. row.id = e.id /\ row.target = e.target
    OBVIOUS
  <2> HIDE DEF row
  <2>9. /\ \A v : v \in DOMAIN Plain' <=> v \in DOMAIN Plain \/ v = e.url
        /\ \A v \in DOMAIN Plain : Plain'[v].id = Plain[v].id
        /\ e.url \notin DOMAIN Plain => Plain'[e.url].id = e.id
    BY <2>6 DEF RowStored
  <2>10. AsStored'
    <3>1. DOMAIN objects' = DOMAIN Plain'
      BY <1>5, <2>2, <2>9
    <3>2. \A v \in DOMAIN objects' : objects'[v].id = Plain'[v].id
      BY <1>5, <1>8, <2>2, <2>8, <2>9
    <3> QED BY <3>1, <3>2 DEF AsStored
  <2>11. \A w \in DOMAIN objects' : w \notin Contents => Shortcut(Plain', Coming', Plain'[w].target, objects'[w].target)
    BY <1>5, <1>7, <1>8, <2>2, <2>7, <2>8
  <2>12. tx' # <<>> => \A w \in DOMAIN tx'[1].refs : Shortcut(Plain', Coming', Plain'[w].target, tx'[1].refs[w])
    BY <1>1, <1>5, <1>7, <1>8, <2>7 DEF MovesOf
  <2> QED BY <1>4, <2>10, <2>11, <2>12 DEF CompressionInv, RefersAhead
<1>10. CASE e.verb = "Delete" /\ ~Blocked(e.url) /\ DeleteObject(e.url)
  <2>1. DOMAIN objects' = DOMAIN objects \ {e.url} /\ \A v \in DOMAIN objects' : objects'[v] = objects[v]
    BY <1>10, DropIs
  <2>2. RowDropped(Plain, Plain', e.url)
    BY <1>6, <1>10
  <2>3. \A w \in Places : \A r : r # NoUrl /\ Shortcut(Plain, Coming, w, r) => Shortcut(Plain', Coming', w, r)
    BY <1>5, <1>6, <2>2, DroppedRefers
  <2>4. /\ \A v : v \in DOMAIN Plain' <=> v \in DOMAIN Plain /\ v # e.url
        /\ \A v \in DOMAIN Plain' : Plain'[v].id = Plain[v].id /\ Plain'[v].target = Plain[v].target
    BY <2>2 DEF RowDropped
  <2>5. AsStored'
    <3>1. DOMAIN objects' = DOMAIN Plain'
      BY <1>5, <2>1, <2>4
    <3>2. \A v \in DOMAIN objects' : objects'[v].id = Plain'[v].id
      BY <1>8, <2>1, <2>4, <3>1
    <3> QED BY <3>1, <3>2 DEF AsStored
  <2>6. \A w \in DOMAIN objects' : w \notin Contents => Shortcut(Plain', Coming', Plain'[w].target, objects'[w].target)
    <3>1. \A w \in DOMAIN objects : w \notin Contents => objects[w].target # NoUrl
      BY <1>5 DEF PointsAsItShould
    <3> QED BY <1>5, <1>7, <1>8, <2>1, <2>3, <2>4, <3>1
  <2>7. tx' # <<>> => \A w \in DOMAIN tx'[1].refs : Shortcut(Plain', Coming', Plain'[w].target, tx'[1].refs[w])
    <3> SUFFICES ASSUME tx # <<>>, NEW w \in DOMAIN tx[1].refs PROVE Shortcut(Plain', Coming', Plain'[w].target, tx[1].refs[w])
      BY <1>1
    <3>1. w \in DOMAIN objects /\ tx[1].refs[w] \in Urls
      BY <1>5 DEF MovesOf
    <3>2. w # e.url
      BY <1>10 DEF Blocked
    <3>3. w \in DOMAIN Plain' /\ Plain'[w].target = Plain[w].target /\ Plain[w].target \in Places /\ tx[1].refs[w] # NoUrl
      BY <1>5, <1>7, <2>4, <3>1, <3>2, StatusesAssumption
    <3> QED BY <1>8, <2>3, <3>3
  <2> QED BY <1>4, <2>5, <2>6, <2>7 DEF CompressionInv, RefersAhead
<1> QED BY <1>1, <1>9, <1>10

\* What a compression gives a row to refer to is on its way.
LEMMA PairRefers ==
  ASSUME NEW P, NEW T, IsPlain(P), IsStatusTable(T), PointsAsItShould(T), DOMAIN T = DOMAIN P, NEW H, Gone(P, H),
         \A w \in DOMAIN T : w \notin Contents => Shortcut(P, H, P[w].target, T[w].target),
         NEW p \in Compressible(T)
  PROVE  \A w \in {p.a, p.b} : Shortcut(P, H, P[w].target, p.ref)
<1> DEFINE a == p.a
           b == p.b
           c == T[b].target
<1>1. /\ a \in DOMAIN T /\ b = T[a].target /\ b \in DOMAIN T /\ c \in DOMAIN T /\ p.ref = NewRef(T, a, b, c)
  BY PairIs DEF IsPair
<1>2. a \notin Contents /\ b \notin Contents
  BY <1>1, PointersAreNotNotes
<1>3. \A w \in DOMAIN P : P[w].target \in Places
  BY DEF IsPlain
<1>4. Shortcut(P, H, P[a].target, b) /\ Shortcut(P, H, P[b].target, c)
  BY <1>1, <1>2
<1> HIDE DEF a, b, c
<1>5. Shortcut(P, H, P[a].target, c)
  BY <1>1, <1>2, <1>3, <1>4, Through
<1>6. CASE T[c].target = NoUrl
  <2>1. p.ref = c
    BY <1>1, <1>6 DEF NewRef
  <2> QED BY <1>4, <1>5, <2>1 DEF a, b
<1>7. CASE T[c].target # NoUrl
  <2> DEFINE d == T[c].target
  <2>1. c \notin Contents
    BY <1>1, <1>7 DEF PointsAsItShould
  <2>2. Shortcut(P, H, P[c].target, d)
    BY <1>1, <2>1
  <2>3. Shortcut(P, H, P[a].target, d) /\ Shortcut(P, H, P[b].target, d)
    BY <1>1, <1>3, <1>4, <1>5, <2>1, <2>2, Through
  <2>4. CASE d = a
    <3>1. p.ref \in {a, b, c}
      <4>1. p.ref = Smallest(T, {a, b, c})
        BY <1>1, <1>7, <2>4 DEF NewRef
      <4> QED BY <1>1, <4>1, SmallestIs
    <3>2. Shortcut(P, H, P[b].target, b)
      BY <1>1, <1>2, <1>3, <1>4, <2>3, <2>4, Through
    <3> QED BY <1>4, <1>5, <2>3, <2>4, <3>1, <3>2 DEF a, b
  <2>5. CASE d # a /\ d = b
    <3>1. p.ref \in {b, c}
      <4>1. p.ref = Smallest(T, {b, c})
        BY <1>1, <1>7, <2>5 DEF NewRef
      <4> QED BY <1>1, <4>1, SmallerIs
    <3> QED BY <1>4, <1>5, <2>3, <2>5, <3>1 DEF a, b
  <2>6. CASE d # a /\ d # b
    <3>1. p.ref = d
      BY <1>1, <1>7, <2>6 DEF NewRef
    <3> QED BY <2>3, <3>1 DEF a, b
  <2> QED BY <2>4, <2>5, <2>6
<1> QED BY <1>6, <1>7

LEMMA CompressRefers == ASSUME StatusInv, CompressionInv, Compress PROVE CompressionInv'
<1>1. PICK picked \in Picks(objects) : \E m \in Moves(objects, picked) :
         tx' = <<[refs |-> m,
                  boosts |-> ValidRows(Moved(objects, m), "announce", {m[u] : u \in DOMAIN m}),
                  reactions |-> ValidRows(Moved(objects, m), "like", {m[u] : u \in DOMAIN m})]>>
  BY DEF Compress
<1>2. PICK m \in Moves(objects, picked) :
         tx' = <<[refs |-> m,
                  boosts |-> ValidRows(Moved(objects, m), "announce", {m[u] : u \in DOMAIN m}),
                  reactions |-> ValidRows(Moved(objects, m), "like", {m[u] : u \in DOMAIN m})]>>
  BY <1>1
<1>3. UNCHANGED <<pending, timeline, applied, objects, half, cast>>
  BY DEF Compress
<1>4. /\ IsPlain(Plain) /\ Gone(Plain, Coming) /\ DOMAIN objects = DOMAIN Plain /\ IsStatusTable(objects) /\ PointsAsItShould(objects)
  BY PlainIs DEF StatusInv, CompressionInv, AsStored, TablesTyped
<1>5. Plain' = Plain /\ Coming' = Coming
  BY <1>3, PlainStays DEF StatusInv, TopicsTyped
<1>6. \A w \in DOMAIN objects : w \notin Contents => Shortcut(Plain, Coming, Plain[w].target, objects[w].target)
  BY DEF CompressionInv, RefersAhead
<1>7. ASSUME NEW w \in DOMAIN m PROVE Shortcut(Plain, Coming, Plain[w].target, m[w])
  <2>1. PICK p \in picked : w \in {p.a, p.b} /\ m[w] = p.ref
    BY MoveIs
  <2>2. p \in Compressible(objects)
    BY PickedIs
  <2>3. \A v \in {p.a, p.b} : Shortcut(Plain, Coming, Plain[v].target, p.ref)
    BY <1>4, <1>6, <2>2, PairRefers
  <2> QED BY <2>1, <2>3
<1>8. tx'[1].refs = m
  BY <1>2
<1>9. RefersAhead'
  BY <1>3, <1>5, <1>6, <1>7, <1>8 DEF RefersAhead
<1> QED BY <1>3, <1>5, <1>9 DEF CompressionInv, StoredOnce, OfTheCast, AsStored

LEMMA CommitRefers == ASSUME StatusInv, CompressionInv, CompressCommits PROVE CompressionInv'
<1> DEFINE m == tx[1].refs
<1>1. tx # <<>> /\ tx' = <<>> /\ objects' = Moved(objects, m) /\ UNCHANGED <<pending, timeline, applied, half, cast>>
  BY DEF CompressCommits
<1>2. IsStatusTable(objects) /\ PointsAsItShould(objects) /\ MovesOf(m, objects)
  BY <1>1 DEF StatusInv, TablesTyped, CompressionTyped
<1>3. \A w \in DOMAIN m : Shortcut(Plain, Coming, Plain[w].target, m[w])
  BY <1>1 DEF CompressionInv, RefersAhead
<1> HIDE DEF m
<1>4. DOMAIN objects' = DOMAIN objects
      /\ \A u \in DOMAIN objects : /\ objects'[u].target = IF u \in DOMAIN m THEN m[u] ELSE objects[u].target
                                   /\ objects'[u].id = objects[u].id
  BY <1>1, <1>2, MovedTyped
<1>5. Plain' = Plain /\ Coming' = Coming
  BY <1>1, PlainStays DEF StatusInv, TopicsTyped
<1>6. AsStored' /\ RefersAhead'
  BY <1>1, <1>3, <1>4, <1>5 DEF CompressionInv, AsStored, RefersAhead
<1> QED BY <1>1, <1>6 DEF CompressionInv, StoredOnce, OfTheCast

\* What is published is not handled yet.
LEMMA PublishRefers ==
  ASSUME StatusInv, CompressionInv, StoredOnce', UNCHANGED <<applied, objects, tx, cast>>,
         timeline' = timeline \/ (\E e : timeline' = Append(timeline, e))
  PROVE  CompressionInv'
<1>1. timeline \in Seq(StatusEvents) /\ applied \in 0..Len(timeline)
  BY DEF StatusInv, TopicsTyped
<1>2. \A i \in 1..applied : timeline'[i] = timeline[i]
  <2>1. Len(timeline) \in Nat
    BY <1>1
  <2> QED BY <1>1, <2>1
<1>3. Plain' = Plain /\ Coming' = Coming
  BY <1>1, <1>2, PlainStays
<1> QED BY <1>3 DEF CompressionInv, AsStored, RefersAhead

LEMMA ReplayRefers == ASSUME StatusInv, CompressionInv, Restart PROVE CompressionInv'
<1>1. applied' = 0 /\ objects' = <<>> /\ tx' = <<>> /\ half' = <<>> /\ UNCHANGED <<pending, timeline, cast>>
  BY DEF Restart
<1>2. \A v : StoredBy(v)' = {}
  BY <1>1 DEF StoredBy
<1>3. DOMAIN Plain' = {}
  BY <1>2 DEF Plain
<1> QED BY <1>1, <1>3 DEF CompressionInv, StoredOnce, OfTheCast, AsStored, RefersAhead

LEMMA CompressionStart == ASSUME StatusesInit PROVE CompressionInv
<1>1. applied = 0 /\ objects = <<>> /\ tx = <<>> /\ half = <<>> /\ pending = <<>> /\ timeline = <<>>
  BY DEF StatusesInit
<1>2. \A v : StoredBy(v) = {}
  BY <1>1 DEF StoredBy
<1>3. DOMAIN Plain = {}
  BY <1>2 DEF Plain
<1> QED BY <1>1, <1>3 DEF CompressionInv, StoredOnce, OfTheCast, Distinct, AsStored, RefersAhead

LEMMA CompressionStep == StatusInv /\ CompressionInv /\ [StatusesNext]_vars => CompressionInv'
<1> SUFFICES ASSUME StatusInv, CompressionInv, [StatusesNext]_vars PROVE CompressionInv'
  OBVIOUS
<1>0. StoredOnce
  BY DEF CompressionInv
<1>1. CASE Apply
  BY <1>1, ApplyRefers
<1>2. CASE Compress
  BY <1>2, CompressRefers
<1>3. CASE CompressCommits
  BY <1>3, CommitRefers
<1>4. CASE Sweep
  <2>1. UNCHANGED <<pending, timeline, applied, objects, half, tx, cast>>
    BY <1>4 DEF Sweep
  <2>2. StoredOnce'
    BY <1>0, <2>1 DEF StoredOnce, OfTheCast
  <2> QED BY <2>1, <2>2, PublishRefers
<1>5. CASE Forward
  <2>1. UNCHANGED <<applied, objects, tx, cast>> /\ \E e : timeline' = Append(timeline, e)
    BY <1>5 DEF Forward
  <2> QED BY <1>0, <1>5, <2>1, ForwardStored, PublishRefers
<1>6. CASE Restart
  BY <1>6, ReplayRefers
<1>7. CASE RemoteCreate \/ RemoteUpdate \/ RemoteAnnounce \/ RemoteLike \/ RemoteDelete
  <2>1. UNCHANGED <<applied, objects, tx, cast>> /\ \E e : timeline' = Append(timeline, e)
    BY <1>7 DEF RemoteCreate, RemoteUpdate, RemoteAnnounce, RemoteLike, RemoteDelete, Incoming
  <2> QED BY <1>0, <1>7, <2>1, RemoteStored, PublishRefers
<1>8. CASE Reblog \/ Unreblog \/ React \/ Reacted \/ Unreact
  <2>1. UNCHANGED <<applied, objects, tx, cast, timeline>>
    BY <1>8 DEF Reblog, Unreblog, React, Reacted, Unreact, Request
  <2> QED BY <1>0, <1>8, <2>1, RequestsStored, PublishRefers
<1>9. CASE UNCHANGED vars
  <2>1. UNCHANGED <<pending, timeline, applied, objects, half, tx, cast>>
    BY <1>9 DEF vars
  <2>2. StoredOnce'
    BY <1>0, <2>1 DEF StoredOnce, OfTheCast
  <2> QED BY <2>1, <2>2, PublishRefers
<1> QED BY <1>1, <1>2, <1>3, <1>4, <1>5, <1>6, <1>7, <1>8, <1>9 DEF StatusesNext

LEMMA NothingIsLost == StatusInv /\ CompressionInv => CompressionKeepsContent
<1> SUFFICES ASSUME StatusInv, CompressionInv PROVE CompressionKeepsContent
  OBVIOUS
<1>1. /\ IsPlain(Plain) /\ Gone(Plain, Coming) /\ DOMAIN objects = DOMAIN Plain /\ IsStatusTable(objects) /\ PointsAsItShould(objects)
  BY PlainIs DEF StatusInv, CompressionInv, AsStored, TablesTyped
<1>2. IsPlain(objects)
  BY <1>1, RowParts DEF IsPlain, PointsAsItShould, Places
<1>3. \A w \in DOMAIN objects : w \notin Contents => Shortcut(Plain, Coming, Plain[w].target, objects[w].target)
  BY DEF CompressionInv, RefersAhead
<1>4. \A u \in DOMAIN objects : objects[u].id = Plain[u].id
  BY DEF CompressionInv, AsStored
<1>5. ASSUME NEW u \in DOMAIN objects PROVE \A k \in Reached(Plain, u) : k \in Contents => k \in Reached(objects, u)
  BY <1>1, <1>2, <1>3, ShortcutsLead
<1>6. ASSUME NEW u \in DOMAIN objects, Picks(objects) = {} PROVE \A k \in Reached(objects, u) : k \in Contents => k = Content(objects, u)
  BY <1>1, <1>6, NothingLeftToCompress
<1> QED BY <1>1, <1>4, <1>5, <1>6 DEF CompressionKeepsContent

-----------------------------------------------------------------------------
(* Boosts and reactions.  Unless an event is projected while a compression
   runs, the rows and counters of a note that is there are what the
   objects amount to: a refresh makes those of the notes it names so, and
   what the others amount to does not change.  A row that a compression
   moves did not refer to a note before, so there is no boost or reaction
   of it; and a row of a boost that is gone is not taken for that of
   another, since its url does not come back. *)
Activities == {timeline[i] : i \in DOMAIN timeline} \cup {pending[i] : i \in DOMAIN pending}
NumberedOnce ==
  /\ \A e \in Activities : e.id <= emitted
  /\ \A e \in Activities : \A f \in Activities : e.id = f.id => e = f

\* Different urls were emitted at different moments.
OfItsMoment(T) == \A u \in DOMAIN T : \A v \in DOMAIN T : T[u].id = T[v].id => u = v

\* The rows of a table of edges: each is of a note, and refers to it while it is there.
RowsAre(T, H, rows) ==
  \A r \in rows : r[2] \in Contents /\ r[1] \notin H /\ (r[1] \in DOMAIN T => T[r[1]].target = r[2])
RowsTrue(T, k, rows) ==
  \A c \in Contents \cap DOMAIN T : \A u \in Urls : <<u, c>> \in rows <=> u \in Valid(T, k, c)
BoostsCounted(T, n) ==
  \A c \in Contents \cap DOMAIN T : c \in DOMAIN n /\ n[c] = Cardinality(Valid(T, "announce", c))
OfEmoji(T, c, emoji) == {l \in Valid(T, "like", c) : EmojiOf[l] = emoji}
ReactionsCounted(T, n) ==
  /\ \A k \in DOMAIN n : k = <<k[1], k[2]>>
  /\ \A k \in DOMAIN n : k[1] \in Contents \cap DOMAIN T =>
       OfEmoji(T, k[1], k[2]) # {} /\ n[k] = Cardinality(OfEmoji(T, k[1], k[2]))
  /\ \A c \in Contents \cap DOMAIN T : \A l \in Valid(T, "like", c) : <<c, EmojiOf[l]>> \in DOMAIN n
EdgesTrue(T, H, E) ==
  /\ RowsAre(T, H, E.boosts) /\ RowsAre(T, H, E.reactions)
  /\ RowsTrue(T, "announce", E.boosts) /\ RowsTrue(T, "like", E.reactions)
  /\ BoostsCounted(T, E.nBoosts) /\ ReactionsCounted(T, E.nReactions)

\* A compression that has not committed moves no row that refers to a note, and nothing
\* has changed since it read what is valid.
GivenTo(m) == {m[u] : u \in DOMAIN m}
MovesToNotes == tx # <<>> => \A u \in DOMAIN tx[1].refs : objects[u].target \notin Contents
ReadAsItIs ==
  tx # <<>> => /\ tx[1].boosts = ValidRows(Moved(objects, tx[1].refs), "announce", GivenTo(tx[1].refs))
               /\ tx[1].reactions = ValidRows(Moved(objects, tx[1].refs), "like", GivenTo(tx[1].refs))

EdgesInv ==
  /\ NumberedOnce /\ IsFiniteSet(DOMAIN objects) /\ OfItsMoment(objects) /\ MovesToNotes
  /\ ~overlapped => EdgesTrue(objects, Coming, edges) /\ ReadAsItIs

-----------------------------------------------------------------------------
\* What is valid: who refers to the note, and is the oldest of his kind.
RefersTo(T, k, c, u) == u \in DOMAIN T /\ Kind(u) = k /\ T[u].target = c
Alike(u, v) == Author[v] = Author[u] /\ EmojiOf[v] = EmojiOf[u]
LEMMA ValidIs ==
  ASSUME NEW T, NEW k, NEW c
  PROVE  \A u : u \in Valid(T, k, c) <=>
           /\ c \in DOMAIN T /\ Kind(c) = "content" /\ RefersTo(T, k, c, u)
           /\ \A v : RefersTo(T, k, c, v) /\ Alike(u, v) => T[u].id <= T[v].id
BY DEF Valid, RefersTo, Alike

LEMMA ValidSame ==
  ASSUME NEW T, NEW U, NEW k, NEW c, c \in DOMAIN T, c \in DOMAIN U,
         \A u : RefersTo(T, k, c, u) <=> RefersTo(U, k, c, u),
         \A u \in DOMAIN T : u \in DOMAIN U => U[u].id = T[u].id
  PROVE  Valid(U, k, c) = Valid(T, k, c)
<1>1. \A u : RefersTo(T, k, c, u) => u \in DOMAIN T /\ u \in DOMAIN U
  BY DEF RefersTo
<1>2. \A u : u \in Valid(U, k, c) <=> u \in Valid(T, k, c)
  BY <1>1, ValidIs
<1>3. Valid(U, k, c) \subseteq Valid(T, k, c) /\ Valid(T, k, c) \subseteq Valid(U, k, c)
  BY <1>2
<1> QED BY <1>3

\* Who is valid is the only one of his kind.
LEMMA OldestIsOne ==
  ASSUME NEW T, IsStatusTable(T), OfItsMoment(T), NEW k, NEW c, NEW u \in Valid(T, k, c), NEW v \in Valid(T, k, c), Alike(u, v)
  PROVE  u = v
<1>1. RefersTo(T, k, c, u) /\ RefersTo(T, k, c, v) /\ Alike(v, u)
  BY ValidIs DEF Alike
<1>2. T[u].id <= T[v].id /\ T[v].id <= T[u].id
  BY <1>1, ValidIs
<1>3. u \in DOMAIN T /\ v \in DOMAIN T
  BY <1>1 DEF RefersTo
<1>4. T[u].id \in Nat /\ T[v].id \in Nat
  BY <1>3, RowParts
<1> QED BY <1>2, <1>3, <1>4 DEF OfItsMoment

LEMMA ValidRowsAre ==
  ASSUME NEW T, NEW k, NEW S
  PROVE  /\ \A v \in ValidRows(T, k, S) : v = <<v[1], v[2]>> /\ v[2] \in S /\ v[1] \in Valid(T, k, v[2])
         /\ \A c \in S : \A u \in Valid(T, k, c) : <<u, c>> \in ValidRows(T, k, S)
BY DEF ValidRows

\* What the notes that a refresh does not name amount to does not change.
SameButFor(S, T, U, k) ==
  \A c \in Contents \cap DOMAIN U : c \notin S => c \in DOMAIN T /\ Valid(U, k, c) = Valid(T, k, c)

LEMMA RowsRefreshed ==
  ASSUME NEW T, NEW U, IsStatusTable(U), OfItsMoment(U), NEW k, k # "content", NEW H, NEW S,
         \A u \in DOMAIN U : u \notin Contents => u \notin H,
         NEW rows, rows \subseteq Urls \X Urls, RowsAre(U, H, rows), RowsTrue(T, k, rows), SameButFor(S, T, U, k)
  PROVE  /\ RowsAre(U, H, Edges(rows, ValidRows(U, k, S), S))
         /\ RowsTrue(U, k, Edges(rows, ValidRows(U, k, S), S))
<1> DEFINE valid == ValidRows(U, k, S)
           kept == {r \in rows : r[2] \in S => r[1] \in {v[1] : v \in valid}}
           new == Edges(rows, valid, S)
<1>1. /\ \A v \in valid : v = <<v[1], v[2]>> /\ v[2] \in S /\ v[1] \in Valid(U, k, v[2])
      /\ \A c \in S : \A u \in Valid(U, k, c) : <<u, c>> \in valid
  BY ValidRowsAre
<1>2. \A r : r \in new <=>
        \/ r \in kept
        \/ r \in valid /\ \A q \in kept :
             /\ q[1] # r[1]
             /\ <<Author[q[1]], EmojiOf[q[1]], q[2]>> # <<Author[r[1]], EmojiOf[r[1]], r[2]>>
  BY DEF Edges
<1>3. \A r \in kept : r \in rows /\ r = <<r[1], r[2]>> /\ (r[2] \in S => \E v \in valid : v[1] = r[1])
  OBVIOUS
<1>4. \A r \in rows : r[2] \notin S => r \in kept
  OBVIOUS
<1> HIDE DEF kept, valid, new
<1>5. \A v \in valid : /\ v[1] \in DOMAIN U /\ Kind(v[1]) = k /\ U[v[1]].target = v[2] /\ v[2] \in DOMAIN U
                       /\ Kind(v[2]) = "content"
  BY <1>1, ValidIs DEF RefersTo
<1>6. \A v \in valid : v[1] \in Urls /\ v[2] \in Contents /\ v[1] \notin Contents
  BY <1>5, KindIs DEF IsStatusTable
\* A row that was kept of a note that is named is valid.
<1>7. ASSUME NEW r \in kept, r[2] \in S PROVE r \in valid
  <2>1. PICK v \in valid : v[1] = r[1]
    BY <1>3, <1>7
  <2>2. U[v[1]].target = v[2] /\ U[r[1]].target = r[2]
    BY <1>3, <1>5, <2>1 DEF RowsAre
  <2> QED BY <1>1, <1>3, <2>1, <2>2
<1>8. RowsAre(U, H, new)
  BY <1>2, <1>3, <1>5, <1>6 DEF RowsAre
\* And a valid one is kept or enters.
<1>9. ASSUME NEW v \in valid PROVE v \in new
  <2> SUFFICES ASSUME v \notin new PROVE FALSE
    OBVIOUS
  <2>1. v \notin kept
    BY <1>2
  <2>2. PICK q \in kept : q[1] = v[1] \/ (Alike(v[1], q[1]) /\ q[2] = v[2])
    BY <1>2 DEF Alike
  <2>3. q[2] = v[2]
    <3>1. CASE q[1] = v[1]
      BY <1>3, <1>5, <2>2, <3>1 DEF RowsAre
    <3> QED BY <2>2, <3>1
  <2>4. q \in valid
    BY <1>1, <1>7, <2>3
  <2>5. q[1] \in Valid(U, k, v[2]) /\ v[1] \in Valid(U, k, v[2])
    BY <1>1, <2>3, <2>4
  <2>6. q[1] = v[1]
    BY <2>2, <2>5, OldestIsOne
  <2> QED BY <1>1, <1>3, <2>1, <2>3, <2>6
<1>10. ASSUME NEW c \in Contents, c \in DOMAIN U, NEW u \in Urls
       PROVE  <<u, c>> \in new <=> u \in Valid(U, k, c)
  <2>1. CASE c \in S
    <3>1. <<u, c>> \in new => <<u, c>> \in valid
      BY <1>2, <1>7, <2>1
    <3>2. <<u, c>> \in valid => u \in Valid(U, k, c)
      BY <1>1
    <3>3. u \in Valid(U, k, c) => <<u, c>> \in new
      BY <1>1, <1>9, <2>1
    <3> QED BY <3>1, <3>2, <3>3
  <2>2. CASE c \notin S
    <3>1. <<u, c>> \notin valid
      BY <1>1, <2>2
    <3>2. <<u, c>> \in new <=> <<u, c>> \in rows
      BY <1>2, <1>3, <1>4, <2>2, <3>1
    <3>3. c \in DOMAIN T /\ Valid(U, k, c) = Valid(T, k, c)
      BY <1>10, <2>2 DEF SameButFor
    <3>4. <<u, c>> \in rows <=> u \in Valid(T, k, c)
      BY <3>3 DEF RowsTrue
    <3> QED BY <3>2, <3>3, <3>4
  <2> QED BY <2>1, <2>2
<1>11. RowsTrue(U, k, new)
  BY <1>10 DEF RowsTrue
<1> QED BY <1>8, <1>11 DEF new, valid

-----------------------------------------------------------------------------
LEMMA BoostsRecounted ==
  ASSUME NEW T, NEW U, IsFiniteSet(DOMAIN U), NEW S, SameButFor(S, T, U, "announce"), NEW n, BoostsCounted(T, n), Contents \subseteq Urls
  PROVE  BoostsCounted(U, Over(CountedBoosts(U, S, ValidRows(U, "announce", S)), n))
<1> DEFINE valid == ValidRows(U, "announce", S)
           counted == CountedBoosts(U, S, valid)
<1>1. /\ \A v \in valid : v = <<v[1], v[2]>> /\ v[2] \in S /\ v[1] \in Valid(U, "announce", v[2])
      /\ \A c \in S : \A u \in Valid(U, "announce", c) : <<u, c>> \in valid
  BY ValidRowsAre
<1>2. /\ \A c : c \in DOMAIN counted <=> c \in S /\ c \in DOMAIN U /\ Kind(c) = "content"
      /\ \A c \in DOMAIN counted : counted[c] = Cardinality({v \in valid : v[2] = c})
  BY DEF CountedBoosts
<1> HIDE DEF valid, counted
<1>3. /\ DOMAIN Over(counted, n) = DOMAIN counted \cup DOMAIN n
      /\ \A c \in DOMAIN counted : Over(counted, n)[c] = counted[c]
      /\ \A c \in DOMAIN n : c \notin DOMAIN counted => Over(counted, n)[c] = n[c]
  BY OverIs
<1>4. ASSUME NEW c \in Contents, c \in DOMAIN U
      PROVE  c \in DOMAIN Over(counted, n) /\ Over(counted, n)[c] = Cardinality(Valid(U, "announce", c))
  <2>1. CASE c \in S
    <3>1. c \in DOMAIN counted
      BY <1>2, <1>4, <2>1, KindIs
    <3>2. PairedWith({v \in valid : v[2] = c}, Valid(U, "announce", c), c)
      BY <1>1, <2>1 DEF PairedWith
    <3>3. Valid(U, "announce", c) \in SUBSET DOMAIN U
      BY ValidIs DEF RefersTo
    <3>4. IsFiniteSet(Valid(U, "announce", c))
      BY <3>3, FS_Subset
    <3>5. Cardinality({v \in valid : v[2] = c}) = Cardinality(Valid(U, "announce", c))
      BY <3>2, <3>4, PairsCounted
    <3> QED BY <1>2, <1>3, <3>1, <3>5
  <2>2. CASE c \notin S
    <3>1. c \in DOMAIN T /\ Valid(U, "announce", c) = Valid(T, "announce", c)
      BY <1>4, <2>2 DEF SameButFor
    <3>2. c \in DOMAIN n /\ n[c] = Cardinality(Valid(T, "announce", c))
      BY <3>1 DEF BoostsCounted
    <3> QED BY <1>2, <1>3, <2>2, <3>1, <3>2
  <2> QED BY <2>1, <2>2
<1> QED BY <1>4 DEF BoostsCounted, counted, valid

LEMMA ReactionsRecounted ==
  ASSUME NEW T, NEW U, IsFiniteSet(DOMAIN U), NEW S, SameButFor(S, T, U, "like"), NEW n, ReactionsCounted(T, n)
  PROVE  ReactionsCounted(U, Over(CountedReactions(ValidRows(U, "like", S)), StayingReactions(n, S, ValidRows(U, "like", S))))
<1> DEFINE valid == ValidRows(U, "like", S)
           counted == CountedReactions(valid)
           stay == StayingReactions(n, S, valid)
           sum == Over(counted, stay)
<1>1. /\ \A v \in valid : v = <<v[1], v[2]>> /\ v[2] \in S /\ v[1] \in Valid(U, "like", v[2])
      /\ \A c \in S : \A u \in Valid(U, "like", c) : <<u, c>> \in valid
  BY ValidRowsAre
<1>2. /\ \A q : q \in DOMAIN counted <=> \E v \in valid : q = <<v[2], EmojiOf[v[1]]>>
      /\ \A q \in DOMAIN counted : counted[q] = Cardinality({v \in valid : <<v[2], EmojiOf[v[1]]>> = q})
  BY DEF CountedReactions, EmojiCounted
<1>3. /\ \A q : q \in DOMAIN stay <=> q \in DOMAIN n /\ (q[1] \in S => q \in EmojiCounted(valid))
      /\ \A q \in DOMAIN stay : stay[q] = n[q]
  BY DEF StayingReactions
<1>4. \A q : q \in EmojiCounted(valid) <=> q \in DOMAIN counted
  BY <1>2 DEF EmojiCounted
<1>5. /\ DOMAIN sum = DOMAIN counted \cup DOMAIN stay
      /\ \A q \in DOMAIN counted : sum[q] = counted[q]
      /\ \A q \in DOMAIN stay : q \notin DOMAIN counted => sum[q] = stay[q]
  BY OverIs
<1> HIDE DEF valid, counted, stay, sum
<1>6. \A q \in DOMAIN sum : q = <<q[1], q[2]>>
  <2>1. \A q \in DOMAIN counted : q = <<q[1], q[2]>>
    BY <1>2
  <2>2. \A q \in DOMAIN stay : q = <<q[1], q[2]>>
    BY <1>3 DEF ReactionsCounted
  <2> QED BY <1>5, <2>1, <2>2
<1>7. ASSUME NEW q \in DOMAIN sum, q[1] \in Contents \cap DOMAIN U
      PROVE  OfEmoji(U, q[1], q[2]) # {} /\ sum[q] = Cardinality(OfEmoji(U, q[1], q[2]))
  <2>1. CASE q[1] \in S
    <3>1. q \in DOMAIN counted
      BY <1>3, <1>4, <1>5, <2>1
    <3>2. PICK v \in valid : q = <<v[2], EmojiOf[v[1]]>>
      BY <1>2, <3>1
    <3>3. v[1] \in OfEmoji(U, q[1], q[2])
      BY <1>1, <3>2 DEF OfEmoji
    <3>4. PairedWith({w \in valid : <<w[2], EmojiOf[w[1]]>> = q}, OfEmoji(U, q[1], q[2]), q[1])
      <4> DEFINE W == {w \in valid : <<w[2], EmojiOf[w[1]]>> = q}
      <4>1. ASSUME NEW w \in W PROVE w[1] \in OfEmoji(U, q[1], q[2]) /\ w[2] = q[1] /\ w = <<w[1], w[2]>>
        BY <1>1 DEF OfEmoji
      <4>2. ASSUME NEW w, w[1] \in OfEmoji(U, q[1], q[2]), w[2] = q[1], w = <<w[1], w[2]>> PROVE w \in W
        <5>1. w[1] \in Valid(U, "like", q[1]) /\ EmojiOf[w[1]] = q[2]
          BY <4>2 DEF OfEmoji
        <5>2. w \in valid
          BY <1>1, <2>1, <4>2, <5>1
        <5> QED BY <1>6, <4>2, <5>1, <5>2
      <4> QED BY <4>1, <4>2 DEF PairedWith
    <3>5. OfEmoji(U, q[1], q[2]) \in SUBSET DOMAIN U
      BY ValidIs DEF RefersTo, OfEmoji
    <3>6. IsFiniteSet(OfEmoji(U, q[1], q[2]))
      BY <3>5, FS_Subset
    <3>7. Cardinality({w \in valid : <<w[2], EmojiOf[w[1]]>> = q}) = Cardinality(OfEmoji(U, q[1], q[2]))
      BY <3>4, <3>6, PairsCounted
    <3> QED BY <1>2, <1>5, <3>1, <3>3, <3>7
  <2>2. CASE q[1] \notin S
    <3>1. q \notin DOMAIN counted
      BY <1>1, <1>2, <2>2
    <3>2. q \in DOMAIN n /\ sum[q] = n[q]
      BY <1>3, <1>5, <3>1
    <3>3. q[1] \in DOMAIN T /\ Valid(U, "like", q[1]) = Valid(T, "like", q[1])
      BY <1>7, <2>2 DEF SameButFor
    <3>4. OfEmoji(T, q[1], q[2]) # {} /\ n[q] = Cardinality(OfEmoji(T, q[1], q[2]))
      BY <1>7, <3>2, <3>3 DEF ReactionsCounted
    <3>5. OfEmoji(U, q[1], q[2]) = OfEmoji(T, q[1], q[2])
      BY <3>3 DEF OfEmoji
    <3> QED BY <3>2, <3>4, <3>5
  <2> QED BY <2>1, <2>2
<1>8. ASSUME NEW c \in Contents \cap DOMAIN U, NEW l \in Valid(U, "like", c) PROVE <<c, EmojiOf[l]>> \in DOMAIN sum
  <2>1. CASE c \in S
    BY <1>1, <1>2, <1>5, <2>1
  <2>2. CASE c \notin S
    <3>1. c \in DOMAIN T /\ Valid(U, "like", c) = Valid(T, "like", c)
      BY <2>2 DEF SameButFor
    <3>2. <<c, EmojiOf[l]>> \in DOMAIN n
      BY <3>1 DEF ReactionsCounted
    <3> QED BY <1>3, <1>5, <2>2, <3>2
  <2> QED BY <2>1, <2>2
<1> QED BY <1>6, <1>7, <1>8 DEF ReactionsCounted, sum, counted, stay, valid

\* A refresh makes the edges true.
LEMMA EdgesStayTrue ==
  ASSUME NEW T, NEW U, IsStatusTable(U), OfItsMoment(U), IsFiniteSet(DOMAIN U), NEW H, NEW S,
         \A u \in DOMAIN U : u \notin Contents => u \notin H,
         SameButFor(S, T, U, "announce"), SameButFor(S, T, U, "like"),
         NEW E, E.boosts \subseteq Urls \X Urls, E.reactions \subseteq Urls \X Urls,
         RowsAre(U, H, E.boosts), RowsAre(U, H, E.reactions), NEW G, EdgesTrue(T, G, E)
  PROVE  EdgesTrue(U, H, RefreshEdges(U, E, S))
<1> DEFINE F == RefreshEdges(U, E, S)
<1>1. /\ F.boosts = Edges(E.boosts, ValidRows(U, "announce", S), S)
      /\ F.reactions = Edges(E.reactions, ValidRows(U, "like", S), S)
      /\ F.nBoosts = Over(CountedBoosts(U, S, ValidRows(U, "announce", S)), E.nBoosts)
      /\ F.nReactions = Over(CountedReactions(ValidRows(U, "like", S)), StayingReactions(E.nReactions, S, ValidRows(U, "like", S)))
  BY BoostsRefreshed, ReactionsRefreshed DEF RefreshEdges
<1> HIDE DEF F
<1>2. /\ RowsTrue(T, "announce", E.boosts) /\ RowsTrue(T, "like", E.reactions)
      /\ BoostsCounted(T, E.nBoosts) /\ ReactionsCounted(T, E.nReactions) /\ Contents \subseteq Urls
  BY DEF EdgesTrue, Urls
<1>3. RowsAre(U, H, F.boosts) /\ RowsTrue(U, "announce", F.boosts)
  BY <1>1, <1>2, RowsRefreshed
<1>4. RowsAre(U, H, F.reactions) /\ RowsTrue(U, "like", F.reactions)
  BY <1>1, <1>2, RowsRefreshed
<1>5. BoostsCounted(U, F.nBoosts)
  BY <1>1, <1>2, BoostsRecounted
<1>6. ReactionsCounted(U, F.nReactions)
  BY <1>1, <1>2, ReactionsRecounted
<1> QED BY <1>3, <1>4, <1>5, <1>6 DEF EdgesTrue, F

-----------------------------------------------------------------------------
\* What is shown below a note is what the objects amount to.

LEMMA ShownBelow == StatusInv /\ EdgesInv => CountsAreTrue
<1> SUFFICES ASSUME StatusInv, EdgesInv, ~overlapped, NEW c \in Contents \cap DOMAIN objects
             PROVE  /\ BoostedBy(c) = Valid(objects, "announce", c) /\ ReactedBy(c) = Valid(objects, "like", c)
                    /\ BoostStats(c, Me) = [n |-> Cardinality(Valid(objects, "announce", c)),
                                            mine |-> \E v \in Valid(objects, "announce", c) : Author[v] = Me]
                    /\ ReactionBreakdown(c, Me) =
                         {[emoji |-> EmojiOf[l],
                           n |-> Cardinality({v \in Valid(objects, "like", c) : EmojiOf[v] = EmojiOf[l]}),
                           mine |-> \E v \in {v \in Valid(objects, "like", c) : EmojiOf[v] = EmojiOf[l]} : Author[v] = Me] :
                            l \in Valid(objects, "like", c)}
  BY DEF CountsAreTrue
<1> DEFINE B == Valid(objects, "announce", c)
           L == Valid(objects, "like", c)
<1>1. /\ EdgesTrue(objects, Coming, edges) /\ IsFiniteSet(DOMAIN objects) /\ IsStatusTable(objects)
      /\ edges.boosts \subseteq Urls \X Urls /\ edges.reactions \subseteq Urls \X Urls
  BY DEF EdgesInv, StatusInv, TablesTyped
<1>2. B \in SUBSET DOMAIN objects /\ L \in SUBSET DOMAIN objects /\ DOMAIN objects \subseteq Urls
  BY <1>1, ValidIs DEF RefersTo, IsStatusTable
<1>3. /\ \A u \in Urls : <<u, c>> \in edges.boosts <=> u \in B
      /\ \A u \in Urls : <<u, c>> \in edges.reactions <=> u \in L
  BY <1>1 DEF EdgesTrue, RowsTrue
<1>4. c \in DOMAIN edges.nBoosts /\ edges.nBoosts[c] = Cardinality(B)
  BY <1>1 DEF EdgesTrue, BoostsCounted
<1>5. /\ \A r \in edges.boosts : r = <<r[1], r[2]>> /\ r[1] \in Urls
      /\ \A r \in edges.reactions : r = <<r[1], r[2]>> /\ r[1] \in Urls
  BY <1>1
<1>6. /\ \A q \in DOMAIN edges.nReactions : q = <<q[1], q[2]>>
      /\ \A q \in DOMAIN edges.nReactions : q[1] = c =>
           OfEmoji(objects, c, q[2]) # {} /\ edges.nReactions[q] = Cardinality(OfEmoji(objects, c, q[2]))
      /\ \A l \in L : <<c, EmojiOf[l]>> \in DOMAIN edges.nReactions
  BY <1>1 DEF EdgesTrue, ReactionsCounted
<1>7. \A e : OfEmoji(objects, c, e) = {v \in L : EmojiOf[v] = e}
  BY DEF OfEmoji
<1> HIDE DEF B, L
<1>8. BoostedBy(c) = B
  <2>1. \A u : u \in BoostedBy(c) <=> \E r \in edges.boosts : r[2] = c /\ r[1] \in DOMAIN objects /\ u = r[1]
    BY DEF BoostedBy
  <2>2. \A u \in B : <<u, c>> \in edges.boosts /\ u \in DOMAIN objects
    BY <1>2, <1>3
  <2>3. ASSUME NEW u \in BoostedBy(c) PROVE u \in B
    <3>1. PICK r \in edges.boosts : r[2] = c /\ u = r[1]
      BY <2>1
    <3>2. r = <<u, c>> /\ u \in Urls
      BY <1>5, <3>1
    <3> QED BY <1>3, <3>2
  <2>4. ASSUME NEW u \in B PROVE u \in BoostedBy(c)
    <3>1. <<u, c>> \in edges.boosts /\ <<u, c>>[1] = u /\ <<u, c>>[2] = c /\ u \in DOMAIN objects
      BY <2>2
    <3> QED BY <2>1, <3>1
  <2> QED BY <2>3, <2>4
<1>9. ReactedBy(c) = L
  <2>1. \A u : u \in ReactedBy(c) <=> \E r \in edges.reactions : r[2] = c /\ r[1] \in DOMAIN objects /\ u = r[1]
    BY DEF ReactedBy
  <2>2. \A u \in L : <<u, c>> \in edges.reactions /\ u \in DOMAIN objects
    BY <1>2, <1>3
  <2>3. ASSUME NEW u \in ReactedBy(c) PROVE u \in L
    <3>1. PICK r \in edges.reactions : r[2] = c /\ u = r[1]
      BY <2>1
    <3>2. r = <<u, c>> /\ u \in Urls
      BY <1>5, <3>1
    <3> QED BY <1>3, <3>2
  <2>4. ASSUME NEW u \in L PROVE u \in ReactedBy(c)
    <3>1. <<u, c>> \in edges.reactions /\ <<u, c>>[1] = u /\ <<u, c>>[2] = c /\ u \in DOMAIN objects
      BY <2>2
    <3> QED BY <2>1, <3>1
  <2> QED BY <2>3, <2>4
<1>10. BoostStats(c, Me) = [n |-> Cardinality(B), mine |-> \E v \in B : Author[v] = Me]
  <2>1. (\E r \in edges.boosts : r[2] = c /\ Author[r[1]] = Me) <=> (\E v \in B : Author[v] = Me)
    <3>1. ASSUME NEW r \in edges.boosts, r[2] = c, Author[r[1]] = Me PROVE \E v \in B : Author[v] = Me
      BY <1>3, <1>5, <3>1
    <3>2. ASSUME NEW v \in B, Author[v] = Me PROVE \E r \in edges.boosts : r[2] = c /\ Author[r[1]] = Me
      <4>1. <<v, c>> \in edges.boosts /\ <<v, c>>[1] = v /\ <<v, c>>[2] = c
        BY <1>2, <1>3
      <4> QED BY <3>2, <4>1
    <3> QED BY <3>1, <3>2
  <2> QED BY <1>4, <2>1 DEF BoostStats
<1>11. ASSUME NEW e
       PROVE  (\E r \in edges.reactions : r[2] = c /\ EmojiOf[r[1]] = e /\ Author[r[1]] = Me)
              <=> (\E v \in {v \in L : EmojiOf[v] = e} : Author[v] = Me)
  <2>1. ASSUME NEW r \in edges.reactions, r[2] = c, EmojiOf[r[1]] = e, Author[r[1]] = Me
        PROVE  \E v \in {v \in L : EmojiOf[v] = e} : Author[v] = Me
    <3>1. r[1] \in {v \in L : EmojiOf[v] = e}
      BY <1>3, <1>5, <2>1
    <3> QED BY <2>1, <3>1
  <2>2. ASSUME NEW v \in {v \in L : EmojiOf[v] = e}, Author[v] = Me
        PROVE  \E r \in edges.reactions : r[2] = c /\ EmojiOf[r[1]] = e /\ Author[r[1]] = Me
    <3>1. <<v, c>> \in edges.reactions /\ <<v, c>>[1] = v /\ <<v, c>>[2] = c /\ EmojiOf[v] = e
      BY <1>2, <1>3
    <3> QED BY <2>2, <3>1
  <2> QED BY <2>1, <2>2
<1> DEFINE Shows(e) == [emoji |-> e, n |-> Cardinality({v \in L : EmojiOf[v] = e}),
                        mine |-> \E v \in {v \in L : EmojiOf[v] = e} : Author[v] = Me]
<1>12. ReactionBreakdown(c, Me) = {Shows(EmojiOf[l]) : l \in L}
  <2> DEFINE K == {q \in DOMAIN edges.nReactions : q[1] = c /\ edges.nReactions[q] > 0}
             Entry(q) == [emoji |-> q[2], n |-> edges.nReactions[q],
                          mine |-> \E r \in edges.reactions : r[2] = c /\ EmojiOf[r[1]] = q[2] /\ Author[r[1]] = Me]
  <2>1. ReactionBreakdown(c, Me) = {Entry(q) : q \in K}
    BY DEF ReactionBreakdown
  <2>2. ASSUME NEW q \in K PROVE Entry(q) = Shows(q[2])
    <3>1. edges.nReactions[q] = Cardinality({v \in L : EmojiOf[v] = q[2]})
      BY <1>6, <1>7
    <3> QED BY <1>11, <3>1
  <2>3. ASSUME NEW q \in K PROVE \E l \in L : EmojiOf[l] = q[2]
    BY <1>6, <1>7
  <2>4. ASSUME NEW l \in L PROVE <<c, EmojiOf[l]>> \in K
    <3> DEFINE q == <<c, EmojiOf[l]>>
               V == {v \in L : EmojiOf[v] = EmojiOf[l]}
    <3>1. q \in DOMAIN edges.nReactions /\ q[1] = c /\ q[2] = EmojiOf[l] /\ edges.nReactions[q] = Cardinality(V)
      BY <1>6, <1>7
    <3>2. V \in SUBSET DOMAIN objects /\ l \in V
      BY <1>2
    <3>3. IsFiniteSet(V) /\ V # {}
      BY <1>1, <3>2, FS_Subset
    <3>4. Cardinality(V) \in Nat /\ Cardinality(V) # 0
      BY <3>3, FS_EmptySet, FS_CardinalityType
    <3>5. Cardinality(V) > 0
      BY <3>4
    <3> QED BY <3>1, <3>5
  <2> HIDE DEF Shows, Entry, K
  <2>5. \A l \in L : <<c, EmojiOf[l]>>[2] = EmojiOf[l]
    OBVIOUS
  <2>6. {Entry(q) : q \in K} \subseteq {Shows(EmojiOf[l]) : l \in L}
    BY <2>2, <2>3
  <2>7. {Shows(EmojiOf[l]) : l \in L} \subseteq {Entry(q) : q \in K}
    BY <2>2, <2>4, <2>5
  <2> QED BY <2>1, <2>6, <2>7
<1> QED BY <1>8, <1>9, <1>10, <1>12 DEF B, L

-----------------------------------------------------------------------------
\* What is projected.
NotComing(T, H) == \A u \in DOMAIN T : u \notin Contents => u \notin H

LEMMA MomentOf ==
  ASSUME StatusInv, AsStored, NEW u \in DOMAIN objects
  PROVE  \E f \in Activities : f.url = u /\ f.id = objects[u].id
<1>1. applied \in Nat /\ u \in DOMAIN Plain /\ objects[u].id = Plain[u].id /\ 1..applied \subseteq DOMAIN timeline
  BY DEF AsStored, StatusInv, TopicsTyped
<1>2. FirstOf(u) \in 1..applied /\ timeline[FirstOf(u)].url = u /\ Plain[u].id = timeline[FirstOf(u)].id
  BY <1>1, FirstStoredIs
<1> QED BY <1>1, <1>2 DEF Activities

LEMMA StoreEdges ==
  ASSUME StatusInv, StatusInv', CompressionInv, EdgesInv, NEW e \in StatusEvents, Applying(e), e.verb # "Delete",
         StoredAs(e.url, e.id, e.target, VisOf(e)), UNCHANGED timeline
  PROVE  /\ IsFiniteSet(DOMAIN objects') /\ OfItsMoment(objects')
         /\ EdgesTrue(objects, Coming, edges) => EdgesTrue(objects', Coming', edges')
<1> DEFINE u == e.url
           S == Touched(u, e.target)
<1>1. /\ DOMAIN objects' = DOMAIN objects \cup {u} /\ \A v \in DOMAIN objects : objects'[v] = objects[v]
      /\ u \notin DOMAIN objects => objects'[u] = [id |-> e.id, target |-> e.target, vis |-> VisOf(e)]
      /\ edges' = RefreshEdges(objects', edges, S)
  BY DEF StoredAs
<1>2. u \notin DOMAIN objects => objects'[u].id = e.id /\ objects'[u].target = e.target
  BY <1>1
<1>3. /\ applied \in Nat /\ applied + 1 \in DOMAIN timeline /\ 1..applied \subseteq DOMAIN timeline
      /\ timeline[applied + 1] = e /\ applied + 1 \notin 1..applied /\ applied' = applied + 1 /\ applied + 1 \in 1..(applied + 1)
      /\ 1..applied \subseteq 1..(applied + 1)
  BY DEF Applying, StatusInv, TopicsTyped
<1>4. u \in Urls /\ e.target \in Urls \cup {NoUrl} /\ NoUrl \notin Urls /\ Contents \subseteq Urls
  BY StatusEventParts, StatusesAssumption DEF Urls
<1>5. /\ IsStatusTable(objects) /\ IsStatusTable(objects') /\ DOMAIN objects = DOMAIN Plain
      /\ edges.boosts \subseteq Urls \X Urls /\ edges.reactions \subseteq Urls \X Urls
      /\ NotComing(objects, Coming)
  BY PlainIs DEF StatusInv, TablesTyped, CompressionInv, AsStored, NotComing, Gone
<1> HIDE DEF u
<1>6. u \in Coming
  <2> SUFFICES ASSUME u \notin Contents, NEW i \in 1..applied, Saves(timeline[i]) PROVE timeline[i].url # u
    BY <1>4 DEF Coming
  <2>1. Saves(e)
    BY DEF Saves, u
  <2> QED BY <1>3, <2>1 DEF CompressionInv, StoredOnce, Distinct, u
<1>7. Coming' \subseteq Coming
  BY <1>3 DEF Coming
<1>8. NotComing(objects', Coming')
  <2> SUFFICES ASSUME NEW w \in DOMAIN objects', w \notin Contents PROVE w \notin Coming'
    BY DEF NotComing
  <2>1. CASE w = u
    <3>1. Saves(timeline'[applied + 1]) /\ timeline'[applied + 1].url = u /\ applied + 1 \in 1..applied'
      BY <1>3, <2>1 DEF Saves, u
    <3> QED BY <2>1, <3>1 DEF Coming
  <2>2. CASE w \in DOMAIN objects
    BY <1>5, <1>7, <2>2 DEF NotComing
  <2> QED BY <1>1, <2>1, <2>2
<1>9. IsFiniteSet(DOMAIN objects')
  BY <1>1, FS_AddElement DEF EdgesInv
<1>10. OfItsMoment(objects')
  <2>1. ASSUME u \notin DOMAIN objects, NEW v \in DOMAIN objects PROVE objects[v].id # e.id
    <3>1. PICK f \in Activities : f.url = v /\ f.id = objects[v].id
      BY MomentOf DEF CompressionInv
    <3>2. e \in Activities
      BY <1>3 DEF Activities
    <3>3. f # e
      BY <2>1, <3>1 DEF u
    <3> QED BY <3>1, <3>2, <3>3 DEF EdgesInv, NumberedOnce
  <2>2. CASE u \in DOMAIN objects
    BY <1>1, <2>2 DEF EdgesInv, OfItsMoment
  <2>3. CASE u \notin DOMAIN objects
    BY <1>1, <1>2, <2>1, <2>3 DEF EdgesInv, OfItsMoment
  <2> QED BY <2>2, <2>3
<1>11. ASSUME EdgesTrue(objects, Coming, edges) PROVE EdgesTrue(objects', Coming', edges')
  <2>1. ASSUME NEW k, NEW c \in Contents \cap DOMAIN objects', c \notin S
        PROVE  c \in DOMAIN objects /\ Valid(objects', k, c) = Valid(objects, k, c)
    <3>1. c \in DOMAIN objects
      BY <1>1, <2>1 DEF Touched
    <3>2. e.target # c
      BY <1>4, <2>1 DEF Touched
    <3>3. \A w : RefersTo(objects, k, c, w) <=> RefersTo(objects', k, c, w)
      BY <1>1, <1>2, <3>2 DEF RefersTo
    <3> QED BY <1>1, <3>1, <3>3, ValidSame
  <2>2. SameButFor(S, objects, objects', "announce") /\ SameButFor(S, objects, objects', "like")
    BY <2>1 DEF SameButFor
  <2>3. RowsAre(objects', Coming', edges.boosts) /\ RowsAre(objects', Coming', edges.reactions)
    BY <1>1, <1>6, <1>7, <1>11 DEF EdgesTrue, RowsAre
  <2> HIDE DEF S
  <2> QED BY <1>1, <1>5, <1>8, <1>9, <1>10, <1>11, <2>2, <2>3, EdgesStayTrue DEF NotComing
<1> QED BY <1>9, <1>10, <1>11

LEMMA DropEdges ==
  ASSUME StatusInv, StatusInv', CompressionInv, EdgesInv, NEW e \in StatusEvents, Applying(e), DeleteObject(e.url), UNCHANGED timeline
  PROVE  /\ IsFiniteSet(DOMAIN objects') /\ OfItsMoment(objects')
         /\ EdgesTrue(objects, Coming, edges) => EdgesTrue(objects', Coming', edges')
<1> DEFINE u == e.url
           S == IF u \in DOMAIN objects THEN {objects[u].target} \ {NoUrl} ELSE {}
<1>1. /\ DOMAIN objects' = DOMAIN objects \ {u} /\ \A v \in DOMAIN objects' : objects'[v] = objects[v]
      /\ edges' = RefreshEdges(objects', edges, S)
  BY DropIs
<1>2. applied \in Nat /\ applied' = applied + 1 /\ 1..applied \subseteq 1..(applied + 1)
  BY DEF Applying, StatusInv, TopicsTyped
<1>3. NoUrl \notin Urls /\ Contents \subseteq Urls
  BY StatusesAssumption DEF Urls
<1>4. /\ IsStatusTable(objects') /\ DOMAIN objects = DOMAIN Plain
      /\ edges.boosts \subseteq Urls \X Urls /\ edges.reactions \subseteq Urls \X Urls
      /\ NotComing(objects, Coming)
  BY PlainIs DEF StatusInv, TablesTyped, CompressionInv, AsStored, NotComing, Gone
<1> HIDE DEF u
<1>5. Coming' \subseteq Coming
  BY <1>2 DEF Coming
<1>6. NotComing(objects', Coming')
  BY <1>1, <1>4, <1>5 DEF NotComing
<1>7. IsFiniteSet(DOMAIN objects') /\ OfItsMoment(objects')
  BY <1>1, FS_RemoveElement DEF EdgesInv, OfItsMoment
<1>8. ASSUME EdgesTrue(objects, Coming, edges) PROVE EdgesTrue(objects', Coming', edges')
  <2>1. ASSUME NEW k, NEW c \in Contents \cap DOMAIN objects', c \notin S
        PROVE  c \in DOMAIN objects /\ Valid(objects', k, c) = Valid(objects, k, c)
    <3>1. c \in DOMAIN objects /\ c # NoUrl
      BY <1>1, <1>3
    <3>2. u \in DOMAIN objects => objects[u].target # c
      BY <2>1, <3>1
    <3>3. \A w : RefersTo(objects, k, c, w) <=> RefersTo(objects', k, c, w)
      BY <1>1, <3>2 DEF RefersTo
    <3>4. \A w \in DOMAIN objects : w \in DOMAIN objects' => objects'[w].id = objects[w].id
      BY <1>1
    <3> QED BY <3>1, <3>3, <3>4, ValidSame
  <2>2. SameButFor(S, objects, objects', "announce") /\ SameButFor(S, objects, objects', "like")
    BY <2>1 DEF SameButFor
  <2>3. RowsAre(objects', Coming', edges.boosts) /\ RowsAre(objects', Coming', edges.reactions)
    BY <1>1, <1>5, <1>8 DEF EdgesTrue, RowsAre
  <2> HIDE DEF S
  <2> QED BY <1>1, <1>4, <1>6, <1>7, <1>8, <2>2, <2>3, EdgesStayTrue DEF NotComing
<1> QED BY <1>7, <1>8

LEMMA SameNumbers ==
  ASSUME NumberedOnce, UNCHANGED <<timeline, pending, emitted>> PROVE NumberedOnce' /\ Activities' = Activities
<1>1. Activities' = Activities
  BY DEF Activities
<1> QED BY <1>1 DEF NumberedOnce

LEMMA ApplyEdges == ASSUME StatusInv, StatusInv', CompressionInv, EdgesInv, Apply PROVE EdgesInv'
<1>1. PICK e \in StatusEvents :
           /\ Applying(e)
           /\ \/ e.verb # "Delete" /\ StoreObject(e.url, e.id, e.target, VisOf(e))
                 /\ home' = IF e.verb \in {"Create", "Announce"} THEN home \cup {<<e.user, e.url>>} ELSE home
              \/ e.verb = "Delete" /\ ~Blocked(e.url) /\ DeleteObject(e.url) /\ home' = {h \in home : h[2] # e.url}
           /\ UNCHANGED <<pending, timeline, tx, half, emitted, restarts, rebuiltTo, raced, cast>>
  BY AppliesIs
<1>2. overlapped' = (overlapped \/ tx # <<>>)
  BY DEF Apply
<1>3. /\ IsFiniteSet(DOMAIN objects') /\ OfItsMoment(objects')
      /\ EdgesTrue(objects, Coming, edges) => EdgesTrue(objects', Coming', edges')
  <2>1. CASE e.verb # "Delete" /\ StoreObject(e.url, e.id, e.target, VisOf(e))
    <3>1. StoredAs(e.url, e.id, e.target, VisOf(e))
      BY <2>1, StoreIs
    <3> QED BY <1>1, <2>1, <3>1, StoreEdges
  <2>2. CASE e.verb = "Delete" /\ DeleteObject(e.url)
    BY <1>1, <2>2, DropEdges
  <2> QED BY <1>1, <2>1, <2>2
<1>4. NumberedOnce'
  BY <1>1, SameNumbers DEF EdgesInv
<1>5. MovesToNotes'
  <2> SUFFICES ASSUME tx # <<>>, NEW u \in DOMAIN tx[1].refs PROVE objects'[u].target \notin Contents
    BY <1>1 DEF MovesToNotes
  <2>1. u \in DOMAIN objects /\ objects[u].target \notin Contents
    BY DEF StatusInv, CompressionTyped, MovesOf, EdgesInv, MovesToNotes
  <2>2. objects'[u] = objects[u]
    <3>1. CASE StoreObject(e.url, e.id, e.target, VisOf(e))
      BY <2>1, <3>1, StoreIs DEF StoredAs
    <3>2. CASE ~Blocked(e.url) /\ DeleteObject(e.url)
      <4>1. u # e.url
        BY <3>2 DEF Blocked
      <4> QED BY <2>1, <3>2, <4>1, DropIs
    <3> QED BY <1>1, <3>1, <3>2
  <2> QED BY <2>1, <2>2
<1>6. ~overlapped' => EdgesTrue(objects', Coming', edges') /\ ReadAsItIs'
  BY <1>1, <1>2, <1>3 DEF EdgesInv, ReadAsItIs
<1> QED BY <1>3, <1>4, <1>5, <1>6 DEF EdgesInv

\* A row that refers to a note has nothing to be compressed.
LEMMA PairsToNotes ==
  ASSUME NEW T, IsStatusTable(T), PointsAsItShould(T), NEW p \in Compressible(T), NEW u \in {p.a, p.b}, p.ref # T[u].target
  PROVE  T[u].target \notin Contents
<1>1. /\ p.a \in DOMAIN T /\ p.b = T[p.a].target /\ p.b \in DOMAIN T /\ T[p.b].target \in DOMAIN T
      /\ p.ref = NewRef(T, p.a, p.b, T[p.b].target)
  BY PairIs DEF IsPair
<1>2. p.b \notin Contents
  BY <1>1, PointersAreNotNotes
<1>3. T[p.b].target \in Contents => p.ref = T[p.b].target
  BY <1>1 DEF NewRef, PointsAsItShould
<1> QED BY <1>1, <1>2, <1>3

LEMMA CompressEdges == ASSUME StatusInv, CompressionInv, EdgesInv, Compress PROVE EdgesInv'
<1>1. PICK picked \in Picks(objects) : \E m \in Moves(objects, picked) :
         tx' = <<[refs |-> m,
                  boosts |-> ValidRows(Moved(objects, m), "announce", {m[u] : u \in DOMAIN m}),
                  reactions |-> ValidRows(Moved(objects, m), "like", {m[u] : u \in DOMAIN m})]>>
  BY DEF Compress
<1>2. PICK m \in Moves(objects, picked) :
         tx' = <<[refs |-> m,
                  boosts |-> ValidRows(Moved(objects, m), "announce", {m[u] : u \in DOMAIN m}),
                  reactions |-> ValidRows(Moved(objects, m), "like", {m[u] : u \in DOMAIN m})]>>
  BY <1>1
<1>3. UNCHANGED <<pending, timeline, applied, objects, edges, emitted, overlapped, cast>>
  BY DEF Compress
<1>4. Plain' = Plain /\ Coming' = Coming
  BY <1>3, PlainStays DEF StatusInv, TopicsTyped
<1>5. tx'[1].refs = m /\ tx'[1].boosts = ValidRows(Moved(objects, m), "announce", GivenTo(m))
      /\ tx'[1].reactions = ValidRows(Moved(objects, m), "like", GivenTo(m))
  BY <1>2 DEF GivenTo
<1>6. ASSUME NEW u \in DOMAIN m PROVE objects[u].target \notin Contents
  <2>1. PICK p \in picked : u \in {p.a, p.b} /\ p.ref # objects[u].target
    BY MoveIs
  <2>2. p \in Compressible(objects)
    BY PickedIs
  <2> QED BY <2>1, <2>2, PairsToNotes DEF StatusInv, TablesTyped
<1>7. MovesToNotes' /\ ReadAsItIs'
  BY <1>3, <1>5, <1>6 DEF MovesToNotes, ReadAsItIs
<1>8. NumberedOnce'
  BY <1>3, SameNumbers DEF EdgesInv
<1> QED BY <1>3, <1>4, <1>7, <1>8 DEF EdgesInv

LEMMA CommitEdges == ASSUME StatusInv, StatusInv', CompressionInv, EdgesInv, CompressCommits PROVE EdgesInv'
<1> DEFINE m == tx[1].refs
           S == GivenTo(m)
<1>1. /\ tx # <<>> /\ tx' = <<>> /\ objects' = Moved(objects, m)
      /\ edges' = RefreshReactions(RefreshBoosts(objects', edges, tx[1].boosts, S), tx[1].reactions, S)
      /\ UNCHANGED <<pending, timeline, applied, emitted, overlapped, cast>>
  BY DEF CompressCommits, GivenTo
<1>2. /\ IsStatusTable(objects) /\ PointsAsItShould(objects) /\ MovesOf(m, objects) /\ IsStatusTable(objects')
      /\ edges.boosts \subseteq Urls \X Urls /\ edges.reactions \subseteq Urls \X Urls
      /\ DOMAIN objects = DOMAIN Plain /\ Gone(Plain, Coming)
  BY <1>1, PlainIs DEF StatusInv, TablesTyped, CompressionTyped, CompressionInv, AsStored
<1>3. \A u \in DOMAIN m : objects[u].target \notin Contents
  BY <1>1 DEF EdgesInv, MovesToNotes
<1>4. ~overlapped => edges' = RefreshEdges(objects', edges, S)
  BY <1>1 DEF EdgesInv, ReadAsItIs, RefreshEdges
<1>5. \A u \in DOMAIN m : m[u] \in S
  BY DEF GivenTo
<1> HIDE DEF m, S
<1>6. DOMAIN objects' = DOMAIN objects
      /\ \A u \in DOMAIN objects : /\ objects'[u].target = IF u \in DOMAIN m THEN m[u] ELSE objects[u].target
                                   /\ objects'[u].id = objects[u].id
  BY <1>1, <1>2, MovedTyped
<1>7. Plain' = Plain /\ Coming' = Coming
  BY <1>1, PlainStays DEF StatusInv, TopicsTyped
<1>8. IsFiniteSet(DOMAIN objects') /\ OfItsMoment(objects')
  BY <1>6 DEF EdgesInv, OfItsMoment
<1>9. NotComing(objects', Coming')
  BY <1>2, <1>6, <1>7 DEF NotComing, Gone
<1>10. ASSUME ~overlapped PROVE EdgesTrue(objects', Coming', edges')
  <2>0. EdgesTrue(objects, Coming, edges)
    BY <1>10 DEF EdgesInv
  <2>1. ASSUME NEW k, NEW c \in Contents \cap DOMAIN objects', c \notin S
        PROVE  c \in DOMAIN objects /\ Valid(objects', k, c) = Valid(objects, k, c)
    <3>1. \A w : RefersTo(objects, k, c, w) <=> RefersTo(objects', k, c, w)
      BY <1>3, <1>5, <1>6, <2>1 DEF RefersTo
    <3> QED BY <1>6, <3>1, ValidSame
  <2>2. SameButFor(S, objects, objects', "announce") /\ SameButFor(S, objects, objects', "like")
    BY <2>1 DEF SameButFor
  <2>3. RowsAre(objects', Coming', edges.boosts) /\ RowsAre(objects', Coming', edges.reactions)
    <3>1. ASSUME NEW rows, RowsAre(objects, Coming, rows) PROVE RowsAre(objects', Coming', rows)
      BY <1>3, <1>6, <1>7, <3>1 DEF RowsAre
    <3> QED BY <2>0, <3>1 DEF EdgesTrue
  <2> QED BY <1>2, <1>4, <1>8, <1>9, <1>10, <2>0, <2>2, <2>3, EdgesStayTrue DEF NotComing
<1>11. NumberedOnce' /\ MovesToNotes' /\ ReadAsItIs'
  BY <1>1, SameNumbers DEF EdgesInv, MovesToNotes, ReadAsItIs
<1> QED BY <1>1, <1>8, <1>10, <1>11 DEF EdgesInv

LEMMA SweepEdges == ASSUME StatusInv, EdgesInv, Sweep PROVE EdgesInv'
<1>1. UNCHANGED <<pending, timeline, applied, objects, tx, emitted, overlapped, cast>>
  BY DEF Sweep
<1>2. /\ \A r : r \in edges'.boosts <=> r \in edges.boosts /\ r[2] \in DOMAIN objects
      /\ \A r : r \in edges'.reactions <=> r \in edges.reactions /\ r[2] \in DOMAIN objects
      /\ \A c : c \in DOMAIN edges'.nBoosts <=> c \in DOMAIN edges.nBoosts /\ c \in DOMAIN objects
      /\ \A c \in DOMAIN edges'.nBoosts : edges'.nBoosts[c] = edges.nBoosts[c]
      /\ \A q : q \in DOMAIN edges'.nReactions <=> q \in DOMAIN edges.nReactions /\ q[1] \in DOMAIN objects
      /\ \A q \in DOMAIN edges'.nReactions : edges'.nReactions[q] = edges.nReactions[q]
  BY DEF Sweep
<1>3. Plain' = Plain /\ Coming' = Coming
  BY <1>1, PlainStays DEF StatusInv, TopicsTyped
<1>4. ASSUME EdgesTrue(objects, Coming, edges) PROVE EdgesTrue(objects, Coming, edges')
  <2>1. RowsAre(objects, Coming, edges'.boosts) /\ RowsAre(objects, Coming, edges'.reactions)
    BY <1>2, <1>4 DEF EdgesTrue, RowsAre
  <2>2. RowsTrue(objects, "announce", edges'.boosts) /\ RowsTrue(objects, "like", edges'.reactions)
    <3>1. \A c \in Contents \cap DOMAIN objects : \A u : <<u, c>>[2] \in DOMAIN objects
      OBVIOUS
    <3> QED BY <1>2, <1>4, <3>1 DEF EdgesTrue, RowsTrue
  <2>3. BoostsCounted(objects, edges'.nBoosts)
    BY <1>2, <1>4 DEF EdgesTrue, BoostsCounted
  <2>4. ReactionsCounted(objects, edges'.nReactions)
    <3>1. \A c \in Contents \cap DOMAIN objects : \A l : <<c, EmojiOf[l]>>[1] \in DOMAIN objects
      OBVIOUS
    <3> QED BY <1>2, <1>4, <3>1 DEF EdgesTrue, ReactionsCounted
  <2> QED BY <2>1, <2>2, <2>3, <2>4 DEF EdgesTrue
<1>5. NumberedOnce' /\ MovesToNotes' /\ (ReadAsItIs => ReadAsItIs')
  BY <1>1, SameNumbers DEF EdgesInv, MovesToNotes, ReadAsItIs
<1> QED BY <1>1, <1>3, <1>4, <1>5 DEF EdgesInv

LEMMA ReplayEdges == ASSUME EdgesInv, Restart PROVE EdgesInv'
<1>1. objects' = <<>> /\ edges' = NoEdges /\ tx' = <<>> /\ UNCHANGED <<pending, timeline, emitted, cast>>
  BY DEF Restart
<1>2. DOMAIN objects' = {} /\ IsFiniteSet(DOMAIN objects')
  BY <1>1, FS_EmptySet
<1>3. EdgesTrue(objects', Coming', edges')
  BY <1>1, <1>2 DEF EdgesTrue, NoEdges, RowsAre, RowsTrue, BoostsCounted, ReactionsCounted
<1>4. NumberedOnce' /\ MovesToNotes' /\ ReadAsItIs' /\ OfItsMoment(objects')
  BY <1>1, <1>2, SameNumbers DEF EdgesInv, MovesToNotes, ReadAsItIs, OfItsMoment
<1> QED BY <1>2, <1>3, <1>4 DEF EdgesInv

-----------------------------------------------------------------------------
\* What is published.
InSeq(s, f) == \E i \in DOMAIN s : f = s[i]
LEMMA ActivitiesAre == \A f : f \in Activities <=> InSeq(timeline, f) \/ InSeq(pending, f)
BY DEF Activities, InSeq

LEMMA AppendedAre ==
  ASSUME NEW s \in Seq(StatusEvents), NEW e \in StatusEvents
  PROVE  \A f : InSeq(Append(s, e), f) <=> InSeq(s, f) \/ f = e
<1>1. Len(s) \in Nat /\ DOMAIN s = 1..Len(s) /\ DOMAIN Append(s, e) = 1..(Len(s) + 1)
      /\ Append(s, e)[Len(s) + 1] = e /\ \A i \in DOMAIN s : Append(s, e)[i] = s[i]
  OBVIOUS
<1>2. \A i \in 1..(Len(s) + 1) : i \in 1..Len(s) \/ i = Len(s) + 1
  BY <1>1
<1>3. Len(s) + 1 \in 1..(Len(s) + 1) /\ \A i \in 1..Len(s) : i \in 1..(Len(s) + 1)
  BY <1>1
<1> HIDE DEF InSeq
<1>4. ASSUME NEW f, InSeq(Append(s, e), f) PROVE InSeq(s, f) \/ f = e
  BY <1>1, <1>2, <1>4 DEF InSeq
<1>5. ASSUME NEW f, InSeq(s, f) \/ f = e PROVE InSeq(Append(s, e), f)
  BY <1>1, <1>3, <1>5 DEF InSeq
<1> QED BY <1>4, <1>5

AddedNow(e) ==
  /\ e.id = emitted + 1 /\ emitted' = emitted + 1
  /\ \A f : f \in Activities' <=> f \in Activities \/ f = e

LEMMA ComesNow ==
  ASSUME StatusInv, NEW e \in StatusEvents, e.id = emitted + 1, Incoming(e) PROVE AddedNow(e)
<1>1. timeline' = Append(timeline, e) /\ pending' = pending /\ emitted' = emitted + 1 /\ timeline \in Seq(StatusEvents)
  BY DEF Incoming, StatusInv, TopicsTyped
<1>2. \A f : InSeq(timeline', f) <=> InSeq(timeline, f) \/ f = e
  BY <1>1, AppendedAre
<1>3. \A f : f \in Activities' <=> InSeq(timeline', f) \/ InSeq(pending', f)
  BY DEF Activities, InSeq
<1> QED BY <1>1, <1>2, <1>3, ActivitiesAre DEF AddedNow

LEMMA IsOwnNow ==
  ASSUME StatusInv, NEW e \in StatusEvents, e.id = emitted + 1, Own(e), timeline' = timeline PROVE AddedNow(e)
<1>1. pending' = Append(pending, e) /\ emitted' = emitted + 1 /\ pending \in Seq(StatusEvents)
  BY DEF Own, StatusInv, TopicsTyped
<1>2. \A f : InSeq(pending', f) <=> InSeq(pending, f) \/ f = e
  BY <1>1, AppendedAre
<1>3. \A f : f \in Activities' <=> InSeq(timeline', f) \/ InSeq(pending', f)
  BY DEF Activities, InSeq
<1> QED BY <1>1, <1>2, <1>3, ActivitiesAre DEF AddedNow

LEMMA MovedOn == ASSUME StatusInv, Forward PROVE Activities' = Activities
<1>1. pending # <<>> /\ timeline' = Append(timeline, Head(pending)) /\ pending' = Tail(pending)
      /\ pending \in Seq(StatusEvents) /\ timeline \in Seq(StatusEvents)
  BY DEF Forward, StatusInv, TopicsTyped
<1>2. 1 \in DOMAIN pending /\ Head(pending) = pending[1] /\ Head(pending) \in StatusEvents
  BY <1>1
<1>3. \A f : InSeq(timeline', f) <=> InSeq(timeline, f) \/ f = pending[1]
  BY <1>1, <1>2, AppendedAre
<1>4. \A f : InSeq(pending, f) <=> InSeq(pending', f) \/ f = pending[1]
  <2>1. Len(pending) \in Nat /\ Len(pending) >= 1 /\ DOMAIN pending = 1..Len(pending) /\ DOMAIN pending' = 1..(Len(pending) - 1)
    BY <1>1
  <2>2. \A i \in DOMAIN pending' : i + 1 \in DOMAIN pending /\ pending'[i] = pending[i + 1]
    BY <1>1
  <2>3. \A i \in DOMAIN pending : i = 1 \/ (i - 1 \in DOMAIN pending' /\ pending[i] = pending'[i - 1])
    BY <1>1, <2>1
  <2>4. ASSUME NEW f, InSeq(pending, f) PROVE InSeq(pending', f) \/ f = pending[1]
    BY <2>3, <2>4 DEF InSeq
  <2>5. ASSUME NEW f, InSeq(pending', f) \/ f = pending[1] PROVE InSeq(pending, f)
    BY <1>2, <2>2, <2>5 DEF InSeq
  <2> QED BY <2>4, <2>5
<1>5. \A f : f \in Activities' <=> InSeq(timeline', f) \/ InSeq(pending', f)
  BY DEF Activities, InSeq
<1>6. \A f : f \in Activities' <=> f \in Activities
  BY <1>3, <1>4, <1>5, ActivitiesAre
<1> QED BY <1>6

LEMMA NumberedNow ==
  ASSUME StatusInv, NumberedOnce, NEW e \in StatusEvents, AddedNow(e) PROVE NumberedOnce'
<1>1. emitted \in Nat /\ \A f \in Activities : f.id \in Nat
  <2>1. Activities \subseteq StatusEvents
    BY DEF StatusInv, TopicsTyped, Activities
  <2> QED BY <2>1, StatusEventParts DEF StatusInv, TopicsTyped
<1>2. \A f \in Activities : f.id <= emitted /\ f.id <= emitted + 1 /\ f.id # emitted + 1
  BY <1>1 DEF NumberedOnce
<1> QED BY <1>1, <1>2 DEF NumberedOnce, AddedNow

\* What comes from others, and what a request publishes.
LEMMA RemoteIs ==
  ASSUME StatusInv, RemoteCreate \/ RemoteUpdate \/ RemoteAnnounce \/ RemoteLike \/ RemoteDelete
  PROVE  \E e \in StatusEvents : Author[e.url] # Me /\ e.id = emitted + 1 /\ Incoming(e)
<1>0. emitted \in Nat /\ Me \in Users /\ Contents \subseteq Urls /\ Announces \subseteq Urls /\ Likes \subseteq Urls /\ NoUrl \notin Urls
  BY StatusesAssumption DEF StatusInv, TopicsTyped, Urls
<1>1. CASE RemoteCreate
  <2>1. PICK c \in Contents \cap cast, user \in Users : Author[c] # Me /\ (c \in Direct => user \in Recipients[c]) /\ Incoming(Event("Create", c, NoUrl, user))
    BY <1>1 DEF RemoteCreate
  <2> DEFINE e == Event("Create", c, NoUrl, user)
  <2>2. e \in StatusEvents /\ e.url = c /\ e.id = emitted + 1
    BY <1>0, <2>1, EventIs DEF StatusVerbs
  <2> QED BY <2>1, <2>2
<1>2. CASE RemoteUpdate
  <2>1. PICK c \in Contents \cap cast : Author[c] # Me /\ Incoming(Event("Update", c, NoUrl, Me))
    BY <1>2 DEF RemoteUpdate
  <2> DEFINE e == Event("Update", c, NoUrl, Me)
  <2>2. e \in StatusEvents /\ e.url = c /\ e.id = emitted + 1
    BY <1>0, <2>1, EventIs DEF StatusVerbs
  <2> QED BY <2>1, <2>2
<1>3. CASE RemoteAnnounce
  <2>1. PICK a \in Fresh(Announces), t \in (Contents \cup Announces) \cap cast : Author[a] # Me /\ Incoming(Event("Announce", a, t, Me))
    BY <1>3 DEF RemoteAnnounce
  <2> DEFINE e == Event("Announce", a, t, Me)
  <2>2. a \in Announces
    BY FreshIs
  <2>3. e \in StatusEvents /\ e.url = a /\ e.id = emitted + 1
    BY <1>0, <2>1, <2>2, EventIs DEF StatusVerbs
  <2> QED BY <2>1, <2>3
<1>4. CASE RemoteLike
  <2>1. PICK l \in Fresh(Likes), t \in (Contents \cup Announces) \cap cast : Author[l] # Me /\ Incoming(Event("Like", l, t, Me))
    BY <1>4 DEF RemoteLike
  <2> DEFINE e == Event("Like", l, t, Me)
  <2>2. l \in Likes
    BY FreshIs
  <2>3. e \in StatusEvents /\ e.url = l /\ e.id = emitted + 1
    BY <1>0, <2>1, <2>2, EventIs DEF StatusVerbs
  <2> QED BY <2>1, <2>3
<1>5. CASE RemoteDelete
  <2>1. PICK u \in Used : Author[u] # Me /\ Incoming(Event("Delete", u, NoUrl, Me))
    BY <1>5 DEF RemoteDelete
  <2> DEFINE e == Event("Delete", u, NoUrl, Me)
  <2>2. e \in StatusEvents /\ e.url = u /\ e.id = emitted + 1
    BY <1>0, <2>1, UsedIs, EventIs DEF StatusVerbs
  <2> QED BY <2>1, <2>2
<1> QED BY <1>1, <1>2, <1>3, <1>4, <1>5

Undoes(e) == e.verb = "Delete" /\ half = <<>> /\ half' = <<>>
SaysOf(e, c) ==
  /\ Request(c) /\ half' = <<>> /\ e.target = c
  /\ (e.verb = "Announce" /\ BoostOf(Me, c) = {}) \/ (e.verb = "Like" /\ OwnReaction(Me, c) = {})
Exchanges(e, c) ==
  Request(c) /\ e.verb = "Delete" /\ e.url \in OwnReaction(Me, c) /\ half' # <<>> /\ half'[1].target = c
Completes(e) ==
  half # <<>> /\ half' = <<>> /\ e.verb = "Like" /\ e.target = half[1].target /\ raced' = raced
Requested(e) ==
  /\ e.id = emitted + 1 /\ Own(e) /\ Author[e.url] = Me /\ (raced => raced')
  /\ UNCHANGED <<timeline, applied, objects, edges, tx, overlapped, cast>>
  /\ \/ Undoes(e) \/ Completes(e)
     \/ \E c \in Contents \cap DOMAIN objects : SaysOf(e, c) \/ Exchanges(e, c)

LEMMA OwnEdgeMine ==
  ASSUME StatusInv, NEW c, NEW a, a \in BoostOf(Me, c) \/ a \in OwnReaction(Me, c) PROVE a \in Urls /\ Author[a] = Me
BY DEF StatusInv, TablesTyped, BoostOf, OwnReaction

LEMMA UndoIs ==
  ASSUME StatusInv, NEW a, a \in Urls /\ Author[a] = Me, NEW c, Request(c), Own(Event("Delete", a, NoUrl, Me)),
         half' = half \/ (half' # <<>> /\ half'[1].target = c /\ a \in OwnReaction(Me, c) /\ c \in Contents /\ c \in DOMAIN objects)
  PROVE  \E e \in StatusEvents : Requested(e)
<1> DEFINE e == Event("Delete", a, NoUrl, Me)
<1>1. emitted \in Nat /\ Me \in Users /\ "Delete" \in StatusVerbs
  BY StatusesAssumption DEF StatusInv, TopicsTyped, StatusVerbs
<1>2. e \in StatusEvents /\ e.verb = "Delete" /\ e.url = a /\ e.id = emitted + 1
  BY <1>1, EventIs
<1>3. Own(e) /\ half = <<>> /\ (raced => raced') /\ UNCHANGED <<timeline, applied, objects, edges, tx, overlapped, cast>>
  BY DEF Request
<1> HIDE DEF e
<1>4. Undoes(e) \/ (c \in Contents \cap DOMAIN objects /\ Exchanges(e, c))
  BY <1>2, <1>3 DEF Undoes, Exchanges
<1> QED BY <1>2, <1>3, <1>4 DEF Requested

LEMMA SayIs ==
  ASSUME StatusInv, NEW verb \in {"Announce", "Like"}, NEW a \in Urls, Author[a] = Me,
         verb = "Announce" => a \in Announces, verb = "Like" => a \in Likes,
         NEW c \in Contents \cap DOMAIN objects, Request(c), Own(Event(verb, a, c, Me)), half' = half,
         verb = "Announce" => BoostOf(Me, c) = {}, verb = "Like" => OwnReaction(Me, c) = {}
  PROVE  \E e \in StatusEvents : Requested(e)
<1> DEFINE e == Event(verb, a, c, Me)
<1>1. emitted \in Nat /\ Me \in Users /\ verb \in StatusVerbs /\ c \in Urls /\ c # NoUrl
  BY StatusesAssumption DEF StatusInv, TopicsTyped, StatusVerbs, Urls
<1>2. e \in StatusEvents /\ e.verb = verb /\ e.url = a /\ e.target = c /\ e.id = emitted + 1
  BY <1>1, EventIs
<1>3. Own(e) /\ half = <<>> /\ (raced => raced') /\ UNCHANGED <<timeline, applied, objects, edges, tx, overlapped, cast>>
  BY DEF Request
<1> HIDE DEF e
<1>4. SaysOf(e, c)
  BY <1>2, <1>3 DEF SaysOf
<1> QED BY <1>2, <1>3, <1>4 DEF Requested

LEMMA RequestIs ==
  ASSUME StatusInv, StoredOnce, Reblog \/ Unreblog \/ React \/ Reacted \/ Unreact
  PROVE  \E e \in StatusEvents : Requested(e)
<1>0. IsStatusTable(objects) /\ Announces \subseteq Urls /\ Likes \subseteq Urls
  BY DEF StatusInv, TablesTyped, Urls
<1>1. CASE Reblog
  <2>1. PICK u \in DOMAIN objects, a \in Fresh(Announces) :
          /\ Request(Shown(u, Me)) /\ Author[a] = Me /\ BoostOf(Me, Shown(u, Me)) = {}
          /\ Own(Event("Announce", a, Shown(u, Me), Me)) /\ half' = half
    BY <1>1 DEF Reblog
  <2>2. a \in Announces /\ a \in Urls /\ Shown(u, Me) \in Contents \cap DOMAIN objects
    BY <1>0, <2>1, FreshIs, ShownIs DEF Request
  <2> QED BY <2>1, <2>2, SayIs
<1>2. CASE Unreblog
  <2>1. PICK u \in DOMAIN objects : \E a \in BoostOf(Me, Shown(u, Me)) :
             Request(Shown(u, Me)) /\ Own(Event("Delete", a, NoUrl, Me)) /\ half' = half
    BY <1>2 DEF Unreblog
  <2>2. PICK a \in BoostOf(Me, Shown(u, Me)) : Request(Shown(u, Me)) /\ Own(Event("Delete", a, NoUrl, Me)) /\ half' = half
    BY <2>1
  <2>3. a \in Urls /\ Author[a] = Me
    BY OwnEdgeMine
  <2> QED BY <2>2, <2>3, UndoIs
<1>3. CASE Unreact
  <2>1. PICK u \in DOMAIN objects : \E a \in OwnReaction(Me, Shown(u, Me)) :
             Request(Shown(u, Me)) /\ Own(Event("Delete", a, NoUrl, Me)) /\ half' = half
    BY <1>3 DEF Unreact
  <2>2. PICK a \in OwnReaction(Me, Shown(u, Me)) : Request(Shown(u, Me)) /\ Own(Event("Delete", a, NoUrl, Me)) /\ half' = half
    BY <2>1
  <2>3. a \in Urls /\ Author[a] = Me
    BY OwnEdgeMine
  <2> QED BY <2>2, <2>3, UndoIs
<1>4. CASE React
  <2>1. PICK u \in DOMAIN objects, l \in Fresh(Likes) :
          /\ Request(Shown(u, Me)) /\ Author[l] = Me
          /\ \/ OwnReaction(Me, Shown(u, Me)) = {} /\ Own(Event("Like", l, Shown(u, Me), Me)) /\ half' = half
             \/ \E own \in OwnReaction(Me, Shown(u, Me)) :
                  Own(Event("Delete", own, NoUrl, Me)) /\ half' = <<[url |-> l, target |-> Shown(u, Me)]>>
    BY <1>4 DEF React
  <2>2. l \in Likes /\ l \in Urls /\ Shown(u, Me) \in Contents \cap DOMAIN objects
    BY <1>0, <2>1, FreshIs, ShownIs DEF Request
  <2>3. CASE OwnReaction(Me, Shown(u, Me)) = {} /\ Own(Event("Like", l, Shown(u, Me), Me)) /\ half' = half
    BY <2>1, <2>2, <2>3, SayIs
  <2>4. CASE \E own \in OwnReaction(Me, Shown(u, Me)) :
                  Own(Event("Delete", own, NoUrl, Me)) /\ half' = <<[url |-> l, target |-> Shown(u, Me)]>>
    <3>1. PICK own \in OwnReaction(Me, Shown(u, Me)) :
                  Own(Event("Delete", own, NoUrl, Me)) /\ half' = <<[url |-> l, target |-> Shown(u, Me)]>>
      BY <2>4
    <3>2. own \in Urls /\ Author[own] = Me
      BY OwnEdgeMine
    <3>3. half' # <<>> /\ half'[1].target = Shown(u, Me)
      BY <3>1
    <3> QED BY <2>1, <2>2, <3>1, <3>2, <3>3, UndoIs
  <2> QED BY <2>1, <2>3, <2>4
<1>5. CASE Reacted
  <2> DEFINE e == Event("Like", half[1].url, half[1].target, Me)
  <2>1. /\ half # <<>> /\ half' = <<>> /\ Own(e)
        /\ UNCHANGED <<timeline, applied, objects, edges, tx, overlapped, cast, raced>>
    BY <1>5 DEF Reacted
  <2>2. half[1].url \in Likes /\ half[1].target \in Urls /\ Author[half[1].url] = Me
    BY <2>1 DEF StatusInv, TopicsTyped, StoredOnce
  <2>3. emitted \in Nat /\ Me \in Users /\ "Like" \in StatusVerbs /\ NoUrl \notin Urls
    BY StatusesAssumption DEF StatusInv, TopicsTyped, StatusVerbs
  <2>4. e \in StatusEvents /\ e.verb = "Like" /\ e.url = half[1].url /\ e.target = half[1].target /\ e.id = emitted + 1
    BY <1>0, <2>2, <2>3, EventIs
  <2> HIDE DEF e
  <2>5. Completes(e)
    BY <2>1, <2>4 DEF Completes
  <2> QED BY <2>1, <2>2, <2>4, <2>5 DEF Requested
<1> QED BY <1>1, <1>2, <1>3, <1>4, <1>5

\* What is published changes no table.
LEMMA PublishEdges ==
  ASSUME StatusInv, EdgesInv, NumberedOnce', UNCHANGED <<applied, objects, edges, tx, overlapped, cast>>,
         timeline' = timeline \/ (\E e : timeline' = Append(timeline, e))
  PROVE  EdgesInv'
<1>1. timeline \in Seq(StatusEvents) /\ applied \in 0..Len(timeline)
  BY DEF StatusInv, TopicsTyped
<1>2. \A i \in 1..applied : timeline'[i] = timeline[i]
  <2>1. Len(timeline) \in Nat
    BY <1>1
  <2> QED BY <1>1, <2>1
<1>3. Plain' = Plain /\ Coming' = Coming
  BY <1>1, <1>2, PlainStays
<1> QED BY <1>3 DEF EdgesInv, MovesToNotes, ReadAsItIs

LEMMA EdgesStart == ASSUME StatusesInit PROVE EdgesInv
<1>1. objects = <<>> /\ edges = NoEdges /\ tx = <<>> /\ pending = <<>> /\ timeline = <<>>
  BY DEF StatusesInit
<1>2. DOMAIN objects = {} /\ IsFiniteSet(DOMAIN objects) /\ Activities = {}
  BY <1>1, FS_EmptySet DEF Activities
<1>3. EdgesTrue(objects, Coming, edges)
  BY <1>1, <1>2 DEF EdgesTrue, NoEdges, RowsAre, RowsTrue, BoostsCounted, ReactionsCounted
<1> QED BY <1>1, <1>2, <1>3 DEF EdgesInv, NumberedOnce, MovesToNotes, ReadAsItIs, OfItsMoment

LEMMA EdgesStep == StatusInv /\ CompressionInv /\ EdgesInv /\ [StatusesNext]_vars => EdgesInv'
<1> SUFFICES ASSUME StatusInv, CompressionInv, EdgesInv, [StatusesNext]_vars PROVE EdgesInv'
  OBVIOUS
<1>0. StatusInv' /\ StoredOnce /\ NumberedOnce
  BY StatusesStep DEF CompressionInv, EdgesInv
<1>1. CASE Apply
  BY <1>0, <1>1, ApplyEdges
<1>2. CASE Compress
  BY <1>2, CompressEdges
<1>3. CASE CompressCommits
  BY <1>0, <1>3, CommitEdges
<1>4. CASE Sweep
  BY <1>4, SweepEdges
<1>5. CASE Forward
  <2>1. UNCHANGED <<applied, objects, edges, tx, overlapped, cast, emitted>> /\ \E e : timeline' = Append(timeline, e)
    BY <1>5 DEF Forward
  <2>2. Activities' = Activities
    BY <1>5, MovedOn
  <2>3. NumberedOnce'
    BY <1>0, <2>1, <2>2 DEF NumberedOnce
  <2> QED BY <2>1, <2>3, PublishEdges
<1>6. CASE Restart
  BY <1>6, ReplayEdges
<1>7. CASE RemoteCreate \/ RemoteUpdate \/ RemoteAnnounce \/ RemoteLike \/ RemoteDelete
  <2>1. PICK e \in StatusEvents : e.id = emitted + 1 /\ Incoming(e)
    BY <1>7, RemoteIs
  <2>2. NumberedOnce'
    BY <1>0, <2>1, ComesNow, NumberedNow
  <2>3. UNCHANGED <<applied, objects, edges, tx, overlapped, cast>> /\ \E f : timeline' = Append(timeline, f)
    BY <2>1 DEF Incoming
  <2> QED BY <2>2, <2>3, PublishEdges
<1>8. CASE Reblog \/ Unreblog \/ React \/ Reacted \/ Unreact
  <2>1. PICK e \in StatusEvents : Requested(e)
    BY <1>0, <1>8, RequestIs
  <2>2. e.id = emitted + 1 /\ Own(e) /\ UNCHANGED <<timeline, applied, objects, edges, tx, overlapped, cast>>
    BY <2>1 DEF Requested
  <2>3. NumberedOnce'
    BY <1>0, <2>2, IsOwnNow, NumberedNow
  <2> QED BY <2>2, <2>3, PublishEdges
<1>9. CASE UNCHANGED vars
  <2>1. UNCHANGED <<pending, timeline, emitted, applied, objects, edges, tx, overlapped, cast>>
    BY <1>9 DEF vars
  <2>2. NumberedOnce'
    BY <1>0, <2>1, SameNumbers
  <2> QED BY <2>1, <2>2, PublishEdges
<1> QED BY <1>1, <1>2, <1>3, <1>4, <1>5, <1>6, <1>7, <1>8, <1>9 DEF StatusesNext

-----------------------------------------------------------------------------
(* One boost and one reaction of a note.  One's own activities reach the
   timeline in the order in which they were emitted and refer to notes, so
   no compression moves them; and of two that say the same, the earlier
   was undone before the later was said. *)
Says(e) == e.verb \in {"Announce", "Like"} /\ Author[e.url] = Me
Undone(e, upto) == \E d \in Activities : d.verb = "Delete" /\ d.url = e.url /\ e.id < d.id /\ d.id < upto
SaidAgain(e, f) == Says(e) /\ Says(f) /\ e.verb = f.verb /\ e.target = f.target
OneAtATime == \A e \in Activities : \A f \in Activities : SaidAgain(e, f) /\ e.id < f.id => Undone(e, f.id)
HalfIsFree ==
  half # <<>> => \A e \in Activities :
                   Says(e) /\ e.verb = "Like" /\ e.target = half[1].target => Undone(e, emitted + 1)
OwnInOrder ==
  /\ \A i \in DOMAIN timeline : \A j \in DOMAIN timeline :
       i < j /\ Author[timeline[i].url] = Me /\ Author[timeline[j].url] = Me => timeline[i].id < timeline[j].id
  /\ \A i \in DOMAIN timeline : \A j \in DOMAIN pending : Author[timeline[i].url] = Me => timeline[i].id < pending[j].id
  /\ \A i \in DOMAIN pending : \A j \in DOMAIN pending : i < j => pending[i].id < pending[j].id
  /\ \A j \in DOMAIN pending : Author[pending[j].url] = Me
OwnAreDirect ==
  /\ \A e \in Activities : Says(e) => e.target \in Contents
  /\ half # <<>> => half[1].target \in Contents
OwnStay == \A u \in DOMAIN objects : Author[u] = Me /\ u \notin Contents => objects[u].target = Plain[u].target
OneInv == OwnInOrder /\ OwnAreDirect /\ OwnStay /\ (~raced => OneAtATime /\ HalfIsFree)

LEMMA NumbersAre ==
  ASSUME StatusInv, NumberedOnce
  PROVE  /\ emitted \in Nat /\ emitted + 1 \in Nat
         /\ \A f \in Activities : f \in StatusEvents /\ f.id \in Nat /\ f.id <= emitted /\ f.id < emitted + 1
         /\ \A i \in DOMAIN timeline : timeline[i] \in Activities
         /\ \A i \in DOMAIN pending : pending[i] \in Activities
<1>1. Activities \subseteq StatusEvents /\ emitted \in Nat
  BY DEF StatusInv, TopicsTyped, Activities
<1>2. \A f \in Activities : f.id \in Nat /\ f.id <= emitted
  BY <1>1, StatusEventParts DEF NumberedOnce
<1>3. \A f \in Activities : f.id < emitted + 1
  BY <1>1, <1>2
<1> QED BY <1>1, <1>2, <1>3 DEF Activities

\* One element more.
LEMMA LastIs ==
  ASSUME NEW s \in Seq(StatusEvents), NEW e \in StatusEvents
  PROVE  /\ \A i \in DOMAIN Append(s, e) : (i \in DOMAIN s /\ Append(s, e)[i] = s[i]) \/ (i = Len(s) + 1 /\ Append(s, e)[i] = e)
         /\ \A i \in DOMAIN s : \A j : j = Len(s) + 1 => i < j
         /\ \A i \in DOMAIN s : i \in Nat
<1>1. Len(s) \in Nat /\ DOMAIN s = 1..Len(s) /\ DOMAIN Append(s, e) = 1..(Len(s) + 1)
      /\ Append(s, e)[Len(s) + 1] = e /\ \A i \in DOMAIN s : Append(s, e)[i] = s[i]
  OBVIOUS
<1>2. \A i \in 1..(Len(s) + 1) : i \in 1..Len(s) \/ i = Len(s) + 1
  BY <1>1
<1> QED BY <1>1, <1>2

LEMMA OrderWithRemote ==
  ASSUME StatusInv, OwnInOrder, NEW e \in StatusEvents, Author[e.url] # Me, timeline' = Append(timeline, e), pending' = pending
  PROVE  OwnInOrder'
<1>1. timeline \in Seq(StatusEvents)
  BY DEF StatusInv, TopicsTyped
<1>2. \A i \in DOMAIN timeline' : Author[timeline'[i].url] = Me => i \in DOMAIN timeline /\ timeline'[i] = timeline[i]
  BY <1>1, LastIs
<1> QED BY <1>2 DEF OwnInOrder

LEMMA OrderWithOwn ==
  ASSUME StatusInv, NumberedOnce, OwnInOrder, NEW e \in StatusEvents, Author[e.url] = Me, e.id = emitted + 1,
         pending' = Append(pending, e), timeline' = timeline
  PROVE  OwnInOrder'
<1>1. pending \in Seq(StatusEvents)
  BY DEF StatusInv, TopicsTyped
<1>2. /\ \A i \in DOMAIN pending' : (i \in DOMAIN pending /\ pending'[i] = pending[i]) \/ (i = Len(pending) + 1 /\ pending'[i] = e)
      /\ \A i \in DOMAIN pending : \A j : j = Len(pending) + 1 => i < j
      /\ \A i \in DOMAIN pending : i \in Nat
  BY <1>1, LastIs
<1>3. /\ \A i \in DOMAIN timeline : timeline[i].id < e.id
      /\ \A i \in DOMAIN pending : pending[i].id < e.id
  BY NumbersAre
<1>4. \A i \in DOMAIN timeline : \A j \in DOMAIN pending' : Author[timeline[i].url] = Me => timeline[i].id < pending'[j].id
  BY <1>2, <1>3 DEF OwnInOrder
<1>5. \A j \in DOMAIN pending' : Author[pending'[j].url] = Me
  BY <1>2 DEF OwnInOrder
<1>6. ASSUME NEW i \in DOMAIN pending', NEW j \in DOMAIN pending', i < j PROVE pending'[i].id < pending'[j].id
  <2>1. CASE i \in DOMAIN pending /\ j \in DOMAIN pending
    BY <1>2, <1>6, <2>1 DEF OwnInOrder
  <2>2. CASE i \in DOMAIN pending /\ j \notin DOMAIN pending
    BY <1>2, <1>3, <2>2
  <2>3. CASE i \notin DOMAIN pending
    <3>1. Len(pending) + 1 \in Nat /\ i = Len(pending) + 1
      BY <1>1, <1>2, <2>3
    <3>2. j <= i
      <4>1. CASE j \in DOMAIN pending
        BY <1>2, <3>1, <4>1
      <4>2. CASE j = Len(pending) + 1
        BY <3>1, <4>2
      <4> QED BY <1>2, <4>1, <4>2
    <3>3. j \in Nat
      BY <1>2, <3>1
    <3> QED BY <1>6, <3>1, <3>2, <3>3
  <2> QED BY <2>1, <2>2, <2>3
<1> QED BY <1>4, <1>5, <1>6 DEF OwnInOrder

LEMMA OrderForward == ASSUME StatusInv, OwnInOrder, Forward PROVE OwnInOrder'
<1>1. pending # <<>> /\ timeline' = Append(timeline, Head(pending)) /\ pending' = Tail(pending)
      /\ pending \in Seq(StatusEvents) /\ timeline \in Seq(StatusEvents)
  BY DEF Forward, StatusInv, TopicsTyped
<1>2. 1 \in DOMAIN pending /\ Head(pending) = pending[1] /\ Head(pending) \in StatusEvents
  BY <1>1
<1>3. \A i \in DOMAIN pending' : i \in Nat /\ i + 1 \in DOMAIN pending /\ 1 < i + 1 /\ pending'[i] = pending[i + 1]
  BY <1>1
<1>4. /\ \A i \in DOMAIN timeline' : (i \in DOMAIN timeline /\ timeline'[i] = timeline[i])
                                     \/ (i = Len(timeline) + 1 /\ timeline'[i] = pending[1])
      /\ \A i \in DOMAIN timeline : \A j : j = Len(timeline) + 1 => i < j
      /\ \A i \in DOMAIN timeline : i \in Nat
  BY <1>1, <1>2, LastIs
<1>5. \A i \in DOMAIN pending' : \A j \in DOMAIN pending' : i < j => pending'[i].id < pending'[j].id
  <2>1. \A i \in DOMAIN pending' : \A j \in DOMAIN pending' : i < j => i + 1 < j + 1
    BY <1>3
  <2> QED BY <1>3, <2>1 DEF OwnInOrder
<1>6. \A j \in DOMAIN pending' : Author[pending'[j].url] = Me
  BY <1>3 DEF OwnInOrder
<1>7. \A i \in DOMAIN timeline' : \A j \in DOMAIN pending' : Author[timeline'[i].url] = Me => timeline'[i].id < pending'[j].id
  <2>1. \A j \in DOMAIN pending' : pending[1].id < pending'[j].id
    BY <1>2, <1>3 DEF OwnInOrder
  <2>2. \A i \in DOMAIN timeline : \A j \in DOMAIN pending' : Author[timeline[i].url] = Me => timeline[i].id < pending'[j].id
    BY <1>3 DEF OwnInOrder
  <2> QED BY <1>4, <2>1, <2>2
<1>8. ASSUME NEW i \in DOMAIN timeline', NEW j \in DOMAIN timeline', i < j, Author[timeline'[i].url] = Me, Author[timeline'[j].url] = Me
      PROVE  timeline'[i].id < timeline'[j].id
  <2>1. CASE i \in DOMAIN timeline /\ j \in DOMAIN timeline
    <3>1. timeline'[i] = timeline[i] /\ timeline'[j] = timeline[j]
      BY <1>1, <1>2, <2>1
    <3> QED BY <1>8, <2>1, <3>1 DEF OwnInOrder
  <2>2. CASE i \in DOMAIN timeline /\ j \notin DOMAIN timeline
    <3>1. timeline'[i] = timeline[i] /\ timeline'[j] = pending[1]
      BY <1>1, <1>2, <1>4, <2>2
    <3> QED BY <1>2, <1>8, <2>2, <3>1 DEF OwnInOrder
  <2>3. CASE i \notin DOMAIN timeline
    <3>1. Len(timeline) + 1 \in Nat /\ i = Len(timeline) + 1
      BY <1>1, <1>4, <2>3
    <3>2. j \in Nat /\ j <= i
      <4>1. CASE j \in DOMAIN timeline
        BY <1>4, <3>1, <4>1
      <4>2. CASE j = Len(timeline) + 1
        BY <3>1, <4>2
      <4> QED BY <1>4, <4>1, <4>2
    <3> QED BY <1>8, <3>1, <3>2
  <2> QED BY <2>1, <2>2, <2>3
<1> QED BY <1>5, <1>6, <1>7, <1>8 DEF OwnInOrder

\* An own row refers to the note that it was said of.
LEMMA OwnRowIs ==
  ASSUME StatusInv, AsStored, NumberedOnce, OwnAreDirect, OwnStay, NEW u \in DOMAIN objects, Author[u] = Me, u \notin Contents
  PROVE  /\ FirstOf(u) \in 1..applied /\ FirstOf(u) \in DOMAIN timeline /\ FirstOf(u) \in StoredBy(u)
         /\ timeline[FirstOf(u)].url = u /\ Says(timeline[FirstOf(u)]) /\ timeline[FirstOf(u)] \in Activities
         /\ timeline[FirstOf(u)].target = objects[u].target /\ objects[u].target \in Contents
         /\ Kind(u) = "announce" <=> timeline[FirstOf(u)].verb = "Announce"
<1> DEFINE e == timeline[FirstOf(u)]
<1>1. applied \in Nat /\ u \in DOMAIN Plain /\ 1..applied \subseteq DOMAIN timeline
  BY DEF AsStored, StatusInv, TopicsTyped
<1>2. /\ FirstOf(u) \in 1..applied /\ FirstOf(u) \in StoredBy(u) /\ e.url = u /\ e.verb # "Delete" /\ Plain[u].target = e.target
  BY <1>1, FirstStoredIs
<1>3. e \in Activities /\ e \in StatusEvents
  BY <1>1, <1>2, NumbersAre
<1>4. e.verb \in StatusVerbs /\ SaysWhatItIs(e) /\ u \in Urls
  BY <1>2, <1>3, StatusEventParts
<1>5. e.verb \in {"Announce", "Like"} /\ (Kind(u) = "announce" <=> e.verb = "Announce")
  BY <1>2, <1>4, KindIs, StatusesAssumption DEF StatusVerbs, SaysWhatItIs
<1>6. Says(e)
  BY <1>2, <1>5 DEF Says
<1>7. e.target = objects[u].target
  BY <1>2 DEF OwnStay
<1> QED BY <1>1, <1>2, <1>3, <1>5, <1>6, <1>7 DEF OwnAreDirect

OwnShow == \A i \in DOMAIN timeline : Author[timeline[i].url] = Me => i <= applied

\* Of two that say the same the earlier is gone.
LEMMA EarlierIsGone ==
  ASSUME StatusInv, AsStored, NumberedOnce, OneInv, ~raced, OwnShow,
         NEW u \in DOMAIN objects, NEW v \in DOMAIN objects, Author[u] = Me, Author[v] = Me, u \notin Contents, v \notin Contents,
         Kind(u) = Kind(v), objects[u].target = objects[v].target,
         timeline[FirstOf(u)].id < timeline[FirstOf(v)].id
  PROVE  FALSE
<1> DEFINE e == timeline[FirstOf(u)]
           f == timeline[FirstOf(v)]
<1>1. /\ FirstOf(u) \in 1..applied /\ FirstOf(u) \in DOMAIN timeline /\ FirstOf(u) \in StoredBy(u) /\ e.url = u /\ Says(e) /\ e \in Activities
      /\ e.target = objects[u].target /\ (Kind(u) = "announce" <=> e.verb = "Announce")
  BY OwnRowIs DEF OneInv
<1>2. /\ FirstOf(v) \in DOMAIN timeline /\ f.url = v /\ Says(f) /\ f \in Activities
      /\ f.target = objects[v].target /\ (Kind(v) = "announce" <=> f.verb = "Announce")
  BY OwnRowIs DEF OneInv
<1>3. SaidAgain(e, f)
  BY <1>1, <1>2 DEF SaidAgain, Says
<1>4. PICK d \in Activities : d.verb = "Delete" /\ d.url = u /\ e.id < d.id /\ d.id < f.id
  BY <1>1, <1>2, <1>3 DEF OneInv, OneAtATime, Undone
<1>5. /\ d.id \in Nat /\ e.id \in Nat /\ f.id \in Nat
      /\ \A i \in DOMAIN timeline : timeline[i].id \in Nat
      /\ \A i \in DOMAIN pending : pending[i].id \in Nat
      /\ DOMAIN timeline \subseteq Nat /\ applied \in Nat
  <2>1. timeline \in Seq(StatusEvents) /\ applied \in 0..Len(timeline)
    BY DEF StatusInv, TopicsTyped
  <2> QED BY <1>1, <1>2, <2>1, NumbersAre
<1>6. PICK n \in DOMAIN timeline : d = timeline[n]
  <2>1. ASSUME NEW j \in DOMAIN pending, d = pending[j] PROVE FALSE
    <3>1. f.id < d.id
      BY <1>2, <2>1 DEF OneInv, OwnInOrder
    <3> QED BY <1>4, <1>5, <3>1
  <2> QED BY <2>1 DEF Activities
<1>7. FirstOf(u) < n
  <2>1. Author[timeline[n].url] = Me /\ Author[timeline[FirstOf(u)].url] = Me
    BY <1>1, <1>4, <1>6
  <2>2. n # FirstOf(u)
    BY <1>4, <1>5, <1>6
  <2>3. ~(n < FirstOf(u))
    <3>1. n < FirstOf(u) => d.id < e.id
      BY <1>1, <1>6, <2>1 DEF OneInv, OwnInOrder
    <3> QED BY <1>4, <1>5, <3>1
  <2>4. n \in Nat /\ FirstOf(u) \in Nat
    BY <1>1, <1>5
  <2> QED BY <2>2, <2>3, <2>4
<1>8. n <= applied
  BY <1>4, <1>6 DEF OwnShow
<1>9. n \in (FirstOf(u) + 1)..applied
  BY <1>1, <1>5, <1>7, <1>8
<1> QED BY <1>1, <1>4, <1>6, <1>9 DEF StoredBy

LEMMA OnlyOne ==
  ASSUME StatusInv, AsStored, NumberedOnce, OneInv, ~raced, OwnShow,
         NEW u \in DOMAIN objects, NEW v \in DOMAIN objects, Author[u] = Me, Author[v] = Me, u \notin Contents, v \notin Contents,
         Kind(u) = Kind(v), objects[u].target = objects[v].target
  PROVE  u = v
<1> DEFINE e == timeline[FirstOf(u)]
           f == timeline[FirstOf(v)]
<1>1. e \in Activities /\ f \in Activities /\ e.url = u /\ f.url = v
  BY OwnRowIs DEF OneInv
<1>2. e.id \in Nat /\ f.id \in Nat
  BY <1>1, NumbersAre
<1>3. ~(e.id < f.id) /\ ~(f.id < e.id)
  BY EarlierIsGone
<1>4. e.id = f.id
  BY <1>2, <1>3
<1> QED BY <1>1, <1>4 DEF NumberedOnce

LEMMA OneIsThere == StatusInv /\ CompressionInv /\ EdgesInv /\ OneInv => OneOfEach
<1> SUFFICES ASSUME StatusInv, CompressionInv, EdgesInv, OneInv, ~raced, applied = Len(timeline), NEW c \in Contents, NEW k \in {"announce", "like"}
             PROVE  Cardinality({u \in DOMAIN objects : Kind(u) = k /\ Author[u] = Me /\ Content(objects, u) = c}) <= 1
  BY DEF OneOfEach
<1> DEFINE S == {u \in DOMAIN objects : Kind(u) = k /\ Author[u] = Me /\ Content(objects, u) = c}
<1>1. AsStored /\ NumberedOnce /\ IsStatusTable(objects) /\ PointsAsItShould(objects) /\ c # NoUrl
  BY StatusesAssumption DEF CompressionInv, EdgesInv, StatusInv, TablesTyped, Urls
<1>2. OwnShow
  <2>1. timeline \in Seq(StatusEvents)
    BY DEF StatusInv, TopicsTyped
  <2> QED BY <2>1 DEF OwnShow
<1>3. \A u \in S : u \in DOMAIN objects /\ Kind(u) = k /\ Author[u] = Me /\ u \notin Contents /\ objects[u].target = c
  <2> SUFFICES ASSUME NEW u \in S PROVE u \notin Contents /\ objects[u].target = c
    OBVIOUS
  <2>1. u \in Urls /\ u \in DOMAIN objects /\ Kind(u) = k /\ Content(objects, u) = c
    BY <1>1, RowParts
  <2>2. u \notin Contents
    BY <2>1, KindIs
  <2>3. objects[u].target # NoUrl
    BY <1>1, <2>1, <2>2 DEF PointsAsItShould
  <2> QED BY <1>1, <2>1, <2>2, <2>3, ContentIs
<1> HIDE DEF S
<1>4. \A u \in S : \A v \in S : u = v
  BY <1>1, <1>2, <1>3, OnlyOne
<1>5. Cardinality(S) <= 1
  <2>1. CASE S = {}
    <3>1. Cardinality(S) = 0
      BY <2>1, FS_EmptySet
    <3> QED BY <3>1
  <2>2. CASE S # {}
    <3>1. PICK u \in S : TRUE
      BY <2>2
    <3>2. S = {u}
      BY <1>4, <3>1
    <3>3. Cardinality(S) = 1
      BY <3>2, FS_Singleton
    <3> QED BY <3>3
  <2> QED BY <2>1, <2>2
<1> QED BY <1>5 DEF S

\* What has been said and not undone shows.
LEMMA ShownOrGone ==
  ASSUME StatusInv, CompressionInv, EdgesInv, OneInv, pending = <<>>, OwnShow, NEW e \in Activities, Says(e), ~Undone(e, emitted + 1)
  PROVE  /\ e.url \in DOMAIN objects /\ e.url \notin Contents /\ objects[e.url].target = e.target
         /\ Kind(e.url) = IF e.verb = "Announce" THEN "announce" ELSE "like"
<1>1. AsStored /\ NumberedOnce /\ StoredOnce
  BY DEF CompressionInv, EdgesInv
<1>2. applied \in Nat /\ timeline \in Seq(StatusEvents) /\ DOMAIN timeline \subseteq Nat \ {0}
  BY DEF StatusInv, TopicsTyped
<1>3. PICK n \in DOMAIN timeline : e = timeline[n]
  <2>1. DOMAIN pending = {}
    OBVIOUS
  <2> QED BY <2>1 DEF Activities
<1>4. e \in StatusEvents /\ e.id \in Nat
  BY <1>1, NumbersAre
<1>5. e.verb \in StatusVerbs /\ SaysWhatItIs(e) /\ e.url \in Urls /\ Author[e.url] = Me /\ e.verb \in {"Announce", "Like"}
  BY <1>4, StatusEventParts DEF Says
<1>6. e.url \notin Contents /\ Kind(e.url) = IF e.verb = "Announce" THEN "announce" ELSE "like"
  BY <1>5, KindIs, StatusesAssumption DEF SaysWhatItIs
<1>7. n <= applied /\ n \in 1..applied
  BY <1>2, <1>3, <1>5 DEF OwnShow
<1>8. e.url \in cast /\ Saves(e) /\ e.verb # "Delete"
  BY <1>1, <1>3, <1>5, <1>6 DEF StoredOnce, OfTheCast, Saves
<1>9. n \in StoredBy(e.url)
  <2> SUFFICES ASSUME NEW j \in (n + 1)..applied, timeline[j].url = e.url, timeline[j].verb = "Delete" PROVE FALSE
    BY <1>3, <1>7, <1>8 DEF StoredBy
  <2>1. n < j /\ j \in DOMAIN timeline
    <3>1. 1..applied \subseteq DOMAIN timeline /\ n \in Nat
      BY <1>2, <1>7 DEF StatusInv, TopicsTyped
    <3> QED BY <1>7, <3>1
  <2>2. e.id < timeline[j].id
    BY <1>3, <1>5, <2>1 DEF OneInv, OwnInOrder
  <2>3. timeline[j] \in Activities /\ timeline[j].id < emitted + 1
    BY <1>1, <2>1, NumbersAre
  <2> QED BY <2>2, <2>3 DEF Undone
<1>10. e.url \in DOMAIN Plain /\ e.url \in DOMAIN objects
  BY <1>1, <1>8, <1>9, PlainDomain DEF AsStored
<1>11. FirstOf(e.url) = n
  <2>1. FirstOf(e.url) \in 1..applied /\ timeline[FirstOf(e.url)].url = e.url /\ timeline[FirstOf(e.url)].verb # "Delete"
    BY <1>2, <1>10, FirstStoredIs
  <2>2. FirstOf(e.url) \in DOMAIN timeline /\ Saves(timeline[FirstOf(e.url)])
    BY <1>6, <2>1 DEF StatusInv, TopicsTyped, Saves
  <2> QED BY <1>1, <1>3, <1>8, <2>1, <2>2 DEF StoredOnce, Distinct
<1>12. Plain[e.url].target = e.target
  BY <1>2, <1>3, <1>10, <1>11, FirstStoredIs
<1>13. objects[e.url].target = e.target
  BY <1>5, <1>6, <1>10, <1>12 DEF OneInv, OwnStay
<1> QED BY <1>6, <1>10, <1>13

\* And what shows, a request finds.
OwnOfKind(k, c) == IF k = "announce" THEN BoostOf(Me, c) ELSE OwnReaction(Me, c)
LEMMA Found ==
  ASSUME StatusInv, NEW H, EdgesTrue(objects, H, edges), NEW c \in Contents \cap DOMAIN objects, NEW k \in {"announce", "like"},
         NEW u \in DOMAIN objects, Author[u] = Me, Kind(u) = k, objects[u].target = c
  PROVE  OwnOfKind(k, c) # {}
<1> DEFINE S == {v \in DOMAIN objects : RefersTo(objects, k, c, v) /\ Alike(u, v)}
           ids == {objects[v].id : v \in S}
<1>1. IsStatusTable(objects)
  BY DEF StatusInv, TablesTyped
<1>2. u \in S /\ ids \subseteq Nat /\ ids # {}
  <2>1. u \in S
    BY DEF RefersTo, Alike
  <2>2. \A v \in S : objects[v].id \in Nat
    BY <1>1, RowParts
  <2> QED BY <2>1, <2>2
<1>3. PICK i \in ids : \A j \in ids : i <= j
  BY <1>2, LeastExists
<1>4. PICK v \in S : objects[v].id = i
  OBVIOUS
<1>5. \A w \in S : objects[v].id <= objects[w].id
  BY <1>3, <1>4
<1>6. RefersTo(objects, k, c, v) /\ Alike(u, v) /\ v \in DOMAIN objects
  BY <1>4
<1>7. \A w : RefersTo(objects, k, c, w) /\ Alike(v, w) => w \in S
  BY <1>6 DEF RefersTo, Alike
<1>8. Kind(c) = "content" /\ c \in DOMAIN objects
  BY DEF Kind
<1>9. v \in Valid(objects, k, c)
  BY <1>5, <1>6, <1>7, <1>8, ValidIs
<1>10. v \in Urls /\ Author[v] = Me
  BY <1>1, <1>6, RowParts DEF Alike
<1>11. CASE k = "announce"
  <2>1. <<v, c>> \in edges.boosts
    BY <1>9, <1>10, <1>11 DEF EdgesTrue, RowsTrue
  <2>2. <<v, c>>[1] = v /\ <<v, c>>[2] = c
    OBVIOUS
  <2>3. v \in BoostOf(Me, c)
    BY <1>10, <2>1, <2>2 DEF BoostOf
  <2> QED BY <1>11, <2>3 DEF OwnOfKind
<1>12. CASE k = "like"
  <2>1. <<v, c>> \in edges.reactions
    BY <1>9, <1>10, <1>12 DEF EdgesTrue, RowsTrue
  <2>2. <<v, c>>[1] = v /\ <<v, c>>[2] = c
    OBVIOUS
  <2>3. v \in OwnReaction(Me, c)
    BY <1>10, <2>1, <2>2 DEF OwnReaction
  <2> QED BY <1>12, <2>3 DEF OwnOfKind
<1> QED BY <1>11, <1>12

\* A reaction that a request finds is there.
LEMMA FoundIsThere ==
  ASSUME StatusInv, NEW H, EdgesTrue(objects, H, edges), NEW c \in Contents \cap DOMAIN objects, NEW l \in OwnReaction(Me, c)
  PROVE  l \in DOMAIN objects /\ l \notin Contents /\ Author[l] = Me /\ Kind(l) = "like" /\ objects[l].target = c
<1>1. PICK r \in edges.reactions : Author[r[1]] = Me /\ r[2] = c /\ r[1] = l
  BY DEF OwnReaction
<1>2. r = <<l, c>> /\ l \in Urls
  BY <1>1 DEF StatusInv, TablesTyped
<1>3. l \in Valid(objects, "like", c)
  BY <1>1, <1>2 DEF EdgesTrue, RowsTrue
<1>4. l \in DOMAIN objects /\ Kind(l) = "like" /\ objects[l].target = c
  BY <1>3, ValidIs DEF RefersTo
<1> QED BY <1>1, <1>2, <1>4, KindIs

\* So a request says nothing again that has not been undone.
LEMMA AskedOnce ==
  ASSUME StatusInv, CompressionInv, EdgesInv, OneInv, NEW c \in Contents \cap DOMAIN objects, Request(c), ~raced',
         NEW f \in Activities, Says(f), f.target = c, ~Undone(f, emitted + 1)
  PROVE  /\ f.verb = "Announce" => BoostOf(Me, c) # {}
         /\ f.verb = "Like" => \A l \in OwnReaction(Me, c) : l = f.url
         /\ f.verb = "Like" => OwnReaction(Me, c) # {}
<1>1. ~raced /\ ~overlapped /\ pending = <<>> /\ ~\E i \in (applied + 1)..Len(timeline) : Author[timeline[i].url] = Me
  BY DEF Request
<1>2. OwnShow
  <2> SUFFICES ASSUME NEW i \in DOMAIN timeline, Author[timeline[i].url] = Me PROVE i <= applied
    BY DEF OwnShow
  <2>1. i \in 1..Len(timeline) /\ applied \in Nat /\ Len(timeline) \in Nat
    BY DEF StatusInv, TopicsTyped
  <2>2. ~(i \in (applied + 1)..Len(timeline))
    BY <1>1
  <2> QED BY <2>1, <2>2
<1>3. /\ f.url \in DOMAIN objects /\ f.url \notin Contents /\ objects[f.url].target = c /\ Author[f.url] = Me
      /\ Kind(f.url) = IF f.verb = "Announce" THEN "announce" ELSE "like"
  BY <1>1, <1>2, ShownOrGone DEF Says
<1>4. EdgesTrue(objects, Coming, edges)
  BY <1>1 DEF EdgesInv
<1>5. f.verb = "Announce" => OwnOfKind("announce", c) # {}
  BY <1>3, <1>4, Found
<1>6. f.verb = "Like" => OwnOfKind("like", c) # {}
  BY <1>3, <1>4, Found
<1>7. ASSUME f.verb = "Like", NEW l \in OwnReaction(Me, c) PROVE l = f.url
  <2>1. l \in DOMAIN objects /\ l \notin Contents /\ Author[l] = Me /\ Kind(l) = "like" /\ objects[l].target = c
    BY <1>4, FoundIsThere
  <2>2. Kind(f.url) = "like"
    BY <1>3, <1>7
  <2> QED BY <1>1, <1>2, <1>3, <2>1, <2>2, OnlyOne DEF CompressionInv, EdgesInv
<1> QED BY <1>5, <1>6, <1>7 DEF OwnOfKind

\* What was undone stays so.
LEMMA UndoneStays ==
  ASSUME StatusInv, NumberedOnce, NEW e \in StatusEvents, AddedNow(e)
  PROVE  /\ \A f : \A n : Undone(f, n) => Undone(f, n)'
         /\ \A f : Undone(f, emitted + 1) => Undone(f, emitted + 1)'
<1>1. \A d \in Activities : d \in Activities' /\ (d.id < emitted + 1 => d.id < emitted' + 1)
  <2>1. \A d \in Activities : d.id \in Nat
    BY NumbersAre
  <2> QED BY <2>1, NumbersAre DEF AddedNow
<1> QED BY <1>1 DEF Undone

LEMMA OneAtATimeStays ==
  ASSUME StatusInv, NumberedOnce, OneAtATime, NEW e \in StatusEvents, AddedNow(e),
         \A f \in Activities : SaidAgain(f, e) => Undone(f, emitted + 1)
  PROVE  OneAtATime'
<1> SUFFICES ASSUME NEW f \in Activities', NEW g \in Activities', SaidAgain(f, g), f.id < g.id PROVE Undone(f, g.id)'
  BY DEF OneAtATime, SaidAgain, Says
<1>1. \A h : \A n : Undone(h, n) => Undone(h, n)'
  BY UndoneStays
<1>2. (f \in Activities \/ f = e) /\ (g \in Activities \/ g = e) /\ e.id = emitted + 1
  BY DEF AddedNow
<1>3. emitted \in Nat /\ emitted + 1 \in Nat /\ \A h \in Activities : h.id \in Nat /\ h.id < emitted + 1
  BY NumbersAre
<1>4. f \in Activities
  <2>1. g.id \in Nat /\ e.id \in Nat /\ g.id <= e.id
    <3>1. CASE g \in Activities
      BY <1>2, <1>3, <3>1
    <3>2. CASE g = e
      BY <1>2, <1>3, <3>2
    <3> QED BY <1>2, <3>1, <3>2
  <2>2. f = e => FALSE
    BY <2>1
  <2> QED BY <1>2, <2>2
<1>5. CASE g \in Activities
  BY <1>1, <1>4, <1>5 DEF OneAtATime
<1>6. CASE g = e
  BY <1>1, <1>2, <1>4, <1>6
<1> QED BY <1>2, <1>5, <1>6

\* What others say changes none of it.
LEMMA RemoteSaid ==
  ASSUME StatusInv, NumberedOnce, OneAtATime, HalfIsFree, NEW e \in StatusEvents, AddedNow(e), Author[e.url] # Me, half' = half
  PROVE  OneAtATime' /\ HalfIsFree'
<1>1. OneAtATime'
  BY OneAtATimeStays DEF SaidAgain, Says
<1>2. \A f : Undone(f, emitted + 1) => Undone(f, emitted + 1)'
  BY UndoneStays
<1>3. \A f \in Activities' : Says(f) => f \in Activities
  BY DEF AddedNow, Says
<1> QED BY <1>1, <1>2, <1>3 DEF HalfIsFree, Says

\* And a request says what was not said, or was undone.
LEMMA OwnSaid ==
  ASSUME StatusInv, CompressionInv, EdgesInv, OneInv, NEW e \in StatusEvents, Requested(e), ~raced'
  PROVE  OneAtATime' /\ HalfIsFree'
<1>1. /\ e.id = emitted + 1 /\ Own(e) /\ Author[e.url] = Me /\ ~raced /\ timeline' = timeline /\ emitted' = emitted + 1
      /\ NumberedOnce /\ OneAtATime /\ HalfIsFree
  BY DEF Requested, EdgesInv, OneInv, Own
<1>2. AddedNow(e)
  BY <1>1, IsOwnNow
<1>3. \A f : Undone(f, emitted + 1) => Undone(f, emitted + 1)'
  BY <1>1, <1>2, UndoneStays
<1>4. CASE Undoes(e)
  <2>1. \A f : ~SaidAgain(f, e)
    BY <1>4 DEF Undoes, SaidAgain, Says
  <2>2. OneAtATime'
    BY <1>1, <1>2, <2>1, OneAtATimeStays
  <2> QED BY <1>4, <2>2 DEF Undoes, HalfIsFree
<1>5. CASE Completes(e)
  <2>1. \A f \in Activities : SaidAgain(f, e) => Undone(f, emitted + 1)
    BY <1>1, <1>5 DEF Completes, SaidAgain, HalfIsFree
  <2>2. OneAtATime'
    BY <1>1, <1>2, <2>1, OneAtATimeStays
  <2> QED BY <1>5, <2>2 DEF Completes, HalfIsFree
<1>6. ASSUME NEW c \in Contents \cap DOMAIN objects, SaysOf(e, c) PROVE OneAtATime' /\ HalfIsFree'
  <2>1. \A f \in Activities : SaidAgain(f, e) => Undone(f, emitted + 1)
    <3> SUFFICES ASSUME NEW f \in Activities, SaidAgain(f, e), ~Undone(f, emitted + 1) PROVE FALSE
      OBVIOUS
    <3>1. Request(c) /\ Says(f) /\ f.target = c /\ f.verb = e.verb
          /\ ((e.verb = "Announce" /\ BoostOf(Me, c) = {}) \/ (e.verb = "Like" /\ OwnReaction(Me, c) = {}))
      BY <1>6 DEF SaysOf, SaidAgain
    <3> QED BY <3>1, AskedOnce
  <2>2. OneAtATime'
    BY <1>1, <1>2, <2>1, OneAtATimeStays
  <2> QED BY <1>6, <2>2 DEF SaysOf, HalfIsFree
<1>7. ASSUME NEW c \in Contents \cap DOMAIN objects, Exchanges(e, c) PROVE OneAtATime' /\ HalfIsFree'
  <2>1. Request(c) /\ e.verb = "Delete" /\ e.url \in OwnReaction(Me, c) /\ half'[1].target = c
    BY <1>7 DEF Exchanges
  <2>2. \A f : ~SaidAgain(f, e)
    BY <2>1 DEF SaidAgain, Says
  <2>3. OneAtATime'
    BY <1>1, <1>2, <2>2, OneAtATimeStays
  <2>4. ASSUME NEW f \in Activities', Says(f), f.verb = "Like", f.target = c PROVE Undone(f, emitted + 1)'
    <3>1. f \in Activities
      BY <1>2, <2>1, <2>4 DEF AddedNow, Says
    <3>2. CASE Undone(f, emitted + 1)
      BY <1>3, <3>2
    <3>3. CASE ~Undone(f, emitted + 1)
      <4>1. e.url = f.url
        BY <2>1, <2>4, <3>1, <3>3, AskedOnce
      <4>2. e \in Activities' /\ f.id < e.id /\ e.id < emitted' + 1
        <5>1. f.id < emitted + 1 /\ emitted \in Nat
          BY <1>1, <3>1, NumbersAre
        <5>2. emitted + 1 < (emitted + 1) + 1
          BY <5>1
        <5>3. e \in Activities'
          BY <1>2 DEF AddedNow
        <5> QED BY <1>1, <5>1, <5>2, <5>3
      <4> QED BY <2>1, <4>1, <4>2 DEF Undone
    <3> QED BY <3>2, <3>3
  <2>5. HalfIsFree'
    BY <2>1, <2>4 DEF HalfIsFree, Says
  <2> QED BY <2>3, <2>5
<1> QED BY <1>4, <1>5, <1>6, <1>7 DEF Requested

\* What is said is said of notes.
LEMMA DirectNow ==
  ASSUME OwnAreDirect, NEW e \in StatusEvents, Requested(e), AddedNow(e) PROVE OwnAreDirect'
<1>1. Says(e) => e.target \in Contents
  BY DEF Requested, Undoes, Completes, SaysOf, Exchanges, Says, OwnAreDirect
<1>2. half' # <<>> => half'[1].target \in Contents
  BY DEF Requested, Undoes, Completes, SaysOf, Exchanges
<1> QED BY <1>1, <1>2 DEF OwnAreDirect, AddedNow, Says

\* An own row is not moved, and another does not make it refer to something else.
LEMMA PublishStays ==
  ASSUME StatusInv, OwnStay, UNCHANGED <<applied, objects, cast>>,
         timeline' = timeline \/ (\E e : timeline' = Append(timeline, e))
  PROVE  OwnStay'
<1>1. timeline \in Seq(StatusEvents) /\ applied \in 0..Len(timeline)
  BY DEF StatusInv, TopicsTyped
<1>2. \A i \in 1..applied : timeline'[i] = timeline[i]
  <2>1. Len(timeline) \in Nat
    BY <1>1
  <2> QED BY <1>1, <2>1
<1>3. Plain' = Plain
  BY <1>1, <1>2, PlainStays
<1> QED BY <1>3 DEF OwnStay

LEMMA ApplyStays == ASSUME StatusInv, CompressionInv, OwnStay, Apply PROVE OwnStay'
<1>1. PICK e \in StatusEvents :
           /\ Applying(e)
           /\ \/ e.verb # "Delete" /\ StoreObject(e.url, e.id, e.target, VisOf(e))
                 /\ home' = IF e.verb \in {"Create", "Announce"} THEN home \cup {<<e.user, e.url>>} ELSE home
              \/ e.verb = "Delete" /\ ~Blocked(e.url) /\ DeleteObject(e.url) /\ home' = {h \in home : h[2] # e.url}
           /\ UNCHANGED <<pending, timeline, tx, half, emitted, restarts, rebuiltTo, raced, cast>>
  BY AppliesIs
<1>2. applied \in Nat /\ applied + 1 \in DOMAIN timeline /\ timeline[applied + 1] = e
  BY <1>1 DEF Applying, StatusInv, TopicsTyped
<1>3. /\ e.verb # "Delete" /\ e.url \in cast => RowStored(Plain, Plain', e.url, e.id, e.target)
      /\ e.verb = "Delete" => RowDropped(Plain, Plain', e.url)
  BY <1>1, <1>2, PlainNow
<1>4. DOMAIN objects = DOMAIN Plain
  BY DEF CompressionInv, AsStored
<1>5. CASE e.verb # "Delete" /\ StoreObject(e.url, e.id, e.target, VisOf(e))
  <2> DEFINE row == [id |-> e.id, target |-> e.target, vis |-> VisOf(e)]
  <2>1. /\ DOMAIN objects' = DOMAIN objects \cup {e.url} /\ \A v \in DOMAIN objects : objects'[v] = objects[v]
        /\ e.url \notin DOMAIN objects => objects'[e.url] = row
    BY <1>5, StoreIs DEF StoredAs
  <2>2. e.url \in cast
    BY <1>2, <1>5 DEF CompressionInv, StoredOnce, OfTheCast
  <2>3. row.target = e.target
    OBVIOUS
  <2>4. \A v \in DOMAIN objects : Plain'[v].target = Plain[v].target
    BY <1>3, <1>4, <1>5, <2>2 DEF RowStored
  <2>5. e.url \notin DOMAIN objects => Plain'[e.url].target = e.target
    BY <1>3, <1>4, <1>5, <2>2 DEF RowStored
  <2> HIDE DEF row
  <2> QED BY <2>1, <2>3, <2>4, <2>5 DEF OwnStay
<1>6. CASE e.verb = "Delete" /\ DeleteObject(e.url)
  <2>1. DOMAIN objects' = DOMAIN objects \ {e.url} /\ \A v \in DOMAIN objects' : objects'[v] = objects[v]
    BY <1>6, DropIs
  <2>2. \A v \in DOMAIN objects' : Plain'[v].target = Plain[v].target
    BY <1>3, <1>4, <1>6, <2>1 DEF RowDropped
  <2> QED BY <2>1, <2>2 DEF OwnStay
<1> QED BY <1>1, <1>5, <1>6

LEMMA CommitStays == ASSUME StatusInv, CompressionInv, EdgesInv, OneInv, CompressCommits PROVE OwnStay'
<1> DEFINE m == tx[1].refs
<1>1. tx # <<>> /\ objects' = Moved(objects, m) /\ UNCHANGED <<timeline, applied, cast>>
  BY DEF CompressCommits
<1>2. IsStatusTable(objects) /\ PointsAsItShould(objects) /\ MovesOf(m, objects)
  BY <1>1 DEF StatusInv, TablesTyped, CompressionTyped
<1>3. \A u \in DOMAIN m : objects[u].target \notin Contents
  BY <1>1 DEF EdgesInv, MovesToNotes
<1> HIDE DEF m
<1>4. DOMAIN objects' = DOMAIN objects
      /\ \A u \in DOMAIN objects : objects'[u].target = IF u \in DOMAIN m THEN m[u] ELSE objects[u].target
  BY <1>1, <1>2, MovedTyped
<1>5. Plain' = Plain
  BY <1>1, PlainStays DEF StatusInv, TopicsTyped
<1>6. \A u \in DOMAIN objects : Author[u] = Me /\ u \notin Contents => objects[u].target \in Contents
  BY OwnRowIs DEF CompressionInv, EdgesInv, OneInv
<1>7. OwnStay
  BY DEF OneInv
<1> QED BY <1>3, <1>4, <1>5, <1>6, <1>7 DEF OwnStay

\* What nothing is published in.
LEMMA NothingSaid ==
  ASSUME OneInv, UNCHANGED <<pending, timeline, emitted, raced>>, half' = half \/ half' = <<>>, OwnStay' PROVE OneInv'
<1>1. Activities' = Activities
  BY DEF Activities
<1>2. OwnInOrder'
  BY DEF OneInv, OwnInOrder
<1>3. OwnAreDirect'
  BY <1>1 DEF OneInv, OwnAreDirect, Says
<1>4. \A f : \A n : Undone(f, n)' <=> Undone(f, n)
  BY <1>1 DEF Undone
<1>5. ~raced' => OneAtATime' /\ HalfIsFree'
  <2>1. OneAtATime => OneAtATime'
    BY <1>1, <1>4 DEF OneAtATime, SaidAgain, Says
  <2>2. HalfIsFree => HalfIsFree'
    BY <1>1 DEF HalfIsFree, Says, Undone
  <2> QED BY <2>1, <2>2 DEF OneInv
<1> QED BY <1>2, <1>3, <1>5 DEF OneInv

LEMMA OneStart == ASSUME StatusesInit PROVE OneInv
<1>1. objects = <<>> /\ half = <<>> /\ pending = <<>> /\ timeline = <<>>
  BY DEF StatusesInit
<1>2. DOMAIN objects = {} /\ Activities = {}
  BY <1>1 DEF Activities
<1> QED BY <1>1, <1>2 DEF OneInv, OwnInOrder, OwnAreDirect, OwnStay, OneAtATime, HalfIsFree

LEMMA OneStep == StatusInv /\ CompressionInv /\ EdgesInv /\ OneInv /\ [StatusesNext]_vars => OneInv'
<1> SUFFICES ASSUME StatusInv, CompressionInv, EdgesInv, OneInv, [StatusesNext]_vars PROVE OneInv'
  OBVIOUS
<1>0. NumberedOnce /\ OwnInOrder /\ OwnAreDirect /\ OwnStay /\ StoredOnce
  BY DEF EdgesInv, OneInv, CompressionInv
<1>1. CASE Apply
  <2>1. UNCHANGED <<pending, timeline, emitted, raced, half>>
    BY <1>1 DEF Apply
  <2> QED BY <1>0, <1>1, <2>1, ApplyStays, NothingSaid
<1>2. CASE CompressCommits
  <2>1. UNCHANGED <<pending, timeline, emitted, raced, half>>
    BY <1>2 DEF CompressCommits
  <2> QED BY <1>2, <2>1, CommitStays, NothingSaid
<1>3. CASE Compress \/ Sweep \/ UNCHANGED vars
  <2>1. UNCHANGED <<pending, timeline, emitted, raced, half, applied, objects, cast>>
    BY <1>3 DEF Compress, Sweep, vars
  <2> QED BY <1>0, <2>1, PublishStays, NothingSaid
<1>4. CASE Restart
  <2>1. objects' = <<>> /\ half' = <<>> /\ UNCHANGED <<pending, timeline, emitted, raced>>
    BY <1>4 DEF Restart
  <2>2. OwnStay'
    BY <2>1 DEF OwnStay
  <2> QED BY <2>1, <2>2, NothingSaid
<1>5. CASE Forward
  <2>1. UNCHANGED <<applied, objects, emitted, raced, half, cast>> /\ \E e : timeline' = Append(timeline, e)
    BY <1>5 DEF Forward
  <2>2. Activities' = Activities
    BY <1>5, MovedOn
  <2>3. OwnInOrder' /\ OwnStay'
    BY <1>0, <1>5, <2>1, OrderForward, PublishStays
  <2>4. OwnAreDirect'
    BY <1>0, <2>1, <2>2 DEF OwnAreDirect, Says
  <2>5. \A f : \A n : Undone(f, n)' <=> Undone(f, n)
    BY <2>2 DEF Undone
  <2>6. OneAtATime => OneAtATime'
    BY <2>2, <2>5 DEF OneAtATime, SaidAgain, Says
  <2>7. HalfIsFree => HalfIsFree'
    BY <2>1, <2>2 DEF HalfIsFree, Says, Undone
  <2> QED BY <2>1, <2>3, <2>4, <2>6, <2>7 DEF OneInv
<1>6. CASE RemoteCreate \/ RemoteUpdate \/ RemoteAnnounce \/ RemoteLike \/ RemoteDelete
  <2>1. PICK e \in StatusEvents : Author[e.url] # Me /\ e.id = emitted + 1 /\ Incoming(e)
    BY <1>6, RemoteIs
  <2>2. UNCHANGED <<pending, applied, objects, half, raced, cast>> /\ timeline' = Append(timeline, e)
    BY <2>1 DEF Incoming
  <2>3. AddedNow(e)
    BY <2>1, ComesNow
  <2>4. OwnInOrder'
    BY <1>0, <2>1, <2>2, OrderWithRemote
  <2>5. OwnStay'
    BY <1>0, <2>2, PublishStays
  <2>6. OwnAreDirect'
    BY <1>0, <2>1, <2>2, <2>3 DEF OwnAreDirect, AddedNow, Says
  <2>7. ~raced' => OneAtATime' /\ HalfIsFree'
    BY <1>0, <2>1, <2>2, <2>3, RemoteSaid DEF OneInv
  <2> QED BY <2>4, <2>5, <2>6, <2>7 DEF OneInv
<1>7. CASE Reblog \/ Unreblog \/ React \/ Reacted \/ Unreact
  <2>1. PICK e \in StatusEvents : Requested(e)
    BY <1>0, <1>7, RequestIs
  <2>2. /\ e.id = emitted + 1 /\ Own(e) /\ Author[e.url] = Me /\ UNCHANGED <<timeline, applied, objects, cast>>
        /\ pending' = Append(pending, e)
    BY <2>1 DEF Requested, Own
  <2>3. AddedNow(e)
    BY <2>2, IsOwnNow
  <2>4. OwnInOrder'
    BY <1>0, <2>2, OrderWithOwn
  <2>5. OwnStay'
    BY <1>0, <2>2, PublishStays
  <2>6. OwnAreDirect'
    BY <1>0, <2>1, <2>3, DirectNow
  <2>7. ~raced' => OneAtATime' /\ HalfIsFree'
    BY <2>1, OwnSaid
  <2> QED BY <2>4, <2>5, <2>6, <2>7 DEF OneInv
<1> QED BY <1>1, <1>2, <1>3, <1>4, <1>5, <1>6, <1>7 DEF StatusesNext

-----------------------------------------------------------------------------
(* Threads.  A reply is later than what it replies to: the way up goes
   down in numbers, so that the one farthest away is the least of them,
   and what is defined along it, from one note to the one it replies to,
   exists. *)
ThreadsInv ==
  /\ inReplyTo \in [Notes -> Notes \cup {NoNote}]
  /\ \A n \in Notes : inReplyTo[n] < n
  /\ visible \subseteq Notes
  /\ stored \subseteq Notes /\ IsFiniteSet(stored)

LEMMA ThreadsStart == ThreadsInit => ThreadsInv
BY FS_EmptySet DEF ThreadsInit, ThreadsInv

LEMMA ThreadsStep == ThreadsInv /\ [ThreadsNext]_tvars => ThreadsInv'
<1> SUFFICES ASSUME ThreadsInv, [ThreadsNext]_tvars PROVE ThreadsInv'
  OBVIOUS
<1>1. ASSUME NEW n \in Notes, stored' = stored \cup {n}, UNCHANGED <<inReplyTo, author, visible>> PROVE ThreadsInv'
  BY <1>1, FS_AddElement DEF ThreadsInv
<1>2. ASSUME NEW n \in stored, stored' = stored \ {n}, UNCHANGED <<inReplyTo, author, visible>> PROVE ThreadsInv'
  BY <1>2, FS_RemoveElement DEF ThreadsInv
<1>3. CASE UNCHANGED tvars
  BY <1>3 DEF ThreadsInv, tvars
<1> QED BY <1>1, <1>2, <1>3 DEF ThreadsNext, Stored, Vanished

LEMMA NotesAreNumbers == Notes \subseteq Nat /\ NoNote \notin Notes /\ MaxDepth \in Nat /\ MaxDepth # 0 /\ NoNote \in Nat
BY ThreadsAssumption DEF NoNote

\* A note is a number, and replies to a smaller one.
LEMMA NoteParts ==
  ASSUME ThreadsInv, NEW n \in Notes
  PROVE  /\ n \in Nat /\ n # NoNote /\ NoNote \notin Notes
         /\ inReplyTo[n] \in Notes \cup {NoNote} /\ inReplyTo[n] \in Nat /\ inReplyTo[n] < n
<1>1. n \in Nat /\ n # NoNote /\ NoNote \notin Notes
  BY NotesAreNumbers
<1>2. inReplyTo[n] \in Notes \cup {NoNote} /\ inReplyTo[n] < n
  BY DEF ThreadsInv
<1>3. inReplyTo[n] \in Nat
  BY <1>2, NotesAreNumbers
<1> QED BY <1>1, <1>2, <1>3

LEMMA UpIs ==
  ASSUME ThreadsInv, NEW b \in BOOLEAN
  PROVE  /\ Up(NoNote, b) = NoNote
         /\ \A n \in Notes \cup {NoNote} : Up(n, b) \in stored \cup {NoNote} /\ (Up(n, b) # NoNote => n \in stored /\ Up(n, b) < n)
<1>1. Up(NoNote, b) = NoNote
  BY NotesAreNumbers DEF Up, ThreadsInv
<1>2. ASSUME NEW n \in Notes PROVE Up(n, b) \in stored \cup {NoNote} /\ (Up(n, b) # NoNote => n \in stored /\ Up(n, b) < n)
  BY NoteParts DEF Up
<1> QED BY <1>1, <1>2

\* The way up from a note.
IsWay(A, n, b) == A \in [0..MaxDepth -> Notes \cup {NoNote}] /\ A[0] = n /\ \A i \in 1..MaxDepth : A[i] = Up(A[i - 1], b)
LEMMA AboveIs ==
  ASSUME ThreadsInv, NEW n \in Notes, NEW b \in BOOLEAN
  PROVE  IsWay(Above(n, b), n, b)
<1> DEFINE V == Notes \cup {NoNote}
           next == [i \in 1..MaxDepth |-> [v \in V |-> Up(v, b)]]
           Climbs(at) == at = [i \in 0..MaxDepth |-> IF i = 0 THEN n
                               ELSE IF at[i - 1] = NoNote THEN NoNote
                               ELSE Up(at[i - 1], b)]
<1>1. \A v \in V : Up(v, b) \in V
  BY UpIs DEF ThreadsInv
<1>2. next \in [1..MaxDepth -> [V -> V]]
  BY <1>1
<1>3. \A i \in 1..MaxDepth : \A v \in V : next[i][v] = Up(v, b)
  OBVIOUS
<1>4. MaxDepth \in Nat /\ n \in V
  BY NotesAreNumbers
<1> HIDE DEF next, V
<1>5. PICK f \in [0..MaxDepth -> V] : IsRecursion(f, MaxDepth, n, next)
  BY <1>2, <1>4, RecursionExists
<1>6. f[0] = n /\ \A i \in 1..MaxDepth : f[i] = Up(f[i - 1], b)
  <2>1. ASSUME NEW i \in 1..MaxDepth PROVE f[i] = Up(f[i - 1], b)
    <3>1. i - 1 \in 0..MaxDepth
      BY <1>4
    <3>2. f[i - 1] \in V /\ f[i] = next[i][f[i - 1]]
      BY <1>5, <3>1 DEF IsRecursion
    <3> QED BY <1>3, <3>2
  <2> QED BY <2>1, <1>5 DEF IsRecursion
<1>7. Climbs(f)
  <2>1. ASSUME NEW i \in 0..MaxDepth
        PROVE  f[i] = IF i = 0 THEN n ELSE IF f[i - 1] = NoNote THEN NoNote ELSE Up(f[i - 1], b)
    <3>1. i # 0 => i \in 1..MaxDepth
      BY <1>4
    <3> QED BY <1>6, <3>1, UpIs
  <2> QED BY <2>1, <1>5
<1> DEFINE A == CHOOSE at : Climbs(at)
<1>8. Climbs(A)
  BY <1>7
<1>9. Above(n, b) = A
  BY DEF Above
<1> HIDE DEF A
<1>10. A[0] = n /\ DOMAIN A = 0..MaxDepth
  BY <1>4, <1>8
<1>11. ASSUME NEW i \in 1..MaxDepth PROVE A[i] = Up(A[i - 1], b)
  <2>1. i \in 0..MaxDepth /\ i # 0
    BY <1>4
  <2>2. A[i] = IF A[i - 1] = NoNote THEN NoNote ELSE Up(A[i - 1], b)
    BY <1>8, <2>1
  <2> QED BY <2>2, UpIs
<1>12. \A i \in 0..MaxDepth : A[i] = f[i]
  <2> DEFINE Good == {i \in Nat : i <= MaxDepth => A[i] = f[i]}
  <2>1. 0 \in Good
    BY <1>6, <1>10
  <2>2. ASSUME NEW i \in Nat, i \in Good PROVE i + 1 \in Good
    <3>1. i + 1 <= MaxDepth => i + 1 \in 1..MaxDepth /\ (i + 1) - 1 = i
      BY <1>4
    <3> QED BY <1>4, <1>6, <1>11, <2>2, <3>1
  <2> HIDE DEF Good
  <2>3. Nat \subseteq Good
    BY <2>1, <2>2, SetInduction
  <2> QED BY <2>3, <1>4 DEF Good
<1>13. A = [i \in 0..MaxDepth |-> A[i]]
  BY <1>8
<1>14. A \in [0..MaxDepth -> V]
  BY <1>12, <1>13
<1> QED BY <1>9, <1>10, <1>11, <1>14 DEF IsWay, V

\* The numbers on the way up descend, until it ends.
LEMMA Descending ==
  ASSUME ThreadsInv, NEW n \in Notes, NEW b \in BOOLEAN, NEW A, IsWay(A, n, b)
  PROVE  \A i \in 0..MaxDepth : \A j \in 0..MaxDepth : i < j /\ A[j] # NoNote => A[i] # NoNote /\ A[j] < A[i] /\ A[i] \in stored
<1>1. MaxDepth \in Nat /\ \A i \in 0..MaxDepth : A[i] \in Notes \cup {NoNote} /\ A[i] \in Nat
  BY NotesAreNumbers DEF IsWay
<1>2. ASSUME NEW j \in 1..MaxDepth, A[j] # NoNote PROVE A[j - 1] # NoNote /\ A[j] < A[j - 1] /\ A[j - 1] \in stored
  <2>1. A[j] = Up(A[j - 1], b) /\ A[j - 1] \in Notes \cup {NoNote}
    BY <1>1 DEF IsWay
  <2> QED BY <2>1, <1>2, UpIs
<1> DEFINE Good == {j \in Nat : j <= MaxDepth => \A i \in 0..MaxDepth : i < j /\ A[j] # NoNote => A[i] # NoNote /\ A[j] < A[i] /\ A[i] \in stored}
<1>3. 0 \in Good
  OBVIOUS
<1>4. ASSUME NEW j \in Nat, j \in Good PROVE j + 1 \in Good
  <2>1. SUFFICES ASSUME j + 1 <= MaxDepth, NEW i \in 0..MaxDepth, i < j + 1, A[j + 1] # NoNote
                 PROVE  A[i] # NoNote /\ A[j + 1] < A[i] /\ A[i] \in stored
    OBVIOUS
  <2>2. j + 1 \in 1..MaxDepth /\ j \in 0..MaxDepth /\ j + 1 \in 0..MaxDepth /\ (j + 1) - 1 = j
    BY <1>1, <2>1
  <2>3. A[j] # NoNote /\ A[j + 1] < A[j] /\ A[j] \in stored
    BY <1>2, <2>1, <2>2
  <2>4. CASE i = j
    BY <2>3, <2>4
  <2>5. CASE i < j
    <3>1. A[i] # NoNote /\ A[j] < A[i] /\ A[i] \in stored
      BY <1>4, <2>2, <2>3, <2>5
    <3> QED BY <3>1, <2>3, <1>1, <2>2
  <2> QED BY <2>1, <2>4, <2>5
<1> HIDE DEF Good
<1>5. Nat \subseteq Good
  BY <1>3, <1>4, SetInduction
<1> QED BY <1>5, <1>1 DEF Good

\* The root is on the way up, and the least of the notes there.
LEMMA RootIs ==
  ASSUME ThreadsInv, NEW n \in Notes, NEW b \in BOOLEAN
  PROVE  /\ FindRoot(n, b) \in AncestorChain(n, b)
         /\ \A a \in AncestorChain(n, b) : FindRoot(n, b) <= a
         /\ AncestorChain(n, b) \subseteq Notes
<1>1. AncestorChain(n, b) \subseteq Notes /\ n \in AncestorChain(n, b)
  BY AboveIs, NoteParts, NotesAreNumbers DEF AncestorChain, IsWay
<1>2. AncestorChain(n, b) \subseteq Nat /\ AncestorChain(n, b) # {}
  BY <1>1, NotesAreNumbers
<1>3. \E a \in AncestorChain(n, b) : \A o \in AncestorChain(n, b) : a <= o
  BY <1>2, LeastExists
<1> QED BY <1>1, <1>3 DEF FindRoot

\* The root of a note is that of the notes of the thread, unless the way up is cut off.
LEMMA OneRoot ==
  ASSUME ThreadsInv, \A m \in stored : Above(m, TRUE)[MaxDepth] = NoNote,
         NEW n \in stored, NEW m \in ThreadOf(ThreadRoot(n))
  PROVE  ThreadRoot(m) = ThreadRoot(n)
<1> DEFINE A == Above(n, TRUE)
           B == Above(m, TRUE)
           r == FindRoot(n, TRUE)
<1>1. n \in Notes /\ m \in stored /\ m \in Notes /\ MaxDepth \in Nat /\ MaxDepth # 0
  BY NotesAreNumbers DEF ThreadsInv, ThreadOf, DescendantsOf
<1>2. PICK j \in 0..MaxDepth : B[j] = r
  BY DEF ThreadOf, DescendantsOf, ThreadRoot
<1>3. IsWay(A, n, TRUE) /\ IsWay(B, m, TRUE)
  BY <1>1, AboveIs
<1>4. A[MaxDepth] = NoNote /\ B[MaxDepth] = NoNote
  BY <1>1
<1>5. AncestorChain(n, TRUE) = {A[i] : i \in 0..(MaxDepth - 1)} \ {NoNote}
      /\ AncestorChain(m, TRUE) = {B[i] : i \in 0..(MaxDepth - 1)} \ {NoNote}
  BY DEF AncestorChain
<1>6. r \in AncestorChain(n, TRUE) /\ (\A a \in AncestorChain(n, TRUE) : r <= a) /\ r \in Notes /\ r \in Nat
  BY <1>1, RootIs, NotesAreNumbers
<1> HIDE DEF A, B, r
<1>7. PICK k \in 0..(MaxDepth - 1) : A[k] = r /\ r # NoNote
  BY <1>5, <1>6
<1>8. k \in 0..MaxDepth /\ k + 1 \in 1..MaxDepth /\ k + 1 \in 0..MaxDepth /\ (k + 1) - 1 = k
  BY <1>1
<1>9. \A i \in 0..MaxDepth : A[i] \in Nat /\ B[i] \in Nat
  BY <1>3, NotesAreNumbers DEF IsWay
<1>10. A[k + 1] = NoNote
  <2>1. SUFFICES ASSUME A[k + 1] # NoNote PROVE FALSE
    OBVIOUS
  <2>2. A[k + 1] < A[k]
    <3>1. k < k + 1 /\ n \in Notes /\ TRUE \in BOOLEAN
      BY <1>1, <1>8
    <3>2. \A i \in 0..MaxDepth : \A h \in 0..MaxDepth : i < h /\ A[h] # NoNote => A[i] # NoNote /\ A[h] < A[i] /\ A[i] \in stored
      BY <1>3, <3>1, Descending
    <3> QED BY <1>8, <2>1, <3>1, <3>2
  <2>3. k + 1 # MaxDepth
    BY <1>4, <2>1
  <2>4. k + 1 \in 0..(MaxDepth - 1)
    BY <1>1, <2>3
  <2>5. A[k + 1] \in AncestorChain(n, TRUE)
    BY <1>5, <2>1, <2>4
  <2>6. r <= A[k + 1]
    BY <1>6, <2>5
  <2> QED BY <1>6, <1>7, <1>8, <1>9, <2>2, <2>6
<1>11. Up(r, TRUE) = NoNote
  BY <1>3, <1>7, <1>8, <1>10 DEF IsWay
<1>12. j # MaxDepth
  BY <1>2, <1>4, <1>7
<1>13. j \in 0..(MaxDepth - 1) /\ j + 1 \in 1..MaxDepth /\ j + 1 \in 0..MaxDepth /\ (j + 1) - 1 = j
  BY <1>1, <1>12
<1>14. B[j + 1] = NoNote
  BY <1>2, <1>3, <1>11, <1>13 DEF IsWay
<1>15. r \in AncestorChain(m, TRUE)
  BY <1>2, <1>5, <1>7, <1>13
<1>16. ASSUME NEW i \in 0..(MaxDepth - 1), B[i] # NoNote PROVE r <= B[i]
  <2>1. i \in 0..MaxDepth
    BY <1>1
  <2>2. i <= j
    <3>1. SUFFICES ASSUME ~(i <= j) PROVE FALSE
      OBVIOUS
    <3>2. i = j + 1 \/ j + 1 < i
      BY <3>1, <1>1
    <3> QED BY <3>2, <1>1, <1>3, <1>13, <1>14, <1>16, <2>1, Descending
  <2>3. CASE i = j
    BY <2>3, <1>2, <1>6
  <2>4. CASE i < j
    <3>1. B[j] < B[i]
      BY <2>4, <1>1, <1>2, <1>3, <1>7, <2>1, Descending
    <3> QED BY <3>1, <1>2, <1>9, <2>1
  <2> QED BY <2>2, <2>3, <2>4, <1>1
<1>17. \A a \in AncestorChain(m, TRUE) : r <= a
  BY <1>5, <1>16
<1> DEFINE s == FindRoot(m, TRUE)
<1>18. s \in AncestorChain(m, TRUE) /\ (\A a \in AncestorChain(m, TRUE) : s <= a) /\ s \in Nat
  BY <1>1, RootIs, NotesAreNumbers
<1>19. s <= r /\ r <= s
  BY <1>15, <1>17, <1>18
<1> HIDE DEF s
<1>20. s = r
  BY <1>6, <1>18, <1>19
<1> QED BY <1>20 DEF s, r, ThreadRoot

LEMMA TheQueriesAgree == ThreadsInv => ThreadsAgree
<1> SUFFICES ASSUME ThreadsInv, NEW n \in stored
             PROVE  /\ n \in ThreadOf(ThreadRoot(n))
                    /\ (\A m \in stored : Above(m, TRUE)[MaxDepth] = NoNote) =>
                         \A m \in ThreadOf(ThreadRoot(n)) : ThreadRoot(m) = ThreadRoot(n)
  BY DEF ThreadsAgree
<1>1. n \in Notes /\ MaxDepth \in Nat
  BY NotesAreNumbers DEF ThreadsInv
<1>2. PICK k \in 0..(MaxDepth - 1) : Above(n, TRUE)[k] = ThreadRoot(n)
  BY <1>1, RootIs DEF AncestorChain, ThreadRoot
<1>3. k \in 0..MaxDepth
  BY <1>1
<1>4. n \in ThreadOf(ThreadRoot(n))
  BY <1>2, <1>3 DEF ThreadOf, DescendantsOf
<1> QED BY <1>4, OneRoot

-----------------------------------------------------------------------------
(* Hidden notes.  Three functions are defined along the way up: the top of
   a run of hidden notes, the nearest visible note above, and the hidden
   notes on the way to it. *)

\* What is defined along the way up, over the notes whose parent is in a set, exists.
IsAlong(f, Q, b, g) == \A m \in Notes : f[m] = IF inReplyTo[m] \in Q THEN g[m][f[inReplyTo[m]]] ELSE b[m]
LEMMA AlongTheWayUp ==
  ASSUME ThreadsInv, NEW Q, Q \subseteq Notes, NEW V, NEW b \in [Notes -> V], NEW g \in [Notes -> [V -> V]]
  PROVE  \E f \in [Notes -> V] : IsAlong(f, Q, b, g)
<1> DEFINE S == {m \in Notes : inReplyTo[m] \in Q}
           p == [m \in S |-> inReplyTo[m]]
           h == [m \in S |-> g[m]]
<1>1. Notes \subseteq Nat
  BY NotesAreNumbers
<1>2. S \subseteq Notes /\ p \in [S -> Notes] /\ \A m \in S : p[m] < m
  BY NoteParts
<1>3. h \in [S -> [V -> V]]
  OBVIOUS
<1>4. (\A m \in S : p[m] = inReplyTo[m] /\ h[m] = g[m]) /\ \A m \in Notes : m \in S <=> inReplyTo[m] \in Q
  OBVIOUS
<1> HIDE DEF S, p, h
<1>5. PICK f \in [Notes -> V] : IsRecursionOn(f, Notes, S, p, b, h)
  BY <1>1, <1>2, <1>3, RecursionOnExists
<1>6. \A m \in Notes : f[m] = IF m \in S THEN h[m][f[p[m]]] ELSE b[m]
  BY <1>5 DEF IsRecursionOn
<1>7. \A m \in Notes : f[m] = IF inReplyTo[m] \in Q THEN g[m][f[inReplyTo[m]]] ELSE b[m]
  BY <1>4, <1>6
<1> QED BY <1>7 DEF IsAlong

\* What holds of a note when it holds of the one it replies to, if that is in the set,
\* holds of all.
LEMMA DownTheWay ==
  ASSUME ThreadsInv, NEW Q, NEW Good,
         \A m \in Notes : (inReplyTo[m] \in Q \cap Notes => inReplyTo[m] \in Good) => m \in Good
  PROVE  Notes \subseteq Good
<1>1. SUFFICES ASSUME Notes \ Good # {} PROVE FALSE
  OBVIOUS
<1>2. Notes \ Good \subseteq Nat
  BY NotesAreNumbers
<1>3. PICK m \in Notes \ Good : \A o \in Notes \ Good : m <= o
  BY <1>1, <1>2, LeastExists
<1>4. inReplyTo[m] < m /\ m \in Nat /\ inReplyTo[m] \in Nat
  BY NoteParts
<1>5. inReplyTo[m] \notin Notes \ Good
  BY <1>3, <1>4
<1> QED BY <1>5

IsTop(rows) == \A m \in Notes : /\ TopOfRun(rows, m) \in Notes
                                /\ TopOfRun(rows, m) = IF HiddenParent(rows, m) THEN TopOfRun(rows, inReplyTo[m]) ELSE m
LEMMA RunTopIs ==
  ASSUME ThreadsInv, NEW rows \in SUBSET Notes
  PROVE  IsTop(rows)
<1> DEFINE Q == rows \ visible
           g == [m \in Notes |-> [v \in Notes |-> v]]
           b == [m \in Notes |-> m]
           Is(f) == f = [m \in Notes |-> IF inReplyTo[m] \in rows \ visible THEN f[inReplyTo[m]] ELSE m]
<1>1. g \in [Notes -> [Notes -> Notes]] /\ b \in [Notes -> Notes] /\ Q \subseteq Notes
  OBVIOUS
<1>2. (\A m \in Notes : b[m] = m) /\ \A m \in Notes : \A v \in Notes : g[m][v] = v
  OBVIOUS
<1> HIDE DEF g, b
<1>3. PICK f \in [Notes -> Notes] : IsAlong(f, Q, b, g)
  <2> HIDE DEF Q
  <2> QED BY <1>1, AlongTheWayUp
<1>4. Is(f)
  <2>1. ASSUME NEW m \in Notes PROVE f[m] = IF inReplyTo[m] \in rows \ visible THEN f[inReplyTo[m]] ELSE m
    <3>1. inReplyTo[m] \in Q => f[inReplyTo[m]] \in Notes
      BY <1>1
    <3> QED BY <1>2, <1>3, <3>1 DEF IsAlong
  <2> QED BY <2>1
<1> DEFINE T == CHOOSE t : Is(t)
<1>5. Is(T)
  BY <1>4
<1>6. \A m : TopOfRun(rows, m) = T[m]
  BY DEF TopOfRun
<1> HIDE DEF T
<1>7. \A m \in Notes : T[m] = IF inReplyTo[m] \in rows \ visible THEN T[inReplyTo[m]] ELSE m
  BY <1>5
<1> DEFINE Good == {m \in Notes : T[m] \in Notes}
<1>8. Notes \subseteq Good
  <2>1. \A m \in Notes : (inReplyTo[m] \in Q \cap Notes => inReplyTo[m] \in Good) => m \in Good
    BY <1>7
  <2> HIDE DEF Q, Good
  <2> QED BY <2>1, DownTheWay
<1> QED BY <1>6, <1>7, <1>8 DEF IsTop, HiddenParent

IsNearest(rows) == \A m \in Notes : NearestVisible(rows, m) = IF inReplyTo[m] \notin rows THEN NoNote
                                                              ELSE IF inReplyTo[m] \in visible THEN inReplyTo[m]
                                                              ELSE NearestVisible(rows, inReplyTo[m])
LEMMA NearestIs ==
  ASSUME ThreadsInv, NEW rows \in SUBSET Notes
  PROVE  IsNearest(rows)
<1> DEFINE Q == rows \ visible
           V == Notes \cup {NoNote}
           g == [m \in Notes |-> [v \in V |-> v]]
           b == [m \in Notes |-> IF inReplyTo[m] \notin rows THEN NoNote ELSE inReplyTo[m]]
           Is(f) == f = [m \in Notes |-> IF inReplyTo[m] \notin rows THEN NoNote
                           ELSE IF inReplyTo[m] \in visible THEN inReplyTo[m]
                           ELSE f[inReplyTo[m]]]
<1>1. g \in [Notes -> [V -> V]] /\ b \in [Notes -> V] /\ Q \subseteq Notes
  BY NoteParts
<1>2. (\A m \in Notes : b[m] = IF inReplyTo[m] \notin rows THEN NoNote ELSE inReplyTo[m]) /\ \A m \in Notes : \A v \in V : g[m][v] = v
  OBVIOUS
<1> HIDE DEF g, b
<1>3. PICK f \in [Notes -> V] : IsAlong(f, Q, b, g)
  <2> HIDE DEF Q, V
  <2> QED BY <1>1, AlongTheWayUp
<1>4. Is(f)
  <2>1. ASSUME NEW m \in Notes
        PROVE  f[m] = IF inReplyTo[m] \notin rows THEN NoNote
                      ELSE IF inReplyTo[m] \in visible THEN inReplyTo[m] ELSE f[inReplyTo[m]]
    <3>1. inReplyTo[m] \in Q => f[inReplyTo[m]] \in V
      BY <1>1
    <3> QED BY <1>2, <1>3, <3>1 DEF IsAlong
  <2> QED BY <2>1
<1> DEFINE N == CHOOSE t : Is(t)
<1>5. Is(N)
  BY <1>4
<1>6. \A m : NearestVisible(rows, m) = N[m]
  BY DEF NearestVisible
<1> HIDE DEF N
<1>7. \A m \in Notes : N[m] = IF inReplyTo[m] \notin rows THEN NoNote
                             ELSE IF inReplyTo[m] \in visible THEN inReplyTo[m] ELSE N[inReplyTo[m]]
  BY <1>5
<1> QED BY <1>6, <1>7 DEF IsNearest

IsHiddenAbove(rows) == \A m \in Notes : HiddenAbove(rows, m) = IF HiddenParent(rows, m)
                                                               THEN {inReplyTo[m]} \cup HiddenAbove(rows, inReplyTo[m]) ELSE {}
LEMMA HiddenAboveIs ==
  ASSUME ThreadsInv, NEW rows \in SUBSET Notes
  PROVE  IsHiddenAbove(rows)
<1> DEFINE Q == rows \ visible
           V == SUBSET Notes
           g == [m \in Notes |-> [v \in V |-> (Notes \cap {inReplyTo[m]}) \cup v]]
           b == [m \in Notes |-> {}]
           Is(f) == f = [m \in Notes |-> IF inReplyTo[m] \in rows \ visible
                          THEN {inReplyTo[m]} \cup f[inReplyTo[m]] ELSE {}]
<1>1. g \in [Notes -> [V -> V]] /\ b \in [Notes -> V] /\ Q \subseteq Notes
  OBVIOUS
<1>2. (\A m \in Notes : b[m] = {}) /\ \A m \in Notes : \A v \in V : g[m][v] = (Notes \cap {inReplyTo[m]}) \cup v
  OBVIOUS
<1> HIDE DEF g, b
<1>3. PICK f \in [Notes -> V] : IsAlong(f, Q, b, g)
  <2> HIDE DEF Q, V
  <2> QED BY <1>1, AlongTheWayUp
<1>4. Is(f)
  <2>1. ASSUME NEW m \in Notes
        PROVE  f[m] = IF inReplyTo[m] \in rows \ visible THEN {inReplyTo[m]} \cup f[inReplyTo[m]] ELSE {}
    <3>1. inReplyTo[m] \in Q => f[inReplyTo[m]] \in V /\ Notes \cap {inReplyTo[m]} = {inReplyTo[m]}
      BY <1>1
    <3> QED BY <1>2, <1>3, <3>1 DEF IsAlong
  <2> QED BY <2>1
<1> DEFINE H == CHOOSE t : Is(t)
<1>5. Is(H)
  BY <1>4
<1>6. \A m : HiddenAbove(rows, m) = H[m]
  BY DEF HiddenAbove
<1> HIDE DEF H
<1>7. \A m \in Notes : H[m] = IF inReplyTo[m] \in rows \ visible THEN {inReplyTo[m]} \cup H[inReplyTo[m]] ELSE {}
  BY <1>5
<1> QED BY <1>6, <1>7 DEF IsHiddenAbove, HiddenParent

\* The top of a run is the same for every note of it, is hidden if the note is, and
\* its parent is not: what is nearest above it is nearest above the note.
LEMMA TopsAre ==
  ASSUME ThreadsInv, NEW rows \in SUBSET Notes, NEW m \in Notes
  PROVE  /\ TopOfRun(rows, m) \in Notes /\ ~HiddenParent(rows, TopOfRun(rows, m))
         /\ m \in rows \ visible => TopOfRun(rows, m) \in rows \ visible
         /\ NearestVisible(rows, m) = NearestVisible(rows, TopOfRun(rows, m))
<1> DEFINE T(n) == TopOfRun(rows, n)
           Q == rows \ visible
           Good == {n \in Notes : /\ ~HiddenParent(rows, T(n)) /\ (n \in Q => T(n) \in Q)
                                  /\ NearestVisible(rows, n) = NearestVisible(rows, T(n))}
<1>1. IsTop(rows) /\ IsNearest(rows)
  BY RunTopIs, NearestIs
<1>2. ASSUME NEW n \in Notes, inReplyTo[n] \in Q \cap Notes => inReplyTo[n] \in Good PROVE n \in Good
  <2>1. CASE HiddenParent(rows, n)
    <3>1. inReplyTo[n] \in Q /\ inReplyTo[n] \in Notes
      BY <2>1 DEF HiddenParent
    <3>2. T(n) = T(inReplyTo[n])
      BY <1>1, <2>1 DEF IsTop
    <3>3. NearestVisible(rows, n) = NearestVisible(rows, inReplyTo[n])
      BY <1>1, <3>1 DEF IsNearest
    <3> QED BY <1>2, <3>1, <3>2, <3>3
  <2>2. CASE ~HiddenParent(rows, n)
    <3>1. T(n) = n
      BY <1>1, <2>2 DEF IsTop
    <3> QED BY <2>2, <3>1
  <2> QED BY <2>1, <2>2
<1> HIDE DEF Good, T
<1>3. Notes \subseteq Good
  <2> HIDE DEF Q
  <2> QED BY <1>2, DownTheWay
<1>4. m \in Good
  BY <1>3
<1> QED BY <1>1, <1>4 DEF Good, T, IsTop

\* The hidden notes above a note have its top, which is one of them.
LEMMA TopsAbove ==
  ASSUME ThreadsInv, NEW rows \in SUBSET Notes, NEW m \in Notes
  PROVE  /\ \A h \in HiddenAbove(rows, m) : TopOfRun(rows, h) = TopOfRun(rows, m)
         /\ HiddenParent(rows, m) => TopOfRun(rows, m) \in HiddenAbove(rows, m)
<1> DEFINE T(n) == TopOfRun(rows, n)
           H(n) == HiddenAbove(rows, n)
           Q == rows \ visible
           Good == {n \in Notes : (\A h \in H(n) : T(h) = T(n)) /\ (HiddenParent(rows, n) => T(n) \in H(n))}
<1>1. IsTop(rows) /\ IsHiddenAbove(rows)
  BY RunTopIs, HiddenAboveIs
<1>2. ASSUME NEW n \in Notes, inReplyTo[n] \in Q \cap Notes => inReplyTo[n] \in Good PROVE n \in Good
  <2>1. CASE HiddenParent(rows, n)
    <3>1. inReplyTo[n] \in Q /\ inReplyTo[n] \in Notes
      BY <2>1 DEF HiddenParent
    <3>2. T(n) = T(inReplyTo[n]) /\ H(n) = {inReplyTo[n]} \cup H(inReplyTo[n])
      BY <1>1, <2>1 DEF IsTop, IsHiddenAbove
    <3>3. ~HiddenParent(rows, inReplyTo[n]) => T(inReplyTo[n]) = inReplyTo[n]
      BY <1>1, <3>1 DEF IsTop
    <3>4. inReplyTo[n] \in Good
      BY <1>2, <3>1
    <3> HIDE DEF T, H
    <3> QED BY <3>2, <3>3, <3>4
  <2>2. CASE ~HiddenParent(rows, n)
    <3>1. H(n) = {}
      BY <1>1, <2>2 DEF IsHiddenAbove
    <3> QED BY <2>2, <3>1
  <2> QED BY <2>1, <2>2
<1> HIDE DEF Good, T, H
<1>3. Notes \subseteq Good
  <2> HIDE DEF Q
  <2> QED BY <1>2, DownTheWay
<1>4. m \in Good
  BY <1>3
<1> QED BY <1>4 DEF Good, T, H

\* What a request returns is a function: what each note and each placeholder is shown
\* as a reply to.
ShownNotes(rows) == rows \cap visible
Placeholders(rows) == {TopOfRun(rows, inReplyTo[n]) : n \in {m \in ShownNotes(rows) : HiddenParent(rows, m)}}
ShownTo(rows) == [n \in ShownNotes(rows) \cup Placeholders(rows) |->
                    IF n \in visible
                    THEN IF HiddenParent(rows, n) THEN TopOfRun(rows, inReplyTo[n]) ELSE inReplyTo[n]
                    ELSE IF inReplyTo[n] \in rows THEN inReplyTo[n] ELSE NoNote]
LEMMA PlaceholdersAre ==
  ASSUME ThreadsInv, NEW rows \in SUBSET Notes
  PROVE  /\ Placeholders(rows) \subseteq rows \ visible
         /\ \A t \in Placeholders(rows) : ~HiddenParent(rows, t)
<1>1. ASSUME NEW n \in ShownNotes(rows), HiddenParent(rows, n)
      PROVE  TopOfRun(rows, inReplyTo[n]) \in rows \ visible /\ ~HiddenParent(rows, TopOfRun(rows, inReplyTo[n]))
  <2>1. inReplyTo[n] \in rows \ visible /\ inReplyTo[n] \in Notes
    BY <1>1 DEF HiddenParent
  <2> QED BY <2>1, TopsAre
<1> QED BY <1>1 DEF Placeholders

LEMMA CollapseIsAFunction ==
  ASSUME ThreadsInv, NEW rows \in SUBSET Notes
  PROVE  Collapse(rows) = {<<n, ShownTo(rows)[n]>> : n \in ShownNotes(rows) \cup Placeholders(rows)}
<1> DEFINE P == Placeholders(rows)
           D == ShownNotes(rows)
           F == ShownTo(rows)
           One == {<<n, IF HiddenParent(rows, n) THEN TopOfRun(rows, inReplyTo[n]) ELSE inReplyTo[n]>> : n \in D}
           Two == {<<t, IF inReplyTo[t] \in rows THEN inReplyTo[t] ELSE NoNote>> : t \in P}
<1>1. Collapse(rows) = One \cup Two
  BY DEF Collapse, Placeholders, ShownNotes
<1>2. \A n \in D : F[n] = IF HiddenParent(rows, n) THEN TopOfRun(rows, inReplyTo[n]) ELSE inReplyTo[n]
  BY DEF ShownTo, ShownNotes
<1>3. \A t \in P : F[t] = IF inReplyTo[t] \in rows THEN inReplyTo[t] ELSE NoNote
  BY PlaceholdersAre DEF ShownTo
<1> HIDE DEF D, P, F
<1>4. One = {<<n, F[n]>> : n \in D}
  BY <1>2
<1>5. Two = {<<n, F[n]>> : n \in P}
  BY <1>3
<1>6. {<<n, F[n]>> : n \in D \cup P} = {<<n, F[n]>> : n \in D} \cup {<<n, F[n]>> : n \in P}
  OBVIOUS
<1> HIDE DEF One, Two
<1> QED BY <1>1, <1>4, <1>5, <1>6 DEF D, P, F

\* The way up from a stored note leads over stored notes.
LEMMA ChainIsStored ==
  ASSUME ThreadsInv, NEW n \in stored, NEW b \in BOOLEAN
  PROVE  AncestorChain(n, b) \subseteq stored
<1>1. n \in Notes /\ MaxDepth \in Nat
  BY NotesAreNumbers DEF ThreadsInv
<1>2. IsWay(Above(n, b), n, b)
  BY <1>1, AboveIs
<1>3. ASSUME NEW i \in 0..(MaxDepth - 1), Above(n, b)[i] # NoNote PROVE Above(n, b)[i] \in stored
  <2>1. CASE i = 0
    BY <1>2, <2>1 DEF IsWay
  <2>2. CASE i # 0
    <3>1. i \in 1..MaxDepth /\ i - 1 \in 0..MaxDepth
      BY <1>1, <2>2
    <3>2. Above(n, b)[i] = Up(Above(n, b)[i - 1], b) /\ Above(n, b)[i - 1] \in Notes \cup {NoNote}
      BY <1>2, <3>1 DEF IsWay
    <3> QED BY <1>3, <3>2, UpIs
  <2> QED BY <2>1, <2>2
<1> QED BY <1>3 DEF AncestorChain

\* Collapsing any set of stored notes keeps their shape.
LEMMA ShapeIsKept ==
  ASSUME ThreadsInv, NEW rows, rows \subseteq stored
  PROVE  KeepsShape(rows, Collapse(rows))
<1> DEFINE D == ShownNotes(rows)
           P == Placeholders(rows)
           B == D \cup P
           F == ShownTo(rows)
           G == {<<n, F[n]>> : n \in B}
           to(n) == (CHOOSE q \in G : q[1] = n)[2]
           hidden == {q[1] : q \in G} \ visible
           T(n) == TopOfRun(rows, n)
           H(n) == HiddenAbove(rows, n)
<1>1. rows \in SUBSET Notes /\ visible \subseteq Notes /\ IsFiniteSet(rows)
  BY FS_Subset DEF ThreadsInv
<1>2. Collapse(rows) = G
  BY <1>1, CollapseIsAFunction
<1>3. P \subseteq rows \ visible /\ D = rows \cap visible /\ \A t \in P : ~HiddenParent(rows, t)
  BY <1>1, PlaceholdersAre DEF ShownNotes
<1>4. IsFiniteSet(B)
  <2>1. B \subseteq rows
    BY <1>3
  <2> HIDE DEF B
  <2> QED BY <1>1, <2>1, FS_Subset
<1>5. {q[1] : q \in G} = B /\ Cardinality(B) = Cardinality(G)
  <2> HIDE DEF B, F
  <2> QED BY <1>4, FunctionCounted
<1>6. \A n \in D : F[n] = IF HiddenParent(rows, n) THEN T(inReplyTo[n]) ELSE inReplyTo[n]
  BY <1>3 DEF ShownTo
<1>7. \A t \in P : F[t] = IF inReplyTo[t] \in rows THEN inReplyTo[t] ELSE NoNote
  BY <1>3 DEF ShownTo
<1>8. \A n \in D : HiddenParent(rows, n) => T(inReplyTo[n]) \in P
  BY DEF Placeholders
<1>9. \A t \in P : \E n \in D : HiddenParent(rows, n) /\ T(inReplyTo[n]) = t
  BY DEF Placeholders
<1> HIDE DEF D, P, F
<1>10. ASSUME NEW n \in B PROVE to(n) = F[n]
  <2> DEFINE one == CHOOSE q \in G : q[1] = n
  <2>1. <<n, F[n]>> \in G /\ <<n, F[n]>>[1] = n
    OBVIOUS
  <2>2. \A q \in G : q = <<q[1], F[q[1]]>>
    OBVIOUS
  <2> HIDE DEF G
  <2>3. one \in G /\ one[1] = n
    BY <2>1
  <2>4. to(n) = one[2]
    OBVIOUS
  <2> HIDE DEF one, to
  <2>5. one = <<n, F[n]>>
    BY <2>2, <2>3
  <2> QED BY <2>4, <2>5
<1>11. hidden = P
  BY <1>3, <1>5
<1>12. IsTop(rows) /\ IsNearest(rows) /\ IsHiddenAbove(rows)
  BY <1>1, RunTopIs, NearestIs, HiddenAboveIs
\* A hidden parent is a note, above which the runs go on.
<1>13. ASSUME NEW n \in Notes, HiddenParent(rows, n)
       PROVE  /\ inReplyTo[n] \in rows \ visible /\ inReplyTo[n] \in Notes
              /\ T(inReplyTo[n]) = T(n) /\ NearestVisible(rows, n) = NearestVisible(rows, T(n)) /\ T(n) \in Notes
  <2>1. inReplyTo[n] \in rows \ visible /\ inReplyTo[n] \in Notes
    BY <1>1, <1>13 DEF HiddenParent
  <2>2. T(inReplyTo[n]) = T(n)
    BY <1>12, <1>13 DEF IsTop
  <2>3. NearestVisible(rows, n) = NearestVisible(rows, T(n)) /\ T(n) \in Notes
    BY <1>1, TopsAre
  <2> QED BY <2>1, <2>2, <2>3
\* What is nearest above a placeholder is what it is shown as a reply to.
<1>14. ASSUME NEW t \in P PROVE F[t] = NearestVisible(rows, t) /\ F[t] \notin rows \ visible
  <2>1. t \in Notes /\ ~HiddenParent(rows, t) /\ NoNote \notin rows
    BY <1>1, <1>3, NotesAreNumbers
  <2>2. NearestVisible(rows, t) = IF inReplyTo[t] \in rows THEN inReplyTo[t] ELSE NoNote
    BY <1>12, <2>1 DEF IsNearest, HiddenParent
  <2>3. F[t] = IF inReplyTo[t] \in rows THEN inReplyTo[t] ELSE NoNote
    BY <1>7
  <2> QED BY <2>1, <2>2, <2>3 DEF HiddenParent
<1>15. {q[1] : q \in G} \cap visible = rows \cap visible
  BY <1>3, <1>5
<1>16. ASSUME NEW n \in rows \cap visible
       PROVE  IF to(n) \in P THEN NearestVisible(rows, n) = to(to(n)) /\ inReplyTo[n] \in rows \ visible
              ELSE to(n) = inReplyTo[n] /\ to(n) \notin rows \ visible
  <2>1. n \in D /\ n \in B /\ n \in Notes
    BY <1>1, <1>3
  <2>2. to(n) = F[n]
    BY <1>10, <2>1
  <2>3. ASSUME NEW t \in P PROVE to(t) = NearestVisible(rows, t)
    BY <1>10, <1>14
  <2> HIDE DEF to, B, G
  <2>4. CASE HiddenParent(rows, n)
    <3>1. F[n] = T(inReplyTo[n]) /\ F[n] \in P
      BY <1>6, <1>8, <2>1, <2>4
    <3>2. to(F[n]) = NearestVisible(rows, F[n])
      BY <2>3, <3>1
    <3> QED BY <1>13, <2>1, <2>2, <2>4, <3>1, <3>2
  <2>5. CASE ~HiddenParent(rows, n)
    <3>1. F[n] = inReplyTo[n] /\ F[n] \notin rows \ visible
      BY <1>6, <2>1, <2>5 DEF HiddenParent
    <3>2. F[n] \notin P
      BY <1>3, <3>1
    <3> QED BY <2>2, <3>1, <3>2
  <2> QED BY <2>4, <2>5
\* Who is below a placeholder has a hidden parent.
<1>17. ASSUME NEW m \in {q[1] : q \in {r \in G : r[2] \in P}}
       PROVE  m \in B /\ m \in Notes /\ HiddenParent(rows, m) /\ to(m) = T(m)
  <2>1. m \in B /\ F[m] \in P
    OBVIOUS
  <2>2. m \in D
    BY <1>3, <1>14, <2>1
  <2>3. m \in Notes
    BY <1>1, <1>3, <2>2
  <2>4. HiddenParent(rows, m)
    BY <1>3, <1>6, <2>1, <2>2 DEF HiddenParent
  <2>5. to(m) = F[m]
    BY <1>10, <2>1
  <2> HIDE DEF to
  <2> QED BY <1>6, <1>13, <2>1, <2>2, <2>3, <2>4, <2>5
<1>18. ASSUME NEW m \in {q[1] : q \in {r \in G : r[2] \in P}}, NEW n \in {q[1] : q \in {r \in G : r[2] \in P}}
       PROVE  to(m) = to(n) <=> H(m) \cap H(n) # {}
  <2>1. m \in Notes /\ n \in Notes /\ HiddenParent(rows, m) /\ HiddenParent(rows, n) /\ to(m) = T(m) /\ to(n) = T(n)
    BY <1>17
  <2> HIDE DEF to
  <2>2. (\A h \in H(m) : T(h) = T(m)) /\ T(m) \in H(m)
    BY <1>1, <2>1, TopsAbove
  <2>3. (\A h \in H(n) : T(h) = T(n)) /\ T(n) \in H(n)
    BY <1>1, <2>1, TopsAbove
  <2> HIDE DEF H, T
  <2> QED BY <2>1, <2>2, <2>3
<1>19. ASSUME NEW h \in P PROVE (\E q \in G : q[2] = h) /\ to(h) \notin rows \ visible
  <2>1. PICK n \in D : HiddenParent(rows, n) /\ T(inReplyTo[n]) = h
    BY <1>9
  <2>2. <<n, F[n]>> \in G /\ <<n, F[n]>>[2] = h
    BY <1>6, <2>1
  <2>3. to(h) = F[h]
    BY <1>10
  <2> HIDE DEF to, G
  <2> QED BY <1>14, <2>2, <2>3
<1>20. Cardinality({q[1] : q \in G}) = Cardinality(G)
  BY <1>5
<1> HIDE DEF hidden
<1>21. KeepsShape(rows, G)
  <2>1. \A n \in rows \cap visible :
          IF to(n) \in hidden THEN NearestVisible(rows, n) = to(to(n)) /\ inReplyTo[n] \in rows \ visible
          ELSE to(n) = inReplyTo[n] /\ to(n) \notin rows \ visible
    <3> HIDE DEF to
    <3> QED BY <1>11, <1>16
  <2>2. \A m, n \in {q[1] : q \in {r \in G : r[2] \in hidden}} : to(m) = to(n) <=> H(m) \cap H(n) # {}
    BY <1>11, <1>18
  <2>3. \A h \in hidden : (\E q \in G : q[2] = h) /\ to(h) \notin rows \ visible
    BY <1>11, <1>19
  <2> HIDE DEF G
  <2> QED BY <1>15, <1>20, <2>1, <2>2, <2>3 DEF KeepsShape, hidden
<1> QED BY <1>2, <1>21

LEMMA HiddenNotesKeepTheShape == ThreadsInv => HiddenKeepsShape
<1> SUFFICES ASSUME ThreadsInv, NEW n \in stored
             PROVE  /\ KeepsShape(ThreadOf(ThreadRoot(n)), Block(n))
                    /\ n \in visible =>
                         /\ KeepsShape(AncestorChain(n, FALSE), Collapse(AncestorChain(n, FALSE)))
                         /\ KeepsShape(DescendantsOf(n, FALSE), Collapse(DescendantsOf(n, FALSE)))
  BY DEF HiddenKeepsShape
<1>1. \A r : \A b \in BOOLEAN : DescendantsOf(r, b) \subseteq stored
  BY DEF DescendantsOf
<1>2. AncestorChain(n, FALSE) \subseteq stored
  BY ChainIsStored
<1>3. ThreadOf(ThreadRoot(n)) \subseteq stored /\ DescendantsOf(n, FALSE) \subseteq stored
  BY <1>1 DEF ThreadOf
<1> QED BY <1>2, <1>3, ShapeIsKept DEF Block

-----------------------------------------------------------------------------
(* Lists.  What a thing is shown at is its newest row.  All of them that
   are above the cursor and did not change were returned, and of those
   that did not change no others were. *)
Presented == {i \in WithContent(table) : \A j \in table : i < j => thing[j] # thing[i]}

PagesTyped ==
  /\ mode \in {"blocks", "rows", "reactions"}
  /\ thing \in [Ids -> Ids] /\ (mode # "blocks" => \A i \in Ids : thing[i] = i)
  /\ table \subseteq Ids /\ walked \subseteq Ids /\ cursor \in Nat
  /\ walking \in BOOLEAN /\ cutShort \in BOOLEAN /\ (cutShort => ~walking)

ReturnedAbove == walking => \A i \in walked : cursor <= i
ReturnedIsPresented == \A i \in walked : thing[i] \notin touched => i \in Presented
PresentedIsReturned ==
  \A i \in Presented : thing[i] \notin touched /\ ((walking /\ cursor <= i) \/ (~walking /\ ~cutShort)) => i \in walked

PagesInv == PagesTyped /\ ReturnedAbove /\ ReturnedIsPresented /\ PresentedIsReturned

LEMMA IdsAreNumbers == IsFiniteSet(Ids) /\ Cardinality(Ids) \in Nat /\ Ids = 1..Cardinality(Ids) /\ Limit \in Nat /\ Limit # 0
BY PagesAssumption, FS_CardinalityType

LEMMA IdParts == Ids \subseteq Nat /\ \A i \in Ids : i \in Nat /\ i <= Cardinality(Ids)
BY IdsAreNumbers

\* Of what there is to show, the rows on a page are the newest.
LEMMA NewestIs ==
  ASSUME NEW rows, rows \subseteq Ids, NEW limit \in Nat, limit # 0
  PROVE  IsNewest(Newest(rows, limit), rows, limit)
<1> DEFINE n == Cardinality(Ids)
           page == Newest(rows, limit)
<1>1. n \in Nat /\ rows \subseteq 0..n
  BY IdsAreNumbers, IdParts
<1>2. TheNewest(page, rows, limit)
  BY DEF Newest, TheNewest
<1> HIDE DEF n, page
<1>3. IsNewest(page, rows, limit)
  BY <1>1, <1>2, NewestAre
<1> QED BY <1>3 DEF page

LEMMA LastOfIs ==
  ASSUME NEW page, page \subseteq Ids, page # {}
  PROVE  LastOf(page) \in page /\ (\A j \in page : LastOf(page) <= j) /\ LastOf(page) \in Nat
<1>1. page \subseteq Nat
  BY IdParts
<1>2. \E i \in page : \A j \in page : i <= j
  BY <1>1, LeastExists
<1> QED BY <1>1, <1>2 DEF LastOf

LEMMA PagesStart == PagesInit => PagesInv
<1> SUFFICES ASSUME PagesInit PROVE PagesInv
  OBVIOUS
<1>1. Cardinality(Ids) \in Nat /\ \A i \in Ids : i \in Nat /\ i <= Cardinality(Ids)
  BY IdsAreNumbers, IdParts
<1>2. cursor \in Nat /\ \A i \in Ids : ~(cursor <= i)
  BY <1>1 DEF PagesInit
<1>3. Presented \subseteq Ids
  BY DEF Presented, WithContent, PagesInit
<1>4. PagesTyped /\ ReturnedAbove /\ ReturnedIsPresented
  BY <1>2 DEF PagesInit, PagesTyped, ReturnedAbove, ReturnedIsPresented
<1>5. PresentedIsReturned
  BY <1>2, <1>3 DEF PagesInit, PresentedIsReturned
<1> QED BY <1>4, <1>5 DEF PagesInv

\* A page adds rows, and the rest of the list stays as it is.
PageTurned(page) ==
  /\ walking /\ page \subseteq Presented /\ (\A i \in page : i < cursor)
  /\ walked' = walked \cup page
  /\ UNCHANGED <<mode, thing, nothing, table, touched, changes>>
  /\ \/ /\ page # {} /\ cursor' = LastOf(page) /\ UNCHANGED walking /\ cutShort' \in BOOLEAN /\ (cutShort' => ~walking)
        /\ \A i \in Presented : i < cursor /\ LastOf(page) <= i => i \in page
     \/ /\ walking' = FALSE /\ UNCHANGED cursor /\ cutShort' \in BOOLEAN
        /\ ~cutShort' => \A i \in Presented : i < cursor => i \in page
LEMMA PageTurnedKeeps ==
  ASSUME PagesInv, NEW page, PageTurned(page)
  PROVE  PagesInv'
<1>1. Presented \subseteq Ids /\ page \subseteq Ids /\ Ids \subseteq Nat /\ walked \subseteq Ids /\ cursor \in Nat /\ walking = TRUE
  BY IdParts DEF PagesInv, PagesTyped, Presented, WithContent, PageTurned
<1>2. \A i \in Ids : i \in Nat
  BY IdParts
<1>3. Presented' = Presented /\ touched' = touched /\ thing' = thing /\ walked' = walked \cup page
  BY DEF PageTurned, Presented, WithContent
<1>4. ASSUME NEW i \in Presented PROVE i \in Ids /\ i \in Nat /\ (i < cursor \/ cursor <= i)
  BY <1>1, <1>2
<1>5. ReturnedIsPresented'
  BY <1>3 DEF PagesInv, ReturnedIsPresented, PageTurned
<1>6. CASE page # {} /\ cursor' = LastOf(page) /\ UNCHANGED walking /\ cutShort' \in BOOLEAN /\ (cutShort' => ~walking)
           /\ \A i \in Presented : i < cursor /\ LastOf(page) <= i => i \in page
  <2>1. cursor' \in page /\ (\A i \in page : cursor' <= i) /\ cursor' \in Nat
    BY <1>1, <1>6, LastOfIs
  <2>2. cursor' < cursor /\ walking' = TRUE
    BY <1>1, <1>6, <2>1 DEF PageTurned
  <2>3. PagesTyped'
    BY <1>1, <1>3, <1>6, <2>1 DEF PagesInv, PagesTyped, PageTurned
  <2>4. ASSUME NEW i \in walked' PROVE cursor' <= i
    <3>1. CASE i \in page
      BY <2>1, <3>1
    <3>2. CASE i \in walked
      <4>1. cursor <= i /\ i \in Nat
        BY <1>1, <1>2, <3>2 DEF PagesInv, ReturnedAbove
      <4> QED BY <4>1, <1>1, <2>1, <2>2
    <3> QED BY <1>3, <3>1, <3>2
  <2>5. ASSUME NEW i \in Presented, thing[i] \notin touched, cursor' <= i PROVE i \in walked'
    <3>1. CASE i < cursor
      BY <1>3, <1>6, <2>5, <3>1
    <3>2. CASE cursor <= i
      BY <1>1, <1>3, <2>5, <3>2 DEF PagesInv, PresentedIsReturned
    <3> QED BY <1>4, <3>1, <3>2
  <2>6. ReturnedAbove' /\ PresentedIsReturned'
    BY <1>3, <2>2, <2>4, <2>5 DEF ReturnedAbove, PresentedIsReturned
  <2> QED BY <1>5, <2>3, <2>6 DEF PagesInv
<1>7. CASE walking' = FALSE /\ UNCHANGED cursor /\ cutShort' \in BOOLEAN /\ (~cutShort' => \A i \in Presented : i < cursor => i \in page)
  <2>1. PagesTyped'
    BY <1>1, <1>3, <1>7 DEF PagesInv, PagesTyped, PageTurned
  <2>2. ASSUME NEW i \in Presented, thing[i] \notin touched, ~cutShort' PROVE i \in walked'
    <3>1. CASE i < cursor
      BY <1>3, <1>7, <2>2, <3>1
    <3>2. CASE cursor <= i
      BY <1>1, <1>3, <2>2, <3>2 DEF PagesInv, PresentedIsReturned
    <3> QED BY <1>4, <3>1, <3>2
  <2>3. ReturnedAbove' /\ PresentedIsReturned'
    BY <1>3, <1>7, <2>2 DEF ReturnedAbove, PresentedIsReturned
  <2> QED BY <1>5, <2>1, <2>3 DEF PagesInv
<1> QED BY <1>6, <1>7 DEF PageTurned

\* Of what is presented below the cursor, a page has all from its last row on.
LEMMA FromTheLast ==
  ASSUME NEW rows, rows \subseteq Ids, NEW page, IsNewest(page, rows, Limit), NEW show, show \subseteq page, show # {}
  PROVE  \A i \in rows : LastOf(show) <= i => i \in page
<1>1. \A i \in rows : i \in Nat
  BY IdParts
<1>2. LastOf(show) \in show /\ LastOf(show) \in page /\ LastOf(show) \in rows
  BY LastOfIs DEF IsNewest
<1>3. ASSUME NEW i \in rows, LastOf(show) <= i PROVE i \in page
  <2>1. LastOf(show) = i \/ LastOf(show) < i
    BY <1>1, <1>2, <1>3
  <2> QED BY <1>2, <2>1 DEF IsNewest
<1> QED BY <1>3

LEMMA BlocksTurned == PagesInv /\ PageOfBlocks => PagesInv'
<1> SUFFICES ASSUME PagesInv, PageOfBlocks PROVE PagesInv'
  OBVIOUS
<1> DEFINE rows == {i \in WithContent(table) : i < cursor /\ \A j \in table : i < j => thing[j] # thing[i]}
           page == TimelineBlocks(cursor, Limit)
<1>1. page = Newest(rows, Limit)
  BY DEF TimelineBlocks
<1>2. rows \subseteq Ids /\ Presented \subseteq Ids /\ cursor \in Nat /\ Limit \in Nat /\ Limit # 0
  BY IdsAreNumbers DEF PagesInv, PagesTyped, WithContent, Presented
<1>3. \A i : i \in rows <=> i \in Presented /\ i < cursor
  BY DEF Presented
<1> HIDE DEF rows, page
<1>4. IsNewest(page, rows, Limit)
  BY <1>1, <1>2, NewestIs
<1>5. Turn(page) /\ UNCHANGED cutShort /\ walking
  BY DEF PageOfBlocks, page
<1>6. page \subseteq Presented /\ (\A i \in page : i < cursor) /\ (page = {} => rows = {})
  BY <1>3, <1>4 DEF IsNewest
<1>7. page # {} => \A i \in Presented : i < cursor /\ LastOf(page) <= i => i \in page
  BY <1>2, <1>3, <1>4, FromTheLast
<1>8. PageTurned(page)
  <2>1. CASE page = {}
    BY <1>3, <1>5, <1>6, <2>1 DEF PageTurned, Turn, PagesInv, PagesTyped
  <2>2. CASE page # {}
    BY <1>5, <1>6, <1>7, <2>2 DEF PageTurned, Turn, PagesInv, PagesTyped
  <2> QED BY <2>1, <2>2
<1> QED BY <1>8, PageTurnedKeeps

LEMMA RowsTurned == PagesInv /\ PageOfRows => PagesInv'
<1> SUFFICES ASSUME PagesInv, PageOfRows PROVE PagesInv'
  OBVIOUS
<1> DEFINE below == {i \in table : i < cursor}
           rows == Rows(cursor, Limit)
           page == WithContent(rows)
<1>1. rows = Newest(below, Limit)
  BY DEF Rows
<1>2. table \subseteq Ids /\ below \subseteq Ids /\ Presented \subseteq Ids /\ cursor \in Nat /\ Limit \in Nat /\ Limit # 0
  BY IdsAreNumbers DEF PagesInv, PagesTyped, WithContent, Presented
<1>3. \A i \in table : thing[i] \notin nothing <=> i \in Presented
  <2>1. \A i \in table : i \in Nat /\ thing[i] = i
    BY <1>2, IdParts DEF PagesInv, PagesTyped, PageOfRows
  <2> QED BY <2>1 DEF Presented, WithContent
<1>4. Presented \subseteq table
  BY DEF Presented, WithContent
<1> HIDE DEF rows
<1>5. IsNewest(rows, below, Limit)
  <2> HIDE DEF below
  <2> QED BY <1>1, <1>2, NewestIs
<1>6. Turn(page) /\ cutShort' = (rows # {} /\ page = {}) /\ walking
  BY DEF PageOfRows, rows
<1>7. rows \subseteq table /\ (\A i \in rows : i < cursor) /\ (rows = {} => below = {})
  BY <1>5 DEF IsNewest
<1>8. \A i : i \in page <=> i \in rows /\ i \in Presented
  BY <1>3, <1>7 DEF WithContent
<1> HIDE DEF page
<1>9. page # {} => \A i \in Presented : i < cursor /\ LastOf(page) <= i => i \in page
  <2>1. SUFFICES ASSUME page # {}, NEW i \in Presented, i < cursor, LastOf(page) <= i PROVE i \in page
    OBVIOUS
  <2>2. i \in below /\ page \subseteq rows
    BY <1>4, <1>8, <2>1
  <2> HIDE DEF below
  <2>3. i \in rows
    BY <1>2, <1>5, <2>1, <2>2, FromTheLast
  <2> QED BY <1>8, <2>3
<1>10. PageTurned(page)
  <2>1. CASE page = {}
    <3>1. ~cutShort' => \A i \in Presented : i < cursor => i \in page
      BY <1>4, <1>6, <1>7, <2>1
    <3> QED BY <1>6, <2>1, <3>1 DEF PageTurned, Turn, PagesInv, PagesTyped
  <2>2. CASE page # {}
    BY <1>6, <1>7, <1>8, <1>9, <2>2 DEF PageTurned, Turn, PagesInv, PagesTyped
  <2> QED BY <2>1, <2>2
<1> QED BY <1>10, PageTurnedKeeps

LEMMA ReactionsTurned == PagesInv /\ PageOfReactions => PagesInv'
<1> SUFFICES ASSUME PagesInv, PageOfReactions PROVE PagesInv'
  OBVIOUS
<1> DEFINE rows == {i \in WithContent(table) : i < cursor}
           page == ReactionRows(cursor, Limit)
<1>1. page = Newest(rows, Limit)
  BY DEF ReactionRows
<1>2. table \subseteq Ids /\ rows \subseteq Ids /\ Presented \subseteq Ids /\ cursor \in Nat /\ Limit \in Nat /\ Limit # 0
  BY IdsAreNumbers DEF PagesInv, PagesTyped, WithContent, Presented
<1>3. \A i : i \in rows <=> i \in Presented /\ i < cursor
  <2>1. \A i \in table : i \in Nat /\ thing[i] = i
    BY <1>2, IdParts DEF PagesInv, PagesTyped, PageOfReactions
  <2> QED BY <2>1 DEF Presented, WithContent
<1> HIDE DEF rows
<1>4. IsNewest(page, rows, Limit)
  BY <1>1, <1>2, NewestIs
<1>5. /\ walked' = walked \cup page
      /\ IF Cardinality(page) = Limit THEN cursor' = LastOf(page) /\ UNCHANGED walking
         ELSE walking' = FALSE /\ UNCHANGED cursor
      /\ walking /\ UNCHANGED <<mode, thing, nothing, table, touched, changes, cutShort>>
  BY DEF PageOfReactions
<1> HIDE DEF page
<1>6. page \subseteq Presented /\ (\A i \in page : i < cursor)
  BY <1>3, <1>4 DEF IsNewest
<1>7. PageTurned(page)
  <2>1. CASE Cardinality(page) = Limit
    <3>1. page # {}
      BY <1>2, <2>1, FS_EmptySet
    <3>2. \A i \in Presented : i < cursor /\ LastOf(page) <= i => i \in page
      BY <1>2, <1>3, <1>4, <3>1, FromTheLast
    <3> QED BY <1>5, <1>6, <2>1, <3>1, <3>2 DEF PageTurned, PagesInv, PagesTyped
  <2>2. CASE Cardinality(page) # Limit
    <3>1. page = rows
      BY <1>4, <2>2 DEF IsNewest
    <3> QED BY <1>3, <1>5, <1>6, <2>2, <3>1 DEF PageTurned, PagesInv, PagesTyped
  <2> QED BY <2>1, <2>2
<1> QED BY <1>7, PageTurnedKeeps

\* What changes is not considered any longer, and the rest does not.
LEMMA RowsChange ==
  ASSUME PagesInv, NEW id \in Ids, Change(id), table' \subseteq Ids, \A i \in Ids : i # id => (i \in table' <=> i \in table)
  PROVE  PagesInv'
<1>1. thing' = thing /\ nothing' = nothing /\ touched' = touched \cup {thing[id]}
      /\ UNCHANGED <<mode, cursor, walked, walking, cutShort>>
  BY DEF Change
<1>2. PagesTyped'
  BY <1>1 DEF PagesInv, PagesTyped
<1>3. table \subseteq Ids /\ walked \subseteq Ids
  BY DEF PagesInv, PagesTyped
<1>4. ASSUME NEW i \in Ids, thing[i] \notin touched' PROVE thing[i] \notin touched /\ (i \in Presented' <=> i \in Presented)
  <2>1. thing[i] \notin touched /\ thing[i] # thing[id] /\ i # id
    BY <1>1, <1>4
  <2>2. i \in table' <=> i \in table
    BY <2>1
  <2>3. (\A j \in table' : i < j => thing[j] # thing[i]) <=> (\A j \in table : i < j => thing[j] # thing[i])
    <3>1. ASSUME NEW j \in Ids, thing[j] = thing[i] PROVE j \in table' <=> j \in table
      BY <2>1, <3>1
    <3> QED BY <1>3, <3>1
  <2> QED BY <1>1, <2>1, <2>2, <2>3 DEF Presented, WithContent
<1>5. Presented' \subseteq Ids
  BY DEF Presented, WithContent
<1>6. ReturnedAbove'
  BY <1>1 DEF PagesInv, ReturnedAbove
<1>7. ReturnedIsPresented'
  BY <1>1, <1>3, <1>4 DEF PagesInv, ReturnedIsPresented
<1>8. PresentedIsReturned'
  BY <1>1, <1>4, <1>5 DEF PagesInv, PresentedIsReturned
<1> QED BY <1>2, <1>6, <1>7, <1>8 DEF PagesInv

LEMMA PagesStep == PagesInv /\ [PagesNext]_pvars => PagesInv'
<1> SUFFICES ASSUME PagesInv, [PagesNext]_pvars PROVE PagesInv'
  OBVIOUS
<1>1. CASE UNCHANGED pvars
  BY <1>1 DEF pvars, PagesInv, PagesTyped, ReturnedAbove, ReturnedIsPresented, PresentedIsReturned, Presented, WithContent
<1>2. ASSUME NEW id \in Ids \ table, Change(id), table' = table \cup {id} PROVE PagesInv'
  <2>1. table' \subseteq Ids /\ \A i \in Ids : i # id => (i \in table' <=> i \in table)
    BY <1>2 DEF PagesInv, PagesTyped
  <2> QED BY <1>2, <2>1, RowsChange
<1>3. ASSUME NEW id \in table, Change(id), table' = table \ {id} PROVE PagesInv'
  <2>1. id \in Ids /\ table' \subseteq Ids /\ \A i \in Ids : i # id => (i \in table' <=> i \in table)
    BY <1>3 DEF PagesInv, PagesTyped
  <2> QED BY <1>3, <2>1, RowsChange
<1>4. CASE Appear \/ Recorded
  BY <1>2, <1>4 DEF Appear, Recorded
<1>5. CASE Vanish \/ Forgotten
  BY <1>3, <1>5 DEF Vanish, Forgotten
<1> QED BY <1>1, <1>4, <1>5, BlocksTurned, RowsTurned, ReactionsTurned DEF PagesNext

\* A thing that is in the list has a newest row.
LEMMA NewestRow ==
  ASSUME PagesInv, NEW t, \E i \in table : thing[i] = t, t \notin nothing
  PROVE  \E i \in Presented : thing[i] = t
<1> DEFINE R == {i \in table : thing[i] = t}
<1>1. R \subseteq 0..Cardinality(Ids) /\ R # {} /\ Cardinality(Ids) \in Nat
  <2>1. table \subseteq Ids /\ Cardinality(Ids) \in Nat /\ Ids = 1..Cardinality(Ids)
    BY IdsAreNumbers DEF PagesInv, PagesTyped
  <2>2. R \subseteq 0..Cardinality(Ids)
    BY <2>1
  <2> QED BY <2>1, <2>2
<1>2. PICK m \in R : \A i \in R : i <= m
  <2> HIDE DEF R
  <2> QED BY <1>1, GreatestExists
<1>3. \A i \in table : i \in Nat
  BY IdParts DEF PagesInv, PagesTyped
<1>4. m \in Presented
  BY <1>2, <1>3 DEF Presented, WithContent
<1> QED BY <1>2, <1>4

LEMMA NothingIsMissed == PagesInv => WalkMissesNothing
<1> SUFFICES ASSUME PagesInv, NEW t \in {thing[i] : i \in Ids} \ touched
             PROVE  LET times == Cardinality({id \in walked : thing[id] = t})
                        there == \E id \in table : thing[id] = t
                    IN /\ times <= 1
                       /\ (~walking /\ ~cutShort) => times = (IF there /\ t \notin nothing THEN 1 ELSE 0)
  BY DEF WalkMissesNothing
<1> DEFINE W == {id \in walked : thing[id] = t}
<1>1. \A i \in W : i \in Presented
  BY DEF PagesInv, ReturnedIsPresented
<1>2. ASSUME NEW i \in Presented, NEW j \in Presented, thing[i] = t, thing[j] = t PROVE i = j
  <2>1. i \in Nat /\ j \in Nat /\ i \in table /\ j \in table
    BY IdParts DEF PagesInv, PagesTyped, Presented, WithContent
  <2>2. ~(i < j) /\ ~(j < i)
    BY <1>2, <2>1 DEF Presented
  <2> QED BY <2>1, <2>2
<1>3. W = {} \/ \E i \in W : W = {i}
  BY <1>1, <1>2
<1>4. W = {} => Cardinality(W) = 0
  BY FS_EmptySet
<1>5. (\E i \in W : W = {i}) => Cardinality(W) = 1
  <2> HIDE DEF W
  <2> QED BY FS_Singleton
<1>6. Cardinality(W) <= 1
  BY <1>3, <1>4, <1>5
<1>7. ASSUME ~walking, ~cutShort, \E id \in table : thing[id] = t, t \notin nothing PROVE W # {}
  <2>1. PICK i \in Presented : thing[i] = t
    BY <1>7, NewestRow
  <2>2. i \in walked
    BY <1>7, <2>1 DEF PagesInv, PresentedIsReturned
  <2> QED BY <2>1, <2>2
<1>8. W # {} => (\E id \in table : thing[id] = t) /\ t \notin nothing
  BY <1>1 DEF Presented, WithContent
<1> HIDE DEF W
<1>9. (~walking /\ ~cutShort) => Cardinality(W) = (IF (\E id \in table : thing[id] = t) /\ t \notin nothing THEN 1 ELSE 0)
  BY <1>3, <1>4, <1>5, <1>7, <1>8
<1> QED BY <1>6, <1>9 DEF W

-----------------------------------------------------------------------------
\* A step of the API is a step of each of these parts, or leaves it alone.
LEMMA StepsOfTheParts == [Next]_apivars => [OutboxNext]_ovars /\ [OauthNext]_avars /\ [MediaNext]_mdvars /\ [ConversationsNext]_cvars /\ [ThreadsNext]_tvars /\ [PagesNext]_pvars /\ [StatusesNext]_vars
BY DEF Next, apivars

\* When the projections have caught up, whoever asks for the note, signed or not, sees
\* it if and only if it was meant for them and until it is deleted, the collection
\* shows nobody what was not meant for them, and a shared cache keeps only what is
\* for everybody, however often the outbox restarts and whoever stops following.
THEOREM ServedAsAddressed == Spec => []ServedToTheEntitled
<1>1. Init => OutboxInv
  BY OutboxStart DEF Init, RestingOutbox
<1>2. OutboxInv /\ [Next]_apivars => OutboxInv'
  BY StepsOfTheParts, OutboxStep
<1> QED BY <1>1, <1>2, ServedAsMeant, PTL DEF Spec

\* What was answered with is good at once, and over restarts: a token until it is
\* revoked and no longer, an attachment for whoever uploaded it and nobody else, and
\* a code for one token unless its second exchange began too early.
THEOREM GoodWithTheNextRequest == Spec => []RequestsSeeTheirOwn
<1>1. Init => OauthInv /\ MediaInv
  BY OauthStart, MediaStart DEF Init
<1>2. OauthInv /\ MediaInv /\ [Next]_apivars => (OauthInv /\ MediaInv)'
  BY StepsOfTheParts, OauthStep, MediaStep
<1>3. OauthInv /\ MediaInv => RequestsSeeTheirOwn
  BY GoodTokens, MediaAtHand DEF RequestsSeeTheirOwn
<1> QED BY <1>1, <1>2, <1>3, PTL DEF Spec

\* In whatever order direct messages arrive, more than once and over restarts: when a
\* record is complete, the conversation of a message is that of the topmost message
\* above it that is known, with everyone who is named in it since he first was; and
\* between any two statements whoever a handled message is between finds it in one of
\* his conversations with all the others, unless it is being joined to another.
THEOREM OneThreadOneConversation == Spec => []ConversationsStayWhole
<1>1. Init => ConversationsInv
  BY ConvStart DEF Init, RestingConversations
<1>2. ConversationsInv /\ [Next]_apivars => ConversationsInv'
  BY StepsOfTheParts, ConvStep
<1>3. ConversationsInv => ConversationsStayWhole
  BY ThreadsAreConversations, NobodyIsLost DEF ConversationsStayWhole
<1> QED BY <1>1, <1>2, <1>3, PTL DEF Spec

\* In whatever order notes arrive and go, and whatever the viewer may not read of them:
\* the way up from a note and the way down from its root agree on the thread, and the
\* part of it that is shown keeps its shape, with one placeholder for each connected
\* part that is not, which is below the nearest note that is.
THEOREM ThreadsAreShownAsTheyAre == Spec => []ThreadsKeepTheirShape
<1>1. Init => ThreadsInv
  BY ThreadsStart DEF Init, RestingThreads
<1>2. ThreadsInv /\ [Next]_apivars => ThreadsInv'
  BY StepsOfTheParts, ThreadsStep
<1>3. ThreadsInv => ThreadsKeepTheirShape
  BY TheQueriesAgree, HiddenNotesKeepTheShape DEF ThreadsKeepTheirShape
<1> QED BY <1>1, <1>2, <1>3, PTL DEF Spec

\* Whatever appears and vanishes while someone walks through a list of any length, in
\* pages of any size: what did not change itself he was shown at most once, and once if
\* there was something to show and the walk came to its end, unless a page with nothing
\* to show ended it.
THEOREM WalksSeeEachThingOnce == Spec => []WalkMissesNothing
<1>1. Init => PagesInv
  BY PagesStart DEF Init, RestingPages
<1>2. PagesInv /\ [Next]_apivars => PagesInv'
  BY StepsOfTheParts, PagesStep
<1> QED BY <1>1, <1>2, NothingIsMissed, PTL DEF Spec

\* In whatever order notes, boosts, edits and deletions are projected, between whatever
\* compressions, sweeps and replays: everyone whom a note was sent to finds it on his
\* home timeline and on the page of its author until it is deleted, and can open what he
\* finds there.
THEOREM WhoIsSentANoteCanReadIt == Spec => []RecipientsCanRead
<1>1. Init => StatusInv
  BY StatusesStart DEF Init, RestingStatuses
<1>2. StatusInv /\ [Next]_apivars => StatusInv'
  BY StepsOfTheParts, StatusesStep
<1>3. StatusInv => RecipientsCanRead
  BY WhatIsSentIsShown
<1> QED BY <1>1, <1>2, <1>3, PTL DEF Spec

\* However boosts of boosts, and rings of them, are compressed, several at a time and while
\* others are stored and deleted: the same objects are there, what led to a note leads
\* there, and when nothing is left to compress it leads there at once.
THEOREM BoostsLeadWhereTheyLed == Spec => []CompressionKeepsContent
<1>1. Init => StatusInv /\ CompressionInv
  BY StatusesStart, CompressionStart DEF Init, RestingStatuses
<1>2. StatusInv /\ CompressionInv /\ [Next]_apivars => (StatusInv /\ CompressionInv)'
  BY StepsOfTheParts, StatusesStep, CompressionStep
<1>3. StatusInv /\ CompressionInv => CompressionKeepsContent
  BY NothingIsLost
<1> QED BY <1>1, <1>2, <1>3, PTL DEF Spec

\* In whatever order boosts, reactions, their undoing and the deletion of what they are of
\* are stored, compressed, swept and replayed: unless an event was projected while a
\* compression ran, what is shown below a note, its boosts and reactions, their numbers
\* and the viewer's part in them, is what the objects amount to; and one who waits for
\* each of his requests to show has one boost and one reaction of a note at most.
THEOREM ShownAsItAmountsTo == Spec => []InteractionsAreTrue
<1>1. Init => StatusInv /\ CompressionInv /\ EdgesInv /\ OneInv
  BY StatusesStart, CompressionStart, EdgesStart, OneStart DEF Init, RestingStatuses
<1>2. StatusInv /\ CompressionInv /\ EdgesInv /\ OneInv /\ [Next]_apivars => (StatusInv /\ CompressionInv /\ EdgesInv /\ OneInv)'
  BY StepsOfTheParts, StatusesStep, CompressionStep, EdgesStep, OneStep
<1>3. StatusInv /\ CompressionInv /\ EdgesInv /\ OneInv => InteractionsAreTrue
  BY ShownBelow, OneIsThere DEF InteractionsAreTrue
<1> QED BY <1>1, <1>2, <1>3, PTL DEF Spec
=============================================================================
