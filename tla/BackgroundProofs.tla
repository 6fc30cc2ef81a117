------------------------------ MODULE BackgroundProofs ------------------------------
(***************************************************************************)
(* Proofs about the background components.  They share no variables, so    *)
(* each has an inductive invariant of its own, and a step of the whole is  *)
(* a step of one of them that the others do not see.                       *)
(***************************************************************************)
EXTENDS MCBackground, NatOrder, SequenceTheorems, FiniteSetTheorems

-----------------------------------------------------------------------------
(***************************************************************************)
(* reaction_collections: an object is read once at a time.  The table      *)
(* inspection is behind the topic, and what keeps a stale row from being   *)
(* taken for a new turn is the claim on its attempt: a row that is not the *)
(* last of its object has been claimed.                                    *)
(***************************************************************************)
TurnSet == [o : Collections, state : {"attempting", "succeeded", "failed"}, attempt : Nat, at : Nat, due : Nat]
HandedOut == Collections \X Nat

ClaimedIn(T, o, attempt) ==
  \E i \in DOMAIN T : T[i].o = o /\ T[i].attempt = attempt /\ T[i].state = "attempting"

IsLastOf(T, o, k) == k \in DOMAIN T /\ T[k].o = o /\ \A j \in DOMAIN T : T[j].o = o => j <= k

\* The last that the topic says of the object is that it is being read.
ClaimIsLast(T, o) == \E k \in DOMAIN T : IsLastOf(T, o, k) /\ T[k].state = "attempting"

\* What is behind the last row of its object was claimed, and so was attempt 0.
Superseded(T) == \A i, j \in DOMAIN T : (i < j /\ T[i].o = T[j].o) => ClaimedIn(T, T[i].o, T[i].attempt)
FirstClaimed(T) == \A i \in DOMAIN T : ClaimedIn(T, T[i].o, 0)

CollectionsTyped ==
  /\ now \in Nat /\ remembered \subseteq Collections
  /\ turns \in Seq(TurnSet) /\ inspected \in 0..Len(turns)
  /\ waiting \in Seq(HandedOut)
  /\ reading = <<>> \/ reading \in Collections \X Nat \X Nat

CollectionsInv ==
  /\ CollectionsTyped /\ NeverReadTwiceAtOnce
  /\ Superseded(turns) /\ FirstClaimed(turns)
  /\ \A o \in Collections : AtIt(o) => ClaimIsLast(turns, o)

-----------------------------------------------------------------------------
LEMMA TypesOfTheReader ==
  ASSUME CollectionsTyped
  PROVE  /\ now \in Nat /\ remembered \subseteq Collections
         /\ turns \in Seq(TurnSet) /\ inspected \in 0..Len(turns) /\ DOMAIN turns = 1..Len(turns)
         /\ waiting \in Seq(HandedOut) /\ DOMAIN waiting = 1..Len(waiting)
         /\ reading = <<>> \/ reading \in Collections \X Nat \X Nat
BY DEF CollectionsTyped

LEMMA TurnParts ==
  ASSUME NEW t \in TurnSet
  PROVE  /\ t.o \in Collections /\ t.attempt \in Nat /\ t.at \in Nat /\ t.due \in Nat
         /\ t.state \in {"attempting", "succeeded", "failed"}
BY DEF TurnSet

\* The row of an object says what an event of it says that the table has read.
LEMMA InspectionIs ==
  ASSUME CollectionsTyped, NEW o
  PROVE  \/ AttemptOf(o) = 0 /\ \A i \in 1..inspected : turns[i].o # o
         \/ \E k \in 1..inspected : turns[k].o = o /\ AttemptOf(o) = turns[k].attempt
<1> DEFINE hits == {i \in 1..inspected : turns[i].o = o}
<1>1. CASE hits = {}
  <2>1. Inspection(o) = <<>>
    BY <1>1 DEF Inspection
  <2> QED BY <1>1, <2>1 DEF AttemptOf
<1>2. CASE hits # {}
  <2> DEFINE k == CHOOSE i \in hits : \A j \in hits : j <= i
  <2>1. inspected \in Nat /\ hits \subseteq 0..inspected
    BY TypesOfTheReader
  <2> HIDE DEF hits
  <2>2. \E i \in hits : \A j \in hits : j <= i
    BY <1>2, <2>1, GreatestExists
  <2>3. k \in hits
    BY <2>2
  <2>4. Inspection(o) = <<turns[k]>>
    BY <1>2 DEF Inspection, hits
  <2>5. AttemptOf(o) = turns[k].attempt
    BY <2>4 DEF AttemptOf
  <2> HIDE DEF k
  <2> QED BY <2>3, <2>5 DEF hits
<1> QED BY <1>1, <1>2

\* Where the claim is not refused, the row that was read is the last of the object:
\* every other one was claimed before.
LEMMA ClaimedFromTheLast ==
  ASSUME CollectionsTyped, Superseded(turns), FirstClaimed(turns),
         NEW o, ~Claimed(o, AttemptOf(o))
  PROVE  /\ AttemptOf(o) \in Nat /\ ~ClaimIsLast(turns, o)
         /\ \A i \in DOMAIN turns : turns[i].o = o => ClaimedIn(turns, o, turns[i].attempt) \/ turns[i].attempt = AttemptOf(o)
         /\ \A i \in DOMAIN turns : turns[i].o = o => AttemptOf(o) # 0
<1> USE TypesOfTheReader
<1>1. ~ClaimedIn(turns, o, AttemptOf(o))
  BY DEF Claimed, ClaimedIn
<1>2. \A i \in DOMAIN turns : turns[i].o = o => AttemptOf(o) # 0
  BY <1>1 DEF FirstClaimed
<1>3. CASE AttemptOf(o) = 0 /\ \A i \in 1..inspected : turns[i].o # o
  <2>1. \A i \in DOMAIN turns : turns[i].o # o
    BY <1>2, <1>3
  <2> QED BY <1>3, <2>1 DEF ClaimIsLast, IsLastOf
<1>4. ASSUME NEW k \in 1..inspected, turns[k].o = o, AttemptOf(o) = turns[k].attempt
      PROVE  /\ AttemptOf(o) \in Nat /\ ~ClaimIsLast(turns, o)
             /\ \A i \in DOMAIN turns : turns[i].o = o => ClaimedIn(turns, o, turns[i].attempt) \/ turns[i].attempt = AttemptOf(o)
  <2>1. k \in DOMAIN turns /\ turns[k] \in TurnSet
    OBVIOUS
  <2>2. \A i \in DOMAIN turns : turns[i].o = o => i <= k
    <3>1. SUFFICES ASSUME NEW i \in DOMAIN turns, turns[i].o = o, ~(i <= k) PROVE FALSE
      OBVIOUS
    <3>2. k < i
      BY <2>1, <3>1
    <3>3. ClaimedIn(turns, o, turns[k].attempt)
      BY <1>4, <2>1, <3>1, <3>2 DEF Superseded
    <3> QED BY <1>1, <1>4, <3>3
  <2>3. turns[k].state # "attempting"
    BY <1>1, <1>4, <2>1 DEF ClaimedIn
  <2>4. ~ClaimIsLast(turns, o)
    <3>1. SUFFICES ASSUME NEW i \in DOMAIN turns, IsLastOf(turns, o, i), turns[i].state = "attempting" PROVE FALSE
      BY DEF ClaimIsLast
    <3>2. i <= k /\ k <= i
      BY <1>4, <2>1, <2>2, <3>1 DEF IsLastOf
    <3>3. i = k
      BY <2>1, <3>2
    <3> QED BY <2>3, <3>1, <3>3
  <2>5. ASSUME NEW i \in DOMAIN turns, turns[i].o = o
        PROVE  ClaimedIn(turns, o, turns[i].attempt) \/ turns[i].attempt = AttemptOf(o)
    <3>1. CASE i = k
      BY <1>4, <3>1
    <3>2. CASE i # k
      <4>1. i < k
        BY <2>1, <2>2, <2>5, <3>2
      <4> QED BY <1>4, <2>1, <2>5, <4>1 DEF Superseded
    <3> QED BY <3>1, <3>2
  <2>6. AttemptOf(o) \in Nat
    BY <1>4, <2>1, TurnParts
  <2> QED BY <2>4, <2>5, <2>6
<1> QED BY <1>2, <1>3, <1>4, InspectionIs

\* A turn that follows a row of its object that was claimed.
LEMMA TurnAdded ==
  ASSUME NEW T \in Seq(TurnSet), NEW t \in TurnSet, Superseded(T), FirstClaimed(T),
         ClaimedIn(Append(T, t), t.o, 0),
         \A i \in DOMAIN T : T[i].o = t.o => ClaimedIn(Append(T, t), t.o, T[i].attempt)
  PROVE  /\ Append(T, t) \in Seq(TurnSet) /\ Superseded(Append(T, t)) /\ FirstClaimed(Append(T, t))
         /\ IsLastOf(Append(T, t), t.o, Len(T) + 1)
         /\ \A o : o # t.o /\ ClaimIsLast(T, o) => ClaimIsLast(Append(T, t), o)
<1> DEFINE N == Append(T, t)
<1>1. /\ N \in Seq(TurnSet) /\ Len(N) = Len(T) + 1 /\ N[Len(T) + 1] = t
      /\ \A i \in DOMAIN T : N[i] = T[i]
      /\ DOMAIN T = 1..Len(T) /\ DOMAIN N = 1..Len(T) + 1 /\ Len(T) \in Nat
  OBVIOUS
<1> HIDE DEF N
<1>2. \A o, a : ClaimedIn(T, o, a) => ClaimedIn(N, o, a)
  BY <1>1 DEF ClaimedIn
<1>3. \A i \in DOMAIN N : i \in DOMAIN T \/ i = Len(T) + 1
  BY <1>1
<1>4. Superseded(N)
  <2>1. SUFFICES ASSUME NEW i \in DOMAIN N, NEW j \in DOMAIN N, i < j, N[i].o = N[j].o
                 PROVE  ClaimedIn(N, N[i].o, N[i].attempt)
    BY DEF Superseded
  <2>2. i \in DOMAIN T /\ N[i] = T[i]
    BY <1>1, <2>1
  <2>3. CASE j \in DOMAIN T
    BY <1>1, <1>2, <2>1, <2>2, <2>3 DEF Superseded
  <2>4. CASE j = Len(T) + 1
    BY <1>1, <2>1, <2>2, <2>4 DEF N
  <2> QED BY <1>3, <2>3, <2>4
<1>5. FirstClaimed(N)
  <2>1. SUFFICES ASSUME NEW i \in DOMAIN N PROVE ClaimedIn(N, N[i].o, 0)
    BY DEF FirstClaimed
  <2>2. CASE i \in DOMAIN T
    BY <1>1, <1>2, <2>2 DEF FirstClaimed
  <2>3. CASE i = Len(T) + 1
    BY <1>1, <2>3 DEF N
  <2> QED BY <1>3, <2>2, <2>3
<1>6. IsLastOf(N, t.o, Len(T) + 1)
  BY <1>1 DEF IsLastOf
<1>7. ASSUME NEW o, o # t.o, ClaimIsLast(T, o) PROVE ClaimIsLast(N, o)
  <2>1. PICK k \in DOMAIN T : IsLastOf(T, o, k) /\ T[k].state = "attempting"
    BY <1>7 DEF ClaimIsLast
  <2>2. k \in DOMAIN N /\ N[k] = T[k] /\ N[Len(T) + 1].o # o
    BY <1>1, <1>7
  <2>3. \A j \in DOMAIN N : N[j].o = o => j \in DOMAIN T /\ T[j].o = o
    BY <1>1, <1>3, <2>2
  <2>4. IsLastOf(N, o, k)
    BY <2>1, <2>2, <2>3 DEF IsLastOf
  <2> QED BY <2>1, <2>2, <2>4 DEF ClaimIsLast
<1> QED BY <1>1, <1>4, <1>5, <1>6, <1>7 DEF N

-----------------------------------------------------------------------------
(* The steps of the reader. *)

LEMMA TurnIs ==
  ASSUME NEW o \in Collections, NEW state \in {"attempting", "succeeded", "failed"}, NEW attempt \in Nat,
         NEW due \in Nat, now \in Nat
  PROVE  /\ Turn(o, state, attempt, due) \in TurnSet /\ Turn(o, state, attempt, due).o = o
         /\ Turn(o, state, attempt, due).attempt = attempt /\ Turn(o, state, attempt, due).state = state
BY DEF Turn, TurnSet

\* The claim of an object that is not refused, on top of what was said of it.
LEMMA ClaimAdded ==
  ASSUME CollectionsInv, NEW o \in Collections, ~Claimed(o, AttemptOf(o)),
         NEW N, N = Append(turns, Turn(o, "attempting", AttemptOf(o), now))
  PROVE  /\ N \in Seq(TurnSet) /\ Superseded(N) /\ FirstClaimed(N) /\ ClaimIsLast(N, o)
         /\ Len(N) = Len(turns) + 1
         /\ \A other \in Collections : ClaimIsLast(turns, other) => ClaimIsLast(N, other)
         /\ ~AtIt(o)
<1> DEFINE claim == Turn(o, "attempting", AttemptOf(o), now)
<1>0. CollectionsTyped /\ Superseded(turns) /\ FirstClaimed(turns) /\ now \in Nat /\ turns \in Seq(TurnSet)
  BY TypesOfTheReader DEF CollectionsInv
<1>1. AttemptOf(o) \in Nat
  BY <1>0, ClaimedFromTheLast
<1>2. claim \in TurnSet /\ claim.o = o /\ claim.attempt = AttemptOf(o) /\ claim.state = "attempting"
  BY <1>0, <1>1, TurnIs
<1> HIDE DEF claim
<1>3. /\ Len(N) = Len(turns) + 1 /\ N[Len(turns) + 1] = claim /\ Len(turns) + 1 \in DOMAIN N
      /\ \A i \in DOMAIN turns : i \in DOMAIN N /\ N[i] = turns[i]
  BY <1>0, <1>2 DEF claim
<1>4. ClaimedIn(N, o, AttemptOf(o))
  BY <1>2, <1>3 DEF ClaimedIn
<1>5. \A a : ClaimedIn(turns, o, a) => ClaimedIn(N, o, a)
  BY <1>3 DEF ClaimedIn
<1>6. /\ ~ClaimIsLast(turns, o)
      /\ \A i \in DOMAIN turns : turns[i].o = o => ClaimedIn(turns, o, turns[i].attempt) \/ turns[i].attempt = AttemptOf(o)
      /\ \A i \in DOMAIN turns : turns[i].o = o => AttemptOf(o) # 0
  BY <1>0, ClaimedFromTheLast
<1>7. \A i \in DOMAIN turns : turns[i].o = o => ClaimedIn(N, o, turns[i].attempt)
  BY <1>4, <1>5, <1>6
<1>8. ClaimedIn(N, o, 0)
  <2>1. CASE \E i \in DOMAIN turns : turns[i].o = o
    BY <1>0, <1>5, <2>1 DEF FirstClaimed
  <2>2. CASE ~ \E i \in DOMAIN turns : turns[i].o = o
    <3>1. AttemptOf(o) = 0
      BY <1>0, <2>2, InspectionIs, TypesOfTheReader
    <3> QED BY <1>4, <3>1
  <2> QED BY <2>1, <2>2
<1>9. /\ N \in Seq(TurnSet) /\ Superseded(N) /\ FirstClaimed(N) /\ IsLastOf(N, o, Len(turns) + 1)
      /\ \A other : other # o /\ ClaimIsLast(turns, other) => ClaimIsLast(N, other)
  BY <1>0, <1>2, <1>7, <1>8, TurnAdded DEF claim
<1>10. ClaimIsLast(N, o)
  BY <1>2, <1>3, <1>9 DEF ClaimIsLast
<1>11. ~AtIt(o)
  BY <1>6 DEF CollectionsInv
<1> QED BY <1>3, <1>6, <1>9, <1>10, <1>11

\* A report on an object whose claim is last.
LEMMA ReportAdded ==
  ASSUME NEW T \in Seq(TurnSet), Superseded(T), FirstClaimed(T), NEW t \in TurnSet, ClaimIsLast(T, t.o)
  PROVE  /\ Append(T, t) \in Seq(TurnSet) /\ Superseded(Append(T, t)) /\ FirstClaimed(Append(T, t))
         /\ Len(Append(T, t)) = Len(T) + 1
         /\ \A o : o # t.o /\ ClaimIsLast(T, o) => ClaimIsLast(Append(T, t), o)
<1> DEFINE N == Append(T, t)
<1>1. Len(N) = Len(T) + 1 /\ \A i \in DOMAIN T : i \in DOMAIN N /\ N[i] = T[i]
  OBVIOUS
<1> HIDE DEF N
<1>2. \A o, a : ClaimedIn(T, o, a) => ClaimedIn(N, o, a)
  BY <1>1 DEF ClaimedIn
<1>3. PICK k \in DOMAIN T : IsLastOf(T, t.o, k) /\ T[k].state = "attempting"
  BY DEF ClaimIsLast
<1>4. ClaimedIn(T, t.o, 0)
  BY <1>3 DEF FirstClaimed, IsLastOf
<1>5. ASSUME NEW i \in DOMAIN T, T[i].o = t.o PROVE ClaimedIn(T, t.o, T[i].attempt)
  <2>1. i <= k
    BY <1>3, <1>5 DEF IsLastOf
  <2>2. CASE i = k
    BY <1>3, <1>5, <2>2 DEF ClaimedIn
  <2>3. CASE i # k
    <3>1. i < k /\ T[k].o = t.o
      BY <1>3, <2>1, <2>3 DEF IsLastOf
    <3> QED BY <1>5, <3>1 DEF Superseded
  <2> QED BY <2>2, <2>3
<1>6. ClaimedIn(N, t.o, 0) /\ \A i \in DOMAIN T : T[i].o = t.o => ClaimedIn(N, t.o, T[i].attempt)
  BY <1>2, <1>4, <1>5
<1> QED BY <1>1, <1>6, TurnAdded DEF N

LEMMA ReactionsRequested ==
  ASSUME CollectionsInv, OnRequested
  PROVE  CollectionsInv'
<1> DEFINE o == refreshes[rpos']
           a == AttemptOf(o)
           claim == Turn(o, "attempting", a, now)
<1>0. CollectionsTyped /\ NeverReadTwiceAtOnce
  BY DEF CollectionsInv
<1>1. UNCHANGED <<remembered, inspected, reading, now>>
  BY DEF OnRequested
<1>2. CASE ~Due(o) \/ Refused(o, a)
  <2>1. UNCHANGED <<turns, waiting>>
    BY <1>2 DEF OnRequested
  <2> QED BY <1>1, <2>1 DEF CollectionsInv, CollectionsTyped, NeverReadTwiceAtOnce, AtIt
<1>3. CASE Due(o) /\ ~Refused(o, a)
  <2>1. o \in Collections
    BY <1>0, <1>3, TypesOfTheReader DEF Due
  <2>2. ~Claimed(o, a)
    BY <1>3 DEF Refused
  <2>3. PICK N : N = Append(turns, claim)
    OBVIOUS
  <2>4. /\ N \in Seq(TurnSet) /\ Superseded(N) /\ FirstClaimed(N) /\ ClaimIsLast(N, o)
        /\ Len(N) = Len(turns) + 1
        /\ \A other \in Collections : ClaimIsLast(turns, other) => ClaimIsLast(N, other)
        /\ ~AtIt(o)
    BY <2>1, <2>2, <2>3, ClaimAdded
  <2>5. CASE Len(waiting) < QueueSize
    <3>1. turns' = N /\ waiting' = Append(waiting, <<o, a>>)
      BY <1>3, <2>3, <2>5 DEF OnRequested
    <3>2. a \in Nat
      BY <1>0, <2>2, ClaimedFromTheLast DEF CollectionsInv
    <3> HIDE DEF o, a
    <3>3. /\ waiting \in Seq(HandedOut) /\ <<o, a>> \in HandedOut /\ DOMAIN waiting = 1..Len(waiting)
          /\ waiting' \in Seq(HandedOut) /\ DOMAIN waiting' = 1..Len(waiting) + 1 /\ Len(waiting) \in Nat
          /\ \A i \in DOMAIN waiting : waiting'[i] = waiting[i]
          /\ waiting'[Len(waiting) + 1] = <<o, a>>
      BY <1>0, <2>1, <3>1, <3>2, TypesOfTheReader DEF HandedOut
    <3>4. \A i \in DOMAIN waiting' : i \in DOMAIN waiting \/ i = Len(waiting) + 1
      BY <3>3
    <3>5. CollectionsTyped'
      BY <1>0, <1>1, <2>4, <3>1, <3>3, TypesOfTheReader DEF CollectionsTyped
    <3>6. NeverReadTwiceAtOnce'
      <4>1. \A i \in DOMAIN waiting : waiting[i][1] # o
        BY <2>4 DEF AtIt
      <4>2. reading # <<>> => reading[1] # o
        BY <2>4 DEF AtIt
      <4>3. <<o, a>>[1] = o
        OBVIOUS
      <4>4. ASSUME NEW i \in DOMAIN waiting', NEW j \in DOMAIN waiting', waiting'[i][1] = waiting'[j][1]
            PROVE  i = j
        BY <1>0, <3>3, <3>4, <4>1, <4>3, <4>4 DEF NeverReadTwiceAtOnce
      <4>5. ASSUME reading # <<>>, NEW i \in DOMAIN waiting' PROVE waiting'[i][1] # reading[1]
        BY <1>0, <3>3, <3>4, <4>2, <4>3, <4>5 DEF NeverReadTwiceAtOnce
      <4> QED BY <1>1, <4>4, <4>5 DEF NeverReadTwiceAtOnce
    <3>7. ASSUME NEW other \in Collections, AtIt(other)' PROVE ClaimIsLast(N, other)
      <4>1. AtIt(other) \/ other = o
        BY <1>1, <3>3, <3>4, <3>7 DEF AtIt
      <4> QED BY <2>4, <4>1 DEF CollectionsInv
    <3> QED BY <2>4, <3>1, <3>5, <3>6, <3>7 DEF CollectionsInv
  <2>6. CASE ~(Len(waiting) < QueueSize)
    <3> DEFINE t == Turn(o, "failed", a + 1, now + a + 1)
    <3>1. turns' = turns \o <<claim>> \o <<t>> /\ UNCHANGED waiting
      BY <1>3, <2>6 DEF OnRequested, Overflow
    <3>2. a \in Nat /\ now \in Nat /\ turns \in Seq(TurnSet)
      BY <1>0, <2>2, ClaimedFromTheLast, TypesOfTheReader DEF CollectionsInv
    <3>3. claim \in TurnSet /\ t \in TurnSet /\ t.o = o
      <4>1. a + 1 \in Nat /\ now + a + 1 \in Nat
        BY <3>2
      <4> HIDE DEF o, a
      <4> QED BY <2>1, <3>2, <4>1, TurnIs
    <3> HIDE DEF o, a, claim, t
    <3>4. turns \o <<claim>> = N /\ N \o <<t>> = Append(N, t)
      BY <2>3, <2>4, <3>2, <3>3
    <3>5. turns' = Append(N, t)
      BY <3>1, <3>4
    <3>6. /\ turns' \in Seq(TurnSet) /\ Superseded(turns') /\ FirstClaimed(turns') /\ Len(turns') = Len(N) + 1
          /\ \A other : other # o /\ ClaimIsLast(N, other) => ClaimIsLast(turns', other)
      BY <2>4, <3>3, <3>5, ReportAdded
    <3>7. CollectionsTyped'
      <4>1. inspected' \in 0..Len(turns')
        BY <1>0, <1>1, <2>4, <3>6, TypesOfTheReader
      <4> QED BY <1>0, <1>1, <3>1, <3>6, <4>1 DEF CollectionsTyped
    <3>8. NeverReadTwiceAtOnce' /\ \A other : AtIt(other)' <=> AtIt(other)
      BY <1>0, <1>1, <3>1 DEF NeverReadTwiceAtOnce, AtIt
    <3>9. ASSUME NEW other \in Collections, AtIt(other)' PROVE ClaimIsLast(turns', other)
      <4>1. AtIt(other) /\ other # o
        BY <2>4, <3>8, <3>9
      <4> QED BY <2>4, <3>6, <4>1 DEF CollectionsInv
    <3> QED BY <3>6, <3>7, <3>8, <3>9 DEF CollectionsInv
  <2> QED BY <2>5, <2>6
<1> QED BY <1>2, <1>3

LEMMA PairExtended ==
  ASSUME NEW a, NEW b, NEW c
  PROVE  Append(<<a, b>>, c) = <<a, b, c>>
<1> DEFINE S == {a,b,c}
<1>1. <<a,b>> \in Seq(S) /\ <<a,b,c>> \in Seq(S) /\ c \in S
  OBVIOUS
<1>2. PICK p \in Seq(S) : p = <<a,b>>
  BY <1>1
<1>3. Len(p) = 2 /\ p[1] = a /\ p[2] = b
  BY <1>2
<1>4. PICK t \in Seq(S) : t = <<a,b,c>>
  BY <1>1
<1>5. Len(t) = 3 /\ t[1] = a /\ t[2] = b /\ t[3] = c
  BY <1>4
<1>6. c \in S
  BY <1>1
<1> HIDE DEF S
<1>7. Append(p, c) \in Seq(S) /\ Len(Append(p,c)) = Len(p) + 1 /\ Append(p,c)[Len(p)+1] = c
  BY <1>6, AppendProperties
<1>8. Append(p, c) \in Seq(S) /\ Len(Append(p,c)) = 3
  BY <1>3, <1>7
<1>9. Append(p,c)[1] = p[1] /\ Append(p,c)[2] = p[2]
  BY <1>3, <1>6, AppendProperties
<1>10. Append(p,c)[3] = c
  BY <1>3, <1>7
<1>11. \A i \in 1..3 : Append(p, c)[i] = t[i]
  BY <1>3, <1>5, <1>9, <1>10
<1> QED BY <1>2, <1>4, <1>5, <1>8, <1>11, SeqEqual

LEMMA ReadingBegins ==
  ASSUME CollectionsInv, BeginReading
  PROVE  CollectionsInv'
<1>0. CollectionsTyped /\ NeverReadTwiceAtOnce
  BY DEF CollectionsInv
<1>1. UNCHANGED <<remembered, inspected, turns, now>> /\ reading = <<>> /\ waiting # <<>>
  BY DEF BeginReading
<1>2. PICK first : first = Head(waiting)
  OBVIOUS
<1>3. /\ waiting \in Seq(HandedOut) /\ DOMAIN waiting = 1..Len(waiting) /\ Len(waiting) \in Nat /\ 1 \in DOMAIN waiting
      /\ first \in HandedOut /\ first = waiting[1]
      /\ Tail(waiting) \in Seq(HandedOut) /\ DOMAIN Tail(waiting) = 1..(Len(waiting) - 1)
      /\ \A i \in 1..(Len(waiting) - 1) : Tail(waiting)[i] = waiting[i + 1]
  BY <1>0, <1>1, <1>2, TypesOfTheReader, HeadTailProperties
<1>4. PICK o \in Collections, a \in Nat : first = <<o, a>>
  BY <1>3 DEF HandedOut
<1>5. reading' = <<o, a, now>> /\ waiting' = Tail(waiting)
  <2>1. Append(<<o, a>>, now) = <<o, a, now>>
    BY PairExtended
  <2> QED BY <1>2, <1>4, <2>1 DEF BeginReading
<1>6. waiting[1][1] = o /\ reading'[1] = o /\ reading' # <<>>
  BY <1>3, <1>4, <1>5
<1>7. \A i \in DOMAIN waiting' : i + 1 \in DOMAIN waiting /\ waiting'[i] = waiting[i + 1] /\ i + 1 # 1
  BY <1>3, <1>5
<1>8. CollectionsTyped'
  <2>1. reading' \in Collections \X Nat \X Nat
    BY <1>0, <1>5, TypesOfTheReader
  <2> QED BY <1>0, <1>1, <1>3, <1>5, <2>1 DEF CollectionsTyped
<1>9. NeverReadTwiceAtOnce'
  <2>1. ASSUME NEW i \in DOMAIN waiting', NEW j \in DOMAIN waiting', waiting'[i][1] = waiting'[j][1] PROVE i = j
    <3>1. i + 1 = j + 1
      BY <1>0, <1>7, <2>1 DEF NeverReadTwiceAtOnce
    <3>2. i \in Int /\ j \in Int
      BY <1>3, <1>5
    <3> QED BY <3>1, <3>2
  <2>2. \A i \in DOMAIN waiting' : waiting'[i][1] # reading'[1]
    BY <1>0, <1>3, <1>6, <1>7 DEF NeverReadTwiceAtOnce
  <2> QED BY <2>1, <2>2 DEF NeverReadTwiceAtOnce
<1>10. ASSUME NEW other \in Collections, AtIt(other)' PROVE AtIt(other)
  BY <1>3, <1>6, <1>7, <1>10 DEF AtIt
<1> QED BY <1>1, <1>8, <1>9, <1>10 DEF CollectionsInv

LEMMA ReadingEnds ==
  ASSUME CollectionsInv, EndReading
  PROVE  CollectionsInv'
<1>0. CollectionsTyped /\ NeverReadTwiceAtOnce
  BY DEF CollectionsInv
<1>1. UNCHANGED <<remembered, inspected, waiting, now>> /\ reading # <<>> /\ reading' = <<>>
  BY DEF EndReading
<1>2. PICK o \in Collections, a \in Nat, begun \in Nat : reading = <<o, a, begun>>
  BY <1>0, <1>1, TypesOfTheReader
<1>3. reading[1] = o /\ reading[2] = a /\ reading[3] = begun
  BY <1>2
<1>4. PICK t \in TurnSet : t.o = o /\ turns' = Append(turns, t)
  <2>1. now \in Nat
    BY <1>0, TypesOfTheReader
  <2>2. CASE Done
    <3>1. Turn(o, "succeeded", 0, begun + RefreshAfter) \in TurnSet
      BY <2>1, TurnIs, CollectionsAssumption
    <3> QED BY <1>3, <2>1, <2>2, <3>1, TurnIs, CollectionsAssumption DEF Done
  <2>3. CASE Failed
    <3>1. a + 1 \in Nat /\ begun + a + 1 \in Nat
      OBVIOUS
    <3> QED BY <1>3, <2>1, <2>3, <3>1, TurnIs DEF Failed
  <2> QED BY <2>2, <2>3 DEF EndReading
<1>5. turns \in Seq(TurnSet) /\ Superseded(turns) /\ FirstClaimed(turns) /\ ClaimIsLast(turns, t.o)
  BY <1>0, <1>1, <1>3, <1>4, TypesOfTheReader DEF CollectionsInv, AtIt
<1>6. /\ turns' \in Seq(TurnSet) /\ Superseded(turns') /\ FirstClaimed(turns') /\ Len(turns') = Len(turns) + 1
      /\ \A other : other # o /\ ClaimIsLast(turns, other) => ClaimIsLast(turns', other)
  BY <1>4, <1>5, ReportAdded
<1>7. CollectionsTyped'
  <2>1. inspected' \in 0..Len(turns')
    BY <1>0, <1>1, <1>6, TypesOfTheReader
  <2> QED BY <1>0, <1>1, <1>6, <2>1 DEF CollectionsTyped
<1>8. NeverReadTwiceAtOnce'
  BY <1>0, <1>1 DEF NeverReadTwiceAtOnce
<1>9. ASSUME NEW other \in Collections, AtIt(other)' PROVE ClaimIsLast(turns', other)
  <2>1. AtIt(other) /\ other # o
    BY <1>0, <1>1, <1>3, <1>9 DEF AtIt, NeverReadTwiceAtOnce
  <2> QED BY <1>6, <2>1 DEF CollectionsInv
<1> QED BY <1>6, <1>7, <1>8, <1>9 DEF CollectionsInv

LEMMA CollectionsStep ==
  ASSUME CollectionsInv, [CollectionsNext]_cvars
  PROVE  CollectionsInv'
<1>0. CollectionsTyped /\ NeverReadTwiceAtOnce
  BY DEF CollectionsInv
<1>1. ASSUME UNCHANGED <<turns, waiting, reading>>, now' \in Nat, remembered' \subseteq Collections,
             inspected' \in 0..Len(turns)
      PROVE  CollectionsInv'
  BY <1>0, <1>1 DEF CollectionsInv, CollectionsTyped, NeverReadTwiceAtOnce, AtIt
<1>2. /\ now \in Nat /\ remembered \subseteq Collections /\ inspected \in 0..Len(turns)
      /\ turns \in Seq(TurnSet) /\ Len(turns) \in Nat
  BY <1>0, TypesOfTheReader
<1>3. ASSUME NEW o \in Collections, Refresh(o) \/ Learn(o) \/ Forget(o) PROVE CollectionsInv'
  <2>1. UNCHANGED <<turns, waiting, reading, now, inspected>>
    BY <1>3 DEF Refresh, Learn, Forget
  <2>2. remembered' \subseteq Collections
    BY <1>2, <1>3 DEF Refresh, Learn, Forget, With, Without
  <2> QED BY <1>1, <1>2, <2>1, <2>2
<1>4. CASE OnState
  <2>1. UNCHANGED <<turns, waiting, reading, now, remembered>> /\ inspected' \in 0..Len(turns)
    BY <1>2, <1>4 DEF OnState
  <2> QED BY <1>1, <1>2, <2>1
<1>5. CASE RestartReader
  <2>1. UNCHANGED <<turns, now, remembered>> /\ inspected' = Len(turns) /\ waiting' = <<>> /\ reading' = <<>>
    BY <1>5 DEF RestartReader
  <2>2. CollectionsTyped'
    BY <1>0, <1>2, <2>1 DEF CollectionsTyped
  <2>3. NeverReadTwiceAtOnce' /\ \A o : ~AtIt(o)'
    BY <2>1 DEF NeverReadTwiceAtOnce, AtIt
  <2> QED BY <2>1, <2>2, <2>3 DEF CollectionsInv
<1>6. CASE Later
  <2>1. UNCHANGED <<turns, waiting, reading, inspected, remembered>> /\ now' = now + 1
    BY <1>6 DEF Later
  <2> QED BY <1>1, <1>2, <2>1
<1>7. CASE UNCHANGED cvars
  BY <1>1, <1>2, <1>7 DEF cvars
<1> QED BY <1>3, <1>4, <1>5, <1>6, <1>7, ReactionsRequested, ReadingBegins, ReadingEnds DEF CollectionsNext

\* An object is in the hands of the worker or in the queue at most once, for every
\* size of the queue and any number of requests and restarts.
THEOREM ReadOnceAtATime == Spec => []NeverReadTwiceAtOnce
<1>1. Init => CollectionsInv
  BY DEF Init, CollectionsInit, CollectionsInv, CollectionsTyped, NeverReadTwiceAtOnce, Superseded, FirstClaimed, AtIt
<1>2. [Next]_bvars => [CollectionsNext]_cvars
  BY DEF Next, bvars, cvars
<1>3. CollectionsInv /\ [Next]_bvars => CollectionsInv'
  BY <1>2, CollectionsStep
<1>4. CollectionsInv => NeverReadTwiceAtOnce
  BY DEF CollectionsInv
<1> QED BY <1>1, <1>3, <1>4, PTL DEF Spec

-----------------------------------------------------------------------------
(***************************************************************************)
(* Projections: a table is what the topic says up to where the projection  *)
(* is, or up to the next event, when the rebuild was cancelled between     *)
(* storing it and counting it; storing an event once more changes nothing. *)
(***************************************************************************)
RecordSet == [verb : {"created", "updated", "deleted"}, obj : Things, clean : BOOLEAN, of : Nat, nr : Nat]
RowSet == [nr : Nat, clean : BOOLEAN]

ProjectionsTyped ==
  /\ record \in Seq(RecordSet)
  /\ at \in [Projections -> Nat] /\ end \in [Projections -> Nat]
  /\ handling \in [Projections -> {"idle", "healed"}] /\ live \in [Projections -> BOOLEAN]
  /\ tableOf \in [Projections -> [Things -> RowSet]]

\* A correction is of an older event that was no correction, and says the same; a
\* deletion has nothing to correct.
Corrects(R, k, i) ==
  /\ i < k /\ R[i].of = 0 /\ ~R[i].clean /\ R[k].clean
  /\ R[k].obj = R[i].obj /\ R[k].nr = R[i].nr
WellCorrected(R) ==
  /\ \A k \in DOMAIN R : R[k].of # 0 => R[k].of \in DOMAIN R /\ Corrects(R, k, R[k].of) /\ R[k].verb # "deleted"
  /\ \A k, l \in DOMAIN R : R[k].of = R[l].of /\ R[k].of # 0 => k = l
  /\ \A k \in DOMAIN R : R[k].verb = "deleted" => R[k].nr = 0 /\ R[k].clean

IsCorrected(R, i) == R[i].clean \/ \E k \in DOMAIN R : R[k].of = i

\* Where a projection is, and that what it has dispatched is clean or corrected.
Dispatched(R, p) ==
  /\ at[p] <= Len(R)
  /\ live[p] => at[p] >= end[p]
  /\ handling[p] = "healed" => at[p] < Len(R) /\ IsCorrected(R, at[p] + 1)
  /\ \A i \in 1..at[p] : IsCorrected(R, i)

StoredRow(e) == IF e.verb = "deleted" THEN Absent ELSE [nr |-> e.nr, clean |-> TRUE]

IsLastFor(R, n, o, i) == i \in 1..n /\ R[i].obj = o /\ \A j \in 1..n : R[j].obj = o => j <= i

\* The table is what the first n events say.
Holds(rows, R, n) ==
  \A o \in Things :
    /\ (\A i \in 1..n : R[i].obj # o) => rows[o] = Absent
    /\ \A i \in 1..n : IsLastFor(R, n, o, i) => rows[o] = StoredRow(R[i])

Follows(R, p) == Holds(tableOf[p], R, at[p]) \/ (at[p] < Len(R) /\ Holds(tableOf[p], R, at[p] + 1))

ProjectionsInv ==
  /\ ProjectionsTyped /\ WellCorrected(record)
  /\ \A p \in Projections : Dispatched(record, p) /\ Follows(record, p)

LEMMA ProjectionTypes ==
  ASSUME ProjectionsTyped
  PROVE  /\ record \in Seq(RecordSet) /\ Len(record) \in Nat /\ DOMAIN record = 1..Len(record)
         /\ at \in [Projections -> Nat] /\ end \in [Projections -> Nat]
         /\ handling \in [Projections -> {"idle", "healed"}] /\ live \in [Projections -> BOOLEAN]
         /\ tableOf \in [Projections -> [Things -> RowSet]]
BY DEF ProjectionsTyped

LEMMA RecordParts ==
  ASSUME NEW e \in RecordSet
  PROVE  /\ e.verb \in {"created", "updated", "deleted"} /\ e.obj \in Things /\ e.clean \in BOOLEAN
         /\ e.of \in Nat /\ e.nr \in Nat
BY DEF RecordSet

LEMMA StoredRowTyped ==
  ASSUME NEW e \in RecordSet
  PROVE  StoredRow(e) \in RowSet /\ StoredRow(e).nr = IF e.verb = "deleted" THEN 0 ELSE e.nr
BY RecordParts DEF StoredRow, RowSet, Absent

\* What an appended event leaves of a sequence of events.
LEMMA RecordGrows ==
  ASSUME NEW R \in Seq(RecordSet), NEW e \in RecordSet
  PROVE  /\ Append(R, e) \in Seq(RecordSet) /\ Len(Append(R, e)) = Len(R) + 1 /\ Append(R, e)[Len(R) + 1] = e
         /\ \A i \in DOMAIN R : i \in DOMAIN Append(R, e) /\ Append(R, e)[i] = R[i]
         /\ \A i \in DOMAIN Append(R, e) : i \in DOMAIN R \/ i = Len(R) + 1
         /\ DOMAIN R = 1..Len(R) /\ DOMAIN Append(R, e) = 1..Len(R) + 1 /\ Len(R) \in Nat
OBVIOUS

LEMMA HoldsWhenItGrows ==
  ASSUME NEW R \in Seq(RecordSet), NEW e \in RecordSet, NEW n \in 0..Len(R), NEW rows, Holds(rows, R, n)
  PROVE  Holds(rows, Append(R, e), n)
<1>1. \A i \in 1..n : Append(R, e)[i] = R[i]
  BY RecordGrows
<1> QED BY <1>1 DEF Holds, IsLastFor

\* Storing the next event, for the first or the second time.
LEMMA HoldsWhenStored ==
  ASSUME NEW R \in Seq(RecordSet), NEW n \in Nat, n < Len(R), NEW rows \in [Things -> RowSet],
         Holds(rows, R, n) \/ Holds(rows, R, n + 1)
  PROVE  Stored(rows, R[n + 1]) \in [Things -> RowSet] /\ Holds(Stored(rows, R[n + 1]), R, n + 1)
<1> DEFINE e == R[n + 1]
<1>1. e \in RecordSet /\ e.obj \in Things /\ n + 1 \in 1..n + 1 /\ 1..n + 1 \subseteq DOMAIN R
  BY RecordParts
<1> HIDE DEF e
<1>2. /\ Stored(rows, e) \in [Things -> RowSet] /\ Stored(rows, e)[e.obj] = StoredRow(e)
      /\ \A o \in Things : o # e.obj => Stored(rows, e)[o] = rows[o]
  <2>1. StoredRow(e) \in RowSet
    BY <1>1, StoredRowTyped
  <2>2. Stored(rows, e) = [rows EXCEPT ![e.obj] = StoredRow(e)]
    BY DEF Stored, StoredRow
  <2> QED BY <1>1, <2>1, <2>2
<1>3. ASSUME NEW o \in Things, \A i \in 1..n + 1 : R[i].obj # o
      PROVE  Stored(rows, e)[o] = Absent
  <2>1. o # e.obj
    BY <1>1, <1>3 DEF e
  <2>2. \A i \in 1..n : R[i].obj # o
    BY <1>3
  <2> QED BY <1>2, <1>3, <2>1, <2>2 DEF Holds
<1>4. ASSUME NEW o \in Things, NEW i \in 1..n + 1, IsLastFor(R, n + 1, o, i)
      PROVE  Stored(rows, e)[o] = StoredRow(R[i])
  <2>1. CASE i = n + 1
    <3>1. o = e.obj /\ R[i] = e
      BY <1>4, <2>1 DEF IsLastFor, e
    <3> QED BY <1>2, <3>1
  <2>2. CASE i # n + 1
    <3>1. i \in 1..n /\ n + 1 > i
      BY <2>2
    <3>2. o # e.obj
      BY <1>1, <1>4, <3>1 DEF IsLastFor, e
    <3>3. IsLastFor(R, n, o, i)
      BY <1>4, <3>1 DEF IsLastFor
    <3> QED BY <1>2, <1>4, <3>1, <3>2, <3>3 DEF Holds
  <2> QED BY <2>1, <2>2
<1> QED BY <1>2, <1>3, <1>4 DEF Holds, e

\* An original, or the first correction of an original that is not clean.
LEMMA WellCorrectedWhenItGrows ==
  ASSUME NEW R \in Seq(RecordSet), NEW e \in RecordSet, WellCorrected(R),
         e.verb = "deleted" => e.nr = 0 /\ e.clean,
         e.of # 0 => /\ e.of \in DOMAIN R /\ R[e.of].of = 0 /\ ~R[e.of].clean /\ e.clean
                     /\ e.obj = R[e.of].obj /\ e.nr = R[e.of].nr /\ e.verb # "deleted"
                     /\ \A k \in DOMAIN R : R[k].of # e.of
  PROVE  WellCorrected(Append(R, e))
<1> DEFINE N == Append(R, e)
<1>1. /\ Len(N) = Len(R) + 1 /\ N[Len(R) + 1] = e
      /\ \A i \in DOMAIN R : i \in DOMAIN N /\ N[i] = R[i] /\ i < Len(R) + 1
      /\ \A i \in DOMAIN N : i \in DOMAIN R \/ i = Len(R) + 1
  BY RecordGrows
<1> HIDE DEF N
<1>2. ASSUME NEW k \in DOMAIN N, N[k].of # 0
      PROVE  N[k].of \in DOMAIN N /\ Corrects(N, k, N[k].of) /\ N[k].verb # "deleted"
  <2>1. CASE k \in DOMAIN R
    <3>1. R[k].of \in DOMAIN R /\ Corrects(R, k, R[k].of) /\ R[k].verb # "deleted"
      BY <1>1, <1>2, <2>1 DEF WellCorrected
    <3> QED BY <1>1, <2>1, <3>1 DEF Corrects
  <2>2. CASE k = Len(R) + 1
    BY <1>1, <1>2, <2>2 DEF Corrects
  <2> QED BY <1>1, <2>1, <2>2
<1>3. ASSUME NEW k \in DOMAIN N, NEW l \in DOMAIN N, N[k].of = N[l].of, N[k].of # 0
      PROVE  k = l
  <2>1. CASE k \in DOMAIN R /\ l \in DOMAIN R
    BY <1>1, <1>3, <2>1 DEF WellCorrected
  <2>2. CASE k = Len(R) + 1 \/ l = Len(R) + 1
    BY <1>1, <1>3, <2>2
  <2> QED BY <1>1, <2>1, <2>2
<1>4. ASSUME NEW k \in DOMAIN N, N[k].verb = "deleted"
      PROVE  N[k].nr = 0 /\ N[k].clean
  BY <1>1, <1>4 DEF WellCorrected
<1> QED BY <1>2, <1>3, <1>4 DEF WellCorrected, N

\* Projections stay where they are when the topic grows.
LEMMA DispatchedWhenItGrows ==
  ASSUME ProjectionsInv, NEW e \in RecordSet, NEW p \in Projections
  PROVE  Dispatched(Append(record, e), p) /\ Follows(Append(record, e), p)
<1> DEFINE N == Append(record, e)
<1>0. /\ ProjectionsTyped /\ Dispatched(record, p) /\ Follows(record, p) /\ record \in Seq(RecordSet)
      /\ at[p] \in Nat /\ DOMAIN record = 1..Len(record) /\ Len(record) \in Nat
  BY ProjectionTypes DEF ProjectionsInv
<1>1. Len(N) = Len(record) + 1 /\ \A i \in DOMAIN record : i \in DOMAIN N /\ N[i] = record[i]
  BY <1>0, RecordGrows
<1>2. \A n \in 0..Len(record) : Holds(tableOf[p], record, n) => Holds(tableOf[p], N, n)
  BY <1>0, HoldsWhenItGrows
<1> HIDE DEF N
<1>3. \A i \in DOMAIN record : IsCorrected(record, i) => IsCorrected(N, i)
  BY <1>1 DEF IsCorrected
<1>4. Dispatched(N, p)
  <2>1. at[p] <= Len(N) /\ (live[p] => at[p] >= end[p])
    BY <1>0, <1>1 DEF Dispatched
  <2>2. handling[p] = "healed" => at[p] < Len(N) /\ IsCorrected(N, at[p] + 1)
    BY <1>0, <1>1, <1>3 DEF Dispatched
  <2>3. \A i \in 1..at[p] : IsCorrected(N, i)
    BY <1>0, <1>3 DEF Dispatched
  <2> QED BY <2>1, <2>2, <2>3 DEF Dispatched
<1>5. Follows(N, p)
  BY <1>0, <1>1, <1>2 DEF Follows, Dispatched
<1> QED BY <1>4, <1>5 DEF N

LEMMA OriginalPublished ==
  ASSUME ProjectionsInv, NEW verb \in {"created", "updated", "deleted"}, NEW o \in Things, NEW clean \in BOOLEAN,
         verb = "deleted" => clean, PublishOriginal(verb, o, clean)
  PROVE  ProjectionsInv'
<1> DEFINE e == [verb |-> verb, obj |-> o, clean |-> clean, of |-> 0,
                 nr |-> IF verb = "deleted" THEN 0 ELSE Cardinality(Originals) + 1]
<1>0. /\ ProjectionsTyped /\ record \in Seq(RecordSet) /\ WellCorrected(record)
      /\ DOMAIN record = 1..Len(record) /\ Len(record) \in Nat
  BY ProjectionTypes DEF ProjectionsInv
<1>1. Cardinality(Originals) \in Nat
  <2>1. IsFiniteSet(1..Len(record))
    BY <1>0, FS_Interval
  <2>2. Originals \subseteq 1..Len(record)
    BY <1>0 DEF Originals
  <2> QED BY <2>1, <2>2, FS_Subset, FS_CardinalityType
<1>2. e \in RecordSet
  BY <1>1 DEF RecordSet
<1>3. (e.verb = "deleted" => e.nr = 0 /\ e.clean) /\ e.of = 0
  OBVIOUS
<1>4. record' = Append(record, e) /\ UNCHANGED <<at, handling, live, end, tableOf>>
  BY DEF PublishOriginal
<1> HIDE DEF e
<1>5. WellCorrected(record')
  BY <1>0, <1>2, <1>3, <1>4, WellCorrectedWhenItGrows
<1>6. \A p \in Projections : Dispatched(record', p) /\ Follows(record', p)
  BY <1>2, <1>4, DispatchedWhenItGrows
<1>7. ASSUME NEW p \in Projections PROVE Dispatched(record, p)' /\ Follows(record, p)'
  BY <1>4, <1>6 DEF Dispatched, Follows
<1>8. ProjectionsTyped'
  BY <1>0, <1>2, <1>4, RecordGrows DEF ProjectionsTyped
<1> QED BY <1>5, <1>7, <1>8 DEF ProjectionsInv

LEMMA CorrectionIs ==
  ASSUME record \in Seq(RecordSet), NEW i \in DOMAIN record, WellCorrected(record), ~record[i].clean
  PROVE  /\ Correction(i) \in RecordSet /\ Correction(i).of = i /\ Correction(i).clean
         /\ Correction(i).obj = record[i].obj /\ Correction(i).nr = record[i].nr /\ Correction(i).verb # "deleted"
         /\ record[i].of = 0
<1>1. record[i] \in RecordSet
  OBVIOUS
<1>2. record[i].verb # "deleted"
  BY DEF WellCorrected
<1>3. record[i].of = 0
  <2>1. SUFFICES ASSUME record[i].of # 0 PROVE FALSE
    OBVIOUS
  <2>2. Corrects(record, i, record[i].of)
    BY <2>1 DEF WellCorrected
  <2> QED BY <2>2 DEF Corrects
<1>4. i \in Nat
  OBVIOUS
<1> QED BY <1>1, <1>2, <1>3, <1>4 DEF Correction, RecordSet

LEMMA Healed ==
  ASSUME ProjectionsInv, NEW p \in Projections, Heal(p)
  PROVE  ProjectionsInv'
<1> DEFINE i == at[p] + 1
           e == Correction(i)
<1>0. /\ ProjectionsTyped /\ record \in Seq(RecordSet) /\ WellCorrected(record)
      /\ DOMAIN record = 1..Len(record) /\ Len(record) \in Nat
      /\ at \in [Projections -> Nat] /\ handling \in [Projections -> {"idle", "healed"}]
      /\ \A q \in Projections : Dispatched(record, q) /\ Follows(record, q)
  BY ProjectionTypes DEF ProjectionsInv
<1>1. /\ handling' = [handling EXCEPT ![p] = "healed"] /\ UNCHANGED <<at, live, end, tableOf>>
      /\ at[p] < Len(record) /\ ~record[i].clean /\ i \in DOMAIN record
  BY <1>0 DEF Heal
<1> HIDE DEF i
<1>2. /\ record' \in Seq(RecordSet) /\ WellCorrected(record') /\ Len(record) <= Len(record') /\ IsCorrected(record', i)
      /\ \A q \in Projections : Dispatched(record', q) /\ Follows(record', q)
  <2>1. CASE Corrections(i) # {}
    <3>1. record' = record
      BY <2>1 DEF Heal, i
    <3>2. IsCorrected(record, i)
      BY <2>1 DEF Corrections, IsCorrected
    <3> QED BY <1>0, <3>1, <3>2
  <2>2. CASE Corrections(i) = {}
    <3>1. record' = Append(record, e)
      BY <2>2 DEF Heal, i
    <3>2. /\ e \in RecordSet /\ e.of = i /\ e.clean /\ e.obj = record[i].obj /\ e.nr = record[i].nr
          /\ e.verb # "deleted" /\ record[i].of = 0
      BY <1>0, <1>1, CorrectionIs
    <3>3. \A k \in DOMAIN record : record[k].of # i
      BY <2>2 DEF Corrections
    <3> HIDE DEF e
    <3>4. WellCorrected(record')
      BY <1>0, <1>1, <3>1, <3>2, <3>3, WellCorrectedWhenItGrows
    <3>5. record' \in Seq(RecordSet) /\ Len(record) <= Len(record') /\ IsCorrected(record', i)
      <4>1. /\ record' \in Seq(RecordSet) /\ Len(record') = Len(record) + 1 /\ record'[Len(record) + 1] = e
            /\ Len(record) + 1 \in DOMAIN record'
        BY <1>0, <3>1, <3>2, RecordGrows
      <4> QED BY <1>0, <3>2, <4>1 DEF IsCorrected
    <3> QED BY <3>1, <3>2, <3>4, <3>5, DispatchedWhenItGrows
  <2> QED BY <2>1, <2>2
<1>3. ASSUME NEW q \in Projections PROVE Dispatched(record, q)' /\ Follows(record, q)'
  <2>1. Dispatched(record', q) /\ Follows(record', q)
    BY <1>2
  <2>2. handling'[q] = "healed" => at'[q] < Len(record') /\ IsCorrected(record', at'[q] + 1)
    <3>1. CASE q = p
      <4>1. at'[q] + 1 = i /\ Len(record') \in Nat /\ at[p] \in Nat
        BY <1>0, <1>1, <1>2, <3>1 DEF i
      <4> QED BY <1>0, <1>1, <1>2, <3>1, <4>1
    <3>2. CASE q # p
      BY <1>0, <1>1, <2>1, <3>2 DEF Dispatched
    <3> QED BY <3>1, <3>2
  <2> QED BY <1>1, <2>1, <2>2 DEF Dispatched, Follows
<1>4. ProjectionsTyped'
  BY <1>0, <1>1, <1>2 DEF ProjectionsTyped
<1> QED BY <1>2, <1>3, <1>4 DEF ProjectionsInv

LEMMA StoredAt ==
  ASSUME ProjectionsInv, NEW p \in Projections, CanStore(p)
  PROVE  /\ at[p] \in Nat /\ at[p] < Len(record) /\ IsCorrected(record, at[p] + 1)
         /\ Stored(tableOf[p], record[at[p] + 1]) \in [Things -> RowSet]
         /\ Holds(Stored(tableOf[p], record[at[p] + 1]), record, at[p] + 1)
<1>1. /\ record \in Seq(RecordSet) /\ at[p] \in Nat /\ tableOf[p] \in [Things -> RowSet]
      /\ Dispatched(record, p) /\ Follows(record, p) /\ at[p] < Len(record)
  BY ProjectionTypes DEF ProjectionsInv, CanStore
<1>2. Holds(tableOf[p], record, at[p]) \/ Holds(tableOf[p], record, at[p] + 1)
  BY <1>1 DEF Follows
<1>3. IsCorrected(record, at[p] + 1)
  BY <1>1 DEF CanStore, Dispatched, IsCorrected
<1> QED BY <1>1, <1>2, <1>3, HoldsWhenStored

LEMMA ProjectionsStep ==
  ASSUME ProjectionsInv, [ProjectionsNext]_hvars
  PROVE  ProjectionsInv'
<1>0. /\ ProjectionsTyped /\ record \in Seq(RecordSet) /\ WellCorrected(record)
      /\ DOMAIN record = 1..Len(record) /\ Len(record) \in Nat
      /\ at \in [Projections -> Nat] /\ end \in [Projections -> Nat]
      /\ handling \in [Projections -> {"idle", "healed"}] /\ live \in [Projections -> BOOLEAN]
      /\ tableOf \in [Projections -> [Things -> RowSet]]
      /\ \A q \in Projections : Dispatched(record, q) /\ Follows(record, q)
  BY ProjectionTypes DEF ProjectionsInv
<1>1. ASSUME record' = record, ProjectionsTyped',
             NEW p \in Projections, Dispatched(record, p)', Follows(record, p)',
             \A q \in Projections \ {p} : /\ at'[q] = at[q] /\ handling'[q] = handling[q] /\ live'[q] = live[q]
                                          /\ end'[q] = end[q] /\ tableOf'[q] = tableOf[q]
      PROVE  ProjectionsInv'
  <2>1. ASSUME NEW q \in Projections \ {p} PROVE Dispatched(record, q)' /\ Follows(record, q)'
    BY <1>0, <1>1 DEF Dispatched, Follows
  <2> QED BY <1>0, <1>1, <2>1 DEF ProjectionsInv
<1>2. ASSUME NEW p \in Projections, Store(p) PROVE ProjectionsInv'
  <2>1. /\ at' = [at EXCEPT ![p] = at[p] + 1] /\ handling' = [handling EXCEPT ![p] = "idle"]
        /\ tableOf' = [tableOf EXCEPT ![p] = Stored(tableOf[p], record[at'[p]])]
        /\ UNCHANGED <<record, live, end>> /\ CanStore(p)
    BY <1>2 DEF Store
  <2>2. /\ at[p] \in Nat /\ at[p] < Len(record) /\ IsCorrected(record, at[p] + 1)
        /\ Stored(tableOf[p], record[at[p] + 1]) \in [Things -> RowSet]
        /\ Holds(Stored(tableOf[p], record[at[p] + 1]), record, at[p] + 1)
    BY <2>1, StoredAt
  <2>3. at'[p] = at[p] + 1 /\ at' \in [Projections -> Nat]
    BY <1>0, <2>1, <2>2
  <2>4. tableOf'[p] = Stored(tableOf[p], record[at[p] + 1]) /\ tableOf' \in [Projections -> [Things -> RowSet]]
    BY <1>0, <2>1, <2>2, <2>3
  <2>5. ProjectionsTyped'
    BY <1>0, <2>1, <2>3, <2>4 DEF ProjectionsTyped
  <2>6. Dispatched(record, p)'
    <3>1. Dispatched(record, p) /\ end[p] \in Nat /\ handling'[p] = "idle"
      BY <1>0, <2>1
    <3>2. \A i \in 1..at[p] + 1 : i \in 1..at[p] \/ i = at[p] + 1
      BY <2>2
    <3>3. \A i \in 1..at[p] + 1 : IsCorrected(record, i)
      BY <2>2, <3>1, <3>2 DEF Dispatched
    <3>4. at[p] + 1 <= Len(record) /\ (live[p] => at[p] + 1 >= end[p])
      BY <1>0, <2>2, <3>1 DEF Dispatched
    <3> QED BY <2>1, <2>3, <3>1, <3>3, <3>4 DEF Dispatched
  <2>7. Follows(record, p)'
    BY <2>1, <2>2, <2>3, <2>4 DEF Follows
  <2>8. \A q \in Projections \ {p} : /\ at'[q] = at[q] /\ handling'[q] = handling[q] /\ live'[q] = live[q]
                                     /\ end'[q] = end[q] /\ tableOf'[q] = tableOf[q]
    BY <1>0, <2>1
  <2> QED BY <1>1, <2>1, <2>5, <2>6, <2>7, <2>8
<1>3. ASSUME NEW p \in Projections, RebuildFinished(p) PROVE ProjectionsInv'
  <2>1. /\ handling' = [handling EXCEPT ![p] = "idle"] /\ live' = [live EXCEPT ![p] = TRUE]
        /\ UNCHANGED <<record, at, end>> /\ at[p] >= end[p]
        /\ \/ tableOf' = tableOf
           \/ CanStore(p) /\ tableOf' = [tableOf EXCEPT ![p] = Stored(tableOf[p], record[at[p] + 1])]
    BY <1>3 DEF RebuildFinished
  <2>2. /\ tableOf' \in [Projections -> [Things -> RowSet]] /\ Follows(record, p)'
        /\ \A q \in Projections \ {p} : tableOf'[q] = tableOf[q]
    <3>1. CASE tableOf' = tableOf
      BY <1>0, <2>1, <3>1 DEF Follows
    <3>2. CASE CanStore(p) /\ tableOf' = [tableOf EXCEPT ![p] = Stored(tableOf[p], record[at[p] + 1])]
      <4>1. /\ at[p] \in Nat /\ at[p] < Len(record)
            /\ Stored(tableOf[p], record[at[p] + 1]) \in [Things -> RowSet]
            /\ Holds(Stored(tableOf[p], record[at[p] + 1]), record, at[p] + 1)
        BY <3>2, StoredAt
      <4>2. /\ tableOf'[p] = Stored(tableOf[p], record[at[p] + 1]) /\ tableOf' \in [Projections -> [Things -> RowSet]]
            /\ \A q \in Projections \ {p} : tableOf'[q] = tableOf[q]
        BY <1>0, <3>2, <4>1
      <4> QED BY <2>1, <4>1, <4>2 DEF Follows
    <3> QED BY <2>1, <3>1, <3>2
  <2>3. ProjectionsTyped'
    BY <1>0, <2>1, <2>2 DEF ProjectionsTyped
  <2>4. Dispatched(record, p)'
    BY <1>0, <2>1 DEF Dispatched
  <2>5. \A q \in Projections \ {p} : at'[q] = at[q] /\ handling'[q] = handling[q] /\ live'[q] = live[q] /\ end'[q] = end[q]
    BY <1>0, <2>1
  <2> QED BY <1>1, <2>1, <2>2, <2>3, <2>4, <2>5
<1>4. ASSUME NEW p \in Projections, RestartProjection(p) PROVE ProjectionsInv'
  <2> DEFINE none == [o \in Things |-> Absent]
  <2>1. /\ at' = [at EXCEPT ![p] = 0] /\ handling' = [handling EXCEPT ![p] = "idle"]
        /\ live' = [live EXCEPT ![p] = FALSE] /\ end' = [end EXCEPT ![p] = Len(record)]
        /\ tableOf' = [tableOf EXCEPT ![p] = none] /\ record' = record
    BY <1>4 DEF RestartProjection
  <2>2. none \in [Things -> RowSet] /\ Holds(none, record, 0)
    BY DEF RowSet, Absent, Holds, IsLastFor
  <2> HIDE DEF none
  <2>3. ProjectionsTyped'
    BY <1>0, <2>1, <2>2 DEF ProjectionsTyped
  <2>4. at'[p] = 0 /\ handling'[p] = "idle" /\ ~live'[p] /\ tableOf'[p] = none
    BY <1>0, <2>1
  <2>5. Dispatched(record, p)' /\ Follows(record, p)'
    BY <1>0, <2>1, <2>2, <2>4 DEF Dispatched, Follows
  <2>6. \A q \in Projections \ {p} : /\ at'[q] = at[q] /\ handling'[q] = handling[q] /\ live'[q] = live[q]
                                     /\ end'[q] = end[q] /\ tableOf'[q] = tableOf[q]
    BY <1>0, <2>1
  <2> QED BY <1>1, <2>1, <2>3, <2>5, <2>6
<1>5. CASE UNCHANGED hvars
  BY <1>5 DEF hvars, ProjectionsInv, ProjectionsTyped, Dispatched, Follows
<1> QED BY <1>2, <1>3, <1>4, <1>5, OriginalPublished, Healed DEF ProjectionsNext

\* The last event on an object that has one.
LEMMA LastForExists ==
  ASSUME NEW R \in Seq(RecordSet), NEW o, \E i \in DOMAIN R : R[i].obj = o
  PROVE  \E k \in DOMAIN R : IsLastFor(R, Len(R), o, k)
<1> DEFINE S == {i \in DOMAIN R : R[i].obj = o}
<1>1. Len(R) \in Nat /\ DOMAIN R = 1..Len(R) /\ S \subseteq 0..Len(R) /\ S # {}
  OBVIOUS
<1>2. PICK k \in S : \A x \in S : x <= k
  BY <1>1, GreatestExists
<1> QED BY <1>1, <1>2 DEF IsLastFor

LEMMA CorrectedAtMostOnce ==
  ASSUME ProjectionsInv, NEW i \in Originals
  PROVE  Cardinality(Corrections(i)) <= 1
<1>1. i # 0
  BY ProjectionTypes DEF ProjectionsInv, Originals
<1>2. CASE Corrections(i) = {}
  BY <1>2, FS_EmptySet
<1>3. CASE Corrections(i) # {}
  <2>1. PICK k : k \in Corrections(i)
    BY <1>3
  <2>2. Corrections(i) = {k}
    BY <1>1, <2>1 DEF ProjectionsInv, WellCorrected, Corrections
  <2>3. Cardinality({k}) = 1
    BY FS_Singleton
  <2> QED BY <2>2, <2>3
<1> QED BY <1>2, <1>3

\* What a table that has caught up says of an object.
LEMMA CaughtUp ==
  ASSUME ProjectionsInv, NEW p \in Projections, at[p] = Len(record), NEW o \in Things
  PROVE  /\ (\A i \in DOMAIN record : record[i].obj # o) => tableOf[p][o] = Absent
         /\ \A k \in DOMAIN record : IsLastFor(record, Len(record), o, k) => tableOf[p][o] = StoredRow(record[k])
<1>1. Follows(record, p) /\ Len(record) \in Nat /\ DOMAIN record = 1..Len(record)
  BY ProjectionTypes DEF ProjectionsInv
<1>2. Holds(tableOf[p], record, Len(record))
  BY <1>1 DEF Follows
<1> QED BY <1>1, <1>2 DEF Holds

LEMMA OriginalIsSaid ==
  ASSUME ProjectionsInv, NEW p \in Projections, at[p] = Len(record), NEW o \in Things, ~Overtaken(o),
         NEW i \in Originals, record[i].obj = o, \A j \in Originals : record[j].obj = o => j <= i
  PROVE  tableOf[p][o].nr = record[i].nr
<1>1. /\ record \in Seq(RecordSet) /\ WellCorrected(record) /\ i \in DOMAIN record /\ record[i].of = 0
      /\ DOMAIN record = 1..Len(record) /\ Len(record) \in Nat
  BY ProjectionTypes DEF ProjectionsInv, Originals
<1>2. PICK k \in DOMAIN record : IsLastFor(record, Len(record), o, k)
  BY <1>1, LastForExists
<1>3. tableOf[p][o] = StoredRow(record[k]) /\ record[k] \in RecordSet /\ record[k].obj = o /\ i <= k
  BY <1>1, <1>2, CaughtUp DEF IsLastFor
<1>4. CASE record[k].of = 0
  <2>1. k <= i
    BY <1>3, <1>4 DEF Originals
  <2>2. k = i
    BY <1>1, <1>3, <2>1
  <2>3. record[i].verb = "deleted" => record[i].nr = 0
    BY <1>1 DEF WellCorrected
  <2> QED BY <1>3, <2>2, <2>3, StoredRowTyped
<1>5. CASE record[k].of # 0
  <2>1. PICK c : c = record[k].of
    OBVIOUS
  <2>2. c \in DOMAIN record /\ Corrects(record, k, c) /\ record[k].verb # "deleted"
    BY <1>1, <1>5, <2>1 DEF WellCorrected
  <2>3. c \in Originals /\ record[c].obj = o /\ k \in Corrections(c) /\ record[k].nr = record[c].nr
    BY <1>3, <2>1, <2>2 DEF Corrects, Originals, Corrections
  <2>4. c <= i
    BY <2>3
  <2>5. i # k
    BY <1>1, <1>5
  <2>6. i < k
    BY <1>1, <1>3, <2>5
  <2>7. c = i
    <3>1. ~(c < i)
      BY <2>3, <2>6 DEF Overtaken
    <3> QED BY <1>1, <2>2, <2>4, <3>1
  <2> QED BY <1>3, <2>2, <2>3, <2>7, StoredRowTyped
<1> QED BY <1>4, <1>5

LEMMA NothingIsSaid ==
  ASSUME ProjectionsInv, NEW p \in Projections, at[p] = Len(record), NEW o \in Things,
         ~ \E i \in Originals : record[i].obj = o
  PROVE  tableOf[p][o].nr = 0
<1>1. WellCorrected(record)
  BY DEF ProjectionsInv
<1>2. ASSUME NEW k \in DOMAIN record, record[k].obj = o PROVE FALSE
  <2>1. record[k].of # 0
    BY <1>2 DEF Originals
  <2>2. record[k].of \in DOMAIN record /\ Corrects(record, k, record[k].of)
    BY <1>1, <2>1 DEF WellCorrected
  <2> QED BY <1>2, <2>2 DEF Corrects, Originals
<1>3. tableOf[p][o] = Absent
  BY <1>2, CaughtUp
<1> QED BY <1>3 DEF Absent

LEMMA TablesAgreeWhenCaughtUp ==
  ASSUME ProjectionsInv, NEW p \in Projections, NEW q \in Projections, at[p] = Len(record), at[q] = Len(record),
         NEW o \in Things
  PROVE  tableOf[p][o] = tableOf[q][o]
<1>1. CASE \A i \in DOMAIN record : record[i].obj # o
  BY <1>1, CaughtUp
<1>2. CASE \E i \in DOMAIN record : record[i].obj = o
  <2>1. record \in Seq(RecordSet)
    BY ProjectionTypes DEF ProjectionsInv
  <2>2. PICK k \in DOMAIN record : IsLastFor(record, Len(record), o, k)
    BY <1>2, <2>1, LastForExists
  <2> QED BY <2>2, CaughtUp
<1> QED BY <1>1, <1>2

\* Every event that is not clean is corrected once, whoever dispatches it first and
\* however often the projections start, and two projections that have caught up say
\* the same, which is what was published last unless a correction has overtaken it.
THEOREM ProjectionsSayTheSame == Spec => []ProjectionsAgree
<1>1. Init => ProjectionsInv
  BY DEF Init, ProjectionsInit, ProjectionsInv, ProjectionsTyped, WellCorrected, Dispatched, Follows, Holds,
         IsLastFor, RowSet, Absent, Projections
<1>2. [Next]_bvars => [ProjectionsNext]_hvars
  BY DEF Next, bvars, hvars
<1>3. ProjectionsInv /\ [Next]_bvars => ProjectionsInv'
  BY <1>2, ProjectionsStep
<1>4. ASSUME ProjectionsInv PROVE ProjectionsAgree
  <2>1. \A i \in Originals : Cardinality(Corrections(i)) <= 1
    BY <1>4, CorrectedAtMostOnce
  <2>2. ASSUME NEW i \in DOMAIN record \ Originals, NEW k \in Corrections(i) PROVE FALSE
    <3>1. i # 0 /\ record[i].of # 0 /\ k \in DOMAIN record /\ record[k].of = i
      BY <1>4, <2>2, ProjectionTypes DEF ProjectionsInv, Originals, Corrections
    <3>2. Corrects(record, k, i)
      BY <1>4, <3>1 DEF ProjectionsInv, WellCorrected
    <3> QED BY <3>1, <3>2 DEF Corrects
  <2>3. \A p \in Projections :
          /\ \A i \in 1..at[p] : record[i].clean \/ Corrections(i) # {}
          /\ Readable(p) => at[p] >= end[p]
    BY <1>4 DEF ProjectionsInv, Dispatched, IsCorrected, Corrections, Readable
  <2>4. ASSUME \A p \in Projections : at[p] = Len(record), NEW o \in Things
        PROVE  /\ \A p, q \in Projections : tableOf[p][o] = tableOf[q][o]
               /\ ~Overtaken(o) => \A p \in Projections :
                    tableOf[p][o].nr = IF \E i \in Originals : record[i].obj = o
                                    THEN record[CHOOSE i \in Originals :
                                                  /\ record[i].obj = o
                                                  /\ \A j \in Originals : record[j].obj = o => j <= i].nr
                                    ELSE 0
    <3>1. \A p, q \in Projections : tableOf[p][o] = tableOf[q][o]
      BY <1>4, <2>4, TablesAgreeWhenCaughtUp
    <3>2. ASSUME ~Overtaken(o), NEW p \in Projections, ~ \E i \in Originals : record[i].obj = o
          PROVE  tableOf[p][o].nr = 0
      BY <1>4, <2>4, <3>2, NothingIsSaid
    <3>3. ASSUME ~Overtaken(o), NEW p \in Projections, \E i \in Originals : record[i].obj = o
          PROVE  tableOf[p][o].nr = record[CHOOSE i \in Originals :
                                             /\ record[i].obj = o
                                             /\ \A j \in Originals : record[j].obj = o => j <= i].nr
      <4> DEFINE S == {i \in Originals : record[i].obj = o}
                 i0 == CHOOSE i \in Originals : /\ record[i].obj = o
                                                /\ \A j \in Originals : record[j].obj = o => j <= i
      <4>1. Len(record) \in Nat /\ S \subseteq 0..Len(record) /\ S # {}
        BY <1>4, <3>3, ProjectionTypes DEF ProjectionsInv, Originals
      <4>2. \E i \in S : \A j \in S : j <= i
        BY <4>1, GreatestExists
      <4>3. \E i \in Originals : record[i].obj = o /\ \A j \in Originals : record[j].obj = o => j <= i
        BY <4>2
      <4>4. i0 \in Originals /\ record[i0].obj = o /\ \A j \in Originals : record[j].obj = o => j <= i0
        BY <4>3
      <4> HIDE DEF i0
      <4>5. tableOf[p][o].nr = record[i0].nr
        BY <1>4, <2>4, <3>3, <4>4, OriginalIsSaid
      <4> QED BY <4>5 DEF i0
    <3> QED BY <3>1, <3>2, <3>3
  <2> QED BY <2>1, <2>2, <2>3, <2>4 DEF ProjectionsAgree
<1> QED BY <1>1, <1>3, <1>4, PTL DEF Spec

-----------------------------------------------------------------------------
(***************************************************************************)
(* me_links: what is called verified again without reading the page is     *)
(* what was found in the edition that the page still has.                  *)
(***************************************************************************)
FindingSet == [state : {"verified", "unverified", "gone", "deleted"}, profile : Profiles \cup {NoProfile},
               edition : Nat, points : Profiles \cup {NoProfile}]

LinksInv ==
  /\ listed \in Profiles \cup {NoProfile} /\ target \in Profiles \cup {NoProfile} /\ post \in Profiles \cup {NoProfile}
  /\ edition \in Nat /\ findings \in Seq(FindingSet)
  /\ mpos \in 0..Len(findings) /\ result \in 0..Len(findings)
  /\ VerifiedPointsBack

LEMMA LinkFound ==
  ASSUME LinksInv, NEW state, NEW profile \in Profiles \cup {NoProfile},
         state \in {"verified", "unverified", "gone", "deleted"}, Found(state, profile),
         state = "verified" =>
           \/ target = profile
           \/ \E j \in 1..Len(findings) : findings[j].edition = edition /\ findings[j].points = findings[j].profile
  PROVE  findings' \in Seq(FindingSet) /\ Len(findings') = Len(findings) + 1 /\ VerifiedPointsBack'
<1> DEFINE f == [state |-> state, profile |-> profile, edition |-> edition, points |-> target]
<1>1. f \in FindingSet /\ findings' = Append(findings, f) /\ findings \in Seq(FindingSet)
  BY DEF LinksInv, FindingSet, Found
<1>2. f.state = state /\ f.profile = profile /\ f.edition = edition /\ f.points = target
  OBVIOUS
<1> HIDE DEF f
<1>3. /\ findings' \in Seq(FindingSet) /\ Len(findings') = Len(findings) + 1 /\ findings'[Len(findings) + 1] = f
      /\ \A i \in 1..Len(findings) : findings'[i] = findings[i]
      /\ DOMAIN findings' = 1..Len(findings) + 1 /\ DOMAIN findings = 1..Len(findings) /\ Len(findings) \in Nat
  BY <1>1
<1>4. ASSUME NEW i \in DOMAIN findings', findings'[i].state = "verified"
      PROVE  \/ findings'[i].points = findings'[i].profile
             \/ \E j \in 1..i-1 : /\ findings'[j].edition = findings'[i].edition
                                  /\ findings'[j].points = findings'[j].profile
  <2>1. CASE i \in DOMAIN findings
    <3>1. \/ findings[i].points = findings[i].profile
          \/ \E j \in 1..i-1 : findings[j].edition = findings[i].edition /\ findings[j].points = findings[j].profile
      BY <1>3, <1>4, <2>1 DEF LinksInv, VerifiedPointsBack
    <3>2. \A j \in 1..i-1 : findings'[j] = findings[j]
      BY <1>3, <2>1
    <3> QED BY <1>3, <2>1, <3>1, <3>2
  <2>2. CASE i = Len(findings) + 1
    <3>1. findings'[i] = f /\ 1..i-1 = 1..Len(findings) /\ state = "verified"
      BY <1>2, <1>3, <1>4, <2>2
    <3> QED BY <1>2, <1>3, <3>1
  <2> QED BY <1>3, <2>1, <2>2
<1> QED BY <1>3, <1>4 DEF VerifiedPointsBack

LEMMA LinksStep ==
  ASSUME LinksInv, [MeNext]_mvars
  PROVE  LinksInv'
<1>0. /\ listed \in Profiles \cup {NoProfile} /\ target \in Profiles \cup {NoProfile} /\ post \in Profiles \cup {NoProfile}
      /\ edition \in Nat /\ findings \in Seq(FindingSet) /\ Len(findings) \in Nat
      /\ mpos \in 0..Len(findings) /\ result \in 0..Len(findings)
  BY DEF LinksInv
<1>1. ASSUME findings' = findings, listed' \in Profiles \cup {NoProfile}, target' \in Profiles \cup {NoProfile},
             post' \in Profiles \cup {NoProfile}, edition' \in Nat, mpos' \in 0..Len(findings), result' \in 0..Len(findings)
      PROVE  LinksInv'
  BY <1>1 DEF LinksInv, VerifiedPointsBack
<1>2. ASSUME NEW p \in Profiles \cup {NoProfile}, Actor(p) PROVE LinksInv'
  BY <1>0, <1>1, <1>2 DEF Actor, Lists
<1>3. ASSUME NEW p \in Profiles \cup {NoProfile}, EditPage(p) PROVE LinksInv'
  BY <1>0, <1>1, <1>3 DEF EditPage
<1>4. CASE Submit
  BY <1>0, <1>1, <1>4 DEF Submit
<1>5. CASE ForgetRow
  BY <1>0, <1>1, <1>5 DEF ForgetRow
<1>6. CASE PublishDeleted
  <2>1. findings' \in Seq(FindingSet) /\ Len(findings') = Len(findings) + 1 /\ VerifiedPointsBack'
    BY <1>6, LinkFound DEF PublishDeleted
  <2>2. mpos' \in 0..Len(findings') /\ result' \in 0..Len(findings')
    BY <1>0, <1>6, <2>1 DEF PublishDeleted
  <2> QED BY <1>0, <1>6, <2>1, <2>2 DEF PublishDeleted, LinksInv
<1>7. CASE CheckPage
  <2>1. UNCHANGED <<listed, target, edition, mpos, result>> /\ post # NoProfile /\ post' = NoProfile
    BY <1>7 DEF CheckPage
  <2>2. CASE findings' = findings
    BY <1>0, <1>1, <2>1, <2>2
  <2>3. ASSUME NEW unchanged \in BOOLEAN, unchanged => result # 0 /\ findings[result].edition = edition,
               Found(StateOf(unchanged, post), post)
        PROVE  LinksInv'
    <3>1. CASE unchanged
      <4>1. StateOf(unchanged, post) = findings[result].state /\ result \in 1..Len(findings)
        BY <1>0, <2>3, <3>1 DEF StateOf
      <4>2. findings[result] \in FindingSet
        BY <1>0, <4>1
      <4>3. findings[result].state \in {"verified", "unverified", "gone", "deleted"}
        BY <4>2 DEF FindingSet
      <4>4. ASSUME findings[result].state = "verified"
            PROVE  \E j \in 1..Len(findings) : findings[j].edition = edition /\ findings[j].points = findings[j].profile
        <5>1. \/ findings[result].points = findings[result].profile
              \/ \E j \in 1..result-1 : /\ findings[j].edition = findings[result].edition
                                        /\ findings[j].points = findings[j].profile
          BY <1>0, <4>1, <4>4 DEF LinksInv, VerifiedPointsBack
        <5>2. 1..result-1 \subseteq 1..Len(findings)
          BY <1>0, <4>1
        <5> QED BY <2>3, <3>1, <4>1, <5>1, <5>2
      <4>5. findings' \in Seq(FindingSet) /\ Len(findings') = Len(findings) + 1 /\ VerifiedPointsBack'
        BY <1>0, <2>3, <4>1, <4>3, <4>4, LinkFound
      <4>6. mpos' \in 0..Len(findings') /\ result' \in 0..Len(findings')
        BY <1>0, <2>1, <4>5
      <4> QED BY <1>0, <2>1, <4>5, <4>6 DEF LinksInv
    <3>2. CASE ~unchanged
      <4>1. StateOf(unchanged, post) = Classified(post)
        BY <3>2 DEF StateOf
      <4>2. /\ Classified(post) \in {"verified", "unverified", "gone", "deleted"}
            /\ Classified(post) = "verified" => target = post
        BY <2>1 DEF Classified
      <4>3. findings' \in Seq(FindingSet) /\ Len(findings') = Len(findings) + 1 /\ VerifiedPointsBack'
        BY <1>0, <2>3, <4>1, <4>2, LinkFound
      <4>4. mpos' \in 0..Len(findings') /\ result' \in 0..Len(findings')
        BY <1>0, <2>1, <4>3
      <4> QED BY <1>0, <2>1, <4>3, <4>4 DEF LinksInv
    <3> QED BY <3>1, <3>2
  <2> QED BY <1>7, <2>2, <2>3 DEF CheckPage
<1>8. CASE ProjectFindings
  BY <1>0, <1>1, <1>8 DEF ProjectFindings, Verification
<1>9. CASE RestartMe
  BY <1>0, <1>1, <1>9 DEF RestartMe, Verification
<1>10. CASE UNCHANGED mvars
  BY <1>0, <1>1, <1>10 DEF mvars
<1> QED BY <1>2, <1>3, <1>4, <1>5, <1>6, <1>7, <1>8, <1>9, <1>10 DEF MeNext

-----------------------------------------------------------------------------
(***************************************************************************)
(* known_servers: what an event counts is at most the failures that there  *)
(* were since the last success; a check counts from the row of the table,  *)
(* which is the newest verdict, and what comes between is none.            *)
(***************************************************************************)
NewsSet == [kind : {"discovered", "updated", "unreachable", "lost"}, failures : Nat, features : BOOLEAN, hour : Nat]

\* The failures in a row that the first n events end with.
Failing(R, n) == {j \in 1..n : R[j].kind = "unreachable" /\ \A s \in 1..n : R[s].kind = "updated" => s < j}

CountsFailures(R) ==
  \A i \in DOMAIN R :
    /\ R[i].kind = "updated" => R[i].failures = 0
    /\ R[i].kind = "unreachable" => R[i].failures <= Cardinality(Failing(R, i))
    /\ R[i].kind = "lost" => Cardinality(Failing(R, i)) >= GiveUpAfter

ServersInv ==
  /\ hour \in Nat /\ news \in Seq(NewsSet) /\ spos \in 0..Len(news) /\ visit \in {"none", "submitted", "lost"}
  /\ CountsFailures(news)
  /\ visit = "submitted" => \A i \in spos+1..Len(news) : news[i].kind \notin Verdicts
  /\ visit = "lost" => Cardinality(Failing(news, Len(news))) >= GiveUpAfter

LEMMA ServersTypes ==
  ASSUME ServersInv
  PROVE  /\ hour \in Nat /\ news \in Seq(NewsSet) /\ spos \in 0..Len(news) /\ Len(news) \in Nat /\ DOMAIN news = 1..Len(news)
         /\ visit \in {"none", "submitted", "lost"}
BY DEF ServersInv

LEMMA NewsParts ==
  ASSUME NEW e \in NewsSet
  PROVE  /\ e.kind \in {"discovered", "updated", "unreachable", "lost"} /\ e.failures \in Nat
         /\ e.features \in BOOLEAN /\ e.hour \in Nat
BY DEF NewsSet

\* The newest of some kinds, and that there is none when it is 0.
LEMMA LatestIs ==
  ASSUME ServersInv, NEW n \in 0..Len(news), NEW kinds
  PROVE  \/ Latest(n, kinds) = 0 /\ \A i \in 1..n : news[i].kind \notin kinds
         \/ /\ Latest(n, kinds) \in 1..n /\ news[Latest(n, kinds)].kind \in kinds
            /\ \A i \in 1..n : news[i].kind \in kinds => i <= Latest(n, kinds)
<1> DEFINE hits == {i \in 1..n : news[i].kind \in kinds}
           m == CHOOSE i \in hits : \A j \in hits : j <= i
<1>1. n \in Nat /\ hits \subseteq 0..n
  BY ServersTypes
<1>2. CASE hits = {}
  BY <1>2 DEF Latest
<1>3. CASE hits # {}
  <2> HIDE DEF hits
  <2>1. \E i \in hits : \A j \in hits : j <= i
    BY <1>1, <1>3, GreatestExists
  <2>2. m \in hits /\ \A j \in hits : j <= m
    BY <2>1
  <2>3. Latest(n, kinds) = m
    BY <1>3 DEF Latest, hits
  <2> HIDE DEF m
  <2> QED BY <2>2, <2>3 DEF hits
<1> QED BY <1>2, <1>3

LEMMA FailingFinite ==
  ASSUME NEW R, NEW n \in Nat
  PROVE  IsFiniteSet(Failing(R, n)) /\ Cardinality(Failing(R, n)) \in Nat
<1>1. IsFiniteSet(1..n) /\ Failing(R, n) \subseteq 1..n
  BY FS_Interval DEF Failing
<1> QED BY <1>1, FS_Subset, FS_CardinalityType

\* One event more: a failure counts, what is no verdict does not.
LEMMA FailingGrows ==
  ASSUME NEW R \in Seq(NewsSet), NEW e \in NewsSet
  PROVE  /\ Append(R, e) \in Seq(NewsSet) /\ Len(Append(R, e)) = Len(R) + 1 /\ Append(R, e)[Len(R) + 1] = e
         /\ \A i \in DOMAIN R : Append(R, e)[i] = R[i]
         /\ \A n \in 0..Len(R) : Failing(Append(R, e), n) = Failing(R, n)
         /\ e.kind \notin Verdicts => Failing(Append(R, e), Len(R) + 1) = Failing(R, Len(R))
         /\ e.kind = "unreachable" =>
              Cardinality(Failing(Append(R, e), Len(R) + 1)) = Cardinality(Failing(R, Len(R))) + 1
<1> DEFINE N == Append(R, e)
<1>1. /\ N \in Seq(NewsSet) /\ Len(N) = Len(R) + 1 /\ N[Len(R) + 1] = e
      /\ DOMAIN R = 1..Len(R) /\ Len(R) \in Nat /\ \A i \in DOMAIN R : N[i] = R[i]
  OBVIOUS
<1> HIDE DEF N
<1>2. \A n \in 0..Len(R) : Failing(N, n) = Failing(R, n)
  BY <1>1 DEF Failing
<1>3. \A i \in 1..Len(R) + 1 : i \in DOMAIN R \/ i = Len(R) + 1
  BY <1>1
<1>4. ASSUME e.kind \notin Verdicts PROVE Failing(N, Len(R) + 1) = Failing(R, Len(R))
  BY <1>1, <1>3, <1>4 DEF Failing, Verdicts
<1>5. ASSUME e.kind = "unreachable"
      PROVE  Cardinality(Failing(N, Len(R) + 1)) = Cardinality(Failing(R, Len(R))) + 1
  <2>1. Failing(N, Len(R) + 1) = Failing(R, Len(R)) \cup {Len(R) + 1}
    BY <1>1, <1>3, <1>5 DEF Failing
  <2>2. Len(R) + 1 \notin Failing(R, Len(R))
    BY <1>1 DEF Failing
  <2>3. IsFiniteSet(Failing(R, Len(R)))
    BY <1>1, FailingFinite
  <2> QED BY <2>1, <2>2, <2>3, FS_AddElement
<1> QED BY <1>1, <1>2, <1>4, <1>5 DEF N

LEMMA NewsAdded ==
  ASSUME ServersInv, NEW e \in NewsSet, news' = Append(news, e),
         e.kind = "updated" => e.failures = 0,
         e.kind = "unreachable" => e.failures <= Cardinality(Failing(news, Len(news))) + 1,
         e.kind = "lost" => Cardinality(Failing(news, Len(news))) >= GiveUpAfter
  PROVE  news' \in Seq(NewsSet) /\ CountsFailures(news')
<1>1. /\ news \in Seq(NewsSet) /\ Len(news) \in Nat /\ DOMAIN news = 1..Len(news) /\ CountsFailures(news)
      /\ e.kind \in {"discovered", "updated", "unreachable", "lost"} /\ e.failures \in Nat
  BY ServersTypes, NewsParts DEF ServersInv
<1>2. /\ news' \in Seq(NewsSet) /\ Len(news') = Len(news) + 1 /\ news'[Len(news) + 1] = e
      /\ \A i \in DOMAIN news : news'[i] = news[i]
      /\ \A n \in 0..Len(news) : Failing(news', n) = Failing(news, n)
      /\ e.kind \notin Verdicts => Failing(news', Len(news) + 1) = Failing(news, Len(news))
      /\ e.kind = "unreachable" =>
           Cardinality(Failing(news', Len(news) + 1)) = Cardinality(Failing(news, Len(news))) + 1
  BY <1>1, FailingGrows
<1>3. ASSUME NEW i \in DOMAIN news'
      PROVE  /\ news'[i].kind = "updated" => news'[i].failures = 0
             /\ news'[i].kind = "unreachable" => news'[i].failures <= Cardinality(Failing(news', i))
             /\ news'[i].kind = "lost" => Cardinality(Failing(news', i)) >= GiveUpAfter
  <2>1. CASE i \in DOMAIN news
    <3>1. news'[i] = news[i] /\ Failing(news', i) = Failing(news, i)
      BY <1>1, <1>2, <2>1
    <3> QED BY <1>1, <2>1, <3>1 DEF CountsFailures
  <2>2. CASE i = Len(news) + 1
    <3>1. news'[i] = e
      BY <1>2, <2>2
    <3>2. e.kind = "unreachable" => e.failures <= Cardinality(Failing(news', i))
      BY <1>2, <2>2
    <3>3. e.kind = "lost" => Cardinality(Failing(news', i)) >= GiveUpAfter
      BY <1>2, <2>2 DEF Verdicts
    <3> QED BY <3>1, <3>2, <3>3
  <2>3. DOMAIN news' = 1..Len(news) + 1
    BY <1>2
  <2> QED BY <1>1, <2>1, <2>2, <2>3
<1> QED BY <1>2, <1>3 DEF CountsFailures

\* What a check counts from.
LEMMA FailuresAreCounted ==
  ASSUME ServersInv, visit = "submitted"
  PROVE  FailuresSoFar \in Nat /\ FailuresSoFar <= Cardinality(Failing(news, Len(news)))
<1>1. /\ news \in Seq(NewsSet) /\ Len(news) \in Nat /\ DOMAIN news = 1..Len(news) /\ spos \in 0..Len(news)
      /\ CountsFailures(news) /\ \A i \in spos+1..Len(news) : news[i].kind \notin Verdicts
  BY ServersTypes DEF ServersInv
<1>2. Cardinality(Failing(news, Len(news))) \in Nat
  BY <1>1, FailingFinite
<1>3. CASE CheckOf = 0
  BY <1>2, <1>3 DEF FailuresSoFar
<1>4. CASE CheckOf # 0
  <2>1. PICK c : c = CheckOf
    OBVIOUS
  <2>2. c \in 1..spos /\ news[c].kind \in Verdicts /\ \A i \in 1..spos : news[i].kind \in Verdicts => i <= c
    BY <1>1, <1>4, <2>1, LatestIs DEF CheckOf
  <2>3. FailuresSoFar = news[c].failures /\ c \in DOMAIN news
    BY <1>1, <1>4, <2>1, <2>2 DEF FailuresSoFar
  <2>4. news[c].failures \in Nat
    BY <1>1, <2>3, NewsParts
  <2>5. \A i \in 1..Len(news) : news[i].kind \in Verdicts => i <= c
    <3>1. \A i \in 1..Len(news) : i \in 1..spos \/ i \in spos+1..Len(news)
      BY <1>1
    <3> QED BY <1>1, <2>2, <3>1
  <2>6. Failing(news, Len(news)) = Failing(news, c)
    BY <1>1, <2>2, <2>5 DEF Failing, Verdicts
  <2>7. news[c].kind = "updated" \/ news[c].kind = "unreachable"
    BY <2>2 DEF Verdicts
  <2> QED BY <1>1, <1>2, <2>3, <2>4, <2>6, <2>7 DEF CountsFailures
<1> QED BY <1>3, <1>4

LEMMA Checked ==
  ASSUME ServersInv, NEW state \in {"read", "unchanged", "failed"}, Check(state)
  PROVE  ServersInv'
<1> DEFINE kind == IF state = "failed" THEN "unreachable" ELSE "updated"
           e == Entry(kind, FailuresAfter(state), state = "read")
<1>1. /\ hour \in Nat /\ news \in Seq(NewsSet) /\ Len(news) \in Nat /\ spos \in 0..Len(news)
      /\ news' = Append(news, e) /\ UNCHANGED <<hour, spos>> /\ visit = "submitted"
      /\ visit' = IF state = "failed" /\ FailuresAfter(state) >= GiveUpAfter THEN "lost" ELSE "none"
  BY ServersTypes DEF Check
<1>2. FailuresSoFar \in Nat /\ FailuresSoFar <= Cardinality(Failing(news, Len(news)))
  BY <1>1, FailuresAreCounted
<1>3. FailuresAfter(state) \in Nat /\ FailuresAfter(state) = IF state = "failed" THEN FailuresSoFar + 1 ELSE 0
  BY <1>2 DEF FailuresAfter
<1>4. e \in NewsSet /\ e.kind = kind /\ e.failures = FailuresAfter(state)
  BY <1>1, <1>3 DEF Entry, NewsSet
<1>5. Cardinality(Failing(news, Len(news))) \in Nat
  BY <1>1, FailingFinite
<1>6. e.kind = "unreachable" <=> state = "failed"
  BY <1>4
<1>7. e.kind # "lost" /\ (e.kind = "updated" => e.failures = 0)
  BY <1>3, <1>4
<1> HIDE DEF e, kind
<1>8. e.kind = "unreachable" => e.failures <= Cardinality(Failing(news, Len(news))) + 1
  BY <1>2, <1>3, <1>4, <1>5, <1>6
<1>9. news' \in Seq(NewsSet) /\ CountsFailures(news')
  BY <1>1, <1>4, <1>7, <1>8, NewsAdded
<1>10. /\ Len(news') = Len(news) + 1
       /\ e.kind = "unreachable" =>
            Cardinality(Failing(news', Len(news) + 1)) = Cardinality(Failing(news, Len(news))) + 1
  BY <1>1, <1>4, FailingGrows
<1>11. visit' = "lost" => Cardinality(Failing(news', Len(news'))) >= GiveUpAfter
  <2>1. SUFFICES ASSUME state = "failed", FailuresAfter(state) >= GiveUpAfter
                 PROVE  Cardinality(Failing(news', Len(news'))) >= GiveUpAfter
    BY <1>1
  <2>2. Cardinality(Failing(news', Len(news'))) = Cardinality(Failing(news, Len(news))) + 1
    BY <1>6, <1>10, <2>1
  <2> QED BY <1>2, <1>3, <1>5, <2>1, <2>2, ServersAssumption
<1> QED BY <1>1, <1>9, <1>10, <1>11 DEF ServersInv

LEMMA ServersStep ==
  ASSUME ServersInv, [ServersNext]_kvars
  PROVE  ServersInv'
<1>0. /\ hour \in Nat /\ news \in Seq(NewsSet) /\ spos \in 0..Len(news) /\ Len(news) \in Nat
      /\ visit \in {"none", "submitted", "lost"}
  BY ServersTypes
<1>1. CASE UnderstandsReactions
  <2> DEFINE e == Entry("discovered", 0, FALSE)
  <2>1. news' = Append(news, e) /\ UNCHANGED <<hour, spos, visit>>
    BY <1>1 DEF UnderstandsReactions
  <2>2. e \in NewsSet /\ e.kind = "discovered"
    BY <1>0 DEF Entry, NewsSet
  <2> HIDE DEF e
  <2>3. news' \in Seq(NewsSet) /\ CountsFailures(news')
    BY <2>1, <2>2, NewsAdded
  <2>4. /\ Len(news') = Len(news) + 1 /\ news'[Len(news) + 1] = e /\ \A i \in 1..Len(news) : news'[i] = news[i]
        /\ Failing(news', Len(news) + 1) = Failing(news, Len(news))
    BY <1>0, <2>1, <2>2, FailingGrows DEF Verdicts
  <2>5. visit' = "submitted" => \A i \in spos'+1..Len(news') : news'[i].kind \notin Verdicts
    <3>1. SUFFICES ASSUME visit = "submitted", NEW i \in spos+1..Len(news) + 1 PROVE news'[i].kind \notin Verdicts
      BY <2>1, <2>4
    <3>2. CASE i = Len(news) + 1
      BY <2>2, <2>4, <3>2 DEF Verdicts
    <3>3. CASE i # Len(news) + 1
      <4>1. i \in spos+1..Len(news) /\ i \in 1..Len(news)
        BY <1>0, <3>3
      <4> QED BY <2>4, <3>1, <4>1 DEF ServersInv
    <3> QED BY <3>2, <3>3
  <2>6. visit' = "lost" => Cardinality(Failing(news', Len(news'))) >= GiveUpAfter
    BY <2>1, <2>4 DEF ServersInv
  <2>7. spos' \in 0..Len(news')
    BY <1>0, <2>1, <2>4
  <2> QED BY <1>0, <2>1, <2>3, <2>5, <2>6, <2>7 DEF ServersInv
<1>2. CASE ProjectServers
  BY <1>0, <1>2 DEF ProjectServers, ServersInv
<1>3. CASE ProjectSupport
  BY <1>3 DEF ProjectSupport, ServersInv
<1>4. CASE Sweep
  <2>1. UNCHANGED <<hour, news, spos>> /\ visit' = "submitted" /\ CheckOf = Latest(Len(news), Verdicts)
    BY <1>4 DEF Sweep
  <2>2. \A i \in spos+1..Len(news) : news[i].kind \notin Verdicts
    <3>1. SUFFICES ASSUME NEW i \in spos+1..Len(news), news[i].kind \in Verdicts PROVE FALSE
      OBVIOUS
    <3>2. i \in 1..Len(news) /\ Len(news) \in 0..Len(news) /\ i > spos
      BY <1>0
    <3>3. CheckOf \in 1..Len(news) /\ i <= CheckOf
      BY <2>1, <3>1, <3>2, LatestIs
    <3>4. CheckOf = 0 \/ CheckOf \in 1..spos
      BY <1>0, LatestIs DEF CheckOf
    <3> QED BY <1>0, <3>2, <3>3, <3>4
  <2> QED BY <1>0, <2>1, <2>2 DEF ServersInv
<1>5. CASE Lose
  <2> DEFINE e == Entry("lost", 0, FALSE)
  <2>1. news' = Append(news, e) /\ UNCHANGED <<hour, spos>> /\ visit' = "none" /\ visit = "lost"
    BY <1>5 DEF Lose
  <2>2. e \in NewsSet /\ e.kind = "lost"
    BY <1>0 DEF Entry, NewsSet
  <2> HIDE DEF e
  <2>3. Cardinality(Failing(news, Len(news))) >= GiveUpAfter
    BY <2>1 DEF ServersInv
  <2>4. news' \in Seq(NewsSet) /\ CountsFailures(news')
    BY <2>1, <2>2, <2>3, NewsAdded
  <2>5. spos' \in 0..Len(news')
    BY <1>0, <2>1, <2>2
  <2> QED BY <1>0, <2>1, <2>4, <2>5 DEF ServersInv
<1>6. CASE RestartServers
  BY <1>0, <1>6 DEF RestartServers, ServersInv
<1>7. CASE NextHour
  BY <1>0, <1>7 DEF NextHour, ServersInv
<1>8. CASE UNCHANGED kvars
  BY <1>8 DEF kvars, ServersInv
<1> QED BY <1>1, <1>2, <1>3, <1>4, <1>5, <1>6, <1>7, <1>8, Checked DEF ServersNext

\* What the property counts are the failures in a row that the events end with.
LEMMA LostAfterFailing ==
  ASSUME ServersInv
  PROVE  LostOnlyAfterFailures
<1>1. SUFFICES ASSUME NEW i \in DOMAIN news, news[i].kind = "lost"
               PROVE  Cardinality({j \in Latest(i, {"updated"})+1..i : news[j].kind = "unreachable"}) >= GiveUpAfter
  BY DEF LostOnlyAfterFailures
<1>2. PICK s : s = Latest(i, {"updated"})
  OBVIOUS
<1>3. i \in 1..Len(news) /\ i \in 0..Len(news)
  BY ServersTypes
<1>4. \/ s = 0 /\ \A k \in 1..i : news[k].kind # "updated"
      \/ s \in 1..i /\ news[s].kind = "updated" /\ \A k \in 1..i : news[k].kind = "updated" => k <= s
  BY <1>2, <1>3, LatestIs
<1>5. {j \in s+1..i : news[j].kind = "unreachable"} = Failing(news, i)
  BY <1>3, <1>4 DEF Failing
<1>6. Cardinality(Failing(news, i)) >= GiveUpAfter
  BY <1>1 DEF ServersInv, CountsFailures
<1> QED BY <1>2, <1>5, <1>6

\* A page that is called verified did point back, and a host that is called lost did
\* fail that often in a row, whatever restarts and whatever changes in between.
THEOREM VerdictsAreEarnedAlways == Spec => []VerdictsAreEarned
<1>1. ASSUME Init PROVE LinksInv /\ ServersInv
  <2>1. MeInit /\ ServersInit
    BY <1>1 DEF Init, RestingLinks
  <2>2. LinksInv
    <3>1. listed = NoProfile /\ target \in Profiles \cup {NoProfile} /\ post = NoProfile /\ edition = 1
          /\ findings = <<>> /\ mpos = 0 /\ result = 0
      BY <2>1 DEF MeInit
    <3>2. Len(findings) = 0 /\ findings \in Seq(FindingSet) /\ DOMAIN findings = {}
      BY <3>1
    <3> QED BY <3>1, <3>2 DEF LinksInv, VerifiedPointsBack
  <2>3. ServersInv
    <3>1. hour = 1 /\ news = <<>> /\ spos = 0 /\ visit = "none"
      BY <2>1 DEF ServersInit
    <3>2. Len(news) = 0 /\ news \in Seq(NewsSet) /\ DOMAIN news = {}
      BY <3>1
    <3> QED BY <3>1, <3>2 DEF ServersInv, CountsFailures
  <2> QED BY <2>2, <2>3
<1>2. [Next]_bvars => [MeNext]_mvars /\ [ServersNext]_kvars
  BY DEF Next, bvars, mvars, kvars
<1>3. LinksInv /\ ServersInv /\ [Next]_bvars => (LinksInv /\ ServersInv)'
  BY <1>2, LinksStep, ServersStep
<1>4. LinksInv /\ ServersInv => VerdictsAreEarned
  BY LostAfterFailing DEF VerdictsAreEarned, LinksInv
<1> QED BY <1>1, <1>3, <1>4, PTL DEF Spec

-----------------------------------------------------------------------------
(***************************************************************************)
(* account_resolver: a process that once had both documents confirmed ends *)
(* as resolved and no other way, since a document that was answered is not *)
(* asked for again: the first attempt has its id, and a later one comes    *)
(* when the table has caught up.                                           *)
(***************************************************************************)
LogSet == [p : Requests, kind : Documents \cup {"process"}, attempt : Nat,
           state : Conclusive \cup {"attempting", "failed", "resolved", "unresolved"}, at : Nat]

OfDocument(i, p, kind) == log[i].p = p /\ log[i].kind = kind
IsAsked(p, kind) == \E i \in DOMAIN log : OfDocument(i, p, kind)
IsAnswered(p, kind) == \E i \in DOMAIN log : OfDocument(i, p, kind) /\ log[i].state \in Conclusive
IsConfirmed(p, kind) == \E i \in DOMAIN log : OfDocument(i, p, kind) /\ log[i].state = "confirmed"
BothConfirmed(p) == \A kind \in Documents : IsConfirmed(p, kind)

\* Everything that the outcome stands on has been asked for.
IsThrough(p) == IsAsked(p, "jrd") /\ (IsConfirmed(p, "jrd") => IsAsked(p, "actor"))
HasEnded(p) == IsAsked(p, "process")

ResolutionTyped ==
  /\ clock \in Nat /\ log \in Seq(LogSet) /\ known \in 0..Len(log) /\ registered \subseteq Requests
  /\ tasks \in [Requests -> {"none", "look", "fetch", "register", "finish"}]
  /\ doing \in [Requests -> (Documents \cup {"none", "resolved", "unresolved"}) \X Nat]

\* Attempts are numbered from 1, and nothing comes after the answer.
InItsOrder ==
  /\ \A i \in DOMAIN log : log[i].kind \in Documents =>
       /\ log[i].attempt > 0 /\ log[i].state \notin {"resolved", "unresolved"}
       /\ \E j \in DOMAIN log : /\ OfDocument(j, log[i].p, log[i].kind)
                                /\ log[j].attempt = 1 /\ log[j].state = "attempting"
  /\ \A i, j \in DOMAIN log : (i < j /\ log[i].kind \in Documents /\ OfDocument(j, log[i].p, log[i].kind)) =>
       log[i].state \notin Conclusive

TaskIsRight(p) ==
  /\ tasks[p] = "fetch" => /\ doing[p][1] \in Documents /\ doing[p][2] > 0 /\ ~HasEnded(p)
                           /\ IsAsked(p, doing[p][1]) /\ ~IsAnswered(p, doing[p][1])
  /\ tasks[p] = "register" => IsThrough(p) /\ doing[p][1] = "resolved" /\ BothConfirmed(p)
  /\ tasks[p] = "finish" => IsThrough(p) /\ \/ doing[p][1] = "resolved" /\ p \in registered
                                            \/ doing[p][1] = "unresolved" /\ ~BothConfirmed(p)
EndIsRight(p) ==
  /\ p \in registered => BothConfirmed(p)
  /\ HasEnded(p) => IsThrough(p)
  /\ "resolved" \in Ended(p) => p \in registered
  /\ "unresolved" \in Ended(p) => ~BothConfirmed(p)

ResolutionInv ==
  /\ ResolutionTyped /\ InItsOrder
  /\ \A p \in Requests : TaskIsRight(p) /\ EndIsRight(p)

LEMMA ResolutionTypes ==
  ASSUME ResolutionTyped
  PROVE  /\ clock \in Nat /\ log \in Seq(LogSet) /\ Len(log) \in Nat /\ DOMAIN log = 1..Len(log)
         /\ known \in 0..Len(log) /\ registered \subseteq Requests
         /\ tasks \in [Requests -> {"none", "look", "fetch", "register", "finish"}]
         /\ doing \in [Requests -> (Documents \cup {"none", "resolved", "unresolved"}) \X Nat]
BY DEF ResolutionTyped

LEMMA LogParts ==
  ASSUME NEW e \in LogSet
  PROVE  /\ e.p \in Requests /\ e.kind \in Documents \cup {"process"} /\ e.attempt \in Nat /\ e.at \in Nat
         /\ e.state \in Conclusive \cup {"attempting", "failed", "resolved", "unresolved"}
BY DEF LogSet

\* The row of a document is its newest event that the table has read.
LEMMA DocumentRowIs ==
  ASSUME ResolutionTyped, NEW p, NEW kind
  PROVE  \/ RowOf(p, kind) = Nothing /\ \A i \in 1..known : ~OfDocument(i, p, kind)
         \/ \E k \in 1..known : /\ OfDocument(k, p, kind) /\ RowOf(p, kind) = log[k]
                                /\ \A i \in 1..known : OfDocument(i, p, kind) => i <= k
<1> DEFINE hits == {i \in 1..known : log[i].p = p /\ log[i].kind = kind}
           m == CHOOSE i \in hits : \A j \in hits : j <= i
<1>1. known \in Nat /\ hits \subseteq 0..known
  BY ResolutionTypes
<1>2. CASE hits = {}
  BY <1>2 DEF RowOf, OfDocument
<1>3. CASE hits # {}
  <2> HIDE DEF hits
  <2>1. \E i \in hits : \A j \in hits : j <= i
    BY <1>1, <1>3, GreatestExists
  <2>2. m \in hits /\ \A j \in hits : j <= m
    BY <2>1
  <2>3. RowOf(p, kind) = log[m]
    BY <1>3 DEF RowOf, hits
  <2> HIDE DEF m
  <2> QED BY <2>2, <2>3 DEF hits, OfDocument
<1> QED BY <1>2, <1>3

\* What one event more says of the documents and the ends.
LEMMA LogGrows ==
  ASSUME ResolutionTyped, NEW e \in LogSet, log' = Append(log, e)
  PROVE  /\ log' \in Seq(LogSet) /\ Len(log') = Len(log) + 1 /\ log'[Len(log) + 1] = e
         /\ \A i \in DOMAIN log : i \in DOMAIN log' /\ log'[i] = log[i] /\ i < Len(log) + 1
         /\ \A i \in DOMAIN log' : i \in DOMAIN log \/ i = Len(log) + 1
         /\ \A p, kind : /\ IsAsked(p, kind)' <=> IsAsked(p, kind) \/ (e.p = p /\ e.kind = kind)
                         /\ IsAnswered(p, kind)' <=> IsAnswered(p, kind) \/ (e.p = p /\ e.kind = kind /\ e.state \in Conclusive)
                         /\ IsConfirmed(p, kind)' <=> IsConfirmed(p, kind) \/ (e.p = p /\ e.kind = kind /\ e.state = "confirmed")
         /\ \A p, state : state \in Ended(p)' <=> state \in Ended(p) \/ (e.p = p /\ e.kind = "process" /\ e.state = state)
<1>1. /\ log' \in Seq(LogSet) /\ Len(log') = Len(log) + 1 /\ log'[Len(log) + 1] = e
      /\ \A i \in DOMAIN log : i \in DOMAIN log' /\ log'[i] = log[i] /\ i < Len(log) + 1
      /\ \A i \in DOMAIN log' : i \in DOMAIN log \/ i = Len(log) + 1
      /\ Len(log) + 1 \in DOMAIN log'
  BY ResolutionTypes
<1>2. ASSUME NEW p, NEW kind
      PROVE  /\ IsAsked(p, kind)' <=> IsAsked(p, kind) \/ (e.p = p /\ e.kind = kind)
             /\ IsAnswered(p, kind)' <=> IsAnswered(p, kind) \/ (e.p = p /\ e.kind = kind /\ e.state \in Conclusive)
             /\ IsConfirmed(p, kind)' <=> IsConfirmed(p, kind) \/ (e.p = p /\ e.kind = kind /\ e.state = "confirmed")
  <2>1. IsAsked(p, kind)' <=> IsAsked(p, kind) \/ (e.p = p /\ e.kind = kind)
    BY <1>1 DEF IsAsked, OfDocument
  <2>2. IsAnswered(p, kind)' <=> IsAnswered(p, kind) \/ (e.p = p /\ e.kind = kind /\ e.state \in Conclusive)
    BY <1>1 DEF IsAnswered, OfDocument
  <2>3. IsConfirmed(p, kind)' <=> IsConfirmed(p, kind) \/ (e.p = p /\ e.kind = kind /\ e.state = "confirmed")
    BY <1>1 DEF IsConfirmed, OfDocument
  <2> QED BY <2>1, <2>2, <2>3
<1>3. ASSUME NEW p, NEW state
      PROVE  state \in Ended(p)' <=> state \in Ended(p) \/ (e.p = p /\ e.kind = "process" /\ e.state = state)
  BY <1>1 DEF Ended
<1> QED BY <1>1, <1>2, <1>3

LEMMA OrderKept ==
  ASSUME ResolutionTyped, InItsOrder, NEW e \in LogSet, log' = Append(log, e),
         e.kind \in Documents => /\ e.attempt > 0 /\ e.state \notin {"resolved", "unresolved"}
                                 /\ IsAsked(e.p, e.kind) \/ (e.attempt = 1 /\ e.state = "attempting")
                                 /\ ~IsAnswered(e.p, e.kind)
  PROVE  InItsOrder'
<1>1. /\ log'[Len(log) + 1] = e /\ Len(log) + 1 \in DOMAIN log' /\ DOMAIN log = 1..Len(log) /\ Len(log) \in Nat
      /\ \A i \in DOMAIN log : i \in DOMAIN log' /\ log'[i] = log[i] /\ i < Len(log) + 1
      /\ \A i \in DOMAIN log' : i \in DOMAIN log \/ i = Len(log) + 1
  BY LogGrows, ResolutionTypes
<1>2. ASSUME NEW i \in DOMAIN log', log'[i].kind \in Documents
      PROVE  /\ log'[i].attempt > 0 /\ log'[i].state \notin {"resolved", "unresolved"}
             /\ \E j \in DOMAIN log' : /\ log'[j].p = log'[i].p /\ log'[j].kind = log'[i].kind
                                       /\ log'[j].attempt = 1 /\ log'[j].state = "attempting"
  <2>1. CASE i \in DOMAIN log
    <3>1. PICK j \in DOMAIN log : /\ log[j].p = log[i].p /\ log[j].kind = log[i].kind
                                  /\ log[j].attempt = 1 /\ log[j].state = "attempting"
      BY <1>1, <1>2, <2>1 DEF InItsOrder, OfDocument
    <3>2. log'[i] = log[i] /\ log'[j] = log[j] /\ j \in DOMAIN log'
      BY <1>1, <2>1
    <3>3. log[i].attempt > 0 /\ log[i].state \notin {"resolved", "unresolved"}
      BY <1>2, <2>1, <3>2 DEF InItsOrder
    <3> QED BY <3>1, <3>2, <3>3
  <2>2. CASE i = Len(log) + 1
    <3>1. CASE e.attempt = 1 /\ e.state = "attempting"
      BY <1>1, <1>2, <2>2, <3>1
    <3>2. CASE IsAsked(e.p, e.kind)
      <4>1. PICK k \in DOMAIN log : log[k].p = e.p /\ log[k].kind = e.kind
        BY <3>2 DEF IsAsked, OfDocument
      <4>2. PICK j \in DOMAIN log : /\ log[j].p = e.p /\ log[j].kind = e.kind
                                    /\ log[j].attempt = 1 /\ log[j].state = "attempting"
        BY <1>1, <1>2, <2>2, <4>1 DEF InItsOrder, OfDocument
      <4>3. log'[j] = log[j] /\ j \in DOMAIN log'
        BY <1>1
      <4> QED BY <1>1, <1>2, <2>2, <4>2, <4>3
    <3> QED BY <1>1, <1>2, <2>2, <3>1, <3>2
  <2> QED BY <1>1, <2>1, <2>2
<1>3. ASSUME NEW i \in DOMAIN log', NEW j \in DOMAIN log', i < j, log'[i].kind \in Documents,
             log'[j].p = log'[i].p, log'[j].kind = log'[i].kind
      PROVE  log'[i].state \notin Conclusive
  <2>1. i \in DOMAIN log /\ log'[i] = log[i]
    BY <1>1, <1>3
  <2>2. CASE j \in DOMAIN log
    BY <1>1, <1>3, <2>1, <2>2 DEF InItsOrder, OfDocument
  <2>3. CASE j = Len(log) + 1
    BY <1>1, <1>3, <2>1, <2>3 DEF IsAnswered, OfDocument
  <2> QED BY <1>1, <2>2, <2>3
<1> QED BY <1>2, <1>3 DEF InItsOrder, OfDocument

\* What is said of a process when nothing of it changes.
LEMMA ProcessRests ==
  ASSUME NEW q \in Requests, TaskIsRight(q), EndIsRight(q), tasks'[q] = tasks[q], doing'[q] = doing[q],
         q \in registered' <=> q \in registered,
         \A kind : /\ IsAsked(q, kind)' <=> IsAsked(q, kind)
                   /\ IsAnswered(q, kind)' <=> IsAnswered(q, kind)
                   /\ IsConfirmed(q, kind)' <=> IsConfirmed(q, kind),
         \A state : state \in Ended(q)' <=> state \in Ended(q)
  PROVE  TaskIsRight(q)' /\ EndIsRight(q)'
<1>1. /\ BothConfirmed(q)' <=> BothConfirmed(q)
      /\ IsThrough(q)' <=> IsThrough(q)
      /\ HasEnded(q)' <=> HasEnded(q)
  BY DEF BothConfirmed, IsThrough, HasEnded
<1>2. TaskIsRight(q)'
  BY <1>1 DEF TaskIsRight
<1>3. EndIsRight(q)'
  BY <1>1 DEF EndIsRight
<1> QED BY <1>2, <1>3

\* The table says the outcome that the documents give.
LEMMA ChainIs ==
  ASSUME ResolutionTyped, InItsOrder, NEW p \in Requests
  PROVE  /\ Chain(p) \in {"jrd", "actor", "resolved", "unresolved"}
         /\ Chain(p) = "resolved" => IsThrough(p) /\ BothConfirmed(p)
         /\ Chain(p) = "unresolved" => IsThrough(p) /\ ~BothConfirmed(p)
         /\ Chain(p) = "actor" => IsConfirmed(p, "jrd") /\ IsAsked(p, "jrd")
         /\ (Chain(p) \in Documents /\ RowOf(p, Chain(p)).attempt > 0 /\ known = Len(log)) =>
              IsAsked(p, Chain(p)) /\ IsThrough(p) /\ ~IsAnswered(p, Chain(p)) /\ ~BothConfirmed(p)
<1>0. /\ log \in Seq(LogSet) /\ Len(log) \in Nat /\ DOMAIN log = 1..Len(log) /\ known \in 0..Len(log)
      /\ 1..known \subseteq DOMAIN log
  BY ResolutionTypes
<1>1. \A kind \in Documents : RowOf(p, kind).state = "confirmed" => IsConfirmed(p, kind) /\ IsAsked(p, kind)
  <2>1. SUFFICES ASSUME NEW kind \in Documents, RowOf(p, kind).state = "confirmed"
                 PROVE  IsConfirmed(p, kind) /\ IsAsked(p, kind)
    OBVIOUS
  <2>2. RowOf(p, kind) # Nothing
    BY <2>1 DEF Nothing
  <2> QED BY <1>0, <2>1, <2>2, DocumentRowIs DEF IsConfirmed, IsAsked
<1>2. \A kind \in Documents : (RowOf(p, kind).state \in Conclusive /\ RowOf(p, kind).state # "confirmed") =>
                                ~IsConfirmed(p, kind) /\ IsAsked(p, kind)
  <2>1. SUFFICES ASSUME NEW kind \in Documents, RowOf(p, kind).state \in Conclusive, RowOf(p, kind).state # "confirmed"
                 PROVE  ~IsConfirmed(p, kind) /\ IsAsked(p, kind)
    OBVIOUS
  <2>2. RowOf(p, kind) # Nothing
    BY <2>1 DEF Nothing, Conclusive
  <2>3. PICK k \in 1..known : OfDocument(k, p, kind) /\ RowOf(p, kind) = log[k]
    BY <1>0, <2>2, DocumentRowIs
  <2>4. ASSUME NEW i \in DOMAIN log, OfDocument(i, p, kind), log[i].state = "confirmed" PROVE FALSE
    <3>1. i # k /\ k \in DOMAIN log
      BY <1>0, <2>1, <2>3, <2>4
    <3>2. i < k \/ k < i
      BY <1>0, <3>1
    <3>3. log[i].state \in Conclusive /\ log[k].state \in Conclusive
      BY <2>1, <2>3, <2>4 DEF Conclusive
    <3> QED BY <2>3, <2>4, <3>1, <3>2, <3>3 DEF InItsOrder, OfDocument
  <2> QED BY <1>0, <2>3, <2>4 DEF IsConfirmed, IsAsked
<1>3. \A kind \in Documents : RowOf(p, kind).attempt > 0 => IsAsked(p, kind)
  <2>1. SUFFICES ASSUME NEW kind \in Documents, RowOf(p, kind).attempt > 0 PROVE IsAsked(p, kind)
    OBVIOUS
  <2>2. RowOf(p, kind) # Nothing
    BY <2>1 DEF Nothing
  <2> QED BY <1>0, <2>2, DocumentRowIs DEF IsAsked
<1>4. \A kind \in Documents : (RowOf(p, kind).state \notin Conclusive /\ known = Len(log)) =>
                                ~IsAnswered(p, kind) /\ ~IsConfirmed(p, kind)
  <2>1. SUFFICES ASSUME NEW kind \in Documents, RowOf(p, kind).state \notin Conclusive, known = Len(log),
                        NEW i \in DOMAIN log, OfDocument(i, p, kind), log[i].state \in Conclusive
                 PROVE  FALSE
    BY DEF IsAnswered, IsConfirmed, Conclusive
  <2>2. PICK k \in 1..known : /\ OfDocument(k, p, kind) /\ RowOf(p, kind) = log[k]
                              /\ \A j \in 1..known : OfDocument(j, p, kind) => j <= k
    BY <1>0, <2>1, DocumentRowIs
  <2>3. k \in DOMAIN log /\ i <= k /\ i # k
    BY <1>0, <2>1, <2>2
  <2>4. i < k
    BY <1>0, <2>3
  <2> QED BY <2>1, <2>2, <2>3, <2>4 DEF InItsOrder, OfDocument
<1>5. "jrd" \in Documents /\ "actor" \in Documents /\ "resolved" \notin Documents /\ "unresolved" \notin Documents
      /\ "confirmed" \in Conclusive
  BY DEF Documents, Conclusive
<1>6. CASE RowOf(p, "jrd").state \notin Conclusive
  <2>1. Chain(p) = "jrd"
    BY <1>6 DEF Chain
  <2>2. known = Len(log) => ~IsAnswered(p, "jrd") /\ ~IsConfirmed(p, "jrd")
    BY <1>4, <1>5, <1>6
  <2>3. RowOf(p, "jrd").attempt > 0 => IsAsked(p, "jrd")
    BY <1>3, <1>5
  <2> QED BY <1>5, <2>1, <2>2, <2>3 DEF BothConfirmed, IsThrough
<1>7. CASE RowOf(p, "jrd").state \in Conclusive /\ RowOf(p, "jrd").state # "confirmed"
  <2>1. Chain(p) = "unresolved"
    BY <1>7 DEF Chain
  <2>2. ~IsConfirmed(p, "jrd") /\ IsAsked(p, "jrd")
    BY <1>2, <1>5, <1>7
  <2> QED BY <1>5, <2>1, <2>2 DEF BothConfirmed, IsThrough
<1>8. CASE RowOf(p, "jrd").state = "confirmed"
  <2>1. IsConfirmed(p, "jrd") /\ IsAsked(p, "jrd")
    BY <1>1, <1>5, <1>8
  <2>2. CASE RowOf(p, "actor").state \notin Conclusive
    <3>1. Chain(p) = "actor"
      BY <1>5, <1>8, <2>2 DEF Chain
    <3>2. known = Len(log) => ~IsAnswered(p, "actor") /\ ~IsConfirmed(p, "actor")
      BY <1>4, <1>5, <2>2
    <3>3. RowOf(p, "actor").attempt > 0 => IsAsked(p, "actor")
      BY <1>3, <1>5
    <3> QED BY <1>5, <2>1, <3>1, <3>2, <3>3 DEF BothConfirmed, IsThrough
  <2>3. CASE RowOf(p, "actor").state \in Conclusive /\ RowOf(p, "actor").state # "confirmed"
    <3>1. Chain(p) = "unresolved"
      BY <1>5, <1>8, <2>3 DEF Chain
    <3>2. ~IsConfirmed(p, "actor") /\ IsAsked(p, "actor")
      BY <1>2, <1>5, <2>3
    <3> QED BY <1>5, <2>1, <3>1, <3>2 DEF BothConfirmed, IsThrough
  <2>4. CASE RowOf(p, "actor").state = "confirmed"
    <3>1. Chain(p) = "resolved"
      BY <1>5, <1>8, <2>4 DEF Chain
    <3>2. IsConfirmed(p, "actor") /\ IsAsked(p, "actor")
      BY <1>1, <1>5, <2>4
    <3> QED BY <1>5, <2>1, <3>1, <3>2 DEF BothConfirmed, IsThrough, Documents
  <2> QED BY <2>2, <2>3, <2>4
<1> QED BY <1>6, <1>7, <1>8

\* A process whose events, registration and task stay, or whose task only looks.
LEMMA QuietStep ==
  ASSUME log' = log, NEW q \in Requests, TaskIsRight(q), EndIsRight(q), q \in registered' <=> q \in registered,
         tasks'[q] \in {"look", "none"} \/ (tasks'[q] = tasks[q] /\ doing'[q] = doing[q])
  PROVE  TaskIsRight(q)' /\ EndIsRight(q)'
<1>1. /\ \A kind : /\ IsAsked(q, kind)' <=> IsAsked(q, kind)
                   /\ IsAnswered(q, kind)' <=> IsAnswered(q, kind)
                   /\ IsConfirmed(q, kind)' <=> IsConfirmed(q, kind)
      /\ \A state : state \in Ended(q)' <=> state \in Ended(q)
  BY DEF IsAsked, IsAnswered, IsConfirmed, OfDocument, Ended
<1>2. /\ BothConfirmed(q)' <=> BothConfirmed(q)
      /\ IsThrough(q)' <=> IsThrough(q)
      /\ HasEnded(q)' <=> HasEnded(q)
  BY <1>1 DEF BothConfirmed, IsThrough, HasEnded
<1>3. TaskIsRight(q)'
  <2>1. CASE tasks'[q] \in {"look", "none"}
    BY <2>1 DEF TaskIsRight
  <2>2. CASE tasks'[q] = tasks[q] /\ doing'[q] = doing[q]
    BY <1>1, <1>2, <2>2 DEF TaskIsRight
  <2> QED BY <2>1, <2>2
<1>4. EndIsRight(q)'
  BY <1>1, <1>2 DEF EndIsRight
<1> QED BY <1>3, <1>4

\* The event of one process says nothing of another.
LEMMA OthersRest ==
  ASSUME ResolutionTyped, NEW e \in LogSet, log' = Append(log, e),
         NEW q \in Requests, e.p # q, TaskIsRight(q), EndIsRight(q), tasks'[q] = tasks[q], doing'[q] = doing[q],
         q \in registered' <=> q \in registered
  PROVE  TaskIsRight(q)' /\ EndIsRight(q)'
<1>1. /\ \A kind : /\ IsAsked(q, kind)' <=> IsAsked(q, kind)
                   /\ IsAnswered(q, kind)' <=> IsAnswered(q, kind)
                   /\ IsConfirmed(q, kind)' <=> IsConfirmed(q, kind)
      /\ \A state : state \in Ended(q)' <=> state \in Ended(q)
  BY LogGrows
<1> QED BY <1>1, ProcessRests

\* Nor does the event of a document of the end of a process that has not ended.
LEMMA NotYetEnded ==
  ASSUME ResolutionTyped, NEW e \in LogSet, log' = Append(log, e), e.kind \in Documents,
         NEW p \in Requests, ~HasEnded(p), EndIsRight(p), registered' = registered
  PROVE  ~HasEnded(p)' /\ EndIsRight(p)'
<1>1. e.kind # "process"
  BY DEF Documents
<1>2. ~IsAsked(p, "process")'
  BY <1>1, LogGrows DEF HasEnded
<1>3. ~HasEnded(p)'
  BY <1>2 DEF HasEnded
<1>4. \A state : state \notin Ended(p)
  BY DEF Ended, HasEnded, IsAsked, OfDocument
<1>5. \A state : state \notin Ended(p)'
  BY <1>1, <1>4, LogGrows
<1>6. BothConfirmed(p) => BothConfirmed(p)'
  BY LogGrows DEF BothConfirmed
<1> QED BY <1>3, <1>5, <1>6 DEF EndIsRight

\* The table that is up to date knows of every end.
LEMMA EndIsKnown ==
  ASSUME ResolutionTyped, NEW p \in Requests, known = Len(log), HasEnded(p)
  PROVE  Finished(p)
<1>1. /\ log \in Seq(LogSet) /\ DOMAIN log = 1..known
  BY ResolutionTypes
<1>2. PICK i \in 1..known : OfDocument(i, p, "process")
  BY <1>1 DEF HasEnded, IsAsked
<1>3. PICK k \in 1..known : RowOf(p, "process") = log[k]
  BY <1>2, DocumentRowIs
<1>4. log[k] \in LogSet
  BY <1>1, <1>3
<1>5. log[k].state # "none"
  BY <1>4, LogParts DEF Conclusive
<1> QED BY <1>3, <1>5 DEF Finished

-----------------------------------------------------------------------------
LEMMA ResolutionStart ==
  ASSUME ResolutionInit PROVE ResolutionInv
<1>1. /\ clock = 1 /\ log = <<>> /\ known = 0 /\ registered = {}
      /\ tasks = [p \in Requests |-> "none"] /\ doing = [p \in Requests |-> <<"none", 0>>]
  BY DEF ResolutionInit
<1>2. /\ DOMAIN log = {} /\ Len(log) = 0 /\ log \in Seq(LogSet)
  BY <1>1
<1>3. ResolutionTyped
  <2>1. <<"none", 0>> \in (Documents \cup {"none", "resolved", "unresolved"}) \X Nat
    OBVIOUS
  <2>2. doing \in [Requests -> (Documents \cup {"none", "resolved", "unresolved"}) \X Nat]
    BY <1>1, <2>1
  <2> QED BY <1>1, <1>2, <2>2 DEF ResolutionTyped
<1>4. InItsOrder
  BY <1>2 DEF InItsOrder
<1>5. ASSUME NEW p \in Requests PROVE TaskIsRight(p) /\ EndIsRight(p)
  <2>1. tasks[p] = "none"
    BY <1>1
  <2>2. \A kind : ~IsAsked(p, kind)
    BY <1>2 DEF IsAsked
  <2>3. \A state : state \notin Ended(p)
    BY <1>2 DEF Ended
  <2> QED BY <1>1, <2>1, <2>2, <2>3 DEF TaskIsRight, EndIsRight, HasEnded
<1> QED BY <1>3, <1>4, <1>5 DEF ResolutionInv

\* An event of p: its part of the invariant is left to say.
LEMMA OneMoreEvent ==
  ASSUME ResolutionInv, NEW p \in Requests, NEW e \in LogSet, e.p = p, log' = Append(log, e),
         clock' = clock, known' = known, registered' = registered,
         tasks' \in [Requests -> {"none", "look", "fetch", "register", "finish"}],
         doing' \in [Requests -> (Documents \cup {"none", "resolved", "unresolved"}) \X Nat],
         \A q \in Requests : q # p => tasks'[q] = tasks[q] /\ doing'[q] = doing[q],
         e.kind \in Documents => /\ e.attempt > 0 /\ e.state \notin {"resolved", "unresolved"}
                                 /\ IsAsked(e.p, e.kind) \/ (e.attempt = 1 /\ e.state = "attempting")
                                 /\ ~IsAnswered(e.p, e.kind),
         TaskIsRight(p)', EndIsRight(p)'
  PROVE  ResolutionInv'
<1>1. ResolutionTyped /\ InItsOrder
  BY DEF ResolutionInv
<1>2. ResolutionTyped'
  <2>1. log' \in Seq(LogSet) /\ Len(log') = Len(log) + 1
    BY <1>1, LogGrows
  <2>2. known' \in 0..Len(log')
    BY <1>1, <2>1, ResolutionTypes
  <2> QED BY <1>1, <2>1, <2>2 DEF ResolutionTyped
<1>3. InItsOrder'
  BY <1>1, OrderKept
<1>4. ASSUME NEW q \in Requests PROVE TaskIsRight(q)' /\ EndIsRight(q)'
  <2>1. TaskIsRight(q) /\ EndIsRight(q)
    BY DEF ResolutionInv
  <2>2. CASE q = p
    BY <2>2
  <2>3. CASE q # p
    BY <1>1, <2>1, <2>3, OthersRest
  <2> QED BY <2>2, <2>3
<1> QED BY <1>2, <1>3, <1>4 DEF ResolutionInv

\* No event, nothing registered, and each task stays or looks.
LEMMA NoEvent ==
  ASSUME ResolutionInv, log' = log, registered' = registered, clock' \in Nat, known' \in 0..Len(log),
         tasks' \in [Requests -> {"none", "look", "fetch", "register", "finish"}],
         doing' \in [Requests -> (Documents \cup {"none", "resolved", "unresolved"}) \X Nat],
         \A q \in Requests : tasks'[q] \in {"look", "none"} \/ (tasks'[q] = tasks[q] /\ doing'[q] = doing[q])
  PROVE  ResolutionInv'
<1>1. ResolutionTyped'
  BY DEF ResolutionInv, ResolutionTyped
<1>2. InItsOrder'
  BY DEF ResolutionInv, InItsOrder, OfDocument
<1>3. ASSUME NEW q \in Requests PROVE TaskIsRight(q)' /\ EndIsRight(q)'
  BY QuietStep DEF ResolutionInv
<1> QED BY <1>1, <1>2, <1>3 DEF ResolutionInv

LEMMA ClaimKeeps ==
  ASSUME ResolutionInv, NEW p \in Requests, Claim(p) PROVE ResolutionInv'
<1>0. PICK kind : kind = Chain(p)
  OBVIOUS
<1> DEFINE attempt == RowOf(p, kind).attempt + 1
           e == [p |-> p, kind |-> kind, attempt |-> attempt, state |-> "attempting", at |-> clock]
<1>1. /\ tasks[p] = "look" /\ ~Finished(p) /\ kind \in Documents
      /\ RowOf(p, kind).attempt > 0 => known = Len(log)
      /\ PublishesOnce(p, kind, attempt, "attempting")
      /\ doing' = [doing EXCEPT ![p] = <<kind, attempt>>]
      /\ tasks' = [tasks EXCEPT ![p] = IF log' = log THEN "look" ELSE "fetch"]
      /\ UNCHANGED <<clock, known, registered>>
  BY <1>0 DEF Claim
<1>2. /\ ResolutionTyped /\ InItsOrder /\ TaskIsRight(p) /\ EndIsRight(p)
  BY DEF ResolutionInv
<1>3. /\ clock \in Nat /\ log \in Seq(LogSet) /\ Len(log) \in Nat /\ DOMAIN log = 1..Len(log) /\ known \in 0..Len(log)
      /\ tasks \in [Requests -> {"none", "look", "fetch", "register", "finish"}]
      /\ doing \in [Requests -> (Documents \cup {"none", "resolved", "unresolved"}) \X Nat]
  BY <1>2, ResolutionTypes
<1>4. RowOf(p, kind).attempt \in Nat /\ (RowOf(p, kind).attempt = 0 => RowOf(p, kind) = Nothing)
  <2>1. CASE RowOf(p, kind) = Nothing
    BY <2>1 DEF Nothing
  <2>2. CASE RowOf(p, kind) # Nothing
    <3>1. PICK k \in 1..known : OfDocument(k, p, kind) /\ RowOf(p, kind) = log[k]
      BY <1>2, <2>2, DocumentRowIs
    <3>2. k \in DOMAIN log /\ log[k] \in LogSet
      BY <1>3, <3>1
    <3>3. log[k].attempt > 0
      BY <1>1, <1>2, <3>1, <3>2 DEF InItsOrder, OfDocument
    <3>4. log[k].attempt \in Nat
      BY <3>2, LogParts
    <3> QED BY <3>1, <3>3, <3>4
  <2> QED BY <2>1, <2>2
<1>5. attempt \in Nat /\ attempt > 0 /\ (RowOf(p, kind).attempt = 0 => attempt = 1)
  BY <1>4
<1>6. e \in LogSet
  BY <1>1, <1>3, <1>5 DEF LogSet
<1> HIDE DEF attempt
<1>7. /\ doing' \in [Requests -> (Documents \cup {"none", "resolved", "unresolved"}) \X Nat]
      /\ tasks' \in [Requests -> {"none", "look", "fetch", "register", "finish"}]
      /\ \A q \in Requests : q # p => tasks'[q] = tasks[q] /\ doing'[q] = doing[q]
      /\ tasks'[p] = (IF log' = log THEN "look" ELSE "fetch") /\ doing'[p] = <<kind, attempt>>
  <2>1. <<kind, attempt>> \in (Documents \cup {"none", "resolved", "unresolved"}) \X Nat
    BY <1>1, <1>5
  <2> QED BY <1>1, <1>3, <2>1
<1>8. CASE log' = log
  BY <1>1, <1>3, <1>7, <1>8, NoEvent
<1>9. CASE log' # log
  <2>1. /\ log' = Append(log, e)
        /\ ~\E i \in DOMAIN log : EventId(log[i].p, log[i].kind, log[i].attempt, log[i].state)
                                    = EventId(p, kind, attempt, "attempting")
    BY <1>1, <1>9 DEF PublishesOnce
  <2>2. /\ IsAsked(p, kind) \/ attempt = 1
        /\ ~IsAnswered(p, kind) /\ ~HasEnded(p)
    <3>1. CASE RowOf(p, kind).attempt = 0
      <4>1. attempt = 1
        BY <1>5, <3>1
      <4>2. ~IsAsked(p, kind)
        <5>1. SUFFICES ASSUME NEW i \in DOMAIN log, OfDocument(i, p, kind) PROVE FALSE
          BY DEF IsAsked
        <5>2. PICK j \in DOMAIN log : OfDocument(j, p, kind) /\ log[j].attempt = 1 /\ log[j].state = "attempting"
          BY <1>1, <1>2, <5>1 DEF InItsOrder, OfDocument
        <5> QED BY <2>1, <4>1, <5>2 DEF OfDocument
      <4>3. ~IsAnswered(p, kind)
        BY <4>2 DEF IsAsked, IsAnswered
      <4>4. kind = "actor" => IsConfirmed(p, "jrd")
        BY <1>0, <1>2, ChainIs
      <4>5. ~IsThrough(p)
        BY <1>1, <4>2, <4>4 DEF IsThrough, Documents
      <4> QED BY <1>2, <4>1, <4>3, <4>5 DEF EndIsRight
    <3>2. CASE RowOf(p, kind).attempt > 0
      <4>1. known = Len(log)
        BY <1>1, <3>2
      <4>2. IsAsked(p, kind) /\ ~IsAnswered(p, kind)
        BY <1>0, <1>1, <1>2, <3>2, <4>1, ChainIs
      <4>3. ~HasEnded(p)
        BY <1>1, <1>2, <4>1, EndIsKnown
      <4> QED BY <4>2, <4>3
    <3> QED BY <1>4, <3>1, <3>2
  <2>3. e.p = p /\ e.kind = kind /\ e.attempt = attempt /\ e.state = "attempting"
    OBVIOUS
  <2> HIDE DEF e
  <2>4. ~HasEnded(p)' /\ EndIsRight(p)'
    BY <1>1, <1>2, <1>6, <2>1, <2>2, <2>3, NotYetEnded
  <2>5. TaskIsRight(p)'
    <3>1. \A k : /\ IsAsked(p, k)' <=> IsAsked(p, k) \/ (e.p = p /\ e.kind = k)
                 /\ IsAnswered(p, k)' <=> IsAnswered(p, k) \/ (e.p = p /\ e.kind = k /\ e.state \in Conclusive)
      BY <1>2, <1>6, <2>1, LogGrows
    <3>2. IsAsked(p, kind)'
      BY <2>3, <3>1
    <3>3. ~IsAnswered(p, kind)'
      BY <2>2, <2>3, <3>1 DEF Conclusive
    <3>4. tasks'[p] = "fetch" /\ doing'[p][1] = kind /\ doing'[p][2] = attempt
      BY <1>7, <1>9
    <3>5. IsAsked(p, doing[p][1])' /\ ~IsAnswered(p, doing[p][1])'
      BY <3>2, <3>3, <3>4
    <3> QED BY <1>1, <1>5, <2>4, <3>4, <3>5 DEF TaskIsRight
  <2>6. e.kind \in Documents => /\ e.attempt > 0 /\ e.state \notin {"resolved", "unresolved"}
                                /\ IsAsked(e.p, e.kind) \/ (e.attempt = 1 /\ e.state = "attempting")
                                /\ ~IsAnswered(e.p, e.kind)
    BY <1>5, <2>2, <2>3
  <2> QED BY <1>1, <1>6, <1>7, <2>1, <2>3, <2>4, <2>5, <2>6, OneMoreEvent
<1> QED BY <1>8, <1>9

LEMMA FetchKeeps ==
  ASSUME ResolutionInv, NEW p \in Requests, Fetch(p) PROVE ResolutionInv'
<1>1. PICK answer \in Conclusive \cup {"failed"} : PublishesOnce(p, doing[p][1], doing[p][2], answer)
  BY DEF Fetch
<1>2. PICK kind, attempt : kind = doing[p][1] /\ attempt = doing[p][2]
  OBVIOUS
<1>3. /\ tasks[p] = "fetch" /\ tasks' = [tasks EXCEPT ![p] = "look"]
      /\ UNCHANGED <<clock, doing, known, registered>>
  BY DEF Fetch
<1>4. /\ ResolutionTyped /\ InItsOrder /\ TaskIsRight(p) /\ EndIsRight(p)
  BY DEF ResolutionInv
<1>5. /\ clock \in Nat /\ known \in 0..Len(log)
      /\ tasks \in [Requests -> {"none", "look", "fetch", "register", "finish"}]
      /\ doing \in [Requests -> (Documents \cup {"none", "resolved", "unresolved"}) \X Nat]
  BY <1>4, ResolutionTypes
<1>6. /\ tasks' \in [Requests -> {"none", "look", "fetch", "register", "finish"}]
      /\ tasks'[p] = "look" /\ \A q \in Requests : q # p => tasks'[q] = tasks[q]
  BY <1>3, <1>5
<1>7. /\ kind \in Documents /\ attempt > 0 /\ attempt \in Nat /\ ~HasEnded(p)
      /\ IsAsked(p, kind) /\ ~IsAnswered(p, kind)
  BY <1>2, <1>3, <1>4, <1>5 DEF TaskIsRight
<1> DEFINE e == [p |-> p, kind |-> kind, attempt |-> attempt, state |-> answer, at |-> clock]
<1>8. e \in LogSet
  BY <1>5, <1>7 DEF LogSet
<1>9. log' = log \/ log' = Append(log, e)
  BY <1>1, <1>2 DEF PublishesOnce
<1>10. e.p = p /\ e.kind = kind /\ e.attempt = attempt /\ e.state \notin {"resolved", "unresolved"}
  BY DEF Conclusive
<1> HIDE DEF e
<1>11. CASE log' = log
  BY <1>3, <1>5, <1>6, <1>11, NoEvent
<1>12. CASE log' = Append(log, e)
  <2>1. EndIsRight(p)'
    BY <1>3, <1>4, <1>7, <1>8, <1>10, <1>12, NotYetEnded
  <2>2. TaskIsRight(p)'
    BY <1>6 DEF TaskIsRight
  <2> QED BY <1>3, <1>5, <1>6, <1>7, <1>8, <1>10, <1>12, <2>1, <2>2, OneMoreEvent
<1> QED BY <1>9, <1>11, <1>12

LEMMA FinishKeeps ==
  ASSUME ResolutionInv, NEW p \in Requests, Finish(p) PROVE ResolutionInv'
<1>1. PICK outcome : outcome = doing[p][1]
  OBVIOUS
<1>2. /\ tasks[p] = "finish" /\ tasks' = [tasks EXCEPT ![p] = "look"]
      /\ PublishesOnce(p, "process", 0, outcome)
      /\ UNCHANGED <<clock, doing, known, registered>>
  BY <1>1 DEF Finish
<1>3. /\ ResolutionTyped /\ InItsOrder /\ TaskIsRight(p) /\ EndIsRight(p)
  BY DEF ResolutionInv
<1>4. /\ clock \in Nat /\ known \in 0..Len(log)
      /\ tasks \in [Requests -> {"none", "look", "fetch", "register", "finish"}]
      /\ doing \in [Requests -> (Documents \cup {"none", "resolved", "unresolved"}) \X Nat]
  BY <1>3, ResolutionTypes
<1>5. /\ tasks' \in [Requests -> {"none", "look", "fetch", "register", "finish"}]
      /\ tasks'[p] = "look" /\ \A q \in Requests : q # p => tasks'[q] = tasks[q]
  BY <1>2, <1>4
<1>6. IsThrough(p) /\ ((outcome = "resolved" /\ p \in registered) \/ (outcome = "unresolved" /\ ~BothConfirmed(p)))
  BY <1>1, <1>2, <1>3 DEF TaskIsRight
<1> DEFINE e == [p |-> p, kind |-> "process", attempt |-> 0, state |-> outcome, at |-> clock]
<1>7. e \in LogSet
  BY <1>4, <1>6 DEF LogSet
<1>8. log' = log \/ log' = Append(log, e)
  BY <1>2 DEF PublishesOnce
<1>9. e.p = p /\ e.kind = "process" /\ e.state = outcome /\ e.kind \notin Documents
  BY DEF Documents
<1> HIDE DEF e
<1>10. CASE log' = log
  BY <1>2, <1>4, <1>5, <1>10, NoEvent
<1>11. CASE log' = Append(log, e)
  <2>1. \A kind \in Documents : /\ IsAsked(p, kind)' <=> IsAsked(p, kind)
                                /\ IsConfirmed(p, kind)' <=> IsConfirmed(p, kind)
    BY <1>3, <1>7, <1>9, <1>11, LogGrows
  <2>2. (BothConfirmed(p)' <=> BothConfirmed(p)) /\ IsThrough(p)'
    BY <1>6, <2>1 DEF BothConfirmed, IsThrough, Documents
  <2>3. \A state : state \in Ended(p)' <=> state \in Ended(p) \/ state = outcome
    BY <1>3, <1>7, <1>9, <1>11, LogGrows
  <2>4. EndIsRight(p)'
    BY <1>2, <1>3, <1>6, <2>2, <2>3 DEF EndIsRight
  <2>5. TaskIsRight(p)'
    BY <1>5 DEF TaskIsRight
  <2> QED BY <1>2, <1>4, <1>5, <1>7, <1>9, <1>11, <2>4, <2>5, OneMoreEvent
<1> QED BY <1>8, <1>10, <1>11

\* The task of p has an outcome, or has registered the actor.
LEMMA ToItsEnd ==
  ASSUME ResolutionInv, NEW p \in Requests, NEW t \in {"register", "finish"}, NEW d, log' = log, clock' = clock, known' = known,
         tasks' = [tasks EXCEPT ![p] = t], doing' = [doing EXCEPT ![p] = d],
         d \in (Documents \cup {"none", "resolved", "unresolved"}) \X Nat,
         registered' \subseteq Requests, \A q \in Requests : q # p => (q \in registered' <=> q \in registered),
         p \in registered => p \in registered', p \in registered' => BothConfirmed(p),
         IsThrough(p),
         t = "register" => d[1] = "resolved" /\ BothConfirmed(p),
         t = "finish" => (d[1] = "resolved" /\ p \in registered') \/ (d[1] = "unresolved" /\ ~BothConfirmed(p))
  PROVE  ResolutionInv'
<1>1. /\ ResolutionTyped /\ InItsOrder /\ TaskIsRight(p) /\ EndIsRight(p)
  BY DEF ResolutionInv
<1>2. /\ clock \in Nat /\ known \in 0..Len(log) /\ log \in Seq(LogSet)
      /\ tasks \in [Requests -> {"none", "look", "fetch", "register", "finish"}]
      /\ doing \in [Requests -> (Documents \cup {"none", "resolved", "unresolved"}) \X Nat]
  BY <1>1, ResolutionTypes
<1>3. /\ tasks' \in [Requests -> {"none", "look", "fetch", "register", "finish"}]
      /\ doing' \in [Requests -> (Documents \cup {"none", "resolved", "unresolved"}) \X Nat]
      /\ tasks'[p] = t /\ doing'[p] = d
      /\ \A q \in Requests : q # p => tasks'[q] = tasks[q] /\ doing'[q] = doing[q]
  BY <1>2
<1>4. ResolutionTyped'
  BY <1>2, <1>3 DEF ResolutionTyped
<1>5. InItsOrder'
  BY <1>1 DEF InItsOrder, OfDocument
<1>6. ASSUME NEW q \in Requests PROVE TaskIsRight(q)' /\ EndIsRight(q)'
  <2>1. CASE q # p
    BY <1>3, <2>1, QuietStep DEF ResolutionInv
  <2>2. CASE q = p
    <3>1. /\ BothConfirmed(p)' <=> BothConfirmed(p)
          /\ IsThrough(p)'
          /\ HasEnded(p)' => HasEnded(p)
          /\ \A state : state \in Ended(p)' <=> state \in Ended(p)
      BY DEF BothConfirmed, IsThrough, HasEnded, IsAsked, IsConfirmed, OfDocument, Ended
    <3>2. TaskIsRight(p)'
      BY <1>3, <3>1 DEF TaskIsRight
    <3>3. EndIsRight(p)'
      BY <1>1, <3>1 DEF EndIsRight
    <3> QED BY <2>2, <3>2, <3>3
  <2> QED BY <2>1, <2>2
<1> QED BY <1>4, <1>5, <1>6 DEF ResolutionInv

LEMMA GiveUpKeeps ==
  ASSUME ResolutionInv, NEW p \in Requests, GiveUp(p) PROVE ResolutionInv'
<1>1. /\ tasks' = [tasks EXCEPT ![p] = "finish"] /\ doing' = [doing EXCEPT ![p] = <<"unresolved", 0>>]
      /\ UNCHANGED <<clock, log, known, registered>>
  BY DEF GiveUp
<1>2. IsThrough(p) /\ ~BothConfirmed(p)
  BY ChainIs DEF GiveUp, ResolutionInv
<1>3. registered \subseteq Requests /\ (p \in registered => BothConfirmed(p))
  BY ResolutionTypes DEF ResolutionInv, EndIsRight
<1>4. <<"unresolved", 0>> \in (Documents \cup {"none", "resolved", "unresolved"}) \X Nat /\ <<"unresolved", 0>>[1] = "unresolved"
  OBVIOUS
<1> QED BY <1>1, <1>2, <1>3, <1>4, ToItsEnd

LEMMA OutcomeKeeps ==
  ASSUME ResolutionInv, NEW p \in Requests, Outcome(p) PROVE ResolutionInv'
<1>1. PICK outcome : outcome = Chain(p)
  OBVIOUS
<1>2. PICK t : t = Conclude(p, outcome)
  OBVIOUS
<1>3. /\ tasks' = [tasks EXCEPT ![p] = t] /\ doing' = [doing EXCEPT ![p] = <<outcome, 0>>]
      /\ UNCHANGED <<clock, log, known, registered>>
      /\ outcome \notin Documents
  BY <1>1, <1>2 DEF Outcome
<1>4. /\ outcome \in {"resolved", "unresolved"} /\ IsThrough(p)
      /\ outcome = "resolved" => BothConfirmed(p)
      /\ outcome = "unresolved" => ~BothConfirmed(p)
  BY <1>1, <1>3, ChainIs DEF ResolutionInv, Documents
<1>5. /\ t \in {"register", "finish"} /\ (t = "register" <=> outcome = "resolved")
  BY <1>2 DEF Conclude
<1>6. registered \subseteq Requests /\ (p \in registered => BothConfirmed(p))
  BY ResolutionTypes DEF ResolutionInv, EndIsRight
<1>7. PICK d : d = <<outcome, 0>>
  OBVIOUS
<1>8. d \in (Documents \cup {"none", "resolved", "unresolved"}) \X Nat /\ d[1] = outcome
  BY <1>4, <1>7
<1>9. t = "finish" => outcome = "unresolved"
  BY <1>4, <1>5
<1> QED BY <1>3, <1>4, <1>5, <1>6, <1>7, <1>8, <1>9, ToItsEnd

LEMMA RegisterKeeps ==
  ASSUME ResolutionInv, NEW p \in Requests, Register(p) PROVE ResolutionInv'
<1>1. /\ tasks[p] = "register" /\ tasks' = [tasks EXCEPT ![p] = "finish"]
      /\ registered' = registered \cup {p} /\ UNCHANGED <<clock, log, known, doing>>
  BY DEF Register
<1>2. IsThrough(p) /\ doing[p][1] = "resolved" /\ BothConfirmed(p)
  BY <1>1 DEF ResolutionInv, TaskIsRight
<1>3. /\ registered \subseteq Requests
      /\ doing \in [Requests -> (Documents \cup {"none", "resolved", "unresolved"}) \X Nat]
  BY ResolutionTypes DEF ResolutionInv
<1>4. PICK d : d = doing[p]
  OBVIOUS
<1>5. doing' = [doing EXCEPT ![p] = d] /\ d \in (Documents \cup {"none", "resolved", "unresolved"}) \X Nat
  BY <1>1, <1>3, <1>4
<1>6. registered' \subseteq Requests /\ p \in registered' /\ \A q \in Requests : q # p => (q \in registered' <=> q \in registered)
  BY <1>1, <1>3
<1> QED BY <1>1, <1>2, <1>4, <1>5, <1>6, ToItsEnd

LEMMA ResolutionStep ==
  ASSUME ResolutionInv, ResolutionNext \/ UNCHANGED rsvars PROVE ResolutionInv'
<1>1. /\ clock \in Nat /\ known \in 0..Len(log) /\ Len(log) \in Nat
      /\ tasks \in [Requests -> {"none", "look", "fetch", "register", "finish"}]
      /\ doing \in [Requests -> (Documents \cup {"none", "resolved", "unresolved"}) \X Nat]
  BY ResolutionTypes DEF ResolutionInv
<1>2. CASE ProjectResolution
  <2>1. known' \in 0..Len(log) /\ UNCHANGED <<clock, log, tasks, doing, registered>>
    BY <1>1, <1>2 DEF ProjectResolution
  <2> QED BY <1>1, <2>1, NoEvent
<1>3. CASE Ask
  BY <1>1, <1>3, NoEvent DEF Ask
<1>4. CASE Requested
  <2>1. UNCHANGED <<clock, doing, log, known, registered>> /\ (tasks' = tasks \/ SubmitProcess(heard'))
    BY <1>4 DEF Requested
  <2>2. CASE tasks' = tasks
    BY <1>1, <2>1, <2>2, NoEvent
  <2>3. CASE SubmitProcess(heard')
    <3>1. PICK h : tasks' = [tasks EXCEPT ![h] = IF @ = "none" THEN "look" ELSE @]
      BY <2>3 DEF SubmitProcess
    <3>2. /\ tasks' \in [Requests -> {"none", "look", "fetch", "register", "finish"}]
          /\ \A q \in Requests : tasks'[q] = "look" \/ tasks'[q] = tasks[q]
      BY <1>1, <3>1
    <3> QED BY <1>1, <2>1, <3>2, NoEvent
  <2> QED BY <2>1, <2>2, <2>3
<1>5. CASE RestartAccounts
  <2>1. /\ UNCHANGED <<clock, doing, log, registered>> /\ known' = Len(log)
        /\ tasks' = [q \in Requests |-> IF q = Resume' THEN "look" ELSE "none"]
    BY <1>5 DEF RestartAccounts
  <2>2. PICK r : tasks' = [q \in Requests |-> IF q = r THEN "look" ELSE "none"]
    BY <2>1
  <2>3. /\ tasks' \in [Requests -> {"none", "look", "fetch", "register", "finish"}]
        /\ \A q \in Requests : tasks'[q] \in {"look", "none"}
    BY <2>2
  <2> QED BY <1>1, <2>1, <2>3, NoEvent
<1>6. CASE Passes
  <2>1. clock' \in Nat /\ UNCHANGED <<log, known, tasks, doing, registered>>
    BY <1>1, <1>6 DEF Passes
  <2> QED BY <1>1, <2>1, NoEvent
<1>7. ASSUME NEW p \in Requests, Act(p) PROVE ResolutionInv'
  <2>1. CASE Visit(p)
    <3>1. UNCHANGED <<clock, doing, log, known, registered>> /\ tasks' \in {tasks, [tasks EXCEPT ![p] = "none"]}
      BY <2>1 DEF Visit
    <3>2. /\ tasks' \in [Requests -> {"none", "look", "fetch", "register", "finish"}]
          /\ \A q \in Requests : tasks'[q] = "none" \/ tasks'[q] = tasks[q]
      BY <1>1, <3>1
    <3> QED BY <1>1, <3>1, <3>2, NoEvent
  <2> QED BY <1>7, <2>1, ClaimKeeps, GiveUpKeeps, FetchKeeps, OutcomeKeeps, RegisterKeeps, FinishKeeps DEF Act
<1>8. CASE UNCHANGED rsvars
  BY <1>1, <1>8, NoEvent DEF rsvars
<1> QED BY <1>2, <1>3, <1>4, <1>5, <1>6, <1>7, <1>8 DEF ResolutionNext

-----------------------------------------------------------------------------
(* The resolution of a name (account_resolver). *)

DocumentsTyped ==
  /\ entry \in Accts \cup Urls
  /\ \A name \in DOMAIN jrds : jrds[name] \in Jrds
  /\ \A name \in DOMAIN actors : actors[name] \in Actors

LEMMA DocumentsKept ==
  ASSUME DocumentsTyped, DocumentsNext \/ UNCHANGED dvars PROVE DocumentsTyped'
<1>1. CASE FetchJrd
  <2>1. PICK answer \in Jrds : \E name : jrds' = Including(jrds, name, answer)
    BY <1>1 DEF FetchJrd
  <2>2. \A n \in DOMAIN jrds' : jrds'[n] \in Jrds
    BY <2>1 DEF DocumentsTyped, Including
  <2> QED BY <1>1, <2>2 DEF FetchJrd, DocumentsTyped
<1>2. CASE FetchActor
  <2>1. PICK answer \in Actors : \E name : actors' = Including(actors, name, answer)
    BY <1>2 DEF FetchActor
  <2>2. \A n \in DOMAIN actors' : actors'[n] \in Actors
    BY <2>1 DEF DocumentsTyped, Including
  <2> QED BY <1>2, <2>2 DEF FetchActor, DocumentsTyped
<1>3. CASE UNCHANGED dvars
  BY <1>3 DEF dvars, DocumentsTyped
<1> QED BY <1>1, <1>2, <1>3 DEF DocumentsNext

\* The definitions by hops are of functions that exist.
LEMMA ChainsExist ==
  \A hops \in 0..MaxHops : \A acct \in Accts :
    canonical_from_subject[hops][acct] = FromSubject(acct, hops, canonical_from_subject[hops - 1])
<1> DEFINE Upto(f, n) == f = [hops \in 0..n |-> [acct \in Accts |-> FromSubject(acct, hops, f[hops - 1])]]
           S == {n \in Nat : \E f : Upto(f, n)}
<1>1. \A acct, x, y : FromSubject(acct, 0, x) = FromSubject(acct, 0, y)
  BY DEF FromSubject
<1>2. 0 \in S
  <2> DEFINE g == [hops \in 0..0 |-> [acct \in Accts |-> FromSubject(acct, 0, {})]]
  <2>1. \A acct \in Accts : FromSubject(acct, 0, {}) = FromSubject(acct, 0, g[0 - 1])
    BY <1>1
  <2>2. ASSUME NEW hops \in 0..0 PROVE g[hops] = [acct \in Accts |-> FromSubject(acct, hops, g[hops - 1])]
    <3>1. hops = 0 /\ 0 \in 0..0
      OBVIOUS
    <3>2. g[0] = [acct \in Accts |-> FromSubject(acct, 0, {})]
      BY <3>1
    <3> HIDE DEF g
    <3> QED BY <2>1, <3>1, <3>2
  <2>3. Upto(g, 0)
    BY <2>2
  <2> HIDE DEF g
  <2> QED BY <2>3
<1>3. ASSUME NEW n \in Nat, n \in S PROVE n + 1 \in S
  <2>1. PICK f : Upto(f, n)
    BY <1>3
  <2> DEFINE g == [hops \in 0..n + 1 |-> IF hops <= n THEN f[hops]
                                         ELSE [acct \in Accts |-> FromSubject(acct, n + 1, f[n])]]
  <2>2. ASSUME NEW hops \in 0..n + 1
        PROVE  g[hops] = [acct \in Accts |-> FromSubject(acct, hops, g[hops - 1])]
    <3>1. CASE hops = n + 1
      <4>1. hops - 1 = n /\ n \in 0..n + 1 /\ ~(n + 1 <= n) /\ n <= n
        BY <3>1
      <4>2. g[n] = f[n] /\ g[n + 1] = [acct \in Accts |-> FromSubject(acct, n + 1, f[n])]
        BY <3>1, <4>1
      <4> QED BY <3>1, <4>1, <4>2
    <3>2. CASE hops \in 1..n
      <4>1. /\ hops <= n /\ hops - 1 <= n /\ hops - 1 \in 0..n + 1 /\ hops \in 0..n
        BY <3>2
      <4>2. g[hops] = f[hops] /\ g[hops - 1] = f[hops - 1]
        BY <4>1
      <4>3. f[hops] = [acct \in Accts |-> FromSubject(acct, hops, f[hops - 1])]
        BY <2>1, <4>1
      <4> QED BY <4>2, <4>3
    <3>3. CASE hops = 0
      <4>1. hops <= n /\ hops \in 0..n
        BY <3>3
      <4>2. g[hops] = f[hops]
        BY <4>1
      <4>3. f[hops] = [acct \in Accts |-> FromSubject(acct, 0, f[hops - 1])]
        BY <2>1, <3>3, <4>1
      <4>4. \A acct \in Accts : FromSubject(acct, 0, f[hops - 1]) = FromSubject(acct, 0, g[hops - 1])
        BY <1>1
      <4> HIDE DEF g
      <4> QED BY <3>3, <4>2, <4>3, <4>4
    <3>4. hops = n + 1 \/ hops \in 1..n \/ hops = 0
      OBVIOUS
    <3> HIDE DEF g
    <3> QED BY <3>1, <3>2, <3>3, <3>4
  <2>3. Upto(g, n + 1)
    BY <2>2
  <2> HIDE DEF g
  <2> QED BY <2>3
<1> HIDE DEF S
<1>4. MaxHops \in S
  BY <1>2, <1>3, SetInduction, ResolveAssumption
<1>5. \E f : Upto(f, MaxHops)
  BY <1>4 DEF S
<1>6. canonical_from_subject = CHOOSE f : Upto(f, MaxHops)
  BY DEF canonical_from_subject
<1> HIDE DEF Upto
<1>7. Upto(canonical_from_subject, MaxHops)
  BY <1>5, <1>6
<1>8. PICK f : f = canonical_from_subject
  OBVIOUS
<1>9. \A hops \in 0..MaxHops : f[hops] = [acct \in Accts |-> FromSubject(acct, hops, f[hops - 1])]
  BY <1>7, <1>8 DEF Upto
<1>10. \A hops \in 0..MaxHops : \A acct \in Accts : f[hops][acct] = FromSubject(acct, hops, f[hops - 1])
  BY <1>9
<1> QED BY <1>8, <1>10

LEMMA SettledExists ==
  \A hops \in 0..MaxHops : \A url \in Urls :
    settled_actor[hops][url] = FromIdentity(url, hops, settled_actor[hops - 1])
<1> DEFINE Upto(f, n) == f = [hops \in 0..n |-> [url \in Urls |-> FromIdentity(url, hops, f[hops - 1])]]
           S == {n \in Nat : \E f : Upto(f, n)}
<1>1. \A url, x, y : FromIdentity(url, 0, x) = FromIdentity(url, 0, y)
  BY DEF FromIdentity
<1>2. 0 \in S
  <2> DEFINE g == [hops \in 0..0 |-> [url \in Urls |-> FromIdentity(url, 0, {})]]
  <2>1. \A url \in Urls : FromIdentity(url, 0, {}) = FromIdentity(url, 0, g[0 - 1])
    BY <1>1
  <2>2. ASSUME NEW hops \in 0..0 PROVE g[hops] = [url \in Urls |-> FromIdentity(url, hops, g[hops - 1])]
    <3>1. hops = 0 /\ 0 \in 0..0
      OBVIOUS
    <3>2. g[0] = [url \in Urls |-> FromIdentity(url, 0, {})]
      BY <3>1
    <3> HIDE DEF g
    <3> QED BY <2>1, <3>1, <3>2
  <2>3. Upto(g, 0)
    BY <2>2
  <2> HIDE DEF g
  <2> QED BY <2>3
<1>3. ASSUME NEW n \in Nat, n \in S PROVE n + 1 \in S
  <2>1. PICK f : Upto(f, n)
    BY <1>3
  <2> DEFINE g == [hops \in 0..n + 1 |-> IF hops <= n THEN f[hops]
                                         ELSE [url \in Urls |-> FromIdentity(url, n + 1, f[n])]]
  <2>2. ASSUME NEW hops \in 0..n + 1
        PROVE  g[hops] = [url \in Urls |-> FromIdentity(url, hops, g[hops - 1])]
    <3>1. CASE hops = n + 1
      <4>1. hops - 1 = n /\ n \in 0..n + 1 /\ ~(n + 1 <= n) /\ n <= n
        BY <3>1
      <4>2. g[n] = f[n] /\ g[n + 1] = [url \in Urls |-> FromIdentity(url, n + 1, f[n])]
        BY <3>1, <4>1
      <4> QED BY <3>1, <4>1, <4>2
    <3>2. CASE hops \in 1..n
      <4>1. /\ hops <= n /\ hops - 1 <= n /\ hops - 1 \in 0..n + 1 /\ hops \in 0..n
        BY <3>2
      <4>2. g[hops] = f[hops] /\ g[hops - 1] = f[hops - 1]
        BY <4>1
      <4>3. f[hops] = [url \in Urls |-> FromIdentity(url, hops, f[hops - 1])]
        BY <2>1, <4>1
      <4> QED BY <4>2, <4>3
    <3>3. CASE hops = 0
      <4>1. hops <= n /\ hops \in 0..n
        BY <3>3
      <4>2. g[hops] = f[hops]
        BY <4>1
      <4>3. f[hops] = [url \in Urls |-> FromIdentity(url, 0, f[hops - 1])]
        BY <2>1, <3>3, <4>1
      <4>4. \A url \in Urls : FromIdentity(url, 0, f[hops - 1]) = FromIdentity(url, 0, g[hops - 1])
        BY <1>1
      <4> HIDE DEF g
      <4> QED BY <3>3, <4>2, <4>3, <4>4
    <3>4. hops = n + 1 \/ hops \in 1..n \/ hops = 0
      OBVIOUS
    <3> HIDE DEF g
    <3> QED BY <3>1, <3>2, <3>3, <3>4
  <2>3. Upto(g, n + 1)
    BY <2>2
  <2> HIDE DEF g
  <2> QED BY <2>3
<1> HIDE DEF S
<1>4. MaxHops \in S
  BY <1>2, <1>3, SetInduction, ResolveAssumption
<1>5. \E f : Upto(f, MaxHops)
  BY <1>4 DEF S
<1>6. settled_actor = CHOOSE f : Upto(f, MaxHops)
  BY DEF settled_actor
<1> HIDE DEF Upto
<1>7. Upto(settled_actor, MaxHops)
  BY <1>5, <1>6
<1>8. PICK f : f = settled_actor
  OBVIOUS
<1>9. \A hops \in 0..MaxHops : f[hops] = [url \in Urls |-> FromIdentity(url, hops, f[hops - 1])]
  BY <1>7, <1>8 DEF Upto
<1>10. \A hops \in 0..MaxHops : \A url \in Urls : f[hops][url] = FromIdentity(url, hops, f[hops - 1])
  BY <1>9
<1> QED BY <1>8, <1>10

LEMMA Canonical ==
  ASSUME NEW links \in SUBSET Urls, NEW jrd, jrd.links = links, canonical_url(jrd) # Nobody
  PROVE  canonical_url(jrd) \in Urls
BY ResolveAssumption DEF canonical_url

\* The chain of an account ends at an account of which a document of its own domain
\* speaks.
LEMMA ChainsEnd ==
  ASSUME DocumentsTyped
  PROVE  \A n \in 0..MaxHops : \A acct \in Accts :
           LET chain == canonical_from_subject[n][acct]
           IN \/ chain.is = "need"
              \/ /\ chain.is = "chain" /\ chain.acct \in Accts
                 /\ \E name \in DOMAIN jrds : chain.jrd = jrds[name] /\ Domain[name] = Domain[chain.acct]
<1> DEFINE Ends(chain) == \/ chain.is = "need"
                          \/ /\ chain.is = "chain" /\ chain.acct \in Accts
                             /\ \E name \in DOMAIN jrds : chain.jrd = jrds[name] /\ Domain[name] = Domain[chain.acct]
           S == {n \in Nat : n \in 0..MaxHops => \A acct \in Accts : Ends(canonical_from_subject[n][acct])}
<1>1. ASSUME NEW n \in 0..MaxHops, NEW acct \in Accts, NEW further,
             n # 0 => \A subject \in Accts : Ends(further[subject])
      PROVE  Ends(FromSubject(acct, n, further))
  <2> DEFINE subject == jrds[acct].subject
             here == [is |-> "chain", acct |-> acct, jrd |-> jrds[acct]]
  <2>1. CASE acct \notin DOMAIN jrds
    BY <2>1 DEF FromSubject, Need
  <2>2. CASE acct \in DOMAIN jrds
    <3>1. subject \in Accts \cup {Nobody}
      BY <2>2 DEF DocumentsTyped, Jrds
    <3>2. CASE subject \in {Nobody, acct} \/ n = 0
      BY <2>2, <3>2 DEF FromSubject
    <3>3. CASE subject \notin {Nobody, acct} /\ n # 0 /\ Domain[subject] = Domain[acct]
      BY <2>2, <3>1, <3>3 DEF FromSubject, OwnWord
    <3>4. CASE subject \notin {Nobody, acct} /\ n # 0 /\ Domain[subject] # Domain[acct]
      <4>1. CASE subject \notin DOMAIN jrds
        BY <2>2, <3>4, <4>1 DEF FromSubject, OwnWord, Need
      <4>2. CASE subject \in DOMAIN jrds
        <5>1. FromSubject(acct, n, further) \in {here, further[subject]}
          BY <2>2, <3>4, <4>2 DEF FromSubject, OwnWord
        <5>2. Ends(here)
          BY <2>2
        <5>3. Ends(further[subject])
          BY <1>1, <3>1, <3>4
        <5> HIDE DEF Ends, here, subject
        <5> QED BY <5>1, <5>2, <5>3
      <4> QED BY <4>1, <4>2
    <3> QED BY <3>2, <3>3, <3>4
  <2> QED BY <2>1, <2>2
<1>2. 0 \in S
  <2>1. SUFFICES ASSUME NEW acct \in Accts PROVE Ends(canonical_from_subject[0][acct])
    BY ResolveAssumption
  <2>2. 0 \in 0..MaxHops
    BY ResolveAssumption
  <2>3. canonical_from_subject[0][acct] = FromSubject(acct, 0, canonical_from_subject[0 - 1])
    BY <2>2, ChainsExist
  <2> HIDE DEF Ends
  <2> QED BY <1>1, <2>2, <2>3
<1>3. ASSUME NEW n \in Nat, n \in S PROVE n + 1 \in S
  <2>1. SUFFICES ASSUME n + 1 \in 0..MaxHops, NEW acct \in Accts PROVE Ends(canonical_from_subject[n + 1][acct])
    OBVIOUS
  <2>2. n \in 0..MaxHops /\ (n + 1) - 1 = n
    BY <2>1, ResolveAssumption
  <2>3. canonical_from_subject[n + 1][acct] = FromSubject(acct, n + 1, canonical_from_subject[n])
    BY <2>1, <2>2, ChainsExist
  <2>4. \A subject \in Accts : Ends(canonical_from_subject[n][subject])
    BY <1>3, <2>2
  <2> HIDE DEF Ends
  <2> QED BY <1>1, <2>1, <2>3, <2>4
<1> HIDE DEF S
<1>4. Nat \subseteq S
  BY <1>2, <1>3, SetInduction
<1>5. \A n \in 0..MaxHops : n \in S
  BY <1>4, ResolveAssumption
<1> QED BY <1>5 DEF S

\* The actor that is settled on names the URL its document is known under.
LEMMA ActorsSettle ==
  ASSUME DocumentsTyped
  PROVE  \A n \in 0..MaxHops : \A url \in Urls :
           /\ settled_actor[n][url].is \in {"actor", "none", "need"}
           /\ settled_actor[n][url].is = "actor" =>
                /\ settled_actor[n][url].url \in DOMAIN actors
                /\ actors[settled_actor[n][url].url].id = settled_actor[n][url].url
<1> DEFINE Names(r) ==
             /\ r.is \in {"actor", "none", "need"}
             /\ r.is = "actor" => r.url \in DOMAIN actors /\ actors[r.url].id = r.url
           S == {n \in Nat : n \in 0..MaxHops => \A url \in Urls : Names(settled_actor[n][url])}
<1>1. ASSUME NEW n \in 0..MaxHops, NEW url \in Urls, NEW further,
             n # 0 => \A id \in Urls : Names(further[id])
      PROVE  Names(FromIdentity(url, n, further))
  <2> DEFINE id == actors[url].id
  <2>1. CASE n = 0
    BY <2>1 DEF FromIdentity, None
  <2>2. CASE n # 0 /\ url \notin DOMAIN actors
    BY <2>2 DEF FromIdentity, Need
  <2>3. CASE n # 0 /\ url \in DOMAIN actors
    <3>1. id \in Urls \cup {Nobody}
      BY <2>3 DEF DocumentsTyped, Actors
    <3>2. CASE id = Nobody
      BY <2>3, <3>2 DEF FromIdentity, None
    <3>3. CASE id # Nobody /\ id = url
      BY <2>3, <3>3 DEF FromIdentity
    <3>4. CASE id # Nobody /\ id # url
      <4>1. FromIdentity(url, n, further) = further[id]
        BY <2>3, <3>4 DEF FromIdentity
      <4>2. Names(further[id])
        BY <1>1, <2>3, <3>1, <3>4
      <4> HIDE DEF Names, id
      <4> QED BY <4>1, <4>2
    <3> QED BY <3>2, <3>3, <3>4
  <2> QED BY <2>1, <2>2, <2>3
<1>2. 0 \in S
  <2>1. SUFFICES ASSUME NEW url \in Urls PROVE Names(settled_actor[0][url])
    BY ResolveAssumption
  <2>2. 0 \in 0..MaxHops
    BY ResolveAssumption
  <2>3. settled_actor[0][url] = FromIdentity(url, 0, settled_actor[0 - 1])
    BY <2>2, SettledExists
  <2> HIDE DEF Names
  <2> QED BY <1>1, <2>2, <2>3
<1>3. ASSUME NEW n \in Nat, n \in S PROVE n + 1 \in S
  <2>1. SUFFICES ASSUME n + 1 \in 0..MaxHops, NEW url \in Urls PROVE Names(settled_actor[n + 1][url])
    OBVIOUS
  <2>2. n \in 0..MaxHops /\ (n + 1) - 1 = n
    BY <2>1, ResolveAssumption
  <2>3. settled_actor[n + 1][url] = FromIdentity(url, n + 1, settled_actor[n])
    BY <2>1, <2>2, SettledExists
  <2>4. \A id \in Urls : Names(settled_actor[n][id])
    BY <1>3, <2>2
  <2> HIDE DEF Names
  <2> QED BY <1>1, <2>1, <2>3, <2>4
<1> HIDE DEF S
<1>4. Nat \subseteq S
  BY <1>2, <1>3, SetInduction
<1>5. \A n \in 0..MaxHops : n \in S
  BY <1>4, ResolveAssumption
<1> QED BY <1>5 DEF S

\* A result: whoever is found is confirmed from both sides.
Mutual(r) ==
  r.is = "found" =>
    /\ r.url \in DOMAIN actors /\ actors[r.url].id = r.url
    /\ \E name \in DOMAIN jrds : Domain[name] = Domain[r.acct] /\ confirms(jrds[name], r.url)

LEMMA ConfirmedIsMutual ==
  ASSUME NEW acct, NEW url, NEW name \in DOMAIN jrds, Domain[name] = Domain[acct],
         url \in DOMAIN actors, actors[url].id = url
  PROVE  Mutual(confirmed(acct, url, jrds[name]))
<1> DEFINE candidate == actors[url].handle
           here == IF confirms(jrds[name], url) THEN [is |-> "found", acct |-> acct, url |-> url] ELSE None
<1>1. Mutual(here)
  BY DEF Mutual, None
<1>2. Mutual(Need("jrd", candidate))
  BY DEF Mutual, Need
<1>3. (candidate \in DOMAIN jrds /\ confirms(jrds[candidate], url)) =>
        Mutual([is |-> "found", acct |-> candidate, url |-> url])
  BY DEF Mutual
<1>4. confirmed(acct, url, jrds[name]) =
        IF candidate \in {Nobody, acct} THEN here
        ELSE IF candidate \notin DOMAIN jrds THEN Need("jrd", candidate)
        ELSE IF confirms(jrds[candidate], url) THEN [is |-> "found", acct |-> candidate, url |-> url]
        ELSE here
  BY DEF confirmed
<1> HIDE DEF candidate, here
<1> QED BY <1>1, <1>2, <1>3, <1>4

LEMMA FromAcctIsMutual ==
  ASSUME DocumentsTyped, NEW acct \in Accts
  PROVE  Mutual(from_acct(acct))
<1>0. MaxHops \in 0..MaxHops
  BY ResolveAssumption
<1>1. PICK chain : chain = canonical_from_subject[MaxHops][acct]
  OBVIOUS
<1>2. PICK link : link = canonical_url(chain.jrd)
  OBVIOUS
<1>3. PICK actor : actor = settled_actor[MaxHops][link]
  OBVIOUS
<1>4. from_acct(acct) = IF chain.is = "need" THEN chain
                        ELSE IF link = Nobody THEN None
                        ELSE IF actor.is # "actor" THEN actor
                        ELSE confirmed(chain.acct, actor.url, chain.jrd)
  BY <1>1, <1>2, <1>3 DEF from_acct
<1>5. CASE chain.is = "need"
  BY <1>4, <1>5 DEF Mutual
<1>6. CASE chain.is # "need" /\ link = Nobody
  BY <1>4, <1>6 DEF Mutual, None
<1>7. CASE chain.is # "need" /\ link # Nobody
  <2>1. PICK name \in DOMAIN jrds : chain.jrd = jrds[name] /\ Domain[name] = Domain[chain.acct]
    BY <1>0, <1>1, <1>7, ChainsEnd
  <2>2. link \in Urls
    <3>1. jrds[name].links \in SUBSET Urls
      BY DEF DocumentsTyped, Jrds
    <3> QED BY <1>2, <1>7, <2>1, <3>1, Canonical
  <2>3. CASE actor.is = "actor"
    <3>1. actor.url \in DOMAIN actors /\ actors[actor.url].id = actor.url
      BY <1>0, <1>3, <2>2, <2>3, ActorsSettle
    <3>2. Mutual(confirmed(chain.acct, actor.url, jrds[name]))
      BY <2>1, <3>1, ConfirmedIsMutual
    <3> QED BY <1>4, <1>7, <2>1, <2>3, <3>2
  <2>4. CASE actor.is # "actor"
    <3>1. actor.is \in {"none", "need"}
      BY <1>0, <1>3, <2>2, <2>4, ActorsSettle
    <3> QED BY <1>4, <1>7, <2>4, <3>1 DEF Mutual
  <2> QED BY <2>3, <2>4
<1> QED BY <1>5, <1>6, <1>7

LEMMA ResolveIsMutual ==
  ASSUME DocumentsTyped PROVE ResolvedIsMutual
<1>0. MaxHops \in 0..MaxHops
  BY ResolveAssumption
<1>1. PICK reverse : reverse = jrds[entry]
  OBVIOUS
<1>2. PICK actor : actor = settled_actor[MaxHops][entry]
  OBVIOUS
<1>3. resolve(entry) =
        IF entry \in Accts THEN from_acct(entry)
        ELSE IF entry \notin DOMAIN jrds THEN Need("jrd", entry)
        ELSE IF /\ reverse.subject # Nobody /\ confirms(reverse, entry)
                /\ Domain[reverse.subject] = Domain[entry]
             THEN from_acct(reverse.subject)
        ELSE IF actor.is # "actor" THEN actor
        ELSE IF actors[actor.url].handle = Nobody THEN None
        ELSE from_acct(actors[actor.url].handle)
  BY <1>1, <1>2 DEF resolve
<1>4. Mutual(Need("jrd", entry)) /\ Mutual(None)
  BY DEF Mutual, Need, None
<1>5. CASE entry \in Accts
  BY <1>3, <1>5, FromAcctIsMutual DEF Mutual, ResolvedIsMutual
<1>6. CASE entry \notin Accts
  <2>1. entry \in Urls
    BY <1>6 DEF DocumentsTyped
  <2>2. CASE entry \notin DOMAIN jrds
    BY <1>3, <1>4, <1>6, <2>2 DEF Mutual, ResolvedIsMutual
  <2>3. CASE /\ entry \in DOMAIN jrds
             /\ reverse.subject # Nobody /\ confirms(reverse, entry) /\ Domain[reverse.subject] = Domain[entry]
    <3>1. reverse.subject \in Accts
      BY <1>1, <2>3 DEF DocumentsTyped, Jrds
    <3>2. Mutual(from_acct(reverse.subject))
      BY <3>1, FromAcctIsMutual
    <3> QED BY <1>3, <1>6, <2>3, <3>2 DEF Mutual, ResolvedIsMutual
  <2>4. CASE /\ entry \in DOMAIN jrds
             /\ ~(reverse.subject # Nobody /\ confirms(reverse, entry) /\ Domain[reverse.subject] = Domain[entry])
    <3>1. actor.is \in {"actor", "none", "need"} /\ (actor.is = "actor" => actor.url \in DOMAIN actors)
      BY <1>0, <1>2, <2>1, ActorsSettle
    <3>2. CASE actor.is # "actor"
      BY <1>3, <1>6, <2>4, <3>1, <3>2 DEF ResolvedIsMutual
    <3>3. CASE actor.is = "actor" /\ actors[actor.url].handle = Nobody
      BY <1>3, <1>4, <1>6, <2>4, <3>3 DEF Mutual, ResolvedIsMutual
    <3>4. CASE actor.is = "actor" /\ actors[actor.url].handle # Nobody
      <4>1. actors[actor.url].handle \in Accts
        BY <3>1, <3>4 DEF DocumentsTyped, Actors
      <4>2. Mutual(from_acct(actors[actor.url].handle))
        BY <4>1, FromAcctIsMutual
      <4> QED BY <1>3, <1>6, <2>4, <3>4, <4>2 DEF Mutual, ResolvedIsMutual
    <3> QED BY <3>2, <3>3, <3>4
  <2> QED BY <2>2, <2>3, <2>4
<1> QED BY <1>5, <1>6

\* An actor that the account_resolver settles on is confirmed by its own document and
\* by one of its account's domain, and a process ends as resolved if and only if the
\* actor was registered before that, over any restarts between the two.
THEOREM ResolvedAsConfirmed == Spec => []ResolvedFromBothSides
<1> DEFINE Inv == ResolutionInv /\ DocumentsTyped
<1>1. Init => Inv
  <2>1. ASSUME DocumentsInit PROVE DocumentsTyped
    <3>1. DOMAIN jrds = {} /\ DOMAIN actors = {}
      BY <2>1 DEF DocumentsInit
    <3> QED BY <2>1, <3>1 DEF DocumentsInit, DocumentsTyped
  <2> QED BY <2>1, ResolutionStart DEF Init, RestingDocuments
<1>2. Inv /\ [Next]_bvars => Inv'
  <2>1. ASSUME [Next]_bvars
        PROVE  (ResolutionNext \/ UNCHANGED rsvars) /\ (DocumentsNext \/ UNCHANGED dvars)
    BY <2>1 DEF Next, bvars
  <2> QED BY <2>1, ResolutionStep, DocumentsKept
<1>3. Inv => ResolvedFromBothSides
  <2>1. ResolutionInv => ResolvedIsRegistered
    BY DEF ResolutionInv, EndIsRight, BothConfirmed, ResolvedIsRegistered
  <2> QED BY <2>1, ResolveIsMutual DEF ResolvedFromBothSides
<1> QED BY <1>1, <1>2, <1>3, PTL DEF Spec

-----------------------------------------------------------------------------
(***************************************************************************)
(* activity_resolver: when nothing is left to do, what was referred to was *)
(* fed back or refused.  A reference is held from the moment it is read:   *)
(* in the queue, or by the task, which lets it go only when the table says *)
(* something of the object, that is, when the topic does.                  *)
(***************************************************************************)
ReferenceSet == [referrer : Referrers, sought : Nat]
ResolutionSet == [referrer : Referrers, attempt : Nat, version : Nat, missing : Nat,
                  state : {"attempting", "failed", "not_found", "succeeded", "tombstone"}]
ObjectRowSet == [version : Nat, cached : Nat, at : Nat, attempt : Nat, missing : Nat,
                 state : {"none", "attempting", "failed", "not_found", "succeeded", "tombstone"}]
FetcherSet == [pc : {"loop", "fetching", "feeding"}, ref : ReferenceSet \cup {NoRef},
               attempt : Nat, missing : Nat, version : Nat]

TaskIsAt(pc) == task # <<>> /\ task[1].pc = pc

ResolverTyped ==
  /\ incoming \in Seq(ReferenceSet) /\ queue \in Seq(ReferenceSet) /\ events \in Seq(ResolutionSet)
  /\ task = <<>> \/ (task = <<task[1]>> /\ task[1] \in FetcherSet)
  /\ read \in 0..Len(incoming) /\ applied \in 0..Len(events)
  /\ remote \in Nat \ {0} /\ restarts \in Nat
  /\ \A i \in DOMAIN events : events[i].state \in {"succeeded", "tombstone"} => events[i].version # 0
  /\ TaskIsAt("fetching") => task[1].ref # NoRef

\* A reference waits in the queue or is the task's.
IsHeld == queue # <<>> \/ (task # <<>> /\ task[1].ref # NoRef)
\* The server has answered.
HasAnswer == \E i \in DOMAIN events : events[i].state # "attempting"

NothingLost ==
  /\ resolved = 1..read
  /\ events # <<>> => HasAnswer \/ TaskIsAt("fetching")
  /\ read # 0 => IsHeld \/ HasAnswer
  /\ \A i \in DOMAIN events :
       events[i].state = "succeeded" => events[i].version \in fed \/ (TaskIsAt("feeding") /\ task[1].version = events[i].version)

ResolverInv == ResolverTyped /\ (restarts = 0 /\ ~failed => NothingLost)

LEMMA ResolverParts ==
  ASSUME ResolverTyped
  PROVE  /\ incoming \in Seq(ReferenceSet) /\ queue \in Seq(ReferenceSet) /\ events \in Seq(ResolutionSet)
         /\ Len(incoming) \in Nat /\ Len(events) \in Nat /\ DOMAIN events = 1..Len(events)
         /\ DOMAIN queue = 1..Len(queue) /\ Len(queue) \in Nat
         /\ read \in 0..Len(incoming) /\ applied \in 0..Len(events)
         /\ remote \in Nat \ {0} /\ restarts \in Nat
         /\ task = <<>> \/ (task = <<task[1]>> /\ task[1] \in FetcherSet)
BY DEF ResolverTyped

LEMMA ReferenceParts ==
  ASSUME NEW r \in ReferenceSet
  PROVE  r.referrer \in Referrers /\ r.sought \in Nat /\ r # NoRef
BY ResolverAssumption DEF ReferenceSet, NoRef

LEMMA ResolutionParts ==
  ASSUME NEW e \in ResolutionSet
  PROVE  /\ e.referrer \in Referrers /\ e.attempt \in Nat /\ e.version \in Nat /\ e.missing \in Nat
         /\ e.state \in {"attempting", "failed", "not_found", "succeeded", "tombstone"}
BY DEF ResolutionSet

LEMMA FetcherParts ==
  ASSUME NEW t \in FetcherSet
  PROVE  /\ t.pc \in {"loop", "fetching", "feeding"} /\ t.attempt \in Nat /\ t.missing \in Nat /\ t.version \in Nat
         /\ t.ref \in ReferenceSet \cup {NoRef} /\ t.ref.sought \in Nat
BY ReferenceParts DEF FetcherSet, NoRef

LEMMA FetcherIs ==
  ASSUME ResolverTyped, task # <<>>
  PROVE  task[1] \in FetcherSet /\ task = <<task[1]>>
BY ResolverParts

-----------------------------------------------------------------------------
\* The old as a recursion over the events: what it starts with, and what an event makes of it.
LEMMA RecordTyped ==
  ASSUME ResolverTyped, NEW old \in ObjectRowSet, NEW i \in 1..Len(events)
  PROVE  /\ Record(old, i) \in ObjectRowSet
         /\ events[i].state \notin {"succeeded", "tombstone"} => Record(old, i).version = old.version
         /\ events[i].state \in {"succeeded", "tombstone"} =>
              Record(old, i).version = IF events[i].version < old.version THEN old.version ELSE events[i].version
<1> DEFINE e == events[i]
           process == [old EXCEPT !.state = e.state, !.at = i, !.attempt = e.attempt, !.missing = e.missing]
<1>1. e \in ResolutionSet /\ i \in Nat
  BY ResolverParts
<1>2. /\ e.attempt \in Nat /\ e.version \in Nat /\ e.missing \in Nat
      /\ e.state \in {"none", "attempting", "failed", "not_found", "succeeded", "tombstone"}
  BY <1>1, ResolutionParts
<1>3. process \in ObjectRowSet /\ process.version = old.version
  BY <1>1, <1>2 DEF ObjectRowSet
<1>4. [process EXCEPT !.version = e.version, !.cached = i] \in ObjectRowSet
      /\ [process EXCEPT !.version = e.version, !.cached = i].version = e.version
  BY <1>1, <1>2, <1>3 DEF ObjectRowSet
<1>5. Record(old, i) = IF e.state \notin {"succeeded", "tombstone"} THEN process
                       ELSE IF e.version < old.version THEN old
                       ELSE [process EXCEPT !.version = e.version, !.cached = i]
  BY DEF Record
<1> HIDE DEF process, e
<1>6. events[i] = e
  BY DEF e
<1> QED BY <1>3, <1>4, <1>5, <1>6

LEMMA RowsExist ==
  ASSUME ResolverTyped
  PROVE  /\ RowAfter \in [0..Len(events) -> ObjectRowSet]
         /\ RowAfter[0] = NoRow
         /\ \A n \in 1..Len(events) : RowAfter[n] = Record(RowAfter[n - 1], n)
<1> DEFINE N == Len(events)
           step == [n \in 1..N |-> [old \in ObjectRowSet |-> Record(old, n)]]
           Is(f) == f = [n \in 0..N |-> IF n = 0 THEN NoRow ELSE Record(f[n - 1], n)]
<1>1. NoRow \in ObjectRowSet /\ N \in Nat
  BY ResolverParts DEF NoRow, ObjectRowSet
<1>2. step \in [1..N -> [ObjectRowSet -> ObjectRowSet]]
  BY RecordTyped
<1>3. \A n \in 1..N : \A old \in ObjectRowSet : step[n][old] = Record(old, n)
  OBVIOUS
<1> HIDE DEF step, N, Is
<1>4. PICK f \in [0..N -> ObjectRowSet] : f[0] = NoRow /\ \A n \in 1..N : f[n] = step[n][f[n - 1]]
  <2>1. \E f \in [0..N -> ObjectRowSet] : IsRecursion(f, N, NoRow, step)
    BY <1>1, <1>2, RecursionExists
  <2> QED BY <2>1 DEF IsRecursion
<1>5. ASSUME NEW n \in 1..N PROVE f[n] = Record(f[n - 1], n)
  <2>1. f[n - 1] \in ObjectRowSet
    BY <1>1
  <2> QED BY <1>3, <1>4, <2>1
<1>6. f = [n \in 0..N |-> IF n = 0 THEN NoRow ELSE Record(f[n - 1], n)]
  <2>1. \A n \in 0..N : f[n] = IF n = 0 THEN NoRow ELSE Record(f[n - 1], n)
    BY <1>1, <1>4, <1>5
  <2> QED BY <2>1
<1>7. RowAfter = CHOOSE h : Is(h)
  BY DEF RowAfter, Is, N
<1>8. Is(f)
  BY <1>6 DEF Is
<1> HIDE DEF Is
<1>9. Is(RowAfter)
  BY <1>7, <1>8
<1>10. PICK h : h = RowAfter
  OBVIOUS
<1>11. h = [n \in 0..N |-> IF n = 0 THEN NoRow ELSE Record(h[n - 1], n)]
  BY <1>9, <1>10 DEF Is
<1>12. h[0] = NoRow /\ \A n \in 1..N : h[n] = Record(h[n - 1], n)
  BY <1>1, <1>11
<1> DEFINE S == {n \in Nat : n <= N => h[n] \in ObjectRowSet}
<1>13. 0 \in S
  BY <1>1, <1>12
<1>14. ASSUME NEW n \in Nat, n \in S PROVE n + 1 \in S
  <2>1. SUFFICES ASSUME n + 1 <= N PROVE h[n + 1] \in ObjectRowSet
    OBVIOUS
  <2>2. n + 1 \in 1..N /\ (n + 1) - 1 = n /\ h[n] \in ObjectRowSet
    BY <1>1, <1>14, <2>1
  <2>3. h[n + 1] = Record(h[n], n + 1)
    BY <1>12, <2>2
  <2>4. n + 1 \in 1..Len(events)
    BY <2>2 DEF N
  <2> QED BY <2>2, <2>3, <2>4, RecordTyped
<1> HIDE DEF S
<1>15. Nat \subseteq S
  BY <1>13, <1>14, SetInduction
<1> USE DEF N
<1>16. \A n \in 0..N : h[n] \in ObjectRowSet
  BY <1>1, <1>15 DEF S
<1>17. h \in [0..N -> ObjectRowSet]
  BY <1>11, <1>16
<1> QED BY <1>10, <1>12, <1>17

\* The version in the old is that of an event, unless there is none.
LEMMA VersionIsRecorded ==
  ASSUME ResolverTyped
  PROVE  /\ Row \in ObjectRowSet
         /\ applied = 0 => Row = NoRow
         /\ (\E i \in 1..applied : events[i].state \in {"succeeded", "tombstone"}) =>
              \E i \in 1..applied : events[i].state \in {"succeeded", "tombstone"} /\ events[i].version = Row.version
<1> DEFINE Says(i) == events[i].state \in {"succeeded", "tombstone"}
           Good(n) == IF \E i \in 1..n : Says(i) THEN \E i \in 1..n : Says(i) /\ events[i].version = RowAfter[n].version
                      ELSE RowAfter[n].version = 0
           S == {n \in Nat : n <= Len(events) => Good(n)}
<1>1. Len(events) \in Nat /\ applied \in 0..Len(events)
  BY ResolverParts
<1>2. 0 \in S
  <2>1. RowAfter[0].version = 0
    BY RowsExist DEF NoRow
  <2> QED BY <2>1
<1>3. ASSUME NEW n \in Nat, n \in S PROVE n + 1 \in S
  <2>1. SUFFICES ASSUME n + 1 <= Len(events) PROVE Good(n + 1)
    OBVIOUS
  <2>2. /\ Good(n) /\ n + 1 \in 1..Len(events) /\ (n + 1) - 1 = n /\ n \in 0..Len(events)
        /\ \A i \in 1..n : i \in 1..n + 1 /\ i \in 1..Len(events)
        /\ \A i \in 1..n + 1 : i = n + 1 \/ i \in 1..n
    BY <1>1, <1>3, <2>1
  <2>3. RowAfter[n] \in ObjectRowSet /\ RowAfter[n + 1] = Record(RowAfter[n], n + 1)
    BY <2>2, RowsExist
  <2>4. /\ ~Says(n + 1) => RowAfter[n + 1].version = RowAfter[n].version
        /\ Says(n + 1) => RowAfter[n + 1].version = IF events[n + 1].version < RowAfter[n].version THEN RowAfter[n].version
                                                    ELSE events[n + 1].version
    BY <2>2, <2>3, RecordTyped
  <2>5. RowAfter[n].version \in Nat
    BY <2>3 DEF ObjectRowSet
  <2>6. events[n + 1].version \in Nat
    BY <2>2, ResolverParts, ResolutionParts
  <2> HIDE DEF Says
  <2>7. CASE ~Says(n + 1)
    BY <2>2, <2>4, <2>7
  <2>8. CASE Says(n + 1) /\ events[n + 1].version < RowAfter[n].version
    <3>1. RowAfter[n].version # 0
      BY <2>5, <2>6, <2>8
    <3> QED BY <2>2, <2>4, <2>8, <3>1
  <2>9. CASE Says(n + 1) /\ ~(events[n + 1].version < RowAfter[n].version)
    BY <2>2, <2>4, <2>9
  <2> QED BY <2>7, <2>8, <2>9
<1> HIDE DEF S
<1>4. Nat \subseteq S
  BY <1>2, <1>3, SetInduction
<1>5. Good(applied)
  BY <1>1, <1>4 DEF S
<1>6. Row \in ObjectRowSet /\ (applied = 0 => Row = NoRow)
  BY <1>1, RowsExist DEF Row
<1> QED BY <1>5, <1>6 DEF Row

-----------------------------------------------------------------------------
\* What a round takes is what the task has or what waits.
LEMMA AbsorbedIs ==
  ASSUME ResolverTyped, task # <<>>, task[1].ref # NoRef \/ queue # <<>>
  PROVE  /\ Absorb(task[1].ref) \in ReferenceSet
         /\ Absorb(task[1].ref) # NoRef
<1> DEFINE ref == task[1].ref
           others == {i \in DOMAIN queue : ref = NoRef \/ queue[i].referrer # ref.referrer}
<1>1. ref \in ReferenceSet \cup {NoRef} /\ queue \in Seq(ReferenceSet)
      /\ DOMAIN queue = 1..Len(queue) /\ Len(queue) \in Nat
  BY FetcherIs, FetcherParts, ResolverParts
<1>2. Absorb(ref) = IF others = {} THEN ref ELSE queue[CHOOSE i \in others : \A j \in others : j <= i]
  BY DEF Absorb
<1>3. CASE others = {}
  <2>1. ref # NoRef
    <3>1. SUFFICES ASSUME ref = NoRef PROVE FALSE
      OBVIOUS
    <3>2. queue # <<>>
      BY <3>1
    <3>3. 1 \in DOMAIN queue
      BY <1>1, <3>2
    <3>4. 1 \in others
      BY <3>1, <3>3
    <3> QED BY <1>3, <3>4
  <2> QED BY <1>1, <1>2, <1>3, <2>1
<1>4. CASE others # {}
  <2>1. others \subseteq 0..Len(queue)
    BY <1>1
  <2> HIDE DEF others
  <2>2. \E i \in others : \A j \in others : j <= i
    BY <1>1, <1>4, <2>1, GreatestExists
  <2>3. PICK i \in others : Absorb(ref) = queue[i]
    BY <1>2, <1>4, <2>2
  <2>4. i \in DOMAIN queue
    BY <2>3 DEF others
  <2>5. queue[i] \in ReferenceSet
    BY <1>1, <2>4
  <2> QED BY <2>3, <2>5, ReferenceParts
<1> QED BY <1>3, <1>4

LEMMA TopicAfter ==
  ASSUME ResolverTyped, NEW r \in Referrers, NEW a \in Nat, NEW version \in Nat, NEW missing \in Nat,
         NEW state \in {"attempting", "failed", "not_found", "succeeded", "tombstone"},
         state \in {"succeeded", "tombstone"} => version # 0,
         Publish(r, a, state, version, missing)
  PROVE  /\ events' \in Seq(ResolutionSet) /\ Len(events) <= Len(events') /\ Len(events') \in Nat
         /\ \E i \in DOMAIN events' : events'[i].state = state
         /\ \A i \in DOMAIN events : i \in DOMAIN events' /\ events'[i] = events[i]
         /\ \A i \in DOMAIN events' : \/ i \in DOMAIN events /\ events'[i] = events[i]
                                      \/ events'[i].state = state /\ events'[i].version = version
<1> DEFINE e == [referrer |-> r, attempt |-> a, state |-> state, version |-> version, missing |-> missing]
<1>1. events \in Seq(ResolutionSet) /\ Len(events) \in Nat /\ DOMAIN events = 1..Len(events)
  BY ResolverParts
<1>2. e \in ResolutionSet /\ e.state = state /\ e.version = version
  BY DEF ResolutionSet
<1>3. CASE Published(r, a, state)
  <2>1. events' = events
    BY <1>3 DEF Publish
  <2>2. PICK i \in DOMAIN events : <<events[i].referrer, events[i].attempt, events[i].state>> = <<r, a, state>>
    BY <1>3 DEF Published
  <2>3. events[i].state = state
    BY <2>2
  <2> QED BY <1>1, <2>1, <2>3
<1>4. CASE ~Published(r, a, state)
  <2>1. events' = Append(events, e)
    BY <1>4 DEF Publish
  <2> HIDE DEF e
  <2>2. /\ events' \in Seq(ResolutionSet) /\ Len(events') = Len(events) + 1
        /\ \A i \in 1..Len(events) : events'[i] = events[i]
        /\ events'[Len(events) + 1] = e /\ DOMAIN events' = 1..Len(events) + 1
    BY <1>1, <1>2, <2>1
  <2>3. /\ Len(events) + 1 \in DOMAIN events' /\ Len(events) <= Len(events')
        /\ \A i \in 1..Len(events) : i \in DOMAIN events'
        /\ \A i \in DOMAIN events' : i \in 1..Len(events) \/ i = Len(events) + 1
    BY <1>1, <2>2
  <2> QED BY <1>1, <1>2, <2>2, <2>3
<1> QED BY <1>3, <1>4

LEMMA GoesTyped ==
  ASSUME NEW pc \in {"loop", "fetching", "feeding"}, NEW ref \in ReferenceSet \cup {NoRef}, Goes(pc, ref)
  PROVE  /\ task' = <<task'[1]>> /\ task'[1] \in FetcherSet
         /\ task' # <<>> /\ task'[1].pc = pc /\ task'[1].ref = ref
<1> DEFINE t == [Idle EXCEPT !.pc = pc, !.ref = ref]
<1>1. Idle \in FetcherSet
  BY DEF Idle, FetcherSet
<1>2. t \in FetcherSet /\ t.pc = pc /\ t.ref = ref
  BY <1>1 DEF FetcherSet
<1>3. task' = <<t>>
  BY DEF Goes
<1> HIDE DEF t
<1> QED BY <1>2, <1>3

\* What the task knows that the table says, the topic says.
LEMMA ToldByTheTopic ==
  ASSUME ResolverTyped, Row # NoRow, events # <<>> => HasAnswer \/ TaskIsAt("fetching"), ~TaskIsAt("fetching")
  PROVE  HasAnswer
<1>1. applied # 0
  BY VersionIsRecorded
<1>2. events # <<>>
  BY <1>1, ResolverParts
<1> QED BY <1>2

-----------------------------------------------------------------------------
LEMMA TaskAtIs ==
  ASSUME ResolverTyped, NEW pc
  PROVE  TaskIsAt(pc) <=> task # <<>> /\ task[1].pc = pc
BY DEF TaskIsAt

\* The steps that leave events, task and queue alone.
LEMMA ResolverBeside ==
  ASSUME ResolverInv,
         UNCHANGED <<read, resolved, queue, task, events, fed, failed, restarts>>,
         incoming' \in Seq(ReferenceSet), Len(incoming) <= Len(incoming'),
         applied' \in 0..Len(events), remote' \in Nat \ {0}
  PROVE  ResolverInv'
<1>1. ResolverTyped'
  BY ResolverParts DEF ResolverInv, ResolverTyped, TaskIsAt
<1>2. (restarts = 0 /\ ~failed => NothingLost)'
  BY DEF ResolverInv, NothingLost, IsHeld, HasAnswer, TaskIsAt
<1> QED BY <1>1, <1>2 DEF ResolverInv

LEMMA ResolverReads == ASSUME ResolverInv, Translate PROVE ResolverInv'
<1>1. ResolverTyped /\ UNCHANGED <<incoming, events, applied, ended, expired, fed, remote, failed, restarts>>
  BY DEF ResolverInv, Translate
<1>2. read < Len(incoming) /\ read' = read + 1 /\ read \in Nat /\ read' \in 0..Len(incoming) /\ read' \in 1..Len(incoming)
  BY <1>1, ResolverParts DEF Translate
<1>3. incoming[read'] \in ReferenceSet
  BY <1>1, <1>2, ResolverParts
<1>4. CASE read' \in resolved
  <2>1. UNCHANGED <<queue, task, resolved>>
    BY <1>4 DEF Translate
  <2>2. ResolverTyped'
    BY <1>1, <1>2, <2>1 DEF ResolverTyped, TaskIsAt
  <2>3. restarts # 0 \/ failed
    <3>1. read' \notin 1..read
      BY <1>2
    <3> QED BY <1>4, <3>1 DEF ResolverInv, NothingLost
  <2> QED BY <1>1, <2>2, <2>3 DEF ResolverInv
<1>5. CASE read' \notin resolved
  <2>1. queue' = Append(queue, incoming[read']) /\ task' = (IF task = <<>> THEN <<Idle>> ELSE task)
        /\ resolved' = resolved \cup {read'}
    BY <1>5 DEF Translate, Enqueue
  <2>2. queue' \in Seq(ReferenceSet) /\ queue' # <<>>
    <3>1. queue \in Seq(ReferenceSet)
      BY <1>1, ResolverParts
    <3> QED BY <1>3, <2>1, <3>1
  <2>3. Idle \in FetcherSet /\ Idle.pc = "loop"
    BY DEF Idle, FetcherSet
  <2>4. /\ task' = <<task'[1]>> /\ task'[1] \in FetcherSet
        /\ \A pc \in {"fetching", "feeding"} : TaskIsAt(pc)' <=> TaskIsAt(pc)
        /\ TaskIsAt("fetching") \/ TaskIsAt("feeding") => task' = task
    BY <1>1, <2>1, <2>3, ResolverParts DEF TaskIsAt
  <2>5. ResolverTyped'
    BY <1>1, <1>2, <2>2, <2>4 DEF ResolverTyped
  <2>6. ASSUME restarts = 0, ~failed PROVE NothingLost'
    <3>1. NothingLost
      BY <2>6 DEF ResolverInv
    <3>2. resolved' = 1..read'
      BY <1>2, <2>1, <3>1 DEF NothingLost
    <3>3. IsHeld'
      BY <2>2 DEF IsHeld
    <3>4. HasAnswer' <=> HasAnswer
      BY <1>1 DEF HasAnswer
    <3> QED BY <1>1, <2>4, <3>1, <3>2, <3>3, <3>4 DEF NothingLost
  <2> QED BY <1>1, <2>5, <2>6 DEF ResolverInv
<1> QED BY <1>4, <1>5

\* What the topic says after a publish, and what follows for a life without losses.
LEMMA AnswerStays ==
  ASSUME ResolverTyped, \A i \in DOMAIN events : i \in DOMAIN events' /\ events'[i] = events[i], HasAnswer
  PROVE  HasAnswer'
BY DEF HasAnswer

LEMMA ResolverLooks == ASSUME ResolverInv, Look PROVE ResolverInv'
<1> DEFINE ref == Absorb(task[1].ref)
           attempt == IF ref # task[1].ref THEN 1 ELSE NextAttempt(Row)
<1>1. /\ ResolverTyped /\ UNCHANGED <<incoming, read, resolved, applied, ended, expired, fed, remote, restarts>>
      /\ task # <<>> /\ task[1].pc = "loop" /\ (task[1].ref # NoRef \/ queue # <<>>) /\ queue' = <<>>
  BY DEF ResolverInv, Look
<1>2. ref \in ReferenceSet /\ ref # NoRef /\ ref.sought \in Nat /\ ref.referrer \in Referrers
  BY <1>1, AbsorbedIs, ReferenceParts
<1>3. Row \in ObjectRowSet /\ Row.version \in Nat /\ Row.attempt \in Nat /\ Row.missing \in Nat
  BY <1>1, VersionIsRecorded DEF ObjectRowSet
<1>4. attempt \in Nat
  BY <1>3 DEF NextAttempt
<1>5. queue' \in Seq(ReferenceSet)
  BY <1>1
<1>6. \/ task' = <<>> /\ failed' = TRUE /\ UNCHANGED events
      \/ /\ UNCHANGED failed
         /\ \/ ~Incomparable(Row, ref.sought) /\ Fresh(Row, ref.sought) /\ Goes("loop", NoRef) /\ UNCHANGED events
            \/ Goes("loop", ref) /\ UNCHANGED events
            \/ attempt > MaxAttempts /\ Goes("loop", NoRef) /\ UNCHANGED events
            \/ /\ Publish(ref.referrer, attempt, "attempting", 0, Row.missing)
               /\ task' = <<[pc |-> IF events' = events THEN "loop" ELSE "fetching", ref |-> ref,
                             attempt |-> attempt, missing |-> Row.missing, version |-> 0]>>
  BY DEF Look
<1> HIDE DEF attempt, ref
<1>7. ~TaskIsAt("fetching") /\ ~TaskIsAt("feeding")
  BY <1>1 DEF TaskIsAt
<1>8. CASE task' = <<>> /\ failed' = TRUE /\ UNCHANGED events
  <2>1. ResolverTyped'
    BY <1>1, <1>5, <1>8 DEF ResolverTyped, TaskIsAt
  <2> QED BY <1>8, <2>1 DEF ResolverInv
<1>9. ASSUME UNCHANGED events, UNCHANGED failed, NEW to \in {NoRef, ref}, Goes("loop", to), to = NoRef => Row # NoRow
      PROVE  ResolverInv'
  <2>1. /\ task' = <<task'[1]>> /\ task'[1] \in FetcherSet /\ task' # <<>> /\ task'[1].pc = "loop" /\ task'[1].ref = to
    BY <1>2, <1>9, GoesTyped
  <2>2. ~TaskIsAt("fetching")' /\ ~TaskIsAt("feeding")'
    BY <2>1 DEF TaskIsAt
  <2>3. ResolverTyped'
    BY <1>1, <1>5, <1>9, <2>1, <2>2 DEF ResolverTyped
  <2>4. ASSUME restarts = 0, ~failed PROVE NothingLost'
    <3>1. NothingLost
      BY <2>4 DEF ResolverInv
    <3>2. HasAnswer' <=> HasAnswer
      BY <1>9 DEF HasAnswer
    <3>3. IsHeld' \/ HasAnswer'
      <4>1. CASE to = NoRef
        BY <1>1, <1>7, <1>9, <3>1, <3>2, <4>1, ToldByTheTopic DEF NothingLost
      <4>2. CASE to = ref
        BY <1>2, <2>1, <4>2 DEF IsHeld
      <4> QED BY <4>1, <4>2
    <3> QED BY <1>1, <1>7, <1>9, <3>1, <3>2, <3>3 DEF NothingLost
  <2> QED BY <1>1, <1>9, <2>3, <2>4 DEF ResolverInv
<1>10. CASE UNCHANGED <<failed, events>> /\ ~Incomparable(Row, ref.sought) /\ Fresh(Row, ref.sought) /\ Goes("loop", NoRef)
  <2>1. Row.version # 0
    BY <1>2, <1>3, <1>10 DEF Incomparable, Fresh
  <2>2. Row # NoRow
    BY <2>1 DEF NoRow
  <2> QED BY <1>9, <1>10, <2>2
<1>11. CASE UNCHANGED <<failed, events>> /\ Goes("loop", ref)
  BY <1>2, <1>9, <1>11
<1>12. CASE UNCHANGED <<failed, events>> /\ attempt > MaxAttempts /\ Goes("loop", NoRef)
  <2>1. MaxAttempts \in Nat /\ MaxAttempts # 0
    BY ResolverAssumption
  <2>2. Row.attempt # 0
    BY <1>3, <1>12, <2>1 DEF attempt, NextAttempt
  <2>3. Row # NoRow
    BY <2>2 DEF NoRow
  <2> QED BY <1>9, <1>12, <2>3
<1>13. CASE /\ UNCHANGED failed /\ Publish(ref.referrer, attempt, "attempting", 0, Row.missing)
            /\ task' = <<[pc |-> IF events' = events THEN "loop" ELSE "fetching", ref |-> ref,
                          attempt |-> attempt, missing |-> Row.missing, version |-> 0]>>
  <2>1. /\ events' \in Seq(ResolutionSet) /\ Len(events) <= Len(events') /\ Len(events') \in Nat
        /\ \A i \in DOMAIN events : i \in DOMAIN events' /\ events'[i] = events[i]
        /\ \A i \in DOMAIN events' : \/ i \in DOMAIN events /\ events'[i] = events[i]
                                     \/ events'[i].state = "attempting"
    BY <1>1, <1>2, <1>3, <1>4, <1>13, TopicAfter
  <2>2. /\ task' = <<task'[1]>> /\ task'[1] \in FetcherSet /\ task' # <<>> /\ task'[1].ref = ref
        /\ task'[1].pc = IF events' = events THEN "loop" ELSE "fetching"
    BY <1>2, <1>3, <1>4, <1>13 DEF FetcherSet
  <2>3. applied \in 0..Len(events')
    BY <1>1, <2>1, ResolverParts
  <2>4. ResolverTyped'
    BY <1>1, <1>2, <1>5, <2>1, <2>2, <2>3 DEF ResolverTyped
  <2>5. ASSUME restarts = 0, ~failed PROVE NothingLost'
    <3>1. NothingLost
      BY <2>5 DEF ResolverInv
    <3>2. HasAnswer => HasAnswer'
      BY <1>1, <2>1, AnswerStays
    <3>3. IsHeld'
      BY <1>2, <2>2 DEF IsHeld
    <3>4. events' # <<>> => HasAnswer' \/ TaskIsAt("fetching")'
      BY <1>7, <2>2, <3>1, <3>2 DEF NothingLost, TaskIsAt
    <3>5. \A i \in DOMAIN events' : events'[i].state = "succeeded" => events'[i].version \in fed
      BY <1>7, <2>1, <3>1 DEF NothingLost
    <3> QED BY <1>1, <3>1, <3>3, <3>4, <3>5 DEF NothingLost
  <2> QED BY <1>1, <1>13, <2>4, <2>5 DEF ResolverInv
<1> QED BY <1>6, <1>8, <1>10, <1>11, <1>12, <1>13

LEMMA ResolverAnswered == ASSUME ResolverInv, Fetched PROVE ResolverInv'
<1> DEFINE t == task[1]
<1>1. /\ ResolverTyped /\ UNCHANGED <<incoming, read, resolved, queue, applied, ended, expired, fed, remote, restarts>>
      /\ task # <<>> /\ t.pc = "fetching"
  BY DEF ResolverInv, Fetched
<1>2. t \in FetcherSet /\ TaskIsAt("fetching") /\ ~TaskIsAt("feeding")
  BY <1>1, FetcherIs DEF TaskIsAt
<1>3. /\ t.ref \in ReferenceSet /\ t.ref # NoRef /\ t.ref.referrer \in Referrers
      /\ t.attempt \in Nat /\ t.missing \in Nat
  BY <1>1, <1>2, FetcherParts, ReferenceParts DEF ResolverTyped
<1>4. Deleted \in Nat /\ Deleted # 0 /\ remote \in Nat /\ remote # 0
  BY <1>1, ResolverAssumption, ResolverParts DEF Deleted
<1>5. CASE task' = <<>> /\ failed' = TRUE /\ UNCHANGED events
  <2>1. ResolverTyped'
    BY <1>1, <1>5 DEF ResolverTyped, TaskIsAt
  <2> QED BY <1>5, <2>1 DEF ResolverInv
<1>6. ASSUME UNCHANGED failed, NEW a \in Nat, NEW version \in Nat, NEW missing \in Nat,
             NEW state \in {"failed", "not_found", "succeeded", "tombstone"},
             state \in {"succeeded", "tombstone"} => version # 0,
             Publish(t.ref.referrer, a, state, version, missing),
             task' = <<task'[1]>>, task'[1] \in FetcherSet, task'[1].ref = t.ref,
             IF state = "succeeded" THEN task'[1].pc = "feeding" /\ task'[1].version = version
             ELSE task'[1].pc = "loop"
      PROVE  ResolverInv'
  <2>1. /\ events' \in Seq(ResolutionSet) /\ Len(events) <= Len(events') /\ Len(events') \in Nat
        /\ \E i \in DOMAIN events' : events'[i].state = state
        /\ \A i \in DOMAIN events' : \/ i \in DOMAIN events /\ events'[i] = events[i]
                                     \/ events'[i].state = state /\ events'[i].version = version
    BY <1>1, <1>3, <1>6, TopicAfter
  <2>2. applied \in 0..Len(events')
    BY <1>1, <2>1, ResolverParts
  <2>3. task' # <<>> /\ ~TaskIsAt("fetching")'
    <3>1. task' # <<>>
      <4>1. PICK u : task' = <<u>>
        BY <1>6
      <4> QED BY <4>1
    <3>2. task'[1].pc # "fetching"
      BY <1>6
    <3> QED BY <3>1, <3>2 DEF TaskIsAt
  <2>4. ResolverTyped'
    BY <1>1, <1>6, <2>1, <2>2, <2>3 DEF ResolverTyped
  <2>5. ASSUME restarts = 0, ~failed PROVE NothingLost'
    <3>1. NothingLost
      BY <2>5 DEF ResolverInv
    <3>2. HasAnswer'
      BY <1>6, <2>1 DEF HasAnswer
    <3>3. \A i \in DOMAIN events' :
            events'[i].state = "succeeded" => events'[i].version \in fed \/ (state = "succeeded" /\ events'[i].version = version)
      BY <1>2, <2>1, <3>1 DEF NothingLost
    <3>4. \A i \in DOMAIN events' :
            events'[i].state = "succeeded" =>
              events'[i].version \in fed \/ (TaskIsAt("feeding")' /\ task'[1].version = events'[i].version)
      BY <1>6, <2>3, <3>3 DEF TaskIsAt
    <3> QED BY <1>1, <3>1, <3>2, <3>4 DEF NothingLost
  <2> QED BY <1>1, <1>6, <2>4, <2>5 DEF ResolverInv
<1>7. CASE /\ Publish(t.ref.referrer, 0, "succeeded", remote, 0)
           /\ task' = <<[t EXCEPT !.pc = "feeding", !.version = remote]>> /\ UNCHANGED failed
  <2> DEFINE u == [t EXCEPT !.pc = "feeding", !.version = remote]
  <2>1. u \in FetcherSet /\ u.ref = t.ref /\ u.pc = "feeding" /\ u.version = remote
    BY <1>2, <1>4 DEF FetcherSet
  <2>2. task' = <<u>>
    BY <1>7
  <2> HIDE DEF u, t
  <2>3. task'[1] = u /\ task' = <<task'[1]>>
    BY <2>2
  <2> QED BY <1>4, <1>6, <1>7, <2>1, <2>3
<1>8. ASSUME NEW a \in Nat, NEW version \in Nat, NEW missing \in Nat,
             NEW state \in {"failed", "not_found", "tombstone"}, state = "tombstone" => version # 0,
             Publish(t.ref.referrer, a, state, version, missing), Goes("loop", t.ref), UNCHANGED failed
      PROVE  ResolverInv'
  <2>1. task' = <<task'[1]>> /\ task'[1] \in FetcherSet /\ task'[1].pc = "loop" /\ task'[1].ref = t.ref
    BY <1>3, <1>8, GoesTyped
  <2> QED BY <1>6, <1>8, <2>1
<1>9. CASE Publish(t.ref.referrer, 0, "tombstone", Deleted, 0) /\ Goes("loop", t.ref) /\ UNCHANGED failed
  BY <1>4, <1>8, <1>9
<1>10. CASE /\ IF t.missing + 1 >= TombstoneThreshold
               THEN Publish(t.ref.referrer, 0, "tombstone", Deleted, 0)
               ELSE Publish(t.ref.referrer, t.attempt, "not_found", 0, t.missing + 1)
            /\ Goes("loop", t.ref) /\ UNCHANGED failed
  <2>1. t.missing + 1 \in Nat
    BY <1>3
  <2>2. CASE Publish(t.ref.referrer, t.attempt, "not_found", 0, t.missing + 1)
    BY <1>3, <1>8, <1>10, <2>1, <2>2
  <2> QED BY <1>9, <1>10, <2>2
<1>11. CASE Publish(t.ref.referrer, t.attempt, "failed", 0, t.missing) /\ Goes("loop", t.ref) /\ UNCHANGED failed
  BY <1>3, <1>8, <1>11
<1> QED BY <1>5, <1>7, <1>9, <1>10, <1>11 DEF Fetched

LEMMA ResolverFeeds == ASSUME ResolverInv, Backfeed PROVE ResolverInv'
<1>1. /\ ResolverTyped /\ UNCHANGED <<incoming, read, resolved, queue, events, applied, ended, expired, remote, failed, restarts>>
      /\ task # <<>> /\ task[1].pc = "feeding" /\ fed' = fed \cup {task[1].version} /\ Goes("loop", task[1].ref)
  BY DEF ResolverInv, Backfeed
<1>2. task[1].ref \in ReferenceSet \cup {NoRef} /\ TaskIsAt("feeding") /\ ~TaskIsAt("fetching")
  BY <1>1, FetcherIs, FetcherParts DEF TaskIsAt
<1>3. /\ task' = <<task'[1]>> /\ task'[1] \in FetcherSet /\ task' # <<>> /\ task'[1].pc = "loop" /\ task'[1].ref = task[1].ref
  BY <1>1, <1>2, GoesTyped
<1>4. ~TaskIsAt("fetching")'
  BY <1>3 DEF TaskIsAt
<1>5. ResolverTyped'
  BY <1>1, <1>3, <1>4 DEF ResolverTyped
<1>6. ASSUME restarts = 0, ~failed PROVE NothingLost'
  <2>1. NothingLost
    BY <1>6 DEF ResolverInv
  <2>2. IsHeld => IsHeld'
    BY <1>1, <1>3 DEF IsHeld
  <2>3. HasAnswer' <=> HasAnswer
    BY <1>1 DEF HasAnswer
  <2> QED BY <1>1, <1>2, <2>1, <2>2, <2>3 DEF NothingLost
<1> QED BY <1>1, <1>5, <1>6 DEF ResolverInv

LEMMA ResolverLeaves == ASSUME ResolverInv, TaskEnds PROVE ResolverInv'
<1>1. /\ ResolverTyped /\ UNCHANGED <<incoming, read, resolved, queue, events, applied, ended, expired, fed, remote, failed, restarts>>
      /\ task # <<>> /\ task[1] = Idle /\ queue = <<>> /\ task' = <<>>
  BY DEF ResolverInv, TaskEnds
<1>2. ~IsHeld /\ ~TaskIsAt("feeding") /\ ~TaskIsAt("fetching")
  BY <1>1 DEF IsHeld, TaskIsAt, Idle
<1>3. ResolverTyped'
  BY <1>1 DEF ResolverTyped, TaskIsAt
<1>4. ASSUME restarts = 0, ~failed PROVE NothingLost'
  <2>1. NothingLost
    BY <1>4 DEF ResolverInv
  <2>2. HasAnswer' <=> HasAnswer
    BY <1>1 DEF HasAnswer
  <2> QED BY <1>1, <1>2, <2>1, <2>2 DEF NothingLost
<1> QED BY <1>1, <1>3, <1>4 DEF ResolverInv

LEMMA ResolverStep == ASSUME ResolverInv, [ResolverNext]_rvars PROVE ResolverInv'
<1>1. ResolverTyped
  BY DEF ResolverInv
<1>2. CASE Project \/ WindowEnds \/ Expires \/ Refer \/ Edited \/ UNCHANGED rvars
  <2>1. UNCHANGED <<read, resolved, queue, task, events, fed, failed, restarts>>
    BY <1>2 DEF Project, WindowEnds, Expires, Refer, Edited, rvars
  <2>2. incoming' \in Seq(ReferenceSet) /\ Len(incoming) <= Len(incoming')
    <3>1. CASE Refer
      <4>1. PICK r \in Referrers, sought \in 0..remote : incoming' = Append(incoming, [referrer |-> r, sought |-> sought])
        BY <3>1 DEF Refer
      <4>2. [referrer |-> r, sought |-> sought] \in ReferenceSet
        BY <1>1, ResolverParts DEF ReferenceSet
      <4> HIDE DEF ReferenceSet
      <4> QED BY <1>1, <4>1, <4>2, ResolverParts
    <3>2. CASE UNCHANGED incoming
      BY <1>1, <3>2, ResolverParts
    <3> QED BY <1>2, <3>1, <3>2 DEF Project, WindowEnds, Expires, Edited, rvars
  <2>3. applied' \in 0..Len(events)
    BY <1>1, <1>2, ResolverParts DEF Project, WindowEnds, Expires, Refer, Edited, rvars
  <2>4. remote' \in Nat \ {0}
    BY <1>1, <1>2, ResolverParts DEF Project, WindowEnds, Expires, Refer, Edited, rvars
  <2> QED BY <2>1, <2>2, <2>3, <2>4, ResolverBeside
<1>3. CASE RestartResolver
  <2>1. restarts' # 0 /\ restarts' \in Nat
    BY <1>1, <1>3, ResolverParts DEF RestartResolver
  <2>2. applied' \in 0..Len(events') /\ read' \in 0..Len(incoming') /\ queue' \in Seq(ReferenceSet)
    BY <1>1, <1>3, ResolverParts DEF RestartResolver
  <2>3. ResolverTyped'
    BY <1>1, <1>3, <2>1, <2>2 DEF RestartResolver, ResolverTyped, TaskIsAt
  <2> QED BY <2>1, <2>3 DEF ResolverInv
<1> QED BY <1>2, <1>3, ResolverReads, ResolverLooks, ResolverAnswered, ResolverFeeds, ResolverLeaves DEF ResolverNext

\* In a life that loses no reference, whatever the server answers and however late the
\* table is: when nothing is left to do, what is known of the object was fed back, or
\* its server has refused it.
THEOREM QuietIsResolved == Spec => []QuietMeansResolved
<1>1. ASSUME Init PROVE ResolverInv
  <2>1. ResolverInit
    BY <1>1 DEF Init
  <2>2. Len(incoming) = 0 /\ Len(events) = 0 /\ DOMAIN events = {}
    BY <2>1 DEF ResolverInit
  <2>3. ResolverTyped
    BY <2>1, <2>2 DEF ResolverInit, ResolverTyped, TaskIsAt
  <2>4. NothingLost
    BY <2>1, <2>2 DEF ResolverInit, NothingLost
  <2> QED BY <2>3, <2>4 DEF ResolverInv
<1>2. ResolverInv /\ [Next]_bvars => ResolverInv'
  <2>1. [Next]_bvars => [ResolverNext]_rvars
    BY DEF Next, bvars, rvars
  <2> QED BY <2>1, ResolverStep
<1>3. ASSUME ResolverInv PROVE QuietMeansResolved
  <2>1. SUFFICES ASSUME Settled, incoming # <<>>, restarts = 0, ~failed,
                        \A i \in DOMAIN events : events[i].state \notin {"failed", "not_found", "tombstone"}
                 PROVE  Row.version \in fed
    BY DEF QuietMeansResolved
  <2>2. ResolverTyped /\ NothingLost
    BY <1>3, <2>1 DEF ResolverInv
  <2>3. task = <<>> /\ queue = <<>> /\ read = Len(incoming) /\ applied = Len(events)
    BY <2>1 DEF Settled
  <2>4. read # 0
    BY <2>1, <2>2, <2>3, ResolverParts
  <2>5. HasAnswer
    BY <2>2, <2>3, <2>4 DEF NothingLost, IsHeld
  <2>6. \A i \in DOMAIN events : events[i].state \in {"attempting", "succeeded"}
    BY <2>1, <2>2, ResolverParts, ResolutionParts
  <2>7. \E i \in 1..applied : events[i].state \in {"succeeded", "tombstone"}
    BY <2>2, <2>3, <2>5, <2>6, ResolverParts DEF HasAnswer
  <2>8. PICK i \in 1..applied : events[i].state \in {"succeeded", "tombstone"} /\ events[i].version = Row.version
    BY <2>2, <2>7, VersionIsRecorded
  <2>9. i \in DOMAIN events /\ events[i].state = "succeeded"
    BY <2>2, <2>3, <2>6, <2>8, ResolverParts
  <2> QED BY <2>2, <2>3, <2>8, <2>9 DEF NothingLost, TaskIsAt
<1> QED BY <1>1, <1>2, <1>3, PTL DEF Spec

-----------------------------------------------------------------------------
(***************************************************************************)
(* profile_importer.  What an import compares the page with is what the    *)
(* topic came to at the place where it was read, and that place stays      *)
(* known: with nothing in between, the events of the import turn the one   *)
(* profile into the other, and a user is created only by who had read that *)
(* she was not there.                                                      *)
(***************************************************************************)
ProfileSet == [Fields -> Values \cup Nat]
UserEventSet == [type : {"created", "deleted"} \cup Fields, profile : ProfileSet, seen : Nat]
FileSet == [field : Images, source : Values \cup Nat, drawn : Nat]
HavingRead == {"media", "avatar", "header", "publish", "done"}
ImportSet ==
  [at : {"idle", "users"} \cup HavingRead, profile : ProfileSet, current : Seq(ProfileSet), seen : Nat, known : Nat, sent : Nat]

ImportsTyped ==
  /\ page \in ProfileSet /\ drawn \in [Images -> Nat] /\ files \in Seq(FileSet)
  /\ userLog \in Seq(UserEventSet) /\ import \in [Importers -> ImportSet]

ReadAt(n) == ReadBut({"header"}, SubSeq(userLog, 1, n))
ReadIsKept == \A i \in Importers : import[i].at \in HavingRead =>
                import[i].seen <= Len(userLog) /\ import[i].current = ReadAt(import[i].seen)
SentIsThere == \A i \in Importers : import[i].at = "done" => import[i].seen + import[i].sent <= Len(userLog)
CreatedIfAbsent == \A j \in DOMAIN userLog : userLog[j].type = "created" =>
                     userLog[j].seen < j /\ ReadAt(userLog[j].seen) = <<>>

ImporterInv == ImportsTyped /\ ReadIsKept /\ SentIsThere /\ CreatedIfAbsent /\ ImportedAsFetched

\* What a log comes to exists step by step.
ReadsOn(T, ignored, told) ==
  /\ T \in [0..Len(told) -> Seq(ProfileSet)] /\ T[0] = <<>>
  /\ \A n \in 1..Len(told) : T[n] = IF told[n].type \in ignored THEN T[n - 1] ELSE Apply(T[n - 1], told[n])

LEMMA ApplyTyped ==
  ASSUME NEW state \in Seq(ProfileSet), NEW e \in UserEventSet
  PROVE  Apply(state, e) \in Seq(ProfileSet)
<1>1. e.type \in {"created", "deleted"} \cup Fields /\ e.profile \in ProfileSet
  BY DEF UserEventSet
<1>2. e.type \in Fields /\ state # <<>> => [state[1] EXCEPT ![e.type] = e.profile[e.type]] \in ProfileSet
  <2>1. SUFFICES ASSUME e.type \in Fields, state # <<>> PROVE [state[1] EXCEPT ![e.type] = e.profile[e.type]] \in ProfileSet
    OBVIOUS
  <2>2. state[1] \in ProfileSet
    BY <2>1
  <2> QED BY <1>1, <2>1, <2>2 DEF ProfileSet
<1>3. CASE e.type = "created"
  BY <1>1, <1>3 DEF Apply
<1>4. CASE e.type # "created" /\ (e.type = "deleted" \/ state = <<>>)
  BY <1>4 DEF Apply
<1>5. CASE e.type # "created" /\ e.type # "deleted" /\ state # <<>>
  <2>1. Apply(state, e) = <<[state[1] EXCEPT ![e.type] = e.profile[e.type]]>>
    BY <1>5 DEF Apply
  <2> QED BY <1>1, <1>2, <1>5, <2>1
<1> QED BY <1>3, <1>4, <1>5

LEMMA ReadButIs ==
  ASSUME NEW ignored, NEW told \in Seq(UserEventSet)
  PROVE  \E T : ReadsOn(T, ignored, told) /\ ReadBut(ignored, told) = T[Len(told)]
<1> DEFINE N == Len(told)
           V == Seq(ProfileSet)
           Told(state, n) == IF told[n].type \in ignored THEN state ELSE Apply(state, told[n])
           step == [n \in 1..N |-> [state \in V |-> Told(state, n)]]
           Is(f) == f = [n \in 0..N |-> IF n = 0 THEN <<>>
                                        ELSE IF told[n].type \in ignored THEN f[n - 1] ELSE Apply(f[n - 1], told[n])]
<1>1. <<>> \in V /\ N \in Nat
  OBVIOUS
<1>2. \A n \in 1..N : \A state \in V : Told(state, n) \in V
  BY ApplyTyped
<1>3. step \in [1..N -> [V -> V]] /\ \A n \in 1..N : \A state \in V : step[n][state] = Told(state, n)
  BY <1>2
<1> HIDE DEF step, N, V, Is, Told
<1>4. PICK f \in [0..N -> V] : f[0] = <<>> /\ \A n \in 1..N : f[n] = step[n][f[n - 1]]
  <2>1. \E f \in [0..N -> V] : IsRecursion(f, N, <<>>, step)
    BY <1>1, <1>3, RecursionExists
  <2> QED BY <2>1 DEF IsRecursion
<1>5. ASSUME NEW n \in 1..N PROVE f[n] = Told(f[n - 1], n)
  <2>1. f[n - 1] \in V
    BY <1>1
  <2> QED BY <1>3, <1>4, <2>1
<1>6. f = [n \in 0..N |-> IF n = 0 THEN <<>> ELSE IF told[n].type \in ignored THEN f[n - 1] ELSE Apply(f[n - 1], told[n])]
  <2>1. \A n \in 0..N : f[n] = IF n = 0 THEN <<>> ELSE Told(f[n - 1], n)
    BY <1>1, <1>4, <1>5
  <2> QED BY <2>1 DEF Told
<1>7. Is(f)
  BY <1>6 DEF Is
<1> DEFINE T == CHOOSE h : Is(h)
<1>8. ReadBut(ignored, told) = T[N]
  BY DEF ReadBut, Is, N
<1>9. Is(T)
  BY <1>7
<1> HIDE DEF T
<1>10. T = [n \in 0..N |-> IF n = 0 THEN <<>> ELSE Told(T[n - 1], n)]
  BY <1>9 DEF Is, Told
<1>11. T[0] = <<>> /\ \A n \in 1..N : T[n] = Told(T[n - 1], n)
  BY <1>1, <1>10
<1> DEFINE S == {n \in Nat : n <= N => T[n] \in V}
<1>12. 0 \in S
  BY <1>1, <1>11
<1>13. ASSUME NEW n \in Nat, n \in S PROVE n + 1 \in S
  <2>1. SUFFICES ASSUME n + 1 <= N PROVE T[n + 1] \in V
    OBVIOUS
  <2>2. n + 1 \in 1..N /\ (n + 1) - 1 = n /\ T[n] \in V
    BY <1>1, <1>13, <2>1
  <2>3. T[n + 1] = Told(T[n], n + 1)
    BY <1>11, <2>2
  <2> QED BY <1>2, <2>2, <2>3
<1> HIDE DEF S
<1>14. Nat \subseteq S
  BY <1>12, <1>13, SetInduction
<1>15. \A n \in 0..N : T[n] \in V
  BY <1>1, <1>14 DEF S
<1>16. T \in [0..N -> V]
  BY <1>10, <1>15
<1>17. ReadsOn(T, ignored, told)
  BY <1>11, <1>16 DEF ReadsOn, Told, N, V
<1> QED BY <1>8, <1>17 DEF N

\* Two logs that begin alike come to the same so far.
Alongside(told, more) == Len(told) <= Len(more) /\ \A n \in 1..Len(told) : more[n] = told[n]

LEMMA SameSoFar ==
  ASSUME NEW ignored, NEW told \in Seq(UserEventSet), NEW more \in Seq(UserEventSet), Alongside(told, more),
         NEW T, ReadsOn(T, ignored, told), NEW U, ReadsOn(U, ignored, more)
  PROVE  \A n \in 0..Len(told) : U[n] = T[n]
<1> DEFINE N == Len(told)
           S == {n \in Nat : n <= N => U[n] = T[n]}
<1>1. N \in Nat /\ Len(more) \in Nat /\ N <= Len(more)
  BY DEF Alongside
<1>2. 0 \in S
  BY DEF ReadsOn
<1>3. ASSUME NEW n \in Nat, n \in S PROVE n + 1 \in S
  <2>1. SUFFICES ASSUME n + 1 <= N PROVE U[n + 1] = T[n + 1]
    OBVIOUS
  <2>2. n + 1 \in 1..N /\ n + 1 \in 1..Len(more) /\ (n + 1) - 1 = n /\ U[n] = T[n]
    BY <1>1, <1>3, <2>1
  <2>3. more[n + 1] = told[n + 1]
    BY <2>2 DEF Alongside
  <2>4. T[n + 1] = IF told[n + 1].type \in ignored THEN T[n] ELSE Apply(T[n], told[n + 1])
    BY <2>2 DEF ReadsOn
  <2>5. U[n + 1] = IF more[n + 1].type \in ignored THEN U[n] ELSE Apply(U[n], more[n + 1])
    BY <2>2 DEF ReadsOn
  <2> QED BY <2>2, <2>3, <2>4, <2>5
<1> HIDE DEF S
<1>4. Nat \subseteq S
  BY <1>2, <1>3, SetInduction
<1> QED BY <1>1, <1>4 DEF S

\* An event more.
LEMMA ReadMore ==
  ASSUME NEW ignored, NEW told \in Seq(UserEventSet), NEW e \in UserEventSet
  PROVE  ReadBut(ignored, Append(told, e)) =
           IF e.type \in ignored THEN ReadBut(ignored, told) ELSE Apply(ReadBut(ignored, told), e)
<1> DEFINE more == Append(told, e)
           n == Len(told)
<1>1. /\ more \in Seq(UserEventSet) /\ Len(more) = n + 1 /\ n \in Nat
      /\ \A k \in 1..n : more[k] = told[k]
      /\ more[n + 1] = e
  BY AppendProperties
<1> HIDE DEF more
<1>2. PICK T : ReadsOn(T, ignored, told) /\ ReadBut(ignored, told) = T[n]
  BY ReadButIs
<1>3. PICK U : ReadsOn(U, ignored, more) /\ ReadBut(ignored, more) = U[n + 1]
  BY <1>1, ReadButIs
<1>4. Alongside(told, more)
  BY <1>1 DEF Alongside
<1>5. \A k \in 0..Len(told) : U[k] = T[k]
  BY <1>1, <1>2, <1>3, <1>4, SameSoFar
<1>6. U[n + 1] = IF more[n + 1].type \in ignored THEN U[n] ELSE Apply(U[n], more[n + 1])
  <2>1. n + 1 \in 1..Len(more) /\ (n + 1) - 1 = n
    BY <1>1
  <2> QED BY <1>3, <2>1 DEF ReadsOn
<1>7. U[n] = T[n]
  BY <1>1, <1>5
<1>8. ReadBut(ignored, more) = IF e.type \in ignored THEN ReadBut(ignored, told) ELSE Apply(ReadBut(ignored, told), e)
  BY <1>1, <1>2, <1>3, <1>6, <1>7
<1> QED BY <1>8 DEF more

LEMMA ReadNothing == \A ignored : ReadBut(ignored, <<>>) = <<>>
<1> SUFFICES ASSUME NEW ignored PROVE ReadBut(ignored, <<>>) = <<>>
  OBVIOUS
<1>1. <<>> \in Seq(UserEventSet) /\ Len(<<>>) = 0
  OBVIOUS
<1>2. PICK T : ReadsOn(T, ignored, <<>>) /\ ReadBut(ignored, <<>>) = T[Len(<<>>)]
  BY <1>1, ReadButIs
<1> QED BY <1>1, <1>2 DEF ReadsOn

\* A profile that is not there was deleted since it was created.
AbsentIsDeleted(told) ==
  \A k \in 1..Len(told) : told[k].type = "created" => \E d \in k..Len(told) : told[d].type = "deleted"
LEMMA AbsentMeans ==
  ASSUME NEW told \in Seq(UserEventSet), ReadBut({"header"}, told) = <<>>
  PROVE  AbsentIsDeleted(told)
<1> DEFINE N == Len(told)
           Upto(n) == \A k \in 1..n : told[k].type = "created" => \E d \in k..n : told[d].type = "deleted"
<1>1. N \in Nat
  OBVIOUS
<1>2. PICK T : ReadsOn(T, {"header"}, told) /\ ReadBut({"header"}, told) = T[N]
  BY ReadButIs
<1> DEFINE S == {n \in Nat : n <= N /\ T[n] = <<>> => Upto(n)}
<1>3. 0 \in S
  OBVIOUS
<1>4. ASSUME NEW n \in Nat, n \in S PROVE n + 1 \in S
  <2>1. SUFFICES ASSUME n + 1 <= N, T[n + 1] = <<>> PROVE Upto(n + 1)
    OBVIOUS
  <2> DEFINE e == told[n + 1]
  <2>2. n + 1 \in 1..N /\ (n + 1) - 1 = n /\ n \in 0..N /\ n <= N
    BY <1>1, <2>1
  <2>3. e \in UserEventSet
    BY <2>2
  <2>4. e.type \in {"created", "deleted"} \cup Fields /\ "created" \notin Fields
    BY <2>3 DEF UserEventSet, Fields, Images
  <2>5. T[n + 1] = IF e.type \in {"header"} THEN T[n] ELSE Apply(T[n], e)
    BY <1>2, <2>2 DEF ReadsOn
  <2> HIDE DEF e
  <2>6. CASE e.type = "deleted"
    <3>1. SUFFICES ASSUME NEW k \in 1..n + 1 PROVE \E d \in k..n + 1 : told[d].type = "deleted"
      OBVIOUS
    <3>2. n + 1 \in k..n + 1
      BY <2>2
    <3> QED BY <2>6, <3>2 DEF e
  <2>7. CASE e.type # "deleted"
    <3>1. e.type # "created" /\ T[n] = <<>>
      BY <2>1, <2>5, <2>7 DEF Apply
    <3> HIDE DEF Upto
    <3>2. Upto(n)
      BY <1>4, <2>2, <3>1
    <3> USE DEF Upto
    <3>3. ASSUME NEW k \in 1..n + 1, told[k].type = "created" PROVE \E d \in k..n + 1 : told[d].type = "deleted"
      <4>1. k # n + 1
        BY <3>1, <3>3 DEF e
      <4>2. k \in 1..n
        BY <2>2, <4>1
      <4>3. PICK d \in k..n : told[d].type = "deleted"
        BY <3>2, <3>3, <4>2
      <4>4. d \in k..n + 1
        BY <2>2
      <4> QED BY <4>3, <4>4
    <3> QED BY <3>3
  <2> QED BY <2>6, <2>7
<1> HIDE DEF S
<1>5. Nat \subseteq S
  BY <1>3, <1>4, SetInduction
<1> HIDE DEF Upto
<1>6. Upto(N)
  BY <1>1, <1>2, <1>5 DEF S
<1> QED BY <1>6 DEF Upto, AbsentIsDeleted

\* Everyone else knows what the importer knows, but for the header.
SameButHeader(P, Q) ==
  /\ P = <<>> <=> Q = <<>>
  /\ P # <<>> => /\ P = <<P[1]>> /\ Q = <<Q[1]>> /\ P[1] \in ProfileSet /\ Q[1] \in ProfileSet
                 /\ \A f \in Fields \ {"header"} : P[1][f] = Q[1][f]

LEMMA ApplyKeepsSame ==
  ASSUME NEW P, NEW Q, SameButHeader(P, Q), NEW e \in UserEventSet
  PROVE  SameButHeader(Apply(P, e), IF e.type \in {"header"} THEN Q ELSE Apply(Q, e))
<1>1. e.type \in {"created", "deleted"} \cup Fields /\ e.profile \in ProfileSet /\ "created" # "header" /\ "deleted" # "header"
  BY DEF UserEventSet
<1>2. CASE e.type = "created"
  BY <1>1, <1>2 DEF Apply, SameButHeader
<1>3. CASE e.type = "deleted" \/ (P = <<>> /\ e.type # "created")
  <2>1. Apply(P, e) = <<>> /\ (IF e.type \in {"header"} THEN Q ELSE Apply(Q, e)) = <<>>
    BY <1>1, <1>3 DEF Apply, SameButHeader
  <2> QED BY <2>1 DEF SameButHeader
<1>4. CASE e.type \in Fields /\ P # <<>> /\ e.type # "created" /\ e.type # "deleted"
  <2> DEFINE p == [P[1] EXCEPT ![e.type] = e.profile[e.type]]
             q == [Q[1] EXCEPT ![e.type] = e.profile[e.type]]
  <2>1. P[1] \in ProfileSet /\ Q[1] \in ProfileSet /\ Q # <<>> /\ Q = <<Q[1]>> /\ \A f \in Fields \ {"header"} : P[1][f] = Q[1][f]
    BY <1>4 DEF SameButHeader
  <2>2. Apply(P, e) = <<p>> /\ Apply(Q, e) = <<q>>
    BY <1>4, <2>1 DEF Apply
  <2>3. p \in ProfileSet /\ q \in ProfileSet
    BY <1>1, <1>4, <2>1 DEF ProfileSet
  <2>4. \A f \in Fields : p[f] = (IF f = e.type THEN e.profile[f] ELSE P[1][f]) /\ q[f] = (IF f = e.type THEN e.profile[f] ELSE Q[1][f])
    BY <1>4, <2>1 DEF ProfileSet
  <2> HIDE DEF p, q
  <2>5. CASE e.type = "header"
    <3>1. \A f \in Fields \ {"header"} : p[f] = Q[1][f]
      BY <2>1, <2>4, <2>5
    <3> QED BY <2>1, <2>2, <2>3, <2>5, <3>1 DEF SameButHeader
  <2>6. CASE e.type # "header"
    <3>1. \A f \in Fields \ {"header"} : p[f] = q[f]
      BY <2>1, <2>4
    <3> QED BY <2>2, <2>3, <2>6, <3>1 DEF SameButHeader
  <2> QED BY <2>5, <2>6
<1> QED BY <1>1, <1>2, <1>3, <1>4

LEMMA ReadsAgree ==
  ASSUME NEW told \in Seq(UserEventSet)
  PROVE  SameButHeader(ReadBut({}, told), ReadBut({"header"}, told))
<1> DEFINE N == Len(told)
<1>1. N \in Nat
  OBVIOUS
<1>2. PICK T : ReadsOn(T, {}, told) /\ ReadBut({}, told) = T[N]
  BY ReadButIs
<1>3. PICK U : ReadsOn(U, {"header"}, told) /\ ReadBut({"header"}, told) = U[N]
  BY ReadButIs
<1> DEFINE S == {n \in Nat : n <= N => SameButHeader(T[n], U[n])}
<1>4. 0 \in S
  BY <1>2, <1>3 DEF ReadsOn, SameButHeader
<1>5. ASSUME NEW n \in Nat, n \in S PROVE n + 1 \in S
  <2>1. SUFFICES ASSUME n + 1 <= N PROVE SameButHeader(T[n + 1], U[n + 1])
    OBVIOUS
  <2>2. n + 1 \in 1..N /\ (n + 1) - 1 = n /\ SameButHeader(T[n], U[n])
    BY <1>1, <1>5, <2>1
  <2>3. told[n + 1] \in UserEventSet
    BY <2>2
  <2>4. T[n + 1] = Apply(T[n], told[n + 1])
    BY <1>2, <2>2 DEF ReadsOn
  <2>5. U[n + 1] = IF told[n + 1].type \in {"header"} THEN U[n] ELSE Apply(U[n], told[n + 1])
    BY <1>3, <2>2 DEF ReadsOn
  <2> QED BY <2>2, <2>3, <2>4, <2>5, ApplyKeepsSame
<1> HIDE DEF S
<1>6. Nat \subseteq S
  BY <1>4, <1>5, SetInduction
<1> QED BY <1>1, <1>2, <1>3, <1>6 DEF S

-----------------------------------------------------------------------------
LEMMA ImportParts ==
  ASSUME NEW r \in ImportSet
  PROVE  /\ r.at \in {"idle", "users"} \cup HavingRead /\ r.profile \in ProfileSet /\ r.current \in Seq(ProfileSet)
         /\ r.seen \in Nat /\ r.known \in Nat /\ r.sent \in Nat
BY DEF ImportSet

LEMMA TypesOfImports ==
  ASSUME ImportsTyped
  PROVE  /\ page \in ProfileSet /\ drawn \in [Images -> Nat] /\ files \in Seq(FileSet)
         /\ userLog \in Seq(UserEventSet) /\ Len(userLog) \in Nat /\ DOMAIN userLog = 1..Len(userLog)
         /\ import \in [Importers -> ImportSet]
BY DEF ImportsTyped

\* What holds of each process.
AsFetched(i) ==
  (import[i].at = "done" /\ Len(userLog) = import[i].seen + import[i].sent)
  => /\ Profile # <<>>
     /\ \A f \in Fields : \/ Profile[1][f] = import[i].profile[f]
                          \/ f = "header" /\ import[i].current # <<>> /\ import[i].current[1][f] = import[i].profile[f]
KeptOf(i) == /\ import[i].at \in HavingRead => import[i].seen <= Len(userLog) /\ import[i].current = ReadAt(import[i].seen)
             /\ import[i].at = "done" => import[i].seen + import[i].sent <= Len(userLog)
             /\ AsFetched(i)

LEMMA OfEachImporter == ImporterInv <=> ImportsTyped /\ CreatedIfAbsent /\ \A i \in Importers : KeptOf(i)
BY DEF ImporterInv, ReadIsKept, SentIsThere, ImportedAsFetched, KeptOf, AsFetched, At

\* Events that are published leave what was read at a place.
ReadsStay == \A n \in 0..Len(userLog) : ReadAt(n)' = ReadAt(n)

LEMMA UserLogGrows ==
  ASSUME ImportsTyped, NEW es \in Seq(UserEventSet), userLog' = userLog \o es
  PROVE  /\ userLog' \in Seq(UserEventSet) /\ Len(userLog') = Len(userLog) + Len(es) /\ Len(es) \in Nat
         /\ \A n \in 1..Len(userLog) : userLog'[n] = userLog[n]
         /\ \A n \in 1..Len(es) : userLog'[Len(userLog) + n] = es[n]
         /\ ReadsStay
<1>1. userLog \in Seq(UserEventSet) /\ Len(userLog) \in Nat
  BY TypesOfImports
<1>2. /\ userLog' \in Seq(UserEventSet) /\ Len(userLog') = Len(userLog) + Len(es) /\ Len(es) \in Nat
      /\ \A n \in 1..Len(userLog) : userLog'[n] = userLog[n]
      /\ \A n \in 1..Len(es) : userLog'[Len(userLog) + n] = es[n]
  BY <1>1
<1>3. ASSUME NEW n \in 0..Len(userLog) PROVE ReadAt(n)' = ReadAt(n)
  <2>1. SubSeq(userLog \o es, 1, n) = SubSeq(userLog, 1, n)
    <3>1. CASE n = 0
      BY <3>1, SubSeqEmpty
    <3>2. CASE n # 0
      <4>1. n \in 1..Len(userLog) /\ 1 \in 1..Len(userLog)
        BY <1>1, <3>2
      <4> QED BY <1>1, <4>1, SubSeqOfConcat1
    <3> QED BY <3>1, <3>2
  <2>2. SubSeq(userLog', 1, n) = SubSeq(userLog, 1, n)
    BY <2>1
  <2> QED BY <2>2 DEF ReadAt
<1> QED BY <1>2, <1>3 DEF ReadsStay

LEMMA OthersAreKept ==
  ASSUME ImporterInv, NEW j \in Importers, import'[j] = import[j], NEW es \in Seq(UserEventSet), userLog' = userLog \o es
  PROVE  KeptOf(j)'
<1>1. ImportsTyped /\ KeptOf(j)
  BY OfEachImporter
<1>2. /\ Len(userLog') = Len(userLog) + Len(es) /\ Len(es) \in Nat /\ Len(userLog) \in Nat
      /\ ReadsStay
  BY <1>1, UserLogGrows, TypesOfImports
<1> DEFINE r == import[j]
<1>3. r \in ImportSet /\ import'[j] = r
  BY <1>1, TypesOfImports
<1>4. r.seen \in Nat /\ r.sent \in Nat
  BY <1>3, ImportParts
<1>5. r.at \in HavingRead => r.seen <= Len(userLog') /\ r.current = ReadAt(r.seen)'
  <2>1. SUFFICES ASSUME r.at \in HavingRead PROVE r.seen <= Len(userLog') /\ r.current = ReadAt(r.seen)'
    OBVIOUS
  <2>2. r.seen <= Len(userLog) /\ r.current = ReadAt(r.seen)
    BY <1>1, <2>1 DEF KeptOf
  <2>3. r.seen \in 0..Len(userLog)
    BY <1>2, <1>4, <2>2
  <2>4. ReadAt(r.seen)' = ReadAt(r.seen)
    BY <1>2, <2>3 DEF ReadsStay
  <2> QED BY <1>2, <1>4, <2>2, <2>4
<1>6. r.at = "done" => r.seen + r.sent <= Len(userLog') /\ (Len(userLog') = r.seen + r.sent => Len(es) = 0)
  <2>1. r.at = "done" => r.seen + r.sent <= Len(userLog)
    BY <1>1 DEF KeptOf
  <2> HIDE DEF r
  <2> QED BY <1>2, <1>4, <2>1
<1>7. AsFetched(j)'
  <2>1. SUFFICES ASSUME r.at = "done", Len(userLog') = r.seen + r.sent PROVE AsFetched(j)'
    BY <1>3 DEF AsFetched
  <2>2. es = <<>>
    BY <1>6, <2>1
  <2>3. userLog' = userLog
    BY <1>1, <2>2, TypesOfImports
  <2>4. Profile' = Profile
    BY <2>3 DEF Profile
  <2> QED BY <1>1, <1>3, <2>3, <2>4 DEF AsFetched, KeptOf
<1>8. (import[j].at \in HavingRead => import[j].seen <= Len(userLog) /\ import[j].current = ReadAt(import[j].seen))'
  BY <1>3, <1>5 DEF ReadAt
<1> QED BY <1>3, <1>6, <1>7, <1>8 DEF KeptOf

LEMMA CreatedStays ==
  ASSUME ImporterInv, NEW es \in Seq(UserEventSet), userLog' = userLog \o es,
         \A k \in 1..Len(es) : es[k].type = "created" => es[k].seen <= Len(userLog) /\ ReadAt(es[k].seen) = <<>>
  PROVE  CreatedIfAbsent'
<1>1. ImportsTyped /\ CreatedIfAbsent
  BY DEF ImporterInv
<1>2. /\ userLog' \in Seq(UserEventSet) /\ Len(userLog') = Len(userLog) + Len(es) /\ Len(es) \in Nat /\ Len(userLog) \in Nat
      /\ \A n \in 1..Len(userLog) : userLog'[n] = userLog[n]
      /\ \A n \in 1..Len(es) : userLog'[Len(userLog) + n] = es[n]
      /\ ReadsStay
  BY <1>1, UserLogGrows, TypesOfImports
<1>3. ASSUME NEW j \in 1..Len(userLog'), userLog'[j].type = "created", NEW n, n = userLog'[j].seen
      PROVE  n < j /\ ReadAt(n)' = <<>>
  <2>1. userLog'[j] \in UserEventSet
    BY <1>2
  <2>2. n \in Nat
    BY <1>3, <2>1 DEF UserEventSet
  <2>3. CASE j \in 1..Len(userLog)
    <3>1. n < j /\ ReadAt(n) = <<>>
      BY <1>1, <1>2, <1>3, <2>3, TypesOfImports DEF CreatedIfAbsent
    <3>2. n \in 0..Len(userLog)
      BY <1>2, <2>2, <2>3, <3>1
    <3>3. ReadAt(n)' = <<>>
      BY <1>2, <3>1, <3>2 DEF ReadsStay
    <3> QED BY <3>1, <3>3
  <2>4. CASE j \notin 1..Len(userLog)
    <3>1. PICK k \in 1..Len(es) : j = Len(userLog) + k
      <4>1. j - Len(userLog) \in 1..Len(es) /\ j = Len(userLog) + (j - Len(userLog))
        BY <1>2, <2>4
      <4> QED BY <4>1
    <3>2. userLog'[j] = es[k]
      BY <1>2, <3>1
    <3>3. n <= Len(userLog) /\ ReadAt(n) = <<>>
      BY <1>3, <3>2
    <3>4. n < j /\ n \in 0..Len(userLog)
      BY <1>2, <2>2, <3>1, <3>3
    <3>5. ReadAt(n)' = <<>>
      BY <1>2, <3>3, <3>4 DEF ReadsStay
    <3> QED BY <3>4, <3>5
  <2> QED BY <2>3, <2>4
<1>4. DOMAIN userLog' = 1..Len(userLog')
  BY <1>2
<1>5. ASSUME NEW j \in DOMAIN userLog', userLog'[j].type = "created"
      PROVE  userLog'[j].seen < j /\ ReadBut({"header"}, SubSeq(userLog', 1, userLog'[j].seen)) = <<>>
  <2>1. PICK n : n = userLog'[j].seen
    OBVIOUS
  <2>2. n < j /\ ReadAt(n)' = <<>>
    BY <1>3, <1>4, <1>5, <2>1
  <2> QED BY <2>1, <2>2 DEF ReadAt
<1> QED BY <1>5 DEF CreatedIfAbsent, ReadAt

-----------------------------------------------------------------------------
\* What an event of the difference makes of a field, and leaves of the others.
EditedTo(P, Q, r, f) ==
  /\ Q # <<>> /\ Q[1] \in ProfileSet
  /\ Q[1][f] = IF r.profile[f] # r.current[1][f] THEN r.profile[f] ELSE P[1][f]
  /\ \A g \in Fields \ {f} : Q[1][g] = P[1][g]
LEMMA EditRead ==
  ASSUME NEW r \in ImportSet, NEW f \in Fields, NEW told \in Seq(UserEventSet), NEW P, P = ReadBut({}, told), P # <<>>
  PROVE  /\ told \o EditOf(r, f) \in Seq(UserEventSet) /\ EditOf(r, f) \in Seq(UserEventSet)
         /\ EditedTo(P, ReadBut({}, told \o EditOf(r, f)), r, f)
<1> DEFINE e == UserEvent(r, f)
<1>1. e \in UserEventSet
  BY ImportParts DEF UserEvent, UserEventSet
<1>2. e.type = f /\ e.profile = r.profile /\ f # "created" /\ f # "deleted"
  BY DEF UserEvent, Fields, Images
<1> HIDE DEF e
<1>3. P[1] \in ProfileSet /\ P = <<P[1]>>
  BY ReadsAgree DEF SameButHeader
<1>4. CASE r.profile[f] = r.current[1][f]
  <2>1. EditOf(r, f) = <<>>
    BY <1>4 DEF EditOf
  <2>2. told \o <<>> = told
    BY ConcatEmptySeq
  <2> QED BY <1>3, <1>4, <2>1, <2>2 DEF EditedTo
<1>5. CASE r.profile[f] # r.current[1][f]
  <2> DEFINE q == [P[1] EXCEPT ![f] = r.profile[f]]
  <2>1. EditOf(r, f) = <<e>>
    BY <1>5 DEF EditOf, e
  <2>2. told \o <<e>> = Append(told, e)
    BY <1>1, AppendIsConcat
  <2>3. ReadBut({}, Append(told, e)) = Apply(P, e)
    <3>1. ReadBut({}, Append(told, e)) = IF e.type \in {} THEN ReadBut({}, told) ELSE Apply(ReadBut({}, told), e)
      BY <1>1, ReadMore
    <3> QED BY <3>1
  <2>4. Apply(P, e) = <<q>>
    BY <1>2 DEF Apply
  <2>5. q \in ProfileSet /\ q[f] = r.profile[f] /\ \A g \in Fields \ {f} : q[g] = P[1][g]
    BY <1>3, ImportParts DEF ProfileSet
  <2> HIDE DEF q
  <2>6. EditedTo(P, <<q>>, r, f)
    BY <1>5, <2>5 DEF EditedTo
  <2>7. told \o EditOf(r, f) \in Seq(UserEventSet) /\ EditOf(r, f) \in Seq(UserEventSet)
    BY <1>1, <2>1
  <2> QED BY <2>1, <2>2, <2>3, <2>4, <2>6, <2>7
<1> QED BY <1>4, <1>5

Appended(s, a, b, c, d) == s \o (((a \o b) \o c) \o d) = (((s \o a) \o b) \o c) \o d
Associate(q, t, u) == (q \o t) \o u = q \o (t \o u)
LEMMA AppendsAssociate == ASSUME NEW S PROVE \A q, t, u \in Seq(S) : Associate(q, t, u)
BY ConcatAssociative DEF Associate

LEMMA AppendsStay == ASSUME NEW S PROVE \A q, t \in Seq(S) : q \o t \in Seq(S)
BY ConcatProperties

LEMMA FourAppended ==
  ASSUME NEW S, NEW s \in Seq(S), NEW a \in Seq(S), NEW b \in Seq(S), NEW c \in Seq(S), NEW d \in Seq(S)
  PROVE  Appended(s, a, b, c, d)
<1>1. PICK v : v = a \o b
  OBVIOUS
<1>2. PICK w : w = v \o c
  OBVIOUS
<1>3. v \in Seq(S)
  BY <1>1, AppendsStay
<1>4. w \in Seq(S)
  BY <1>2, <1>3, AppendsStay
<1>5. Associate(s, a, b)
  BY AppendsAssociate
<1>6. Associate(s, v, c)
  BY <1>3, AppendsAssociate
<1>7. Associate(s, w, d)
  BY <1>4, AppendsAssociate
<1> QED BY <1>1, <1>2, <1>5, <1>6, <1>7 DEF Associate, Appended

\* The events of an import that has found a profile.
LEMMA DifferenceRead ==
  ASSUME NEW r \in ImportSet, NEW told \in Seq(UserEventSet), r.current = ReadBut({"header"}, told)
  PROVE  /\ DiffEvents(r) \in Seq(UserEventSet)
         /\ \A k \in 1..Len(DiffEvents(r)) :
              DiffEvents(r)[k].type = "created" => DiffEvents(r)[k].seen = r.seen /\ r.current = <<>>
         /\ ReadBut({}, told \o DiffEvents(r)) # <<>>
         /\ \A f \in Fields :
              \/ ReadBut({}, told \o DiffEvents(r))[1][f] = r.profile[f]
              \/ f = "header" /\ r.current # <<>> /\ r.current[1][f] = r.profile[f]
<1>1. r.seen \in Nat /\ r.profile \in ProfileSet
  BY ImportParts
<1>2. CASE r.current = <<>>
  <2> DEFINE e == UserEvent(r, "created")
  <2>1. e \in UserEventSet /\ e.seen = r.seen /\ e.type = "created" /\ e.profile = r.profile
    BY <1>1 DEF UserEvent, UserEventSet
  <2>2. DiffEvents(r) = <<e>>
    BY <1>2 DEF DiffEvents
  <2> HIDE DEF e
  <2>3. told \o <<e>> = Append(told, e)
    BY <2>1, AppendIsConcat
  <2>4. ReadBut({}, Append(told, e)) = Apply(ReadBut({}, told), e)
    <3>1. ReadBut({}, Append(told, e)) = IF e.type \in {} THEN ReadBut({}, told) ELSE Apply(ReadBut({}, told), e)
      BY <2>1, ReadMore
    <3> QED BY <3>1
  <2>5. Apply(ReadBut({}, told), e) = <<r.profile>>
    BY <2>1 DEF Apply
  <2>6. ReadBut({}, told \o DiffEvents(r)) = <<r.profile>>
    BY <2>2, <2>3, <2>4, <2>5
  <2>7. Len(<<e>>) = 1 /\ <<e>>[1] = e /\ <<e>> \in Seq(UserEventSet)
    BY <2>1
  <2> QED BY <1>2, <2>1, <2>2, <2>6, <2>7
<1>3. CASE r.current # <<>>
  <2> DEFINE a == EditOf(r, "text")
             b == EditOf(r, "avatar")
             c == EditOf(r, "header")
             d == EditOf(r, "cv")
             P0 == ReadBut({}, told)
             P1 == ReadBut({}, told \o a)
             P2 == ReadBut({}, (told \o a) \o b)
             P3 == ReadBut({}, ((told \o a) \o b) \o c)
             P4 == ReadBut({}, (((told \o a) \o b) \o c) \o d)
  <2>1. Fields = {"text", "avatar", "header", "cv"}
    BY DEF Fields, Images
  <2>2. DiffEvents(r) = ((a \o b) \o c) \o d
    BY <1>3 DEF DiffEvents
  <2>3. P0 # <<>> /\ \A f \in Fields \ {"header"} : P0[1][f] = r.current[1][f]
    BY <1>3, ReadsAgree DEF SameButHeader
  <2>4. told \o a \in Seq(UserEventSet) /\ a \in Seq(UserEventSet) /\ EditedTo(P0, P1, r, "text")
    BY <2>1, <2>3, EditRead
  <2>5. (told \o a) \o b \in Seq(UserEventSet) /\ b \in Seq(UserEventSet) /\ EditedTo(P1, P2, r, "avatar")
    <3>1. P1 # <<>>
      BY <2>4 DEF EditedTo
    <3> QED BY <2>1, <2>4, <3>1, EditRead
  <2>6. ((told \o a) \o b) \o c \in Seq(UserEventSet) /\ c \in Seq(UserEventSet) /\ EditedTo(P2, P3, r, "header")
    <3>1. P2 # <<>>
      BY <2>5 DEF EditedTo
    <3> QED BY <2>1, <2>5, <3>1, EditRead
  <2>7. d \in Seq(UserEventSet) /\ EditedTo(P3, P4, r, "cv")
    <3>1. P3 # <<>>
      BY <2>6 DEF EditedTo
    <3>2. PICK more : more = ((told \o a) \o b) \o c
      OBVIOUS
    <3>3. more \in Seq(UserEventSet) /\ P3 = ReadBut({}, more) /\ "cv" \in Fields
      BY <2>1, <2>6, <3>2
    <3> HIDE DEF a, b, c, P3
    <3>4. EditOf(r, "cv") \in Seq(UserEventSet) /\ EditedTo(P3, ReadBut({}, more \o EditOf(r, "cv")), r, "cv")
      BY <3>1, <3>3, EditRead
    <3> QED BY <3>2, <3>4
  <2> HIDE DEF P0, P1, P2, P3, P4
  <2>8. P4 # <<>>
    BY <2>7 DEF EditedTo
  <2>9. P4[1]["text"] = r.profile["text"]
    BY <2>1, <2>3, <2>4, <2>5, <2>6, <2>7 DEF EditedTo
  <2>10. P4[1]["avatar"] = r.profile["avatar"]
    BY <2>1, <2>3, <2>4, <2>5, <2>6, <2>7 DEF EditedTo
  <2>11. P4[1]["cv"] = r.profile["cv"]
    BY <2>1, <2>3, <2>4, <2>5, <2>6, <2>7 DEF EditedTo
  <2>12. P4[1]["header"] = r.profile["header"] \/ r.current[1]["header"] = r.profile["header"]
    BY <2>1, <2>6, <2>7 DEF EditedTo
  <2>13. told \o DiffEvents(r) = (((told \o a) \o b) \o c) \o d
    <3> HIDE DEF a, b, c, d
    <3>a. a \in Seq(UserEventSet) /\ b \in Seq(UserEventSet) /\ c \in Seq(UserEventSet) /\ d \in Seq(UserEventSet)
      BY <2>4, <2>5, <2>6, <2>7
    <3>1. Appended(told, a, b, c, d)
      BY <3>a, FourAppended
    <3> QED BY <2>2, <3>1 DEF Appended
  <2>14. \A f \in Fields : P4[1][f] = r.profile[f] \/ (f = "header" /\ r.current[1][f] = r.profile[f])
    BY <2>1, <2>9, <2>10, <2>11, <2>12
  <2>15. DiffEvents(r) \in Seq(UserEventSet)
    <3> HIDE DEF a, b, c, d
    <3> QED BY <2>2, <2>4, <2>5, <2>6, <2>7
  <2>16. \A k \in 1..Len(DiffEvents(r)) : DiffEvents(r)[k].type # "created"
    <3> DEFINE NoCreation(s) == \A k \in 1..Len(s) : s[k].type # "created"
    <3>1. ASSUME NEW f \in Fields PROVE NoCreation(EditOf(r, f))
      <4>1. UserEvent(r, f).type # "created"
        BY <2>1 DEF UserEvent
      <4> QED BY <4>1 DEF EditOf
    <3>2. NoCreation(a) /\ NoCreation(b) /\ NoCreation(c) /\ NoCreation(d)
      BY <2>1, <3>1
    <3>3. \A s, t \in Seq(UserEventSet) : NoCreation(s) /\ NoCreation(t) => NoCreation(s \o t) /\ s \o t \in Seq(UserEventSet)
      <4>1. SUFFICES ASSUME NEW s \in Seq(UserEventSet), NEW t \in Seq(UserEventSet), NoCreation(s), NoCreation(t)
                     PROVE  NoCreation(s \o t) /\ s \o t \in Seq(UserEventSet)
        OBVIOUS
      <4>2. /\ s \o t \in Seq(UserEventSet) /\ Len(s \o t) = Len(s) + Len(t) /\ Len(s) \in Nat /\ Len(t) \in Nat
            /\ \A k \in 1..Len(s) + Len(t) : (s \o t)[k] = IF k <= Len(s) THEN s[k] ELSE t[k - Len(s)]
        BY ConcatProperties
      <4>3. ASSUME NEW k \in 1..Len(s \o t) PROVE (s \o t)[k].type # "created"
        <5>1. CASE k <= Len(s)
          BY <4>1, <4>2, <5>1
        <5>2. CASE ~(k <= Len(s))
          <6>1. k - Len(s) \in 1..Len(t) /\ (s \o t)[k] = t[k - Len(s)]
            BY <4>2, <5>2
          <6> QED BY <4>1, <6>1
        <5> QED BY <5>1, <5>2
      <4> QED BY <4>2, <4>3
    <3> HIDE DEF NoCreation, a, b, c, d
    <3>4. NoCreation(a \o b) /\ a \o b \in Seq(UserEventSet)
      BY <2>4, <2>5, <3>2, <3>3
    <3>5. NoCreation((a \o b) \o c) /\ (a \o b) \o c \in Seq(UserEventSet)
      BY <2>6, <3>2, <3>3, <3>4
    <3>6. NoCreation(((a \o b) \o c) \o d)
      BY <2>7, <3>2, <3>3, <3>5
    <3> QED BY <2>2, <3>6 DEF NoCreation
  <2> HIDE DEF a, b, c, d
  <2>17. ReadBut({}, told \o DiffEvents(r)) = P4
    BY <2>13 DEF P4
  <2> QED BY <1>3, <2>8, <2>14, <2>15, <2>16, <2>17
<1> QED BY <1>2, <1>3

-----------------------------------------------------------------------------
LEMMA ImportStart == ImporterInit => ImporterInv
<1> SUFFICES ASSUME ImporterInit PROVE ImporterInv
  OBVIOUS
<1>1. PICK crew \in Crews : import = [i \in crew |-> NotImporting]
  BY DEF ImporterInit
<1>2. \A i \in Importers : import[i] = NotImporting
  BY <1>1 DEF Importers
<1>3. NotImporting \in ImportSet /\ NotImporting.at = "idle"
  <2>1. NoFields \in ProfileSet
    BY DEF NoFields, ProfileSet
  <2>2. <<>> \in Seq(ProfileSet)
    OBVIOUS
  <2> QED BY <2>1, <2>2 DEF NotImporting, ImportSet
<1>4. import \in [Importers -> ImportSet]
  BY <1>1, <1>3 DEF Importers
<1>5. page \in ProfileSet
  BY DEF ImporterInit, ProfileSet
<1>6. drawn \in [Images -> Nat] /\ files \in Seq(FileSet) /\ userLog \in Seq(UserEventSet) /\ DOMAIN userLog = {}
  BY DEF ImporterInit
<1>7. ImportsTyped
  BY <1>4, <1>5, <1>6 DEF ImportsTyped
<1>8. CreatedIfAbsent
  BY <1>6 DEF CreatedIfAbsent
<1>9. \A i \in Importers : KeptOf(i)
  BY <1>2, <1>3 DEF KeptOf, AsFetched, HavingRead
<1> QED BY <1>7, <1>8, <1>9, OfEachImporter

LEMMA OfEachAfter == ((ImportsTyped /\ CreatedIfAbsent /\ \A j \in Importers : KeptOf(j)) => ImporterInv)'
<1>1. (ImportsTyped /\ CreatedIfAbsent /\ \A j \in Importers : KeptOf(j)) => ImporterInv
  BY OfEachImporter
<1> QED BY <1>1, PTL

\* A step of one process.
LEMMA StepOfOne ==
  ASSUME ImporterInv, NEW es \in Seq(UserEventSet), userLog' = userLog \o es, NEW i \in Importers, NEW new \in ImportSet,
         import' = [import EXCEPT ![i] = new], KeptOf(i)', CreatedIfAbsent',
         page' = page, drawn' = drawn, files' \in Seq(FileSet)
  PROVE  ImporterInv'
<1>1. ImportsTyped
  BY OfEachImporter
<1>2. import \in [Importers -> ImportSet] /\ import' \in [Importers -> ImportSet] /\ \A j \in Importers \ {i} : import'[j] = import[j]
  BY <1>1, TypesOfImports
<1>3. Importers' = Importers
  BY <1>2 DEF Importers
<1>4. ImportsTyped'
  BY <1>1, <1>2, <1>3, UserLogGrows, TypesOfImports DEF ImportsTyped
<1>5. \A j \in Importers \ {i} : KeptOf(j)'
  BY <1>2, OthersAreKept
<1>6. \A j \in Importers' : KeptOf(j)'
  BY <1>3, <1>5
<1>7. ImportsTyped' /\ CreatedIfAbsent' /\ (\A j \in Importers : KeptOf(j))'
  BY <1>4, <1>6
<1>8. ((ImportsTyped /\ CreatedIfAbsent /\ \A j \in Importers : KeptOf(j)) => ImporterInv)'
  BY OfEachAfter
<1> QED BY <1>7, <1>8

LEMMA NothingPublished ==
  ASSUME ImporterInv, userLog' = userLog
  PROVE  /\ <<>> \in Seq(UserEventSet) /\ userLog' = userLog \o <<>> /\ CreatedIfAbsent' /\ ReadsStay
<1>1. ImportsTyped
  BY OfEachImporter
<1>2. userLog \o <<>> = userLog
  BY <1>1, TypesOfImports, ConcatEmptySeq
<1>3. <<>> \in Seq(UserEventSet) /\ Len(<<>>) = 0
  OBVIOUS
<1>4. CreatedIfAbsent'
  BY DEF ImporterInv, CreatedIfAbsent, ReadAt
<1> QED BY <1>1, <1>2, <1>3, <1>4, UserLogGrows

\* The page, its pictures and the topic change without the processes.
LEMMA OutsideStep ==
  ASSUME ImporterInv, NEW es \in Seq(UserEventSet), userLog' = userLog \o es, import' = import, CreatedIfAbsent',
         page' \in ProfileSet, drawn' \in [Images -> Nat], files' = files
  PROVE  ImporterInv'
<1>1. ImportsTyped
  BY OfEachImporter
<1>2. Importers' = Importers
  BY DEF Importers
<1>3. ImportsTyped'
  BY <1>1, <1>2, UserLogGrows, TypesOfImports DEF ImportsTyped
<1>4. \A j \in Importers : KeptOf(j)'
  BY OthersAreKept
<1>5. ImportsTyped' /\ CreatedIfAbsent' /\ (\A j \in Importers : KeptOf(j))'
  BY <1>2, <1>3, <1>4
<1>6. ((ImportsTyped /\ CreatedIfAbsent /\ \A j \in Importers : KeptOf(j)) => ImporterInv)'
  BY OfEachAfter
<1> QED BY <1>5, <1>6

LEMMA EditsKeep ==
  ASSUME ImporterInv,
         (\E f \in EditedFields, v \in Values : EditField(f, v)) \/ \E f \in Redrawn : EditPicture(f)
  PROVE  ImporterInv'
<1>1. page \in ProfileSet /\ drawn \in [Images -> Nat]
  BY TypesOfImports DEF ImporterInv
<1>2. page' \in ProfileSet /\ drawn' \in [Images -> Nat] /\ userLog' = userLog /\ import' = import /\ files' = files
  <2>1. CASE \E f \in EditedFields, v \in Values : EditField(f, v)
    <3>1. PICK f \in EditedFields, v \in Values : EditField(f, v)
      BY <2>1
    <3>2. [page EXCEPT ![f] = v] \in ProfileSet
      BY <1>1 DEF ProfileSet
    <3> QED BY <1>1, <3>1, <3>2 DEF EditField
  <2>2. CASE \E f \in Redrawn : EditPicture(f)
    <3>1. PICK f \in Redrawn : EditPicture(f)
      BY <2>2
    <3>2. [drawn EXCEPT ![f] = @ + 1] \in [Images -> Nat]
      <4>1. \A g \in Images : [drawn EXCEPT ![f] = @ + 1][g] = IF g = f THEN drawn[g] + 1 ELSE drawn[g]
        BY <1>1
      <4>2. \A g \in Images : drawn[g] \in Nat /\ drawn[g] + 1 \in Nat
        BY <1>1
      <4>3. \A g \in Images : [drawn EXCEPT ![f] = @ + 1][g] \in Nat
        BY <4>1, <4>2
      <4>4. [drawn EXCEPT ![f] = @ + 1] = [g \in Images |-> [drawn EXCEPT ![f] = @ + 1][g]]
        BY <1>1
      <4> QED BY <4>3, <4>4
    <3> QED BY <1>1, <3>1, <3>2 DEF EditPicture
  <2> QED BY <2>1, <2>2
<1>3. <<>> \in Seq(UserEventSet) /\ userLog' = userLog \o <<>> /\ CreatedIfAbsent'
  BY <1>2, NothingPublished
<1> QED BY <1>2, <1>3, OutsideStep

LEMMA DeletionKeeps == ASSUME ImporterInv, DeleteUser PROVE ImporterInv'
<1> DEFINE e == [type |-> "deleted", profile |-> NoFields, seen |-> Len(userLog)]
           es == <<e>>
<1>1. userLog \in Seq(UserEventSet) /\ Len(userLog) \in Nat /\ page \in ProfileSet /\ drawn \in [Images -> Nat]
  BY TypesOfImports DEF ImporterInv
<1>2. NoFields \in ProfileSet
  BY DEF NoFields, ProfileSet
<1>3. e \in UserEventSet /\ e.type = "deleted"
  BY <1>1, <1>2 DEF UserEventSet
<1>4. userLog' = Append(userLog, e) /\ page' = page /\ drawn' = drawn /\ files' = files /\ import' = import
  BY DEF DeleteUser
<1> HIDE DEF e
<1>5. userLog' = userLog \o es
  BY <1>1, <1>3, <1>4, AppendIsConcat
<1>6. es \in Seq(UserEventSet) /\ \A k \in 1..Len(es) : es[k].type = "created" => es[k].seen <= Len(userLog) /\ ReadAt(es[k].seen) = <<>>
  BY <1>3
<1> HIDE DEF es
<1>7. CreatedIfAbsent'
  BY <1>5, <1>6, CreatedStays
<1> QED BY <1>1, <1>4, <1>5, <1>6, <1>7, OutsideStep

\* A process goes on with what it knows, and publishes nothing.
LEMMA GoingOn ==
  ASSUME ImporterInv, userLog' = userLog, page' = page, drawn' = drawn, files' \in Seq(FileSet),
         NEW i \in Importers, NEW new \in ImportSet, import' = [import EXCEPT ![i] = new], new.at # "done",
         new.at \in HavingRead => new.seen <= Len(userLog) /\ new.current = ReadAt(new.seen)
  PROVE  ImporterInv'
<1>1. <<>> \in Seq(UserEventSet) /\ userLog' = userLog \o <<>> /\ CreatedIfAbsent'
  BY NothingPublished
<1>2. import'[i] = new
  BY TypesOfImports DEF ImporterInv
<1>3. KeptOf(i)'
  BY <1>2 DEF KeptOf, AsFetched, ReadAt
<1> QED BY <1>1, <1>3, StepOfOne

LEMMA PageFetchKeeps == ASSUME ImporterInv, NEW i \in Importers, FetchPage(i) PROVE ImporterInv'
<1> DEFINE new == [NotImporting EXCEPT !.at = "users", !.profile = page]
<1>1. page \in ProfileSet /\ files \in Seq(FileSet)
  BY TypesOfImports DEF ImporterInv
<1>2. NotImporting \in ImportSet
  <2>1. NoFields \in ProfileSet
    BY DEF NoFields, ProfileSet
  <2>2. <<>> \in Seq(ProfileSet)
    OBVIOUS
  <2> QED BY <2>1, <2>2 DEF NotImporting, ImportSet
<1>4. new \in ImportSet /\ new.at = "users"
  BY <1>1, <1>2 DEF ImportSet
<1>5. userLog' = userLog /\ page' = page /\ drawn' = drawn /\ files' = files /\ import' = [import EXCEPT ![i] = new]
  BY DEF FetchPage
<1> HIDE DEF new
<1>6. new.at # "done" /\ new.at \notin HavingRead
  BY <1>4 DEF HavingRead
<1> QED BY <1>1, <1>4, <1>5, <1>6, GoingOn

LEMMA EndKeeps == ASSUME ImporterInv, NEW i \in Importers, EndImporter(i) PROVE ImporterInv'
<1>1. files \in Seq(FileSet)
  BY TypesOfImports DEF ImporterInv
<1>2. NotImporting \in ImportSet /\ NotImporting.at = "idle"
  <2>1. NoFields \in ProfileSet
    BY DEF NoFields, ProfileSet
  <2>2. <<>> \in Seq(ProfileSet)
    OBVIOUS
  <2> QED BY <2>1, <2>2 DEF NotImporting, ImportSet
<1>3. userLog' = userLog /\ page' = page /\ drawn' = drawn /\ files' = files /\ import' = [import EXCEPT ![i] = NotImporting]
  BY DEF EndImporter
<1>4. NotImporting.at # "done" /\ NotImporting.at \notin HavingRead
  BY <1>2 DEF HavingRead
<1> QED BY <1>1, <1>2, <1>3, <1>4, GoingOn

LEMMA ReadStateKeeps == ASSUME ImporterInv, NEW i \in Importers, ReadState(i) PROVE ImporterInv'
<1> DEFINE r == import[i]
           new == [r EXCEPT !.at = "media", !.seen = Len(userLog), !.current = Current]
<1>1. userLog \in Seq(UserEventSet) /\ Len(userLog) \in Nat /\ files \in Seq(FileSet) /\ r \in ImportSet /\ import \in [Importers -> ImportSet]
  BY TypesOfImports DEF ImporterInv
<1>2. Current \in Seq(ProfileSet)
  <2>1. PICK T : ReadsOn(T, {"header"}, userLog) /\ ReadBut({"header"}, userLog) = T[Len(userLog)]
    BY <1>1, ReadButIs
  <2>2. Len(userLog) \in 0..Len(userLog)
    BY <1>1
  <2> QED BY <2>1, <2>2 DEF ReadsOn, Current
<1>3. new \in ImportSet /\ new.at = "media" /\ new.seen = Len(userLog) /\ new.current = Current
  BY <1>1, <1>2 DEF ImportSet, HavingRead
<1>4. import' = [import EXCEPT ![i] = new] /\ userLog' = userLog /\ page' = page /\ drawn' = drawn /\ files' = files
  BY <1>1 DEF ReadState
<1> HIDE DEF new
<1>5. SubSeq(userLog, 1, Len(userLog)) = userLog
  BY <1>1, SubSeqFull
<1>6. new.seen <= Len(userLog) /\ new.current = ReadAt(new.seen)
  <2>1. ReadAt(Len(userLog)) = Current
    BY <1>5 DEF ReadAt, Current
  <2> QED BY <1>1, <1>3, <2>1
<1> QED BY <1>1, <1>3, <1>4, <1>6, GoingOn

\* What an import has read stays as it goes on to the pictures.
LEMMA GoingOnReading ==
  ASSUME ImporterInv, userLog' = userLog, page' = page, drawn' = drawn, files' \in Seq(FileSet),
         NEW i \in Importers, NEW new \in ImportSet, import' = [import EXCEPT ![i] = new], new.at # "done",
         import[i].at \in HavingRead, new.seen = import[i].seen, new.current = import[i].current
  PROVE  ImporterInv'
<1>1. import[i].seen <= Len(userLog) /\ import[i].current = ReadAt(import[i].seen)
  BY DEF ImporterInv, ReadIsKept
<1> QED BY <1>1, GoingOn

LEMMA ReadMediaKeeps == ASSUME ImporterInv, NEW i \in Importers, ReadMedia(i) PROVE ImporterInv'
<1> DEFINE r == import[i]
           new == [r EXCEPT !.at = "avatar", !.known = Len(files)]
<1>1. files \in Seq(FileSet) /\ Len(files) \in Nat /\ r \in ImportSet /\ import \in [Importers -> ImportSet]
  BY TypesOfImports DEF ImporterInv
<1>2. new \in ImportSet /\ new.at = "avatar" /\ new.seen = r.seen /\ new.current = r.current
  BY <1>1 DEF ImportSet, HavingRead
<1>3. import' = [import EXCEPT ![i] = new] /\ userLog' = userLog /\ page' = page /\ drawn' = drawn /\ files' = files /\ r.at = "media"
  BY <1>1 DEF ReadMedia, At
<1> HIDE DEF new
<1> QED BY <1>1, <1>2, <1>3, GoingOnReading DEF HavingRead

LEMMA ExistingIs ==
  ASSUME ImportsTyped, NEW f, NEW source, NEW n \in Nat
  PROVE  Existing(f, source, n) \in Nat
<1> DEFINE of == {k \in 1..n : files[k].field = f /\ files[k].source = source}
<1>1. CASE of = {}
  BY <1>1 DEF Existing
<1>2. CASE of # {}
  <2>1. of \subseteq 0..n
    OBVIOUS
  <2>2. \E k \in of : \A j \in of : j <= k
    BY <1>2, <2>1, GreatestExists
  <2>3. Existing(f, source, n) = CHOOSE k \in of : \A j \in of : j <= k
    BY <1>2 DEF Existing
  <2>4. Existing(f, source, n) \in of
    BY <2>2, <2>3
  <2> QED BY <2>4
<1> QED BY <1>1, <1>2

LEMMA SyncKeeps == ASSUME ImporterInv, NEW i \in Importers, NEW f \in Images, SyncOne(i, f) PROVE ImporterInv'
<1> DEFINE r == import[i]
           source == r.profile[f]
           there == Existing(f, source, r.known)
<1>1. ImportsTyped /\ files \in Seq(FileSet) /\ r \in ImportSet /\ import \in [Importers -> ImportSet] /\ drawn \in [Images -> Nat]
  BY TypesOfImports DEF ImporterInv
<1>2. r.at = f /\ userLog' = userLog /\ page' = page /\ drawn' = drawn
  BY DEF SyncOne, At
<1>3. r.known \in Nat /\ r.profile \in ProfileSet
  BY <1>1, ImportParts
<1>4. there \in Nat
  BY <1>1, <1>3, ExistingIs
<1> HIDE DEF there
<1>5. \E id \in Nat : import' = [import EXCEPT ![i] = Synced(@, f, id)] /\ files' \in Seq(FileSet)
  <2> DEFINE new == [field |-> f, source |-> source, drawn |-> drawn[f]]
  <2>1. \/ import' = [import EXCEPT ![i] = Synced(@, f, there)] /\ files' = files
        \/ files' = Append(files, new) /\ import' = [import EXCEPT ![i] = Synced(@, f, Len(files'))]
    BY DEF SyncOne, there
  <2>2. source \in Values \cup Nat
    BY <1>3 DEF ProfileSet, Fields
  <2>3. new \in FileSet
    BY <1>1, <2>2 DEF FileSet
  <2> HIDE DEF new
  <2>4. Append(files, new) \in Seq(FileSet) /\ Len(Append(files, new)) \in Nat
    BY <1>1, <2>3
  <2> QED BY <1>1, <1>4, <2>1, <2>4
<1>6. PICK id \in Nat : import' = [import EXCEPT ![i] = Synced(@, f, id)] /\ files' \in Seq(FileSet)
  BY <1>5
<1> DEFINE new == Synced(r, f, id)
<1>7. new \in ImportSet /\ new.at \in {"header", "publish"} /\ new.seen = r.seen /\ new.current = r.current
  <2> DEFINE p == [r.profile EXCEPT ![f] = id]
             next == IF f = "avatar" THEN "header" ELSE "publish"
  <2>1. p \in ProfileSet
    BY <1>3 DEF ProfileSet, Fields
  <2>2. new = [r EXCEPT !.profile = p, !.at = next]
    BY <1>1 DEF Synced, ImportSet
  <2>3. next \in {"header", "publish"}
    OBVIOUS
  <2> HIDE DEF p, new, next
  <2> QED BY <1>1, <2>1, <2>2, <2>3 DEF ImportSet, HavingRead
<1>8. import' = [import EXCEPT ![i] = new]
  BY <1>1, <1>6
<1> HIDE DEF new
<1>9. r.at \in HavingRead /\ new.at # "done"
  BY <1>2, <1>7 DEF HavingRead, Images
<1> QED BY <1>2, <1>6, <1>7, <1>8, <1>9, GoingOnReading

LEMMA PublishKeeps == ASSUME ImporterInv, NEW i \in Importers, PublishAll(i) PROVE ImporterInv'
<1> DEFINE r == import[i]
           es == DiffEvents(r)
           new == [r EXCEPT !.at = "done", !.sent = Len(es)]
           told == SubSeq(userLog, 1, r.seen)
<1>1. /\ ImportsTyped /\ userLog \in Seq(UserEventSet) /\ Len(userLog) \in Nat /\ files \in Seq(FileSet)
      /\ r \in ImportSet /\ import \in [Importers -> ImportSet]
  BY TypesOfImports DEF ImporterInv
<1>2. r.at = "publish" /\ userLog' = userLog \o es /\ page' = page /\ drawn' = drawn /\ files' = files /\ import' = [import EXCEPT ![i] = new]
  BY <1>1 DEF PublishAll, At
<1>3. r.seen \in Nat /\ r.profile \in ProfileSet /\ r.current \in Seq(ProfileSet)
  BY <1>1, ImportParts
<1>4. r.seen <= Len(userLog) /\ r.current = ReadAt(r.seen)
  BY <1>2 DEF ImporterInv, ReadIsKept, HavingRead
<1>5. told \in Seq(UserEventSet)
  <2>1. \A k \in 1..r.seen : userLog[k] \in UserEventSet
    BY <1>1, <1>3, <1>4
  <2> QED BY <1>3, <2>1, SubSeqProperties
<1>6. r.current = ReadBut({"header"}, told)
  BY <1>4 DEF ReadAt
<1>7. /\ es \in Seq(UserEventSet)
      /\ \A k \in 1..Len(es) : es[k].type = "created" => es[k].seen = r.seen /\ r.current = <<>>
      /\ ReadBut({}, told \o es) # <<>>
      /\ \A f \in Fields : \/ ReadBut({}, told \o es)[1][f] = r.profile[f]
                           \/ f = "header" /\ r.current # <<>> /\ r.current[1][f] = r.profile[f]
  <2> HIDE DEF told
  <2> QED BY <1>1, <1>5, <1>6, DifferenceRead
<1>8. Len(es) \in Nat
  BY <1>7
<1>9. new \in ImportSet /\ new.at = "done" /\ new.sent = Len(es) /\ new.seen = r.seen /\ new.current = r.current /\ new.profile = r.profile
  <2> HIDE DEF es
  <2> QED BY <1>1, <1>8 DEF ImportSet, HavingRead
<1> HIDE DEF new, es
<1>10. CreatedIfAbsent'
  <2>1. \A k \in 1..Len(es) : es[k].type = "created" => es[k].seen <= Len(userLog) /\ ReadAt(es[k].seen) = <<>>
    BY <1>4, <1>7
  <2> QED BY <1>2, <1>7, <2>1, CreatedStays
<1>11. Len(userLog') = Len(userLog) + Len(es) /\ ReadsStay
  BY <1>1, <1>2, <1>7, UserLogGrows
<1>12. import'[i] = new
  BY <1>1, <1>2
<1>13. r.current = ReadBut({"header"}, SubSeq(userLog', 1, r.seen)) /\ r.seen + Len(es) <= Len(userLog')
  <2>1. r.seen \in 0..Len(userLog)
    BY <1>1, <1>3, <1>4
  <2>2. ReadBut({"header"}, SubSeq(userLog', 1, r.seen)) = ReadAt(r.seen)
    BY <1>11, <2>1 DEF ReadsStay, ReadAt
  <2>3. r.seen + Len(es) <= Len(userLog')
    BY <1>1, <1>3, <1>4, <1>8, <1>11
  <2> QED BY <1>4, <2>2, <2>3
<1>14. AsFetched(i)'
  <2>1. SUFFICES ASSUME Len(userLog') = r.seen + Len(es)
                 PROVE  /\ Profile' # <<>>
                        /\ \A f \in Fields : \/ Profile'[1][f] = r.profile[f]
                                             \/ f = "header" /\ r.current # <<>> /\ r.current[1][f] = r.profile[f]
    BY <1>9, <1>12 DEF AsFetched
  <2>2. r.seen = Len(userLog)
    BY <1>1, <1>3, <1>8, <1>11, <2>1
  <2>3. told = userLog
    BY <1>1, <2>2, SubSeqFull
  <2>4. Profile' = ReadBut({}, told \o es)
    BY <1>2, <2>3 DEF Profile
  <2> HIDE DEF told
  <2> QED BY <1>7, <2>4
<1>15. r.seen <= Len(userLog')
  BY <1>3, <1>8, <1>11, <1>13, <1>1, <1>4
<1>16. KeptOf(i)'
  BY <1>9, <1>12, <1>13, <1>14, <1>15 DEF KeptOf, ReadAt
<1> QED BY <1>1, <1>2, <1>7, <1>9, <1>10, <1>16, StepOfOne

LEMMA ImportsStep == ImporterInv /\ [ImporterNext]_ivars => ImporterInv'
<1> SUFFICES ASSUME ImporterInv, [ImporterNext]_ivars PROVE ImporterInv'
  OBVIOUS
<1>1. CASE UNCHANGED ivars
  BY <1>1 DEF ivars, ImporterInv, ImportsTyped, ReadIsKept, SentIsThere, CreatedIfAbsent, ImportedAsFetched, Importers, ReadAt,
              Profile, At
<1>2. CASE ImporterNext
  BY <1>2, EditsKeep, DeletionKeeps, PageFetchKeeps, ReadStateKeeps, ReadMediaKeeps, SyncKeeps, PublishKeeps, EndKeeps DEF ImporterNext
<1> QED BY <1>1, <1>2

\* Who creates a user has read that she is not there: since an earlier creation that
\* she could have read somebody has deleted her.
LEMMA NotCreatedTwice == ASSUME ImporterInv PROVE CreatedOnce
<1>1. userLog \in Seq(UserEventSet) /\ Len(userLog) \in Nat /\ DOMAIN userLog = 1..Len(userLog)
  BY TypesOfImports DEF ImporterInv
<1>2. SUFFICES ASSUME NEW j \in DOMAIN userLog, NEW k \in 1..j-1, userLog[j].type = "created", userLog[k].type = "created",
                      \A d \in k..j : userLog[d].type # "deleted", ~(k > userLog[j].seen)
               PROVE  FALSE
  BY DEF CreatedOnce
<1> DEFINE n == userLog[j].seen
           told == SubSeq(userLog, 1, n)
<1>3. n < j /\ ReadAt(n) = <<>>
  BY <1>2 DEF ImporterInv, CreatedIfAbsent
<1>4. n \in Nat
  <2>1. userLog[j] \in UserEventSet
    BY <1>1
  <2> QED BY <2>1 DEF UserEventSet
<1> HIDE DEF n
<1>5. told \in Seq(UserEventSet) /\ Len(told) = n /\ \A i \in 1..n : told[i] = userLog[i]
  <2>1. \A i \in 1..n : userLog[i] \in UserEventSet
    BY <1>1, <1>3, <1>4
  <2>2. told \in Seq(UserEventSet) /\ Len(told) = (IF 1 <= n THEN n - 1 + 1 ELSE 0) /\ \A i \in 1..n - 1 + 1 : told[i] = userLog[1 + i - 1]
    BY <1>4, <2>1, SubSeqProperties
  <2>3. n - 1 + 1 = n /\ \A i \in 1..n : 1 + i - 1 = i
    BY <1>4
  <2> HIDE DEF told
  <2> QED BY <1>4, <2>2, <2>3
<1>6. ReadBut({"header"}, told) = <<>>
  BY <1>3 DEF ReadAt
<1> HIDE DEF told
<1>7. AbsentIsDeleted(told)
  BY <1>5, <1>6, AbsentMeans
<1>8. k \in 1..n /\ k \in Nat /\ j \in Nat
  BY <1>1, <1>2, <1>4 DEF n
<1>9. PICK d \in k..n : told[d].type = "deleted"
  BY <1>2, <1>5, <1>7, <1>8 DEF AbsentIsDeleted
<1>10. d \in 1..n /\ d \in k..j
  BY <1>3, <1>4, <1>8
<1>11. userLog[d].type = "deleted"
  BY <1>5, <1>9, <1>10
<1> QED BY <1>2, <1>10, <1>11

THEOREM ImportsAreTrue == Spec => [](ImportedAsFetched /\ CreatedOnce)
<1>1. Init => ImporterInv
  BY ImportStart DEF Init, RestingImports
<1>2. [Next]_bvars => [ImporterNext]_ivars
  BY DEF Next, bvars, ivars
<1>3. ImporterInv /\ [Next]_bvars => ImporterInv'
  BY <1>2, ImportsStep
<1>4. ImporterInv => ImportedAsFetched /\ CreatedOnce
  BY NotCreatedTwice DEF ImporterInv
<1> QED BY <1>1, <1>3, <1>4, PTL DEF Spec

-----------------------------------------------------------------------------
(***************************************************************************)
(* polish_activities.  As long as its tasks do not meet, the last activity *)
(* is what was taken last, with links to what is known; it is behind only  *)
(* by the account that a discovery is about to begin with, and the post is *)
(* held for what is not linked.                                            *)
(***************************************************************************)
PostVerbs == {"Create", "Update", "Delete"}
Tasks == {Translator, Updater}
RawSet == [verb : PostVerbs, mentions : SUBSET Mentioned]
PostIds == {"raw_activities", "remote_actors"} \X Nat
PolishedSet == [verb : PostVerbs, mentions : SUBSET Mentioned, linked : SUBSET Mentioned, id : PostIds]
HeldSet == [mentions : SUBSET Mentioned, waits : SUBSET Mentioned]
WorkSet == [pc : {"idle", "look", "release", "hold", "publish"}, verb : PostVerbs \cup {""}, mentions : SUBSET Mentioned,
            linked : SUBSET Mentioned, id : PostIds \cup {<<>>}]

PolishTyped ==
  /\ raw \in Seq(RawSet) /\ rawpos \in 0..Len(raw) /\ polished \in Seq(PolishedSet)
  /\ \A i \in DOMAIN raw : raw[i].verb = "Delete" => raw[i].mentions = {}
  /\ found \in Seq(Seq(Mentioned)) /\ foundpos \in 0..Len(found) /\ \A i \in DOMAIN found : found[i] # <<>>
  /\ linkable = RememberedActors(foundpos)
  /\ held \in Seq(HeldSet) /\ work \in [Tasks -> WorkSet] /\ aliases \in Seq(Mentioned) /\ polishStarts \in Nat
  /\ \A t \in Tasks : Busy(t) => work[t].verb \in PostVerbs /\ work[t].id \in PostIds

\* The post is held for what it mentions and does not link.
HeldFor(mentions, linked) ==
  held = IF mentions \ linked = {} THEN <<>> ELSE <<[mentions |-> mentions, waits |-> mentions \ linked]>>

\* A task is at work on the post as it was taken last.
WorksOn(t, r) ==
  LET w == work[t] IN
  /\ w.mentions = r.mentions /\ (w.verb = "Delete") = (r.verb = "Delete")
  /\ w.pc = "look" => r.verb # "Delete"
  /\ w.pc # "look" => w.linked = w.mentions \cap linkable
  /\ w.pc = "hold" => held = <<>> /\ w.mentions \ w.linked # {}
  /\ w.pc = "publish" => HeldFor(w.mentions, w.linked)

Named(id) == \E i \in DOMAIN polished : polished[i].id = id
DiscoveryId == <<"remote_actors", foundpos>>

LastSays(r) ==
  LET p == polished[Len(polished)] IN
  /\ polished # <<>> /\ p.mentions = r.mentions /\ (p.verb = "Delete") = (r.verb = "Delete")
LastIsLinked == LET p == polished[Len(polished)] IN p.linked = p.mentions \cap linkable
LastLacks(acct) == LET p == polished[Len(polished)] IN p.linked = p.mentions \cap (linkable \ {acct})
LastIsHeld == LET p == polished[Len(polished)] IN HeldFor(p.mentions, p.linked)

Discovering == Busy(Updater) \/ aliases # <<>>
TurnsAreTaken == ~(Busy(Translator) /\ Discovering)
PublishedBefore == \A i \in DOMAIN polished :
  LET id == polished[i].id IN
  \/ (id[1] = "raw_activities" /\ id[2] <= rawpos /\ (Busy(Translator) => id[2] < rawpos))
  \/ (id[1] = "remote_actors" /\ id[2] <= foundpos)

NothingTaken == rawpos = 0 => held = <<>> /\ \A t \in Tasks : ~Busy(t)
TranslatorWorks == Busy(Translator) => WorksOn(Translator, raw[rawpos]) /\ work[Translator].id = <<"raw_activities", rawpos>>
UpdaterWorks == Busy(Updater) => WorksOn(Updater, raw[rawpos]) /\ work[Updater].id = DiscoveryId
LastIsCurrent == (rawpos # 0 /\ ~Busy(Translator)) =>
  /\ LastSays(raw[rawpos])
  /\ ~Busy(Updater) => LastIsHeld /\ (LastIsLinked \/ (aliases # <<>> /\ LastLacks(Head(aliases)) /\ ~Named(DiscoveryId)))
  /\ Busy(Updater) /\ Named(DiscoveryId) => LastIsLinked

Orderly == /\ TurnsAreTaken /\ PublishedBefore /\ NothingTaken /\ TranslatorWorks /\ UpdaterWorks /\ LastIsCurrent
PolishInv == PolishTyped /\ (met \/ polishStarts # 0 \/ Orderly)

LEMMA TasksAre == Translator \in Tasks /\ Updater \in Tasks /\ Translator # Updater
                  /\ \A t \in Tasks : t = Translator \/ t = Updater
BY DEF Tasks, Translator, Updater

LEMMA PolishTypes ==
  ASSUME PolishTyped
  PROVE  /\ raw \in Seq(RawSet) /\ Len(raw) \in Nat /\ DOMAIN raw = 1..Len(raw) /\ rawpos \in 0..Len(raw)
         /\ polished \in Seq(PolishedSet) /\ Len(polished) \in Nat /\ DOMAIN polished = 1..Len(polished)
         /\ found \in Seq(Seq(Mentioned)) /\ Len(found) \in Nat /\ DOMAIN found = 1..Len(found) /\ foundpos \in 0..Len(found)
         /\ held \in Seq(HeldSet) /\ work \in [Tasks -> WorkSet] /\ aliases \in Seq(Mentioned)
BY DEF PolishTyped

LEMMA WorkParts ==
  ASSUME NEW w \in WorkSet
  PROVE  /\ w.pc \in {"idle", "look", "release", "hold", "publish"} /\ w.verb \in PostVerbs \cup {""}
         /\ w.mentions \subseteq Mentioned /\ w.linked \subseteq Mentioned /\ w.id \in PostIds \cup {<<>>}
BY DEF WorkSet

LEMMA IdsAre == ASSUME PolishTyped PROVE \A i \in DOMAIN polished : polished[i] \in PolishedSet /\ polished[i].id \in PostIds
<1>1. \A i \in DOMAIN polished : polished[i] \in PolishedSet
  BY PolishTypes
<1> QED BY <1>1 DEF PolishedSet

LEMMA RestIs == AtRest \in WorkSet /\ AtRest.pc = "idle"
BY DEF AtRest, WorkSet

LEMMA PolishingIs ==
  ASSUME NEW verb \in PostVerbs, NEW mentions \in SUBSET Mentioned, NEW id \in PostIds
  PROVE  /\ Polishing(verb, mentions, id) \in WorkSet
         /\ Polishing(verb, mentions, id).pc = "look" /\ Polishing(verb, mentions, id).verb = verb
         /\ Polishing(verb, mentions, id).mentions = mentions /\ Polishing(verb, mentions, id).linked = {}
         /\ Polishing(verb, mentions, id).id = id
BY DEF Polishing, AtRest, WorkSet

\* Who is remembered.
LEMMA RememberedIs ==
  ASSUME PolishTyped
  PROVE  /\ linkable \subseteq Mentioned
         /\ \A k \in 1..Len(found) : found[k] \in Seq(Mentioned) /\ found[k] # <<>> /\ Head(found[k]) \in Mentioned
<1>1. \A k \in 1..Len(found) : found[k] \in Seq(Mentioned) /\ found[k] # <<>>
  BY DEF PolishTyped
<1>2. \A k \in 1..Len(found) : Head(found[k]) \in Mentioned
  BY <1>1, HeadTailProperties
<1> QED BY <1>1, <1>2, PolishTypes DEF RememberedActors, PolishTyped

-----------------------------------------------------------------------------
LEMMA PolishStart == PolishInit => PolishInv
<1> SUFFICES ASSUME PolishInit PROVE PolishInv
  OBVIOUS
<1>1. raw = <<>> /\ rawpos = 0 /\ polished = <<>> /\ found = <<>> /\ foundpos = 0 /\ linkable = {}
      /\ held = <<>> /\ aliases = <<>> /\ work = [t \in Tasks |-> AtRest] /\ polishStarts = 0
  BY DEF PolishInit, Tasks
<1>2. \A t \in Tasks : ~Busy(t)
  BY <1>1, RestIs DEF Busy
<1>3. work \in [Tasks -> WorkSet]
  BY <1>1, RestIs
<1>4. linkable = RememberedActors(foundpos)
  BY <1>1 DEF RememberedActors
<1>5. PolishTyped
  BY <1>1, <1>2, <1>3, <1>4 DEF PolishTyped
<1>6. Orderly
  BY <1>1, <1>2, TasksAre DEF Orderly, TurnsAreTaken, PublishedBefore, NothingTaken, TranslatorWorks, UpdaterWorks, LastIsCurrent
<1> QED BY <1>5, <1>6 DEF PolishInv

-----------------------------------------------------------------------------
\* The author and the discoveries add to the topics only.
WorldStep ==
  \/ \E verb \in PostVerbs, mentions \in SUBSET Mentioned : Write(verb, mentions)
  \/ \E a, b \in Mentioned : Find(<<a>>) \/ (a # b /\ Find(<<a, b>>))

LEMMA WorldKeeps == ASSUME PolishInv, WorldStep PROVE PolishInv'
<1>1. PolishTyped
  BY DEF PolishInv
<1>2. \/ \E r \in RawSet : raw' = Append(raw, r) /\ (r.verb = "Delete" => r.mentions = {}) /\ found' = found
      \/ \E accts \in Seq(Mentioned) : found' = Append(found, accts) /\ accts # <<>> /\ raw' = raw
  <2>1. ASSUME NEW verb \in PostVerbs, NEW mentions \in SUBSET Mentioned, Write(verb, mentions)
        PROVE  \E r \in RawSet : raw' = Append(raw, r) /\ (r.verb = "Delete" => r.mentions = {}) /\ found' = found
    <3> DEFINE r == [verb |-> verb, mentions |-> IF verb = "Delete" THEN {} ELSE mentions]
    <3>1. r \in RawSet /\ (r.verb = "Delete" => r.mentions = {})
      BY DEF RawSet
    <3>2. raw' = Append(raw, r) /\ found' = found
      BY <2>1 DEF Write
    <3> QED BY <3>1, <3>2
  <2>2. ASSUME NEW a \in Mentioned, NEW b \in Mentioned, Find(<<a>>) \/ Find(<<a, b>>)
        PROVE  \E accts \in Seq(Mentioned) : found' = Append(found, accts) /\ accts # <<>> /\ raw' = raw
    <3>1. <<a>> \in Seq(Mentioned) /\ <<a, b>> \in Seq(Mentioned) /\ <<a>> # <<>> /\ <<a, b>> # <<>>
      OBVIOUS
    <3> QED BY <2>2, <3>1 DEF Find
  <2> QED BY <2>1, <2>2 DEF WorldStep
<1>3. UNCHANGED <<rawpos, polished, foundpos, linkable, held, work, aliases, met, polishStarts>>
  BY DEF WorldStep, Write, Find
<1>4. /\ raw' \in Seq(RawSet) /\ Len(raw') \in Nat /\ Len(raw) <= Len(raw') /\ \A k \in 1..Len(raw) : raw'[k] = raw[k]
      /\ \A i \in DOMAIN raw' : raw'[i].verb = "Delete" => raw'[i].mentions = {}
  <2>1. CASE raw' = raw
    BY <1>1, <2>1, PolishTypes DEF PolishTyped
  <2>2. CASE \E r \in RawSet : raw' = Append(raw, r) /\ (r.verb = "Delete" => r.mentions = {})
    <3>1. PICK r \in RawSet : raw' = Append(raw, r) /\ (r.verb = "Delete" => r.mentions = {})
      BY <2>2
    <3>2. raw' \in Seq(RawSet) /\ Len(raw') = Len(raw) + 1 /\ (\A k \in 1..Len(raw) : raw'[k] = raw[k]) /\ raw'[Len(raw) + 1] = r
      BY <1>1, <3>1, PolishTypes, AppendProperties
    <3>3. \A i \in DOMAIN raw' : i \in 1..Len(raw) \/ i = Len(raw) + 1
      BY <1>1, <3>2, PolishTypes
    <3> QED BY <1>1, <3>1, <3>2, <3>3, PolishTypes DEF PolishTyped
  <2> QED BY <1>2, <2>1, <2>2
<1>5. /\ found' \in Seq(Seq(Mentioned)) /\ Len(found') \in Nat /\ Len(found) <= Len(found') /\ \A k \in 1..Len(found) : found'[k] = found[k]
      /\ \A i \in DOMAIN found' : found'[i] # <<>>
  <2>1. CASE found' = found
    BY <1>1, <2>1, PolishTypes DEF PolishTyped
  <2>2. CASE \E accts \in Seq(Mentioned) : found' = Append(found, accts) /\ accts # <<>>
    <3>1. PICK accts \in Seq(Mentioned) : found' = Append(found, accts) /\ accts # <<>>
      BY <2>2
    <3>2. found' \in Seq(Seq(Mentioned)) /\ Len(found') = Len(found) + 1 /\ (\A k \in 1..Len(found) : found'[k] = found[k])
          /\ found'[Len(found) + 1] = accts
      BY <1>1, <3>1, PolishTypes, AppendProperties
    <3>3. \A i \in DOMAIN found' : i \in 1..Len(found) \/ i = Len(found) + 1
      BY <1>1, <3>2, PolishTypes
    <3> QED BY <1>1, <3>1, <3>2, <3>3, PolishTypes DEF PolishTyped
  <2> QED BY <1>2, <2>1, <2>2
<1>6. RememberedActors(foundpos)' = RememberedActors(foundpos)
  <2>1. \A k \in 1..foundpos : found'[k] = found[k]
    BY <1>1, <1>5, PolishTypes
  <2> QED BY <1>3, <2>1 DEF RememberedActors
<1>7. PolishTyped'
  <2>1. rawpos' \in 0..Len(raw') /\ foundpos' \in 0..Len(found')
    BY <1>1, <1>3, <1>4, <1>5, PolishTypes
  <2>2. linkable' = RememberedActors(foundpos)'
    BY <1>1, <1>3, <1>6 DEF PolishTyped
  <2> QED BY <1>1, <1>3, <1>4, <1>5, <2>1, <2>2, PolishTypes DEF PolishTyped, Busy
<1>8. ASSUME Orderly PROVE Orderly'
  <2>1. rawpos # 0 => raw'[rawpos] = raw[rawpos]
    <3>1. rawpos # 0 => rawpos \in 1..Len(raw)
      BY <1>1, PolishTypes
    <3> QED BY <1>4, <3>1
  <2>2. Busy(Translator) \/ Busy(Updater) => rawpos # 0
    BY <1>8, TasksAre DEF Orderly, NothingTaken
  <2>3. (TurnsAreTaken /\ PublishedBefore /\ NothingTaken)'
    BY <1>3, <1>8 DEF Orderly, TurnsAreTaken, Discovering, PublishedBefore, NothingTaken, Busy
  <2>4. (TranslatorWorks /\ UpdaterWorks)'
    BY <1>3, <1>8, <2>1, <2>2 DEF Orderly, TranslatorWorks, UpdaterWorks, WorksOn, HeldFor, Busy, DiscoveryId
  <2>5. LastIsCurrent'
    BY <1>3, <1>8, <2>1 DEF Orderly, LastIsCurrent, LastSays, LastIsHeld, LastIsLinked, LastLacks, HeldFor, Busy, DiscoveryId, Named
  <2> QED BY <2>3, <2>4, <2>5 DEF Orderly
<1> QED BY <1>3, <1>7, <1>8 DEF PolishInv

-----------------------------------------------------------------------------
(* Steps of the two tasks. *)

LEMMA TypedStep ==
  ASSUME PolishTyped, UNCHANGED <<raw, found>>, rawpos' \in 0..Len(raw), foundpos' \in 0..Len(found),
         polished' \in Seq(PolishedSet), linkable' = RememberedActors(foundpos'), held' \in Seq(HeldSet),
         work' \in [Tasks -> WorkSet], aliases' \in Seq(Mentioned), polishStarts' \in Nat,
         \A t \in Tasks : work'[t].pc # "idle" => work'[t].verb \in PostVerbs /\ work'[t].id \in PostIds
  PROVE  PolishTyped'
<1>1. linkable' = RememberedActors(foundpos)'
  BY DEF RememberedActors
<1> QED BY <1>1 DEF PolishTyped, Busy

Releasing(verb, mentions, id) == [Polishing(verb, mentions, id) EXCEPT !.pc = "release"]

LEMMA ReleasingIs ==
  ASSUME NEW verb \in PostVerbs, NEW mentions \in SUBSET Mentioned, NEW id \in PostIds
  PROVE  /\ Releasing(verb, mentions, id) \in WorkSet
         /\ Releasing(verb, mentions, id).pc = "release" /\ Releasing(verb, mentions, id).verb = verb
         /\ Releasing(verb, mentions, id).mentions = mentions /\ Releasing(verb, mentions, id).linked = {}
         /\ Releasing(verb, mentions, id).id = id
<1> DEFINE p == Polishing(verb, mentions, id)
           w == Releasing(verb, mentions, id)
<1>1. p \in WorkSet /\ p.verb = verb /\ p.mentions = mentions /\ p.linked = {} /\ p.id = id
  BY PolishingIs
<1>2. w = [p EXCEPT !.pc = "release"]
  BY DEF Releasing
<1> HIDE DEF p, w
<1>3. w \in WorkSet /\ w.pc = "release" /\ w.verb = verb /\ w.mentions = mentions /\ w.linked = {} /\ w.id = id
  BY <1>1, <1>2 DEF WorkSet
<1> QED BY <1>3 DEF w

LEMMA TakeKeeps == ASSUME PolishInv, Take PROVE PolishInv'
<1> DEFINE n == rawpos + 1
           r == raw[n]
           id == <<"raw_activities", n>>
           new == Polishing(r.verb, r.mentions, id)
           w == IF r.verb = "Delete" THEN [new EXCEPT !.pc = "release"] ELSE new
<1>1. PolishTyped /\ rawpos \in Nat /\ n \in 1..Len(raw) /\ n \in Nat /\ r \in RawSet
  BY PolishTypes DEF PolishInv, Take
<1>2. r.verb \in PostVerbs /\ r.mentions \in SUBSET Mentioned /\ (r.verb = "Delete" => r.mentions = {})
  BY <1>1, PolishTypes DEF RawSet, PolishTyped
<1>3. id \in PostIds
  BY <1>1 DEF PostIds
<1>4. rawpos' = n /\ work' = [work EXCEPT ![Translator] = w] /\ met' = (met \/ Busy(Updater) \/ aliases # <<>>)
      /\ UNCHANGED <<raw, polished, found, foundpos, linkable, held, aliases, requests, polishStarts>> /\ ~Busy(Translator)
  BY DEF Take, Meets, Translator, Updater
<1> HIDE DEF r, id
<1>5. /\ w \in WorkSet /\ w.pc = (IF r.verb = "Delete" THEN "release" ELSE "look") /\ w.verb = r.verb /\ w.mentions = r.mentions
      /\ w.linked = {} /\ w.id = id
  <2>1. CASE r.verb = "Delete"
    <3>1. w = Releasing(r.verb, r.mentions, id)
      BY <2>1 DEF Releasing
    <3> HIDE DEF w, new
    <3> QED BY <1>2, <1>3, <2>1, <3>1, ReleasingIs
  <2>2. CASE r.verb # "Delete"
    <3>1. w = Polishing(r.verb, r.mentions, id)
      BY <2>2
    <3> HIDE DEF w, new
    <3> QED BY <1>2, <1>3, <2>2, <3>1, PolishingIs
  <2> QED BY <2>1, <2>2
<1> HIDE DEF w, new, n
<1>6. work' \in [Tasks -> WorkSet] /\ work'[Translator] = w /\ work'[Updater] = work[Updater]
  BY <1>1, <1>4, <1>5, PolishTypes, TasksAre
<1>7. PolishTyped'
  <2>1. \A t \in Tasks : work'[t].pc # "idle" => work'[t].verb \in PostVerbs /\ work'[t].id \in PostIds
    <3>1. work[Updater].pc # "idle" => work[Updater].verb \in PostVerbs /\ work[Updater].id \in PostIds
      BY <1>1, TasksAre DEF PolishTyped, Busy
    <3> QED BY <1>2, <1>3, <1>5, <1>6, <3>1, TasksAre
  <2>2. rawpos' \in 0..Len(raw)
    BY <1>1, <1>4
  <2>3. linkable' = RememberedActors(foundpos') /\ foundpos' \in 0..Len(found) /\ polished' \in Seq(PolishedSet)
        /\ held' \in Seq(HeldSet) /\ aliases' \in Seq(Mentioned) /\ polishStarts' \in Nat
    BY <1>1, <1>4, PolishTypes DEF PolishTyped
  <2> QED BY <1>1, <1>4, <1>6, <2>1, <2>2, <2>3, TypedStep
<1>8. ASSUME Orderly, ~met' PROVE Orderly'
  <2>1. ~Busy(Updater)' /\ aliases' = <<>> /\ Busy(Translator)'
    <3>1. ~Busy(Updater) /\ aliases = <<>>
      BY <1>4, <1>8
    <3>2. w.pc # "idle"
      BY <1>5
    <3> QED BY <1>4, <1>6, <3>1, <3>2 DEF Busy
  <2>2. TurnsAreTaken' /\ UpdaterWorks' /\ LastIsCurrent'
    BY <2>1 DEF TurnsAreTaken, Discovering, UpdaterWorks, LastIsCurrent
  <2>3. NothingTaken'
    <3>1. rawpos' # 0
      BY <1>1, <1>4
    <3> QED BY <3>1 DEF NothingTaken
  <2>4. PublishedBefore'
    <3>1. ASSUME NEW i \in DOMAIN polished
          PROVE  LET q == polished[i].id IN (q[1] = "raw_activities" /\ q[2] < rawpos') \/ (q[1] = "remote_actors" /\ q[2] <= foundpos)
      <4>1. polished[i].id \in PostIds
        BY <1>1, IdsAre
      <4>2. polished[i].id[2] \in Nat
        BY <4>1 DEF PostIds
      <4>3. polished[i].id[2] <= rawpos => polished[i].id[2] < rawpos'
        BY <1>1, <1>4, <4>2 DEF n
      <4> QED BY <1>8, <4>2, <4>3 DEF Orderly, PublishedBefore
    <3>2. ASSUME NEW i \in DOMAIN polished, polished[i].id[2] < rawpos' PROVE polished[i].id[2] <= rawpos'
      <4>1. polished[i].id \in PostIds
        BY <1>1, IdsAre
      <4>2. polished[i].id[2] \in Nat
        BY <4>1 DEF PostIds
      <4> QED BY <1>1, <1>4, <3>2, <4>2
    <3> QED BY <1>4, <3>1, <3>2 DEF PublishedBefore
  <2>5. TranslatorWorks'
    <3>1. work'[Translator] = w /\ raw'[rawpos'] = r /\ work'[Translator].id = <<"raw_activities", rawpos'>>
      BY <1>4, <1>5, <1>6 DEF r, id
    <3>2. w.mentions = r.mentions /\ ((w.verb = "Delete") <=> (r.verb = "Delete"))
      BY <1>5
    <3>3. w.pc = "look" => r.verb # "Delete"
      BY <1>5
    <3>4. w.pc # "look" => w.linked = w.mentions \cap linkable'
      <4>1. w.pc # "look" => w.mentions = {} /\ w.linked = {}
        BY <1>2, <1>5
      <4> QED BY <4>1
    <3>5. w.pc # "hold" /\ w.pc # "publish"
      BY <1>5
    <3>6. WorksOn(Translator, raw[rawpos])'
      BY <3>1, <3>2, <3>3, <3>4, <3>5 DEF WorksOn
    <3> QED BY <3>1, <3>6 DEF TranslatorWorks
  <2> QED BY <2>2, <2>3, <2>4, <2>5 DEF Orderly
<1>9. ~met' => ~met
  BY <1>4
<1> QED BY <1>4, <1>7, <1>8, <1>9 DEF PolishInv

-----------------------------------------------------------------------------
LEMMA AtWork ==
  ASSUME PolishTyped, Orderly, NEW t \in Tasks, Busy(t)
  PROVE  /\ rawpos \in 1..Len(raw) /\ WorksOn(t, raw[rawpos]) /\ \A s \in Tasks : s # t => ~Busy(s)
         /\ t = Translator => work[t].id = <<"raw_activities", rawpos>> /\ aliases = <<>>
         /\ t = Updater => work[t].id = DiscoveryId
         /\ work[t] \in WorkSet /\ work[t].verb \in PostVerbs /\ work[t].id \in PostIds
<1>1. rawpos # 0
  BY DEF Orderly, NothingTaken
<1>2. rawpos \in 1..Len(raw)
  BY <1>1, PolishTypes
<1>3. work[t] \in WorkSet /\ work[t].verb \in PostVerbs /\ work[t].id \in PostIds
  BY PolishTypes DEF PolishTyped
<1> QED BY <1>2, <1>3, TasksAre DEF Orderly, TranslatorWorks, UpdaterWorks, TurnsAreTaken, Discovering

LEMMA WorkGoesOn ==
  ASSUME PolishTyped, Orderly, NEW t \in Tasks, Busy(t), work'[t].pc # "idle", work'[t].id = work[t].id,
         \A s \in Tasks : s # t => work'[s] = work[s],
         UNCHANGED <<raw, rawpos, polished, found, foundpos, linkable, aliases>>, WorksOn(t, raw[rawpos])'
  PROVE  Orderly'
<1>1. rawpos # 0 /\ \A s \in Tasks : s # t => ~Busy(s)
  BY AtWork, PolishTypes
<1>2. \A s \in Tasks : Busy(s)' <=> s = t
  BY <1>1 DEF Busy
<1>3. (TurnsAreTaken /\ NothingTaken)'
  BY <1>1, <1>2, AtWork, TasksAre DEF TurnsAreTaken, Discovering, NothingTaken
<1>4. Busy(Translator)' <=> Busy(Translator)
  BY <1>1, <1>2, TasksAre
<1>5. PublishedBefore'
  BY <1>4 DEF Orderly, PublishedBefore
<1>6. (TranslatorWorks /\ UpdaterWorks)'
  BY <1>2, AtWork, TasksAre DEF TranslatorWorks, UpdaterWorks, DiscoveryId
<1>7. LastIsCurrent'
  <2>1. CASE t = Translator
    BY <1>2, <2>1 DEF LastIsCurrent
  <2>2. CASE t = Updater
    <3>1. Busy(Updater)' /\ Busy(Updater) /\ ~Busy(Translator)
      BY <1>1, <1>2, <2>2, TasksAre
    <3> QED BY <1>1, <3>1 DEF Orderly, LastIsCurrent, LastSays, LastIsLinked, Named, DiscoveryId
  <2> QED BY <2>1, <2>2, TasksAre
<1> QED BY <1>3, <1>5, <1>6, <1>7 DEF Orderly

LEMMA LookUpKeeps == ASSUME PolishInv, NEW t \in Tasks, LookUp(t) PROVE PolishInv'
<1> DEFINE w == [work[t] EXCEPT !.pc = "release", !.linked = work[t].mentions \cap linkable]
<1>1. PolishTyped /\ work[t] \in WorkSet /\ work[t].pc = "look" /\ Busy(t) /\ linkable \subseteq Mentioned
  BY PolishTypes, RememberedIs DEF PolishInv, LookUp, Busy
<1>2. /\ w \in WorkSet /\ w.pc = "release" /\ w.linked = work[t].mentions \cap linkable
      /\ w.verb = work[t].verb /\ w.mentions = work[t].mentions /\ w.id = work[t].id
  BY <1>1 DEF WorkSet
<1>3. work' = [work EXCEPT ![t] = w]
  BY <1>1, PolishTypes DEF LookUp
<1> HIDE DEF w
<1>4. work' \in [Tasks -> WorkSet] /\ work'[t] = w /\ \A s \in Tasks : s # t => work'[s] = work[s]
  BY <1>1, <1>2, <1>3, PolishTypes
<1>5. UNCHANGED <<raw, rawpos, polished, found, foundpos, linkable, held, aliases, requests, met, polishStarts>>
  BY DEF LookUp
<1>6. PolishTyped'
  <2>1. \A s \in Tasks : work'[s].pc # "idle" => work'[s].verb \in PostVerbs /\ work'[s].id \in PostIds
    BY <1>1, <1>2, <1>4 DEF PolishTyped, Busy
  <2> QED BY <1>1, <1>4, <1>5, <2>1, TypedStep DEF PolishTyped
<1>7. ASSUME Orderly PROVE Orderly'
  <2>1. WorksOn(t, raw[rawpos])
    BY <1>1, <1>7, AtWork
  <2>2. WorksOn(t, raw[rawpos])'
    BY <1>1, <1>2, <1>4, <1>5, <2>1 DEF WorksOn
  <2> QED BY <1>1, <1>2, <1>4, <1>5, <1>7, <2>2, WorkGoesOn
<1> QED BY <1>5, <1>6, <1>7 DEF PolishInv

LEMMA PendingIs == ASSUME PolishTyped, NEW t \in Tasks PROVE Pending(t) \subseteq Mentioned
BY WorkParts, PolishTypes DEF Pending

LEMMA ReleaseKeeps == ASSUME PolishInv, NEW t \in Tasks, Release(t) PROVE PolishInv'
<1> DEFINE pc == IF Pending(t) = {} THEN "publish" ELSE "hold"
           w == [work[t] EXCEPT !.pc = pc]
<1>1. PolishTyped /\ work[t] \in WorkSet /\ work[t].pc = "release" /\ Busy(t)
  BY PolishTypes DEF PolishInv, Release, Busy
<1>2. pc \in {"publish", "hold"} /\ (pc = "publish" <=> Pending(t) = {})
  OBVIOUS
<1>3. work' = [work EXCEPT ![t] = w]
  BY <1>1, PolishTypes DEF Release
<1> HIDE DEF pc
<1>4. w \in WorkSet /\ w.pc = pc /\ w.linked = work[t].linked /\ w.verb = work[t].verb /\ w.mentions = work[t].mentions /\ w.id = work[t].id
  BY <1>1, <1>2 DEF WorkSet
<1> HIDE DEF w
<1>5. work' \in [Tasks -> WorkSet] /\ work'[t] = w /\ \A s \in Tasks : s # t => work'[s] = work[s]
  BY <1>1, <1>3, <1>4, PolishTypes
<1>6. UNCHANGED <<raw, rawpos, polished, found, foundpos, linkable, aliases, requests, met, polishStarts>> /\ held' = <<>>
  BY DEF Release
<1>7. PolishTyped'
  <2>1. \A s \in Tasks : work'[s].pc # "idle" => work'[s].verb \in PostVerbs /\ work'[s].id \in PostIds
    BY <1>1, <1>4, <1>5 DEF PolishTyped, Busy
  <2>2. held' \in Seq(HeldSet)
    BY <1>6
  <2> QED BY <1>1, <1>5, <1>6, <2>1, <2>2, TypedStep DEF PolishTyped
<1>8. ASSUME Orderly PROVE Orderly'
  <2>1. WorksOn(t, raw[rawpos])
    BY <1>1, <1>8, AtWork
  <2>2. w.mentions \ w.linked = Pending(t) /\ w.linked = w.mentions \cap linkable
    BY <1>1, <1>4, <2>1 DEF WorksOn, Pending
  <2>3. w.pc = "publish" => HeldFor(work[t].mentions, work[t].linked)'
    BY <1>2, <1>4, <1>5, <1>6, <2>2 DEF HeldFor
  <2>4. WorksOn(t, raw[rawpos])'
    BY <1>1, <1>2, <1>4, <1>5, <1>6, <2>1, <2>2, <2>3 DEF WorksOn, HeldFor
  <2>5. work'[t].pc # "idle"
    BY <1>2, <1>4, <1>5
  <2> QED BY <1>1, <1>4, <1>5, <1>6, <1>8, <2>4, <2>5, WorkGoesOn
<1> QED BY <1>6, <1>7, <1>8 DEF PolishInv

LEMMA HoldKeeps == ASSUME PolishInv, NEW t \in Tasks, Hold(t) PROVE PolishInv'
<1> DEFINE w == [work[t] EXCEPT !.pc = "publish"]
           h == [mentions |-> work[t].mentions, waits |-> Pending(t)]
<1>1. PolishTyped /\ work[t] \in WorkSet /\ work[t].pc = "hold" /\ Busy(t) /\ work[t].mentions \subseteq Mentioned
  BY PolishTypes, WorkParts DEF PolishInv, Hold, Busy
<1>2. w \in WorkSet /\ w.pc = "publish" /\ w.linked = work[t].linked /\ w.verb = work[t].verb /\ w.mentions = work[t].mentions /\ w.id = work[t].id
  BY <1>1 DEF WorkSet
<1>3. work' = [work EXCEPT ![t] = w]
  BY <1>1, PolishTypes DEF Hold
<1>4. h \in HeldSet
  BY <1>1, PendingIs DEF HeldSet
<1>5. UNCHANGED <<raw, rawpos, polished, found, foundpos, linkable, aliases, met, polishStarts>> /\ held' = <<h>>
  BY DEF Hold
<1> HIDE DEF w
<1>6. work' \in [Tasks -> WorkSet] /\ work'[t] = w /\ \A s \in Tasks : s # t => work'[s] = work[s]
  BY <1>1, <1>2, <1>3, PolishTypes
<1>7. PolishTyped'
  <2>1. \A s \in Tasks : work'[s].pc # "idle" => work'[s].verb \in PostVerbs /\ work'[s].id \in PostIds
    BY <1>1, <1>2, <1>6 DEF PolishTyped, Busy
  <2> HIDE DEF h
  <2>2. held' \in Seq(HeldSet)
    BY <1>4, <1>5
  <2> QED BY <1>1, <1>5, <1>6, <2>1, <2>2, TypedStep DEF PolishTyped
<1>8. ASSUME Orderly PROVE Orderly'
  <2>1. WorksOn(t, raw[rawpos])
    BY <1>1, <1>8, AtWork
  <2>2. w.mentions \ w.linked = Pending(t) /\ w.linked = w.mentions \cap linkable /\ Pending(t) # {}
    BY <1>1, <1>2, <2>1 DEF WorksOn, Pending
  <2>3. HeldFor(work[t].mentions, work[t].linked)'
    BY <1>2, <1>5, <1>6, <2>2 DEF HeldFor
  <2>4. WorksOn(t, raw[rawpos])'
    BY <1>1, <1>2, <1>5, <1>6, <2>1, <2>2, <2>3 DEF WorksOn, HeldFor
  <2>5. work'[t].pc # "idle"
    BY <1>2, <1>6
  <2> QED BY <1>1, <1>2, <1>5, <1>6, <1>8, <2>4, <2>5, WorkGoesOn
<1> QED BY <1>5, <1>7, <1>8 DEF PolishInv

-----------------------------------------------------------------------------
Forwarding(w) == [verb |-> w.verb, mentions |-> w.mentions, linked |-> w.linked, id |-> w.id]
LEMMA ForwardingIs ==
  ASSUME NEW w \in WorkSet, w.verb \in PostVerbs, w.id \in PostIds
  PROVE  /\ Forwarding(w) \in PolishedSet /\ Forwarding(w).verb = w.verb /\ Forwarding(w).mentions = w.mentions
         /\ Forwarding(w).linked = w.linked /\ Forwarding(w).id = w.id
BY WorkParts DEF Forwarding, PolishedSet

LEMMA ForwardKeeps == ASSUME PolishInv, NEW t \in Tasks, Forward(t) PROVE PolishInv'
<1> DEFINE w == work[t]
           f == Forwarding(w)
<1>1. PolishTyped /\ w \in WorkSet /\ w.pc = "publish" /\ Busy(t)
  BY PolishTypes DEF PolishInv, Forward, Busy
<1>2. w.verb \in PostVerbs /\ w.id \in PostIds
  BY <1>1 DEF PolishTyped
<1>3. f \in PolishedSet /\ f.verb = w.verb /\ f.mentions = w.mentions /\ f.linked = w.linked /\ f.id = w.id
  BY <1>1, <1>2, ForwardingIs
<1>4. polished' = (IF Named(w.id) THEN polished ELSE Append(polished, f)) /\ work' = [work EXCEPT ![t] = AtRest]
      /\ UNCHANGED <<raw, rawpos, found, foundpos, linkable, held, aliases, requests, met, polishStarts>>
  BY DEF Forward, Named, Forwarding
<1> HIDE DEF f
<1>5. work' \in [Tasks -> WorkSet] /\ work'[t] = AtRest /\ \A s \in Tasks : s # t => work'[s] = work[s]
  BY <1>1, <1>4, PolishTypes, RestIs
<1>6. /\ ~Named(w.id) => /\ polished' \in Seq(PolishedSet) /\ Len(polished') = Len(polished) + 1 /\ polished'[Len(polished) + 1] = f
                         /\ \A i \in 1..Len(polished) : polished'[i] = polished[i]
      /\ polished' \in Seq(PolishedSet) /\ Len(polished) \in Nat
  BY <1>1, <1>3, <1>4, PolishTypes, AppendProperties
<1>7. PolishTyped'
  <2>1. \A s \in Tasks : work'[s].pc # "idle" => work'[s].verb \in PostVerbs /\ work'[s].id \in PostIds
    BY <1>1, <1>5, RestIs DEF PolishTyped, Busy
  <2> QED BY <1>1, <1>4, <1>5, <1>6, <2>1, TypedStep DEF PolishTyped
<1>8. ASSUME Orderly PROVE Orderly'
  <2>1. /\ rawpos \in 1..Len(raw) /\ rawpos # 0 /\ WorksOn(t, raw[rawpos]) /\ \A s \in Tasks : s # t => ~Busy(s)
        /\ t = Translator => w.id = <<"raw_activities", rawpos>> /\ aliases = <<>>
        /\ t = Updater => w.id = DiscoveryId
    BY <1>1, <1>8, AtWork, PolishTypes
  <2>2. \A s \in Tasks : ~Busy(s)'
    BY <1>5, <2>1, RestIs DEF Busy
  <2>3. (TurnsAreTaken /\ NothingTaken /\ TranslatorWorks /\ UpdaterWorks)'
    BY <1>4, <2>1, <2>2, TasksAre DEF TurnsAreTaken, NothingTaken, TranslatorWorks, UpdaterWorks
  <2>4. /\ (w.id[1] = "raw_activities" /\ w.id[2] <= rawpos) \/ (w.id[1] = "remote_actors" /\ w.id[2] <= foundpos)
    BY <1>1, <2>1, TasksAre, PolishTypes DEF DiscoveryId
  <2>5. PublishedBefore'
    <3>1. \A i \in DOMAIN polished : LET q == polished[i].id IN
            (q[1] = "raw_activities" /\ q[2] <= rawpos) \/ (q[1] = "remote_actors" /\ q[2] <= foundpos)
      BY <1>8 DEF Orderly, PublishedBefore
    <3>2. \A i \in DOMAIN polished' : (i \in DOMAIN polished /\ polished'[i] = polished[i]) \/ polished'[i] = f
      <4>1. CASE Named(w.id)
        BY <1>4, <4>1
      <4>2. CASE ~Named(w.id)
        BY <1>1, <1>6, <4>2, PolishTypes
      <4> QED BY <4>1, <4>2
    <3>3. ~Busy(Translator)'
      BY <2>2, TasksAre
    <3> QED BY <1>3, <1>4, <2>4, <3>1, <3>2, <3>3 DEF PublishedBefore
  <2>6. w.mentions = raw[rawpos].mentions /\ ((w.verb = "Delete") <=> (raw[rawpos].verb = "Delete"))
        /\ w.linked = w.mentions \cap linkable /\ HeldFor(w.mentions, w.linked)
    BY <1>1, <2>1 DEF WorksOn
  <2>7. LET p == polished'[Len(polished')] IN
        /\ polished' # <<>> /\ p.mentions = raw[rawpos].mentions /\ ((p.verb = "Delete") <=> (raw[rawpos].verb = "Delete"))
        /\ p.linked = p.mentions \cap linkable /\ HeldFor(p.mentions, p.linked)
    <3>1. CASE ~Named(w.id)
      <4>1. polished'[Len(polished')] = f /\ polished' # <<>>
        BY <1>6, <3>1
      <4> QED BY <1>3, <2>6, <4>1
    <3>2. CASE Named(w.id)
      <4>1. t = Updater /\ Named(DiscoveryId) /\ Busy(Updater) /\ ~Busy(Translator)
        <5>1. CASE t = Translator
          <6>1. PICK i \in DOMAIN polished : polished[i].id = <<"raw_activities", rawpos>>
            BY <2>1, <3>2, <5>1 DEF Named
          <6>2. polished[i].id[1] = "raw_activities" /\ polished[i].id[2] = rawpos
            BY <6>1
          <6>3. rawpos < rawpos
            BY <1>1, <1>8, <5>1, <6>2 DEF Orderly, PublishedBefore
          <6> QED BY <2>1, <6>3, <1>1, PolishTypes
        <5>2. CASE t = Updater
          BY <1>1, <2>1, <3>2, <5>2, TasksAre
        <5> QED BY <5>1, <5>2, TasksAre
      <4>2. LastSays(raw[rawpos]) /\ LastIsLinked
        BY <1>8, <2>1, <4>1 DEF Orderly, LastIsCurrent
      <4>3. polished' = polished
        BY <1>4, <3>2
      <4>4. polished[Len(polished)].linked = w.linked /\ polished[Len(polished)].mentions = w.mentions
        BY <2>6, <4>2 DEF LastSays, LastIsLinked
      <4>5. HeldFor(polished[Len(polished)].mentions, polished[Len(polished)].linked)
        BY <2>6, <4>4
      <4> QED BY <4>2, <4>3, <4>5 DEF LastSays, LastIsLinked
    <3> QED BY <3>1, <3>2
  <2>8. (LastSays(raw[rawpos]) /\ LastIsLinked /\ LastIsHeld)'
    BY <1>4, <2>7 DEF LastSays, LastIsLinked, LastIsHeld, HeldFor
  <2>9. LastIsCurrent'
    BY <2>8 DEF LastIsCurrent
  <2> QED BY <2>3, <2>5, <2>9 DEF Orderly
<1> QED BY <1>4, <1>7, <1>8 DEF PolishInv

-----------------------------------------------------------------------------
LEMMA DiscoverKeeps == ASSUME PolishInv, Discover PROVE PolishInv'
<1> DEFINE n == foundpos + 1
           h == Head(found[n])
<1>1. PolishTyped /\ foundpos \in Nat /\ n \in Nat /\ n \in 1..Len(found) /\ Len(found) \in Nat
  BY PolishTypes DEF PolishInv, Discover
<1>2. foundpos' = n /\ aliases' = found[n] /\ aliases = <<>> /\ ~Busy(Updater) /\ met' = (met \/ Busy(Translator))
      /\ linkable' = RememberedActors(n)
      /\ UNCHANGED <<raw, rawpos, polished, found, held, work, requests, polishStarts>>
  BY DEF Discover, Meets, Translator, Updater
<1>3. found[n] \in Seq(Mentioned) /\ found[n] # <<>>
  BY <1>1, RememberedIs
<1>4. linkable' = linkable \cup {h}
  <2>1. linkable = RememberedActors(foundpos)
    BY <1>1 DEF PolishTyped
  <2>2. 1..n = (1..foundpos) \cup {n}
    BY <1>1
  <2> QED BY <1>2, <2>1, <2>2 DEF RememberedActors
<1>5. PolishTyped'
  <2>1. foundpos' \in 0..Len(found) /\ aliases' \in Seq(Mentioned) /\ linkable' = RememberedActors(foundpos')
    BY <1>1, <1>2, <1>3
  <2>2. \A s \in Tasks : work'[s].pc # "idle" => work'[s].verb \in PostVerbs /\ work'[s].id \in PostIds
    BY <1>1, <1>2 DEF PolishTyped, Busy
  <2>3. rawpos' \in 0..Len(raw) /\ polished' \in Seq(PolishedSet) /\ held' \in Seq(HeldSet) /\ work' \in [Tasks -> WorkSet]
        /\ polishStarts' \in Nat /\ UNCHANGED <<raw, found>>
    BY <1>1, <1>2, PolishTypes DEF PolishTyped
  <2> QED BY <1>1, <2>1, <2>2, <2>3, TypedStep
<1> HIDE DEF n
<1>6. ASSUME Orderly, ~met' PROVE Orderly'
  <2>1. \A s \in Tasks : ~Busy(s) /\ ~Busy(s)'
    BY <1>2, <1>6, TasksAre DEF Busy
  <2>2. (TurnsAreTaken /\ NothingTaken /\ TranslatorWorks /\ UpdaterWorks)'
    BY <1>2, <1>6, <2>1, TasksAre DEF Orderly, TurnsAreTaken, NothingTaken, TranslatorWorks, UpdaterWorks
  <2>3. PublishedBefore'
    <3>1. ASSUME NEW i \in DOMAIN polished, polished[i].id[2] <= foundpos PROVE polished[i].id[2] <= n
      <4>1. polished[i].id \in PostIds
        BY <1>1, IdsAre
      <4>2. polished[i].id[2] \in Nat
        BY <4>1 DEF PostIds
      <4> QED BY <1>1, <3>1, <4>2 DEF n
    <3>2. ~Busy(Translator)'
      BY <2>1, TasksAre
    <3> QED BY <1>2, <1>6, <3>1, <3>2 DEF Orderly, PublishedBefore
  <2>4. ASSUME Named(DiscoveryId)' PROVE FALSE
    <3>1. PICK i \in DOMAIN polished : polished[i].id = <<"remote_actors", n>>
      BY <1>2, <2>4 DEF Named, DiscoveryId
    <3>2. polished[i].id[1] = "remote_actors" /\ polished[i].id[2] = n
      BY <3>1
    <3>3. n <= foundpos
      BY <1>6, <3>2 DEF Orderly, PublishedBefore
    <3> QED BY <1>1, <3>3 DEF n
  <2>5. ASSUME rawpos # 0
        PROVE  (LastSays(raw[rawpos]) /\ LastIsHeld /\ (LastIsLinked \/ (aliases # <<>> /\ LastLacks(Head(aliases)))))'
    <3>1. LastSays(raw[rawpos]) /\ LastIsHeld /\ LastIsLinked
      BY <1>2, <1>6, <2>1, <2>5, TasksAre DEF Orderly, LastIsCurrent
    <3>2. (LastSays(raw[rawpos]) /\ LastIsHeld)'
      BY <1>2, <3>1 DEF LastSays, LastIsHeld, HeldFor
    <3>3. CASE h \in linkable
      <4>1. LastIsLinked'
        BY <1>2, <1>4, <3>1, <3>3 DEF LastIsLinked
      <4> QED BY <3>2, <4>1
    <3>4. CASE h \notin linkable
      <4>1. linkable' \ {h} = linkable
        BY <1>4, <3>4
      <4>2. LastLacks(Head(aliases))'
        BY <1>2, <3>1, <4>1 DEF LastIsLinked, LastLacks
      <4> QED BY <1>2, <1>3, <3>2, <4>2
    <3> QED BY <3>3, <3>4
  <2>6. LastIsCurrent'
    BY <1>2, <2>1, <2>4, <2>5, TasksAre DEF LastIsCurrent
  <2> QED BY <2>2, <2>3, <2>6 DEF Orderly
<1> QED BY <1>2, <1>5, <1>6 DEF PolishInv

-----------------------------------------------------------------------------
LEMMA UpdateKeeps == ASSUME PolishInv, UpdateWaiting PROVE PolishInv'
<1> DEFINE a == Head(aliases)
           w == Polishing("Update", held[1].mentions, DiscoveryId)
           p == polished[Len(polished)]
<1>1. PolishTyped /\ ~Busy(Updater) /\ aliases # <<>> /\ a \in Mentioned /\ Tail(aliases) \in Seq(Mentioned) /\ foundpos \in Nat
  BY PolishTypes, HeadTailProperties DEF PolishInv, UpdateWaiting
<1>2. /\ aliases' = Tail(aliases) /\ met' = (met \/ Busy(Translator))
      /\ UNCHANGED <<raw, rawpos, polished, found, foundpos, linkable, held, requests, polishStarts>>
  BY DEF UpdateWaiting, Meets, Translator, Updater
<1>3. /\ (held # <<>> /\ a \in held[1].waits) => work' = [work EXCEPT ![Updater] = w]
      /\ ~(held # <<>> /\ a \in held[1].waits) => work' = work
  BY DEF UpdateWaiting, WaitingFor, DiscoveryId
<1>4. ASSUME held # <<>>
      PROVE  w \in WorkSet /\ w.pc = "look" /\ w.verb = "Update" /\ w.mentions = held[1].mentions /\ w.id = DiscoveryId /\ w.id \in PostIds
  <2>1. held[1] \in HeldSet
    BY <1>1, <1>4, PolishTypes
  <2>2. held[1].mentions \in SUBSET Mentioned
    BY <2>1 DEF HeldSet
  <2>3. DiscoveryId \in PostIds /\ "Update" \in PostVerbs
    BY <1>1 DEF DiscoveryId, PostIds, PostVerbs
  <2> QED BY <2>2, <2>3, PolishingIs
<1> HIDE DEF w
<1>5. work' \in [Tasks -> WorkSet] /\ work'[Translator] = work[Translator]
      /\ ((held # <<>> /\ a \in held[1].waits) => work'[Updater] = w)
  BY <1>1, <1>3, <1>4, PolishTypes, TasksAre
<1>6. PolishTyped'
  <2>1. \A s \in Tasks : work'[s].pc # "idle" => work'[s].verb \in PostVerbs /\ work'[s].id \in PostIds
    <3>1. work'[Translator].pc # "idle" => work'[Translator].verb \in PostVerbs /\ work'[Translator].id \in PostIds
      BY <1>1, <1>5, TasksAre DEF PolishTyped, Busy
    <3>2. work'[Updater].pc # "idle" => work'[Updater].verb \in PostVerbs /\ work'[Updater].id \in PostIds
      BY <1>1, <1>3, <1>4, <1>5 DEF Busy, PostVerbs
    <3> QED BY <3>1, <3>2, TasksAre
  <2>2. rawpos' \in 0..Len(raw) /\ polished' \in Seq(PolishedSet) /\ held' \in Seq(HeldSet) /\ foundpos' \in 0..Len(found)
        /\ linkable' = RememberedActors(foundpos') /\ aliases' \in Seq(Mentioned) /\ polishStarts' \in Nat /\ UNCHANGED <<raw, found>>
    BY <1>1, <1>2, PolishTypes DEF PolishTyped
  <2> QED BY <1>1, <1>5, <2>1, <2>2, TypedStep
<1>7. ASSUME Orderly, ~met' PROVE Orderly'
  <2>1. ~Busy(Translator) /\ ~Busy(Translator)'
    BY <1>2, <1>5, <1>7 DEF Busy
  <2>2. TurnsAreTaken' /\ PublishedBefore' /\ TranslatorWorks'
    BY <1>2, <1>7, <2>1 DEF Orderly, TurnsAreTaken, PublishedBefore, TranslatorWorks
  <2>3. rawpos # 0 =>
          /\ LastSays(raw[rawpos]) /\ LastIsHeld
          /\ LastIsLinked \/ (LastLacks(a) /\ ~Named(DiscoveryId))
    BY <1>1, <1>7, <2>1 DEF Orderly, LastIsCurrent
  <2>4. rawpos # 0 => (LastSays(raw[rawpos]) /\ LastIsHeld)'
    BY <1>2, <2>3 DEF LastSays, LastIsHeld, HeldFor
  <2>5. CASE held # <<>> /\ a \in held[1].waits
    <3>1. Busy(Updater)' /\ work'[Updater] = w
      BY <1>4, <1>5, <2>5 DEF Busy
    <3>2. rawpos # 0 /\ rawpos \in 1..Len(raw)
      BY <1>1, <1>7, <2>5, PolishTypes DEF Orderly, NothingTaken
    <3>3. held[1].mentions = p.mentions /\ p.mentions # {}
      <4>1. HeldFor(p.mentions, p.linked)
        BY <2>3, <3>2 DEF LastIsHeld
      <4>2. p.mentions \ p.linked # {} /\ held = <<[mentions |-> p.mentions, waits |-> p.mentions \ p.linked]>>
        BY <2>5, <4>1 DEF HeldFor
      <4> QED BY <4>2
    <3>4. w.mentions = raw[rawpos].mentions /\ raw[rawpos].mentions # {} /\ raw[rawpos].verb # "Delete"
      BY <1>1, <1>4, <2>3, <2>5, <3>2, <3>3, PolishTypes DEF LastSays, PolishTyped
    <3>5. WorksOn(Updater, raw[rawpos])'
      BY <1>2, <1>4, <2>5, <3>1, <3>4 DEF WorksOn
    <3>6. UpdaterWorks'
      BY <1>2, <1>4, <2>5, <3>1, <3>5 DEF UpdaterWorks, DiscoveryId
    <3>7. LastIsLinked \/ ~Named(DiscoveryId)
      BY <2>3, <3>2
    <3>8. LastIsCurrent'
      BY <1>2, <2>4, <3>1, <3>2, <3>7 DEF LastIsCurrent, LastIsLinked, Named, DiscoveryId
    <3>9. NothingTaken'
      BY <1>2, <3>2 DEF NothingTaken
    <3> QED BY <2>2, <3>6, <3>8, <3>9 DEF Orderly
  <2>6. CASE ~(held # <<>> /\ a \in held[1].waits)
    <3>1. ~Busy(Updater)' /\ work' = work
      BY <1>1, <1>3, <2>6 DEF Busy
    <3>2. NothingTaken' /\ UpdaterWorks'
      BY <1>2, <1>7, <3>1 DEF Orderly, NothingTaken, UpdaterWorks, Busy
    <3>3. ASSUME rawpos # 0, LastLacks(a) PROVE LastIsLinked
      <4>1. p.linked = p.mentions \cap (linkable \ {a})
        BY <3>3 DEF LastLacks
      <4>2. ASSUME a \in p.mentions PROVE FALSE
        <5>1. HeldFor(p.mentions, p.linked)
          BY <2>3, <3>3 DEF LastIsHeld
        <5>2. a \in p.mentions \ p.linked
          BY <4>1, <4>2
        <5>3. held = <<[mentions |-> p.mentions, waits |-> p.mentions \ p.linked]>>
          BY <5>1, <5>2 DEF HeldFor
        <5> QED BY <2>6, <5>2, <5>3
      <4> QED BY <4>1, <4>2 DEF LastIsLinked
    <3>4. rawpos # 0 => LastIsLinked'
      BY <1>2, <2>3, <3>3 DEF LastIsLinked
    <3>5. LastIsCurrent'
      BY <1>2, <2>4, <3>1, <3>4 DEF LastIsCurrent
    <3> QED BY <2>2, <3>2, <3>5 DEF Orderly
  <2> QED BY <2>5, <2>6
<1> QED BY <1>2, <1>6, <1>7 DEF PolishInv

LEMMA PolishRestarts == ASSUME PolishInv, RestartPolish PROVE PolishInv'
<1>1. PolishTyped
  BY DEF PolishInv
<1>2. /\ polishStarts' = polishStarts + 1 /\ rawpos' = 0 /\ foundpos' = Len(found) /\ linkable' = RememberedActors(Len(found))
      /\ held' = <<>> /\ work' = [t \in Tasks |-> AtRest] /\ aliases' = <<>> /\ UNCHANGED <<raw, polished, found>>
  BY DEF RestartPolish, Tasks
<1>3. work' \in [Tasks -> WorkSet] /\ \A s \in Tasks : work'[s].pc = "idle"
  BY <1>2, RestIs
<1>4. polishStarts' \in Nat /\ polishStarts' # 0 /\ rawpos' \in 0..Len(raw) /\ foundpos' \in 0..Len(found)
  BY <1>1, <1>2, PolishTypes DEF PolishTyped
<1>5. PolishTyped'
  BY <1>1, <1>2, <1>3, <1>4, TypedStep, PolishTypes
<1> QED BY <1>4, <1>5 DEF PolishInv

LEMMA PolishStep == PolishInv /\ [PolishNext]_pvars => PolishInv'
<1> SUFFICES ASSUME PolishInv, [PolishNext]_pvars PROVE PolishInv'
  OBVIOUS
<1>1. CASE WorldStep
  BY <1>1, WorldKeeps
<1>2. CASE Take
  BY <1>2, TakeKeeps
<1>3. CASE Discover
  BY <1>3, DiscoverKeeps
<1>4. CASE UpdateWaiting
  BY <1>4, UpdateKeeps
<1>5. CASE RestartPolish
  BY <1>5, PolishRestarts
<1>6. ASSUME NEW t \in Tasks, LookUp(t) \/ Release(t) \/ Hold(t) \/ Forward(t) PROVE PolishInv'
  BY <1>6, LookUpKeeps, ReleaseKeeps, HoldKeeps, ForwardKeeps
<1>7. CASE UNCHANGED pvars
  BY <1>7 DEF pvars, PolishInv, PolishTyped, RememberedActors, Busy, Orderly, TurnsAreTaken, Discovering, PublishedBefore, NothingTaken,
              TranslatorWorks, UpdaterWorks, WorksOn, HeldFor, LastIsCurrent, LastSays, LastIsHeld, LastIsLinked, LastLacks, Named, DiscoveryId
<1> QED BY <1>1, <1>2, <1>3, <1>4, <1>5, <1>6, <1>7 DEF PolishNext, WorldStep, PostVerbs, Tasks

LEMMA PolishedIsCurrent == ASSUME PolishInv PROVE PolishedAsKnown
<1> SUFFICES ASSUME AllPolished, raw # <<>>, ~met, polishStarts = 0
             PROVE  LET p == Last(polished) IN
                    /\ (p.verb = "Delete") = (Last(raw).verb = "Delete")
                    /\ p.mentions = Last(raw).mentions
                    /\ p.linked = p.mentions \cap linkable
  BY DEF PolishedAsKnown
<1>1. PolishTyped /\ Orderly /\ rawpos = Len(raw) /\ aliases = <<>>
  BY DEF PolishInv, AllPolished
<1>2. ~Busy(Translator) /\ ~Busy(Updater)
  BY <1>1, PolishTypes, TasksAre DEF AllPolished
<1>3. rawpos # 0
  BY <1>1, PolishTypes
<1>4. LastSays(raw[Len(raw)]) /\ LastIsLinked
  BY <1>1, <1>2, <1>3 DEF Orderly, LastIsCurrent
<1> QED BY <1>4 DEF LastSays, LastIsLinked, Last

\* polish_activities, as long as its two tasks do not meet: when everything is
\* handled the last activity on the post is the author's last, and links just
\* the accounts that are known; nothing is published after the deletion.
THEOREM PostsLinkWhatIsKnown == Spec => []PolishedAsKnown
<1>1. Init => PolishInv
  BY PolishStart DEF Init
<1>2. [Next]_bvars => [PolishNext]_pvars
  BY DEF Next, bvars, pvars
<1>3. PolishInv /\ [Next]_bvars => PolishInv'
  BY <1>2, PolishStep
<1>4. PolishInv => PolishedAsKnown
  BY PolishedIsCurrent
<1> QED BY <1>1, <1>3, <1>4, PTL DEF Spec

-----------------------------------------------------------------------------
(***************************************************************************)
(* user_person and person_activities.  A change that a tick closes has     *)
(* been announced once user_person has read the tick, now or before a      *)
(* restart, unless the user was created and deleted since the last tick;   *)
(* the events lie in the order of the changes that they are of.            *)
(***************************************************************************)
UserSet == [type : Verbs \cup {"tick"}, after : Nat]
PersonRowSet == [created : Nat, changed : Nat, deleted : Nat, version : Nat]
PersonSet == [type : {"created", "updated", "deleted"}, id : Nat, version : Nat]

PersonsTyped ==
  /\ users \in Seq(UserSet) /\ upos \in 0..Len(users) /\ row \in Seq(PersonRowSet) /\ lastTick \in 0..upos
  /\ persons \in Seq(PersonSet) /\ apos \in 0..Len(persons) /\ observed \in [Tickers -> Nat]

\* Whether she is there after the first n events.
ThereAt(n) == \E i \in 1..n : users[i].type = "created" /\ \A j \in i..n : users[j].type # "deleted"
OneCreation == \A i \in 1..Len(users) : IsChange(users[i]) => (users[i].type = "created" <=> ~ThereAt(i - 1))

\* A change that the next event, a tick, closes.
Closed(c) == c \in 1..(Len(users) - 1) /\ IsChange(users[c]) /\ IsTick(users[c + 1])

\* She was created after the last tick, and is deleted.
Unseen(c) == users[c].type = "deleted" /\ \E b \in 1..c : users[b].type = "created" /\ \A k \in b..c : IsChange(users[k])

LastTickIs ==
  /\ lastTick = 0 \/ IsTick(users[lastTick])
  /\ \A k \in 1..upos : lastTick < k => IsChange(users[k])

RowIs ==
  /\ row = <<>> => lastTick = upos /\ ~ThereAt(upos)
  /\ row # <<>> =>
       LET r == row[1] IN
       /\ r.created \in 1..upos /\ users[r.created].type = "created"
       /\ \A k \in 1..upos : users[k].type = "created" => k <= r.created
       /\ r.changed \in 1..upos /\ IsChange(users[r.changed])
       /\ \A k \in 1..upos : IsChange(users[k]) => k <= r.changed
       /\ r.deleted # 0 <=> users[r.changed].type = "deleted"
       /\ r.deleted # 0 => lastTick < r.changed
       /\ r.deleted = 0 => r.version = r.changed

Has(c) == \E i \in 1..Len(persons) : persons[i].id = c
EventsAreOfChanges ==
  \A i \in 1..Len(persons) :
    LET e == persons[i] IN
    /\ Closed(e.id) /\ ~Unseen(e.id)
    /\ e.type = "deleted" <=> users[e.id].type = "deleted"
    /\ e.type # "deleted" => e.version = e.id
EventsInOrder == \A i, j \in 1..Len(persons) : i < j => persons[i].id < persons[j].id
NoneIsMissing ==
  \A c \in 1..Len(users) :
    (Closed(c) /\ ~Unseen(c) /\ (c < upos \/ \E i \in 1..Len(persons) : c < persons[i].id)) => Has(c)

PersonsInv == /\ PersonsTyped /\ OneCreation /\ LastTickIs /\ RowIs
              /\ EventsAreOfChanges /\ EventsInOrder /\ NoneIsMissing

LEMMA PersonsTypes ==
  ASSUME PersonsTyped
  PROVE  /\ users \in Seq(UserSet) /\ Len(users) \in Nat /\ DOMAIN users = 1..Len(users)
         /\ upos \in Nat /\ upos <= Len(users) /\ lastTick \in Nat /\ lastTick <= upos /\ lastTick \in 0..upos
         /\ row \in Seq(PersonRowSet) /\ (row # <<>> => row[1] \in PersonRowSet)
         /\ persons \in Seq(PersonSet) /\ Len(persons) \in Nat /\ DOMAIN persons = 1..Len(persons)
         /\ \A k \in 1..Len(users) : users[k] \in UserSet /\ k \in Nat
         /\ \A k \in 1..Len(persons) : persons[k] \in PersonSet /\ persons[k].id \in Nat
<1>3. \A k \in 1..Len(persons) : persons[k] \in PersonSet
  BY DEF PersonsTyped
<1>1. \A k \in 1..Len(persons) : persons[k] \in PersonSet /\ persons[k].id \in Nat
  BY <1>3 DEF PersonSet
<1>2. row # <<>> => row[1] \in PersonRowSet
  BY DEF PersonsTyped
<1> QED BY <1>1, <1>2 DEF PersonsTyped

LEMMA PersonsStart == PersonsInit => PersonsInv
<1> SUFFICES ASSUME PersonsInit PROVE PersonsInv
  OBVIOUS
<1>1. users = <<>> /\ upos = 0 /\ row = <<>> /\ lastTick = 0 /\ persons = <<>> /\ apos = 0 /\ Len(users) = 0 /\ Len(persons) = 0
  BY DEF PersonsInit
<1>2. \A k : k \notin 1..0
  OBVIOUS
<1>3. ~ThereAt(0)
  BY <1>2 DEF ThereAt
<1>4. PersonsTyped
  BY <1>1 DEF PersonsTyped, PersonsInit
<1>5. OneCreation /\ LastTickIs /\ RowIs /\ EventsAreOfChanges /\ EventsInOrder /\ NoneIsMissing
  BY <1>1, <1>2, <1>3 DEF OneCreation, LastTickIs, RowIs, EventsAreOfChanges, EventsInOrder, NoneIsMissing
<1> QED BY <1>4, <1>5 DEF PersonsInv

-----------------------------------------------------------------------------
(* The topic of the users grows. *)

LEMMA UsersGrow ==
  ASSUME PersonsInv, NEW e \in UserSet, users' = Append(users, e), IsChange(e) => (e.type = "created" <=> ~ThereAt(Len(users))),
         UNCHANGED <<upos, row, lastTick, persons, apos, observed>>
  PROVE  PersonsInv'
<1> DEFINE n == Len(users)
<1>1. PersonsTyped /\ n \in Nat /\ upos \in Nat /\ upos <= n
  BY PersonsTypes DEF PersonsInv
<1>2. users' \in Seq(UserSet) /\ Len(users') = n + 1 /\ (\A k \in 1..n : users'[k] = users[k]) /\ users'[n + 1] = e
  BY <1>1, PersonsTypes, AppendProperties
<1> HIDE DEF n
<1>3. PersonsTyped'
  BY <1>1, <1>2 DEF PersonsTyped, n
<1>4. \A m \in 0..n : ThereAt(m)' <=> ThereAt(m)
  <2>1. ASSUME NEW m \in 0..n PROVE ThereAt(m)' <=> ThereAt(m)
    <3>1. \A i \in 1..m : i \in 1..n /\ \A j \in i..m : j \in 1..n
      BY <1>1, <2>1
    <3> QED BY <1>2, <3>1 DEF ThereAt
  <2> QED BY <2>1
<1>5. OneCreation'
  <2>1. ASSUME NEW i \in 1..(n + 1), IsChange(users'[i]) PROVE users'[i].type = "created" <=> ~ThereAt(i - 1)'
    <3>1. CASE i \in 1..n
      <4>1. i - 1 \in 0..n
        BY <1>1, <3>1
      <4> QED BY <1>1, <1>2, <1>4, <2>1, <3>1, <4>1 DEF PersonsInv, OneCreation, n
    <3>2. CASE i = n + 1
      <4>1. i - 1 = n /\ n \in 0..n
        BY <1>1, <3>2
      <4>2. ThereAt(i - 1)' <=> ThereAt(i - 1)
        BY <1>4, <4>1
      <4>3. ThereAt(i - 1) <=> ThereAt(Len(users))
        BY <4>1 DEF n
      <4>4. users'[i] = e
        BY <1>2, <3>2
      <4> QED BY <2>1, <4>2, <4>3, <4>4
    <3>3. i \in 1..n \/ i = n + 1
      BY <1>1, <2>1
    <3> QED BY <3>1, <3>2, <3>3
  <2> QED BY <1>2, <2>1 DEF OneCreation, IsChange
<1>6. \A k \in 1..upos : users'[k] = users[k]
  BY <1>1, <1>2
<1>7. LastTickIs'
  BY <1>1, <1>6, PersonsTypes DEF PersonsInv, LastTickIs, IsTick, IsChange
<1>8. RowIs'
  <2>1. ThereAt(upos)' <=> ThereAt(upos)
    BY <1>1, <1>4
  <2> QED BY <1>6, <2>1 DEF PersonsInv, RowIs, IsChange
<1>9. \A c \in 1..(n - 1) : (Closed(c)' <=> Closed(c)) /\ (Unseen(c)' <=> Unseen(c)) /\ users'[c] = users[c]
  <2>1. ASSUME NEW c \in 1..(n - 1) PROVE (Closed(c)' <=> Closed(c)) /\ (Unseen(c)' <=> Unseen(c)) /\ users'[c] = users[c]
    <3>1. c \in 1..n /\ c + 1 \in 1..n /\ c \in 1..n /\ c \in 1..((n + 1) - 1) /\ \A b \in 1..c : b \in 1..n /\ \A k \in b..c : k \in 1..n
      BY <1>1, <2>1
    <3> QED BY <1>2, <2>1, <3>1 DEF Closed, Unseen, IsChange, IsTick, n
  <2> QED BY <2>1
<1>10. \A i \in 1..Len(persons) : persons[i].id \in 1..(n - 1)
  BY DEF PersonsInv, EventsAreOfChanges, Closed, n
<1>11. EventsAreOfChanges'
  BY <1>9, <1>10 DEF PersonsInv, EventsAreOfChanges
<1>12. EventsInOrder'
  BY DEF PersonsInv, EventsInOrder
<1>13. NoneIsMissing'
  <2>1. ASSUME NEW c \in 1..(n + 1), Closed(c)', ~Unseen(c)', c < upos \/ \E i \in 1..Len(persons) : c < persons[i].id PROVE Has(c)
    <3>1. c \in 1..(n - 1)
      BY <1>1, <1>10, <2>1
    <3>2. c \in 1..Len(users)
      BY <1>1, <3>1 DEF n
    <3> QED BY <1>9, <2>1, <3>1, <3>2 DEF PersonsInv, NoneIsMissing
  <2> QED BY <1>2, <2>1 DEF NoneIsMissing, Has
<1> QED BY <1>3, <1>5, <1>7, <1>8, <1>11, <1>12, <1>13 DEF PersonsInv

LEMMA ChangeKeeps == ASSUME PersonsInv, Change PROVE PersonsInv'
<1>1. PICK v \in Verbs : (v = "created") = ~Exists(users) /\ users' = Append(users, [type |-> v, after |-> 0])
  BY DEF Change
<1> DEFINE e == [type |-> v, after |-> 0]
<1>2. e \in UserSet /\ IsChange(e) /\ e.type = v
  BY <1>1 DEF UserSet, IsChange, Verbs
<1>3. Exists(users) <=> ThereAt(Len(users))
  BY PersonsTypes DEF Exists, ThereAt, PersonsInv
<1>4. users' = Append(users, e) /\ UNCHANGED <<upos, row, lastTick, persons, apos, observed>>
  BY <1>1 DEF Change
<1> HIDE DEF e
<1> QED BY <1>1, <1>2, <1>3, <1>4, UsersGrow

LEMMA TickOfIs == ASSUME PersonsTyped, NEW t \in Tickers PROVE TickOf(t) \in Nat
<1> DEFINE S == {i \in 1..observed[t] : IsTick(users[i])}
<1>1. CASE S = {}
  BY <1>1 DEF TickOf, LastOf
<1>2. CASE S # {}
  <2>1. S \subseteq 0..observed[t] /\ observed[t] \in Nat
    BY DEF PersonsTyped
  <2>2. \E m \in S : \A j \in S : j <= m
    BY <1>2, <2>1, GreatestExists
  <2>3. LastOf(S) \in S
    BY <1>2, <2>2 DEF LastOf
  <2> QED BY <2>1, <2>3 DEF TickOf
<1> QED BY <1>1, <1>2

LEMMA EmitKeeps == ASSUME PersonsInv, NEW t \in Tickers, EmitTick(t) PROVE PersonsInv'
<1> DEFINE e == [type |-> "tick", after |-> TickId(t)]
<1>1. e \in UserSet /\ ~IsChange(e)
  BY TickOfIs DEF UserSet, IsChange, TickId, PersonsInv
<1>2. users' = Append(users, e) /\ UNCHANGED <<upos, row, lastTick, persons, apos, observed>>
  BY DEF EmitTick
<1> HIDE DEF e
<1> QED BY <1>1, <1>2, UsersGrow

-----------------------------------------------------------------------------
(* user_person reads on. *)

\* Where the events stay, what is read may change.
LEMMA ReadingOn ==
  ASSUME PersonsInv, PersonsTyped', users' = users, persons' = persons, LastTickIs', RowIs',
         \A c \in 1..Len(users) : Closed(c) /\ ~Unseen(c) /\ c < upos' => c < upos \/ Has(c)
  PROVE  PersonsInv'
<1>1. OneCreation' /\ EventsAreOfChanges' /\ EventsInOrder'
  BY DEF PersonsInv, OneCreation, ThereAt, IsChange, EventsAreOfChanges, EventsInOrder, Closed, Unseen, IsTick
<1>2. NoneIsMissing'
  <2>1. ASSUME NEW c \in 1..Len(users) PROVE (Closed(c)' <=> Closed(c)) /\ (Unseen(c)' <=> Unseen(c)) /\ (Has(c)' <=> Has(c))
    BY DEF Closed, Unseen, Has, IsChange, IsTick
  <2>2. ASSUME NEW c \in 1..Len(users), Closed(c), ~Unseen(c), c < upos' \/ \E i \in 1..Len(persons) : c < persons[i].id PROVE Has(c)
    BY <2>2 DEF PersonsInv, NoneIsMissing
  <2> QED BY <2>1, <2>2 DEF NoneIsMissing
<1> QED BY <1>1, <1>2 DEF PersonsInv

LEMMA ObserveKeeps == ASSUME PersonsInv, NEW t \in Tickers, Observe(t) PROVE PersonsInv'
<1>1. observed' \in [Tickers -> Nat] /\ UNCHANGED <<users, upos, row, lastTick, persons, apos>>
  BY DEF Observe, PersonsInv, PersonsTyped
<1>2. PersonsTyped'
  BY <1>1 DEF PersonsInv, PersonsTyped
<1>3. LastTickIs' /\ RowIs'
  BY <1>1 DEF PersonsInv, LastTickIs, RowIs, IsTick, IsChange, ThereAt
<1> QED BY <1>1, <1>2, <1>3, ReadingOn

LEMMA AnnounceKeeps == ASSUME PersonsInv, Announce PROVE PersonsInv'
<1>1. UNCHANGED <<users, observed, upos, row, lastTick, persons>> /\ apos' = apos + 1 /\ apos < Len(persons)
  BY DEF Announce
<1>2. PersonsTyped'
  BY <1>1, PersonsTypes DEF PersonsInv, PersonsTyped
<1>3. LastTickIs' /\ RowIs'
  BY <1>1 DEF PersonsInv, LastTickIs, RowIs, IsTick, IsChange, ThereAt
<1> QED BY <1>1, <1>2, <1>3, ReadingOn

LEMMA PersonsRestart == ASSUME PersonsInv, RestartPersons PROVE PersonsInv'
<1>1. UNCHANGED <<users, persons, apos>> /\ upos' = 0 /\ row' = <<>> /\ lastTick' = 0 /\ observed' = [t \in Tickers |-> 0]
  BY DEF RestartPersons
<1>2. observed' \in [Tickers -> Nat]
  BY <1>1
<1>3. PersonsTyped'
  BY <1>1, <1>2, PersonsTypes DEF PersonsInv, PersonsTyped
<1>4. ~ThereAt(0)'
  BY DEF ThereAt
<1>5. ThereAt(upos)' <=> ThereAt(0)'
  BY <1>1 DEF ThereAt
<1>6. LastTickIs' /\ RowIs'
  BY <1>1, <1>4, <1>5 DEF LastTickIs, RowIs
<1>7. \A c \in 1..Len(users) : ~(c < upos')
  BY <1>1
<1> QED BY <1>1, <1>3, <1>6, <1>7, ReadingOn

\* She is there if and only if the last change is not that she is deleted.
LEMMA ThereByLast ==
  ASSUME PersonsInv, NEW n \in 1..Len(users), NEW c \in 1..n, IsChange(users[c]), \A k \in 1..n : c < k => ~IsChange(users[k])
  PROVE  ThereAt(n) <=> users[c].type # "deleted"
<1>1. n \in Nat /\ Len(users) \in Nat /\ c \in Nat /\ c <= n /\ c \in 1..Len(users)
  BY PersonsTypes DEF PersonsInv
<1>2. CASE users[c].type = "deleted"
  <2>1. ASSUME NEW i \in 1..n, users[i].type = "created", \A j \in i..n : users[j].type # "deleted" PROVE FALSE
    <3>1. i <= c
      BY <1>1, <2>1 DEF IsChange
    <3>2. c \in i..n
      BY <1>1, <3>1
    <3> QED BY <1>2, <2>1, <3>2
  <2> QED BY <1>2, <2>1 DEF ThereAt
<1>3. CASE users[c].type # "deleted"
  <2>1. ASSUME NEW j \in 1..n, c < j PROVE users[j].type # "deleted"
    BY <2>1 DEF IsChange
  <2>2. CASE users[c].type = "created"
    <3>1. \A j \in c..n : j = c \/ (j \in 1..n /\ c < j)
      BY <1>1
    <3>2. \A j \in c..n : users[j].type # "deleted"
      BY <1>3, <2>1, <3>1
    <3> QED BY <1>3, <2>2, <3>2 DEF ThereAt
  <2>3. CASE users[c].type # "created"
    <3>1. ThereAt(c - 1)
      BY <1>1, <2>3 DEF PersonsInv, OneCreation
    <3>2. PICK i \in 1..(c - 1) : users[i].type = "created" /\ \A j \in i..(c - 1) : users[j].type # "deleted"
      BY <3>1 DEF ThereAt
    <3>3. i \in 1..n /\ \A j \in i..n : j \in i..(c - 1) \/ j = c \/ (j \in 1..n /\ c < j)
      BY <1>1
    <3>4. \A j \in i..n : users[j].type # "deleted"
      BY <1>3, <2>1, <3>2, <3>3
    <3> QED BY <1>3, <3>2, <3>3, <3>4 DEF ThereAt
  <2> QED BY <2>2, <2>3
<1> QED BY <1>2, <1>3

\* Whom the row tells of.
LEMMA ThereIs ==
  ASSUME PersonsInv
  PROVE  ThereAt(upos) <=> row # <<>> /\ row[1].deleted = 0
<1>1. CASE row = <<>>
  BY <1>1 DEF PersonsInv, RowIs
<1>2. CASE row # <<>>
  <2> DEFINE c == row[1].changed
  <2>1. /\ c \in 1..upos /\ IsChange(users[c]) /\ (\A k \in 1..upos : IsChange(users[k]) => k <= c)
        /\ (row[1].deleted # 0 <=> users[c].type = "deleted")
    BY <1>2 DEF PersonsInv, RowIs
  <2> HIDE DEF c
  <2>2. upos \in 1..Len(users) /\ \A k \in 1..upos : c < k => ~IsChange(users[k])
    BY <2>1, PersonsTypes DEF PersonsInv
  <2> QED BY <1>2, <2>1, <2>2, ThereByLast
<1> QED BY <1>1, <1>2

-----------------------------------------------------------------------------
LEMMA ReadChange == ASSUME PersonsInv, HandleUser, IsChange(users[upos + 1]) PROVE PersonsInv'
<1> DEFINE n == upos + 1
           v == users[n].type
           r == row[1]
<1>1. PersonsTyped /\ upos \in Nat /\ n \in Nat /\ n \in 1..Len(users) /\ Len(users) \in Nat /\ upos <= Len(users) /\ n # 0
  BY PersonsTypes DEF PersonsInv, HandleUser
<1>2. upos' = n /\ v # "tick" /\ row' = Edit(v, n) /\ UNCHANGED <<users, persons, lastTick, observed, apos>>
  BY <1>1 DEF HandleUser, IsChange
<1>3. v \in {"created", "edited", "deleted"} /\ IsChange(users[n])
  <2>1. users[n] \in UserSet
    BY <1>1, PersonsTypes
  <2> QED BY <1>2, <2>1 DEF UserSet, Verbs, IsChange
<1>4. v # "created" => row # <<>> /\ r.deleted = 0
  <2>1. v = "created" <=> ~ThereAt(n - 1)
    BY <1>1, <1>3 DEF PersonsInv, OneCreation
  <2>2. n - 1 = upos
    BY <1>1
  <2>3. ThereAt(n - 1) <=> ThereAt(upos)
    BY <2>2
  <2> QED BY <2>1, <2>3, ThereIs
<1>5. row # <<>> => r \in PersonRowSet /\ r.created \in 1..upos /\ users[r.created].type = "created" /\ (\A k \in 1..upos : users[k].type = "created" => k <= r.created)
  BY <1>1, PersonsTypes DEF PersonsInv, RowIs
<1> HIDE DEF v, n, r
<1>6. /\ row' \in Seq(PersonRowSet) /\ row' # <<>>
      /\ row'[1].changed = n
      /\ row'[1].deleted = IF v = "deleted" THEN n ELSE 0
      /\ v # "deleted" => row'[1].version = n
      /\ row'[1].created = IF v = "created" THEN n ELSE r.created
  <2>1. CASE v = "created"
    <3> DEFINE new == [created |-> n, changed |-> n, deleted |-> 0, version |-> n]
    <3>1. row' = <<new>> /\ new \in PersonRowSet
      BY <1>1, <1>2, <2>1 DEF Edit, UpsertCreated, PersonRowSet
    <3>2. new.changed = n /\ new.deleted = 0 /\ new.version = n /\ new.created = n
      OBVIOUS
    <3> HIDE DEF new
    <3> QED BY <2>1, <3>1, <3>2
  <2>2. CASE v = "edited"
    <3> DEFINE new == [r EXCEPT !.version = n, !.changed = n]
    <3>1. row' = <<new>>
      BY <1>2, <1>4, <2>2 DEF Edit, MergeChange, r
    <3>2. new \in PersonRowSet /\ new.changed = n /\ new.deleted = r.deleted /\ new.version = n /\ new.created = r.created
      BY <1>1, <1>4, <1>5, <2>2 DEF PersonRowSet
    <3> HIDE DEF new
    <3> QED BY <1>4, <2>2, <3>1, <3>2
  <2>3. CASE v = "deleted"
    <3> DEFINE new == [r EXCEPT !.deleted = n, !.changed = n]
    <3>1. row' = <<new>>
      BY <1>2, <1>4, <2>3 DEF Edit, MarkDeleted, r
    <3>2. new \in PersonRowSet /\ new.changed = n /\ new.deleted = n /\ new.created = r.created
      BY <1>1, <1>4, <1>5, <2>3 DEF PersonRowSet
    <3> HIDE DEF new
    <3> QED BY <2>3, <3>1, <3>2
  <2> QED BY <1>3, <2>1, <2>2, <2>3
<1>7. PersonsTyped'
  <2>1. lastTick' \in 0..upos' /\ upos' \in 0..Len(users)
    BY <1>1, <1>2, PersonsTypes DEF n
  <2> QED BY <1>1, <1>2, <1>6, <2>1 DEF PersonsTyped
<1>8. \A k \in 1..n : k \in 1..upos \/ k = n
  BY <1>1 DEF n
<1>9. LastTickIs'
  BY <1>2, <1>3, <1>8 DEF PersonsInv, LastTickIs, IsTick, IsChange
<1>10. RowIs'
  <2>1. row'[1].created \in 1..n /\ users[row'[1].created].type = "created" /\ \A k \in 1..n : users[k].type = "created" => k <= row'[1].created
    <3>1. CASE v = "created"
      <4>1. row'[1].created = n
        BY <1>6, <3>1
      <4>2. \A k \in 1..n : k <= n
        BY <1>1
      <4> QED BY <1>1, <3>1, <4>1, <4>2 DEF v
    <3>2. CASE v # "created"
      <4>1. row'[1].created = r.created /\ r.created \in 1..n
        BY <1>1, <1>4, <1>5, <1>6, <3>2 DEF n
      <4> QED BY <1>4, <1>5, <1>8, <3>2, <4>1 DEF v
    <3> QED BY <3>1, <3>2
  <2>2. lastTick < n /\ n \in 1..n /\ \A k \in 1..n : k <= n
    BY <1>1, PersonsTypes DEF n
  <2>3. users[n].type = v
    BY DEF v
  <2> QED BY <1>1, <1>2, <1>3, <1>6, <2>1, <2>2, <2>3 DEF RowIs, IsChange
<1>11. \A c \in 1..Len(users) : Closed(c) /\ ~Unseen(c) /\ c < upos' => c < upos
  <2>1. ASSUME NEW c \in 1..Len(users), Closed(c), c < upos', ~(c < upos) PROVE FALSE
    <3>1. c = upos /\ c + 1 = n
      BY <1>1, <1>2, <2>1 DEF n
    <3> QED BY <1>3, <2>1, <3>1 DEF Closed, IsTick, IsChange
  <2> QED BY <2>1
<1> QED BY <1>2, <1>7, <1>9, <1>10, <1>11, ReadingOn

\* What a tick publishes comes after all the others.
LEMMA EventAdded ==
  ASSUME PersonsInv, NEW e \in PersonSet, e.id = upos, Closed(upos), ~Unseen(upos), ~Has(upos),
         e.type = "deleted" <=> users[upos].type = "deleted", e.type # "deleted" => e.version = upos,
         users' = users, upos' = upos + 1, persons' = Append(persons, e), PersonsTyped', LastTickIs', RowIs'
  PROVE  PersonsInv'
<1> DEFINE m == Len(persons)
<1>1. PersonsTyped /\ m \in Nat /\ upos \in Nat /\ upos \in 1..Len(users) /\ Len(users) \in Nat /\ \A k \in 1..m : persons[k] \in PersonSet /\ persons[k].id \in Nat
  BY PersonsTypes DEF PersonsInv, Closed
<1>2. Len(persons') = m + 1 /\ (\A k \in 1..m : persons'[k] = persons[k]) /\ persons'[m + 1] = e
  BY <1>1, PersonsTypes, AppendProperties
<1>3. \A i \in 1..m : persons[i].id < upos
  <2>1. ASSUME NEW i \in 1..m, ~(persons[i].id < upos) PROVE FALSE
    <3>1. persons[i].id # upos
      BY <2>1 DEF Has
    <3>2. upos < persons[i].id
      BY <1>1, <2>1, <3>1
    <3> QED BY <1>1, <3>2 DEF PersonsInv, NoneIsMissing
  <2> QED BY <2>1
<1> HIDE DEF m
<1>4. \A i \in 1..(m + 1) : i \in 1..m \/ i = m + 1
  BY <1>1
<1>5. \A c : (Closed(c)' <=> Closed(c)) /\ (Unseen(c)' <=> Unseen(c))
  BY DEF Closed, Unseen, IsChange, IsTick
<1>6. OneCreation'
  BY DEF PersonsInv, OneCreation, ThereAt, IsChange
<1>7. EventsAreOfChanges'
  <2>1. ASSUME NEW i \in 1..(m + 1)
        PROVE  /\ Closed(persons'[i].id) /\ ~Unseen(persons'[i].id)
               /\ persons'[i].type = "deleted" <=> users[persons'[i].id].type = "deleted"
               /\ persons'[i].type # "deleted" => persons'[i].version = persons'[i].id
    <3>1. CASE i \in 1..m
      <4>1. persons'[i] = persons[i]
        BY <1>2, <3>1
      <4> QED BY <3>1, <4>1 DEF PersonsInv, EventsAreOfChanges, m
    <3>2. CASE i = m + 1
      BY <1>2, <3>2
    <3> QED BY <1>4, <3>1, <3>2
  <2> QED BY <1>2, <1>5, <2>1 DEF EventsAreOfChanges
<1>8. EventsInOrder'
  <2>1. ASSUME NEW i \in 1..(m + 1), NEW j \in 1..(m + 1), i < j PROVE persons'[i].id < persons'[j].id
    <3>1. i \in 1..m
      BY <1>1, <2>1
    <3>2. CASE j \in 1..m
      BY <1>2, <2>1, <3>1, <3>2 DEF PersonsInv, EventsInOrder, m
    <3>3. CASE j = m + 1
      BY <1>2, <1>3, <3>1, <3>3
    <3> QED BY <1>4, <3>2, <3>3
  <2> QED BY <1>2, <2>1 DEF EventsInOrder
<1>9. NoneIsMissing'
  <2>1. ASSUME NEW c \in 1..Len(users), Closed(c), ~Unseen(c), c < upos + 1 \/ \E i \in 1..(m + 1) : c < persons'[i].id
        PROVE  \E i \in 1..(m + 1) : persons'[i].id = c
    <3>1. c < upos \/ c = upos
      <4>1. CASE c < upos + 1
        BY <1>1, <4>1
      <4>2. ASSUME NEW i \in 1..(m + 1), c < persons'[i].id PROVE c < upos
        <5>1. persons'[i].id <= upos
          BY <1>1, <1>2, <1>3, <1>4
        <5>2. persons'[i].id \in Nat
          BY <1>1, <1>2, <1>4
        <5>3. \A v \in Nat : c < v /\ v <= upos => c < upos
          BY <1>1
        <5> QED BY <4>2, <5>1, <5>2, <5>3
      <4> QED BY <2>1, <4>1, <4>2
    <3>2. CASE c < upos
      <4>1. PICK i \in 1..m : persons[i].id = c
        BY <2>1, <3>2 DEF PersonsInv, NoneIsMissing, Has, m
      <4> QED BY <1>1, <1>2, <4>1
    <3>3. CASE c = upos
      BY <1>1, <1>2, <3>3
    <3> QED BY <3>1, <3>2, <3>3
  <2> QED BY <1>2, <1>5, <2>1 DEF NoneIsMissing, Has
<1> QED BY <1>6, <1>7, <1>8, <1>9 DEF PersonsInv

\* When something is pending it is the event just before.
LEMMA PendingIsNow ==
  ASSUME PersonsInv, HandleUser, IsTick(users[upos + 1])
  PROVE  /\ PendingSince => row # <<>> /\ upos \in 1..Len(users) /\ row[1].changed = upos /\ Closed(upos)
         /\ ~PendingSince => ~Closed(upos) /\ (row # <<>> => row[1].deleted = 0)
<1>1. /\ upos \in Nat /\ upos < Len(users) /\ Len(users) \in Nat /\ lastTick \in Nat /\ lastTick <= upos
      /\ (lastTick = 0 \/ IsTick(users[lastTick])) /\ \A k \in 1..upos : lastTick < k => IsChange(users[k])
  BY PersonsTypes DEF PersonsInv, HandleUser, LastTickIs
<1>2. row # <<>> =>
        /\ row[1].changed \in 1..upos /\ IsChange(users[row[1].changed])
        /\ \A k \in 1..upos : IsChange(users[k]) => k <= row[1].changed
        /\ row[1].deleted # 0 => lastTick < row[1].changed
  BY DEF PersonsInv, RowIs
<1>3. ASSUME PendingSince PROVE row # <<>> /\ upos \in 1..Len(users) /\ row[1].changed = upos /\ Closed(upos)
  <2>1. row # <<>> /\ row[1].changed > lastTick
    BY <1>3 DEF PendingSince
  <2>2. upos \in 1..upos /\ lastTick < upos
    BY <1>1, <1>2, <2>1
  <2>3. row[1].changed = upos
    BY <1>1, <1>2, <2>1, <2>2
  <2>4. IsChange(users[upos]) /\ upos \in 1..(Len(users) - 1) /\ upos \in 1..Len(users)
    BY <1>1, <2>2
  <2> QED BY <2>1, <2>3, <2>4 DEF Closed
<1>4. ASSUME Closed(upos), row = <<>> PROVE FALSE
  <2>1. lastTick = upos
    BY <1>4 DEF PersonsInv, RowIs
  <2> QED BY <1>1, <1>4, <2>1 DEF Closed, IsChange, IsTick
<1>5. ASSUME ~PendingSince, Closed(upos), row # <<>> PROVE FALSE
  <2>1. upos \in 1..upos /\ IsChange(users[upos])
    BY <1>1, <1>5 DEF Closed
  <2>2. lastTick # upos
    BY <1>1, <1>5, <2>1 DEF IsChange, IsTick, Closed
  <2>3. lastTick < row[1].changed
    BY <1>1, <1>2, <1>5, <2>1, <2>2
  <2> QED BY <1>1, <1>2, <1>5, <2>3 DEF PendingSince
<1>6. ASSUME ~PendingSince, row # <<>> PROVE row[1].deleted = 0
  <2>1. ~(lastTick < row[1].changed)
    BY <1>1, <1>2, <1>6 DEF PendingSince
  <2> QED BY <1>2, <1>6, <2>1
<1> QED BY <1>3, <1>4, <1>5, <1>6

LEMMA ReadTick == ASSUME PersonsInv, HandleUser, IsTick(users[upos + 1]) PROVE PersonsInv'
<1> DEFINE n == upos + 1
           r == row[1]
           event == IF PendingSince THEN PersonEvent(r) ELSE <<>>
<1>1. PersonsTyped /\ upos \in Nat /\ n \in Nat /\ n \in 1..Len(users) /\ Len(users) \in Nat /\ upos <= Len(users)
      /\ lastTick \in Nat /\ lastTick <= upos
  BY PersonsTypes DEF PersonsInv, HandleUser
<1>2. /\ upos' = n /\ lastTick' = n /\ UNCHANGED <<users, observed, apos>>
      /\ row' = IF PendingSince /\ r.deleted # 0 THEN <<>> ELSE row
      /\ persons' = IF event # <<>> /\ Has(event[1].id) THEN persons ELSE persons \o event
  <2>1. DOMAIN persons = 1..Len(persons)
    BY <1>1, PersonsTypes
  <2> QED BY <1>1, <2>1 DEF HandleUser, IsTick, Tick, Has
<1>3. /\ PendingSince => row # <<>> /\ upos \in 1..Len(users) /\ r.changed = upos /\ Closed(upos)
      /\ ~PendingSince => ~Closed(upos) /\ (row # <<>> => r.deleted = 0)
  BY PendingIsNow
<1>4. row # <<>> =>
        /\ r \in PersonRowSet /\ r.created \in 1..upos /\ users[r.created].type = "created"
        /\ \A k \in 1..upos : users[k].type = "created" => k <= r.created
        /\ r.changed \in 1..upos /\ IsChange(users[r.changed])
        /\ \A k \in 1..upos : IsChange(users[k]) => k <= r.changed
        /\ r.deleted # 0 <=> users[r.changed].type = "deleted"
        /\ r.deleted = 0 => r.version = r.changed
  BY <1>1, PersonsTypes DEF PersonsInv, RowIs
<1>5. row = <<>> => ~ThereAt(upos)
  BY DEF PersonsInv, RowIs
<1>6. PendingSince /\ r.deleted # 0 => ~ThereAt(upos)
  BY ThereIs
<1> HIDE DEF event, r
<1>7. LastTickIs'
  <2>1. \A k \in 1..n : ~(n < k)
    BY <1>1
  <2> QED BY <1>2, <2>1 DEF LastTickIs, IsTick, n
<1>8. ThereAt(n) => ThereAt(upos)
  <2>1. ASSUME NEW i \in 1..n, users[i].type = "created", \A j \in i..n : users[j].type # "deleted" PROVE ThereAt(upos)
    <3>1. i # n
      BY <2>1 DEF IsTick
    <3>2. i \in 1..upos /\ \A j \in i..upos : j \in i..n
      BY <1>1, <3>1
    <3> QED BY <2>1, <3>2 DEF ThereAt
  <2> QED BY <2>1 DEF ThereAt
<1>9. RowIs'
  <2>1. row' = <<>> => ~ThereAt(n)
    BY <1>2, <1>5, <1>6, <1>8
  <2>2. ThereAt(upos)' <=> ThereAt(n)
    BY <1>2 DEF ThereAt, n
  <2>3. row' # <<>> => row' = row /\ r.deleted = 0
    BY <1>2, <1>3
  <2>4. \A k \in 1..n : k \in 1..upos \/ (k = n /\ users[k].type # "created" /\ ~IsChange(users[k]))
    BY <1>1 DEF IsTick, IsChange
  <2>5. row # <<>> => r.created \in 1..n /\ r.changed \in 1..n
    BY <1>1, <1>4
  <2>6. row' # <<>> =>
        /\ r.created \in 1..n /\ users[r.created].type = "created"
        /\ \A k \in 1..n : users[k].type = "created" => k <= r.created
        /\ r.changed \in 1..n /\ IsChange(users[r.changed])
        /\ \A k \in 1..n : IsChange(users[k]) => k <= r.changed
        /\ r.deleted # 0 <=> users[r.changed].type = "deleted"
        /\ r.deleted = 0 /\ r.version = r.changed
    BY <1>4, <2>3, <2>4, <2>5
  <2> QED BY <1>2, <2>1, <2>2, <2>3, <2>6 DEF RowIs, IsChange, r, n
<1>10. row' \in Seq(PersonRowSet)
  BY <1>1, <1>2, PersonsTypes
<1>11. \A c \in 1..Len(users) : c < n => c < upos \/ c = upos
  BY <1>1
<1>12. CASE event = <<>>
  <2>1. persons' = persons
    BY <1>1, <1>2, <1>12, PersonsTypes
  <2>2. PersonsTyped'
    <3>1. upos' \in 0..Len(users') /\ lastTick' \in 0..upos'
      BY <1>1, <1>2
    <3> QED BY <1>1, <1>2, <1>10, <2>1, <3>1 DEF PersonsTyped
  <2>3. ~(Closed(upos) /\ ~Unseen(upos))
    <3>1. CASE ~PendingSince
      BY <1>3, <3>1
    <3>2. CASE PendingSince
      <4>1. r.deleted # 0 /\ r.created > lastTick
        BY <1>12, <3>2 DEF event, PersonEvent, r
      <4>2. users[upos].type = "deleted" /\ r.created \in 1..upos /\ users[r.created].type = "created"
        BY <1>3, <1>4, <3>2, <4>1
      <4>3. \A k \in r.created..upos : k \in 1..upos /\ lastTick < k
        BY <1>1, <4>1, <4>2
      <4>4. \A k \in r.created..upos : IsChange(users[k])
        BY <4>3 DEF PersonsInv, LastTickIs
      <4> QED BY <4>2, <4>4 DEF Unseen
    <3> QED BY <3>1, <3>2
  <2>4. \A c \in 1..Len(users) : Closed(c) /\ ~Unseen(c) /\ c < upos' => c < upos
    BY <1>2, <1>11, <2>3
  <2> QED BY <1>2, <1>7, <1>9, <2>1, <2>2, <2>4, ReadingOn
<1>13. CASE event # <<>>
  <2> DEFINE gone == r.deleted # 0
             e == [type |-> IF gone THEN "deleted" ELSE IF r.created > lastTick THEN "created" ELSE "updated", id |-> r.changed,
                   version |-> IF gone THEN 0 ELSE r.version]
  <2>1. PendingSince /\ event = PersonEvent(r)
    BY <1>13 DEF event
  <2>2. event = <<e>> /\ (gone => ~(r.created > lastTick))
    BY <1>13, <2>1 DEF PersonEvent
  <2>3. r \in PersonRowSet /\ r.changed = upos /\ Closed(upos) /\ upos \in 1..Len(users) /\ (gone <=> users[upos].type = "deleted") /\ (~gone => r.version = upos)
    BY <1>3, <1>4, <2>1
  <2> HIDE DEF gone
  <2>4. e \in PersonSet /\ e.id = upos /\ (e.type = "deleted" <=> gone) /\ (~gone => e.version = upos)
    BY <1>1, <2>3 DEF PersonSet
  <2> HIDE DEF e
  <2>5. persons' = IF Has(upos) THEN persons ELSE Append(persons, e)
    <3>1. event # <<>> /\ event[1] = e /\ event[1].id = upos
      BY <2>2, <2>4
    <3>2. persons' = IF Has(upos) THEN persons ELSE persons \o <<e>>
      BY <1>2, <2>2, <3>1
    <3>3. persons \o <<e>> = Append(persons, e)
      BY <1>1, <2>4, PersonsTypes
    <3> QED BY <3>2, <3>3
  <2>6. ~Unseen(upos)
    <3>1. ASSUME gone, NEW b \in 1..upos, users[b].type = "created", \A k \in b..upos : IsChange(users[k]) PROVE FALSE
      <4>1. b <= r.created /\ ~(r.created > lastTick) /\ r.created \in 1..upos
        BY <1>3, <1>4, <2>1, <2>2, <3>1
      <4>2. lastTick \in b..upos /\ lastTick # 0
        BY <1>1, <4>1
      <4>3. IsTick(users[lastTick])
        BY <4>2 DEF PersonsInv, LastTickIs
      <4> QED BY <3>1, <4>2, <4>3 DEF IsTick, IsChange
    <3> QED BY <2>3, <3>1 DEF Unseen
  <2>7. persons' \in Seq(PersonSet) /\ Len(persons') \in Nat /\ Len(persons) <= Len(persons')
    BY <1>1, <2>4, <2>5, PersonsTypes, AppendProperties
  <2>8. PersonsTyped'
    <3>1. apos' \in 0..Len(persons')
      BY <1>1, <1>2, <2>7 DEF PersonsTyped
    <3>2. upos' \in 0..Len(users') /\ lastTick' \in 0..upos'
      BY <1>1, <1>2
    <3> QED BY <1>1, <1>2, <1>10, <2>7, <3>1, <3>2 DEF PersonsTyped
  <2>9. CASE Has(upos)
    <3>1. \A c \in 1..Len(users) : Closed(c) /\ ~Unseen(c) /\ c < upos' => c < upos \/ Has(c)
      BY <1>2, <1>11, <2>9
    <3> QED BY <1>2, <1>7, <1>9, <2>5, <2>8, <2>9, <3>1, ReadingOn
  <2>10. CASE ~Has(upos)
    BY <1>2, <1>7, <1>9, <2>3, <2>4, <2>5, <2>6, <2>8, <2>10, EventAdded
  <2> QED BY <2>9, <2>10
<1> QED BY <1>12, <1>13

LEMMA PersonsStep == PersonsInv /\ [PersonsNext]_uvars => PersonsInv'
<1> SUFFICES ASSUME PersonsInv, [PersonsNext]_uvars PROVE PersonsInv'
  OBVIOUS
<1>1. CASE HandleUser
  BY <1>1, ReadChange, ReadTick DEF IsChange, IsTick
<1>2. CASE UNCHANGED uvars
  BY <1>2 DEF uvars, PersonsInv, PersonsTyped, OneCreation, LastTickIs, RowIs, EventsAreOfChanges, EventsInOrder, NoneIsMissing,
              ThereAt, Closed, Unseen, Has
<1> QED BY <1>1, <1>2, ObserveKeeps, EmitKeeps, ChangeKeeps, PersonsRestart, AnnounceKeeps DEF PersonsNext

-----------------------------------------------------------------------------
(* What is announced last. *)

LEMMA LastAnnounced ==
  ASSUME PersonsTyped, apos = Len(persons), Len(persons) # 0
  PROVE  /\ Announced # <<>> /\ Last(Announced).version = persons[Len(persons)].version
         /\ persons[Len(persons)].type = "deleted" => Last(Announced).type = "Delete"
<1> DEFINE n == Len(persons)
<1>1. n \in Nat /\ n \in 1..n
  BY PersonsTypes
<1>2. Len(Announced) = n /\ Announced[n] = ActivityOf(persons[n])
  BY <1>1 DEF Announced
<1>3. Announced # <<>>
  BY <1>1, <1>2
<1>4. Last(Announced) = ActivityOf(persons[n])
  BY <1>2 DEF Last
<1> QED BY <1>3, <1>4 DEF ActivityOf

LEMMA NoneAnnounced == ASSUME PersonsTyped, apos = Len(persons), Len(persons) = 0 PROVE Announced = <<>>
BY DEF Announced

\* Of a user who is there the last change is announced.
LEMMA AnnouncedIfThere ==
  ASSUME PersonsInv, upos = Len(users), apos = Len(persons), users # <<>>, IsTick(users[Len(users)]), ThereAt(Len(users))
  PROVE  Announced # <<>> /\ Last(Announced).version = LastOf({i \in DOMAIN users : IsChange(users[i])})
<1> DEFINE n == Len(users)
           S == {i \in DOMAIN users : IsChange(users[i])}
           c == LastOf(S)
<1>1. PersonsTyped /\ n \in Nat /\ DOMAIN users = 1..n /\ Len(persons) \in Nat
  BY PersonsTypes DEF PersonsInv
<1>2. PICK i \in 1..n : users[i].type = "created" /\ \A j \in i..n : users[j].type # "deleted"
  BY DEF ThereAt
<1>3. i \in S /\ S \subseteq 0..n
  BY <1>1, <1>2 DEF IsChange
<1>4. \E m \in S : \A j \in S : j <= m
  BY <1>1, <1>3, GreatestExists
<1>5. c \in S /\ \A j \in S : j <= c
  <2> HIDE DEF S
  <2> QED BY <1>3, <1>4 DEF LastOf
<1> HIDE DEF c
<1>6. c \in 1..n /\ IsChange(users[c]) /\ (\A j \in 1..n : IsChange(users[j]) => j <= c) /\ i <= c
  BY <1>1, <1>3, <1>5
<1>7. c # n /\ c \in 1..(n - 1)
  BY <1>1, <1>6 DEF IsTick, IsChange
<1>8. Closed(c)
  <2>1. c + 1 \in 1..n /\ ~(c + 1 <= c)
    BY <1>1, <1>7
  <2>2. ~IsChange(users[c + 1])
    BY <1>6, <2>1
  <2> QED BY <1>6, <1>7, <2>2 DEF Closed, IsChange, IsTick
<1>9. users[c].type # "deleted" /\ ~Unseen(c)
  <2>1. c \in i..n
    BY <1>1, <1>6
  <2> QED BY <1>2, <2>1 DEF Unseen
<1>10. PICK k \in 1..Len(persons) : persons[k].id = c
  <2>1. c \in 1..Len(users) /\ c < upos
    BY <1>1, <1>6, <1>7
  <2> QED BY <1>8, <1>9, <2>1 DEF PersonsInv, NoneIsMissing, Has
<1>11. k = Len(persons)
  <2>1. SUFFICES ASSUME k # Len(persons) PROVE FALSE
    OBVIOUS
  <2>2. k < Len(persons) /\ Len(persons) \in 1..Len(persons)
    BY <1>1, <1>10, <2>1
  <2>3. c < persons[Len(persons)].id
    BY <1>10, <2>2 DEF PersonsInv, EventsInOrder
  <2>4. persons[Len(persons)].id \in 1..n /\ IsChange(users[persons[Len(persons)].id])
    BY <1>1, <2>2 DEF PersonsInv, EventsAreOfChanges, Closed
  <2> QED BY <1>1, <1>6, <2>3, <2>4
<1>12. persons[k].version = c
  BY <1>9, <1>10 DEF PersonsInv, EventsAreOfChanges
<1>13. Len(persons) # 0
  BY <1>1, <1>10
<1> QED BY <1>1, <1>11, <1>12, <1>13, LastAnnounced DEF c

\* Of a user who is gone that is announced last, unless she went twice in one interval.
LEMMA AnnouncedIfGone ==
  ASSUME PersonsInv, upos = Len(users), apos = Len(persons), users # <<>>, IsTick(users[Len(users)]), ~ThereAt(Len(users))
  PROVE  Announced = <<>> \/ Last(Announced).type = "Delete" \/ GoneTwice
<1> DEFINE n == Len(users)
           N == Len(persons)
           d == persons[N].id
<1>1. PersonsTyped /\ n \in Nat /\ n \in 1..n /\ N \in Nat
  BY PersonsTypes DEF PersonsInv
<1>2. SUFFICES ASSUME N # 0, persons[N].type # "deleted" PROVE GoneTwice
  BY <1>1, LastAnnounced, NoneAnnounced
<1>3. N \in 1..N /\ d \in 1..(n - 1) /\ IsChange(users[d]) /\ IsTick(users[d + 1]) /\ users[d].type # "deleted"
  BY <1>1, <1>2 DEF PersonsInv, EventsAreOfChanges, Closed
<1>4. \A i \in 1..N : persons[i].id <= d
  <2>1. ASSUME NEW i \in 1..N PROVE persons[i].id <= d
    <3>1. i = N \/ i < N
      BY <1>1
    <3>2. persons[i].id \in Nat
      BY <1>1, PersonsTypes
    <3> QED BY <1>3, <3>1, <3>2 DEF PersonsInv, EventsInOrder
  <2> QED BY <2>1
<1> HIDE DEF d, N
<1>5. d \in Nat /\ d + 1 \in 1..n /\ d \in 1..n /\ d \in 1..(d + 1)
  BY <1>1, <1>3
<1>6. ThereAt(d + 1)
  <2>1. \A k \in 1..(d + 1) : d < k => ~IsChange(users[k])
    <3>1. \A k \in 1..(d + 1) : d < k => k = d + 1
      BY <1>5
    <3> QED BY <1>3, <3>1 DEF IsTick, IsChange
  <2> QED BY <1>3, <1>5, <2>1, ThereByLast
\* The first tick that finds her gone.
<1> DEFINE S == {k \in (d + 1)..n : IsTick(users[k]) /\ ~ThereAt(k)}
<1>7. PICK m \in S : \A k \in S : m <= k
  <2>1. n \in S /\ S \subseteq Nat
    BY <1>1, <1>5
  <2> HIDE DEF S
  <2> QED BY <2>1, LeastExists
<1>8. /\ m \in (d + 1)..n /\ m \in 1..n /\ m \in Nat /\ IsTick(users[m]) /\ ~ThereAt(m) /\ m # d + 1
      /\ \A k \in (d + 1)..(m - 1) : IsTick(users[k]) => ThereAt(k)
  BY <1>1, <1>5, <1>6, <1>7
<1> HIDE DEF S
<1>9. m - 1 \in (d + 1)..(m - 1) /\ m - 1 \in 1..n /\ m - 1 \in 1..m /\ m - 1 \in 1..(n - 1) /\ d < m - 1 /\ (m - 1) + 1 = m
  BY <1>1, <1>5, <1>8
<1>10. IsChange(users[m - 1])
  <2>1. SUFFICES ASSUME IsTick(users[m - 1]) PROVE FALSE
    BY DEF IsTick, IsChange
  <2>2. ThereAt(m - 1)
    BY <1>8, <1>9, <2>1
  <2>3. PICK i \in 1..(m - 1) : users[i].type = "created" /\ \A j \in i..(m - 1) : users[j].type # "deleted"
    BY <2>2 DEF ThereAt
  <2>4. i \in 1..m /\ \A j \in i..m : j \in i..(m - 1) \/ j = m
    BY <1>8
  <2>5. \A j \in i..m : users[j].type # "deleted"
    BY <1>8, <2>3, <2>4 DEF IsTick
  <2> QED BY <1>8, <2>3, <2>4, <2>5 DEF ThereAt
<1>11. users[m - 1].type = "deleted"
  <2>1. \A k \in 1..m : m - 1 < k => ~IsChange(users[k])
    <3>1. \A k \in 1..m : m - 1 < k => k = m
      BY <1>8
    <3> QED BY <1>8, <3>1 DEF IsTick, IsChange
  <2> QED BY <1>8, <1>9, <1>10, <2>1, ThereByLast
<1>12. Unseen(m - 1)
  <2>1. Closed(m - 1)
    BY <1>8, <1>9, <1>10 DEF Closed
  <2>2. ~Has(m - 1)
    BY <1>1, <1>4, <1>5, <1>8, <1>9, PersonsTypes DEF Has, N
  <2>3. m - 1 \in 1..Len(users) /\ m - 1 < upos
    BY <1>1, <1>8, <1>9
  <2> QED BY <2>1, <2>2, <2>3 DEF PersonsInv, NoneIsMissing
<1>13. PICK b \in 1..(m - 1) : users[b].type = "created" /\ \A k \in b..(m - 1) : IsChange(users[k])
  BY <1>12 DEF Unseen
<1>14. b \in Nat /\ d + 1 < b /\ b \in 1..n
  <2>1. ~(b <= d + 1)
    <3>1. b <= d + 1 => d + 1 \in b..(m - 1)
      BY <1>5, <1>8, <1>9
    <3> QED BY <1>3, <1>13, <3>1 DEF IsTick, IsChange
  <2> QED BY <1>1, <1>5, <1>8, <2>1
<1>15. b - 1 \in Nat /\ b - 1 \in 1..n /\ b - 1 \in 1..(b - 1) /\ d + 1 <= b - 1 /\ b - 1 < m - 1
  BY <1>1, <1>5, <1>8, <1>14
<1>16. ~ThereAt(b - 1)
  BY <1>13, <1>14 DEF PersonsInv, OneCreation, IsChange
\* The tick before.
<1> DEFINE B == {k \in 1..(b - 1) : IsTick(users[k])}
<1>17. PICK t \in B : \A k \in B : k <= t
  <2>1. d + 1 \in B /\ B \subseteq 0..(b - 1)
    BY <1>3, <1>5, <1>15
  <2> HIDE DEF B
  <2> QED BY <1>15, <2>1, GreatestExists
<1>18. /\ t \in 1..(b - 1) /\ IsTick(users[t]) /\ t \in Nat /\ d + 1 <= t
       /\ \A k \in 1..(b - 1) : t < k => IsChange(users[k])
  <2>1. d + 1 \in B
    BY <1>3, <1>5, <1>15
  <2>2. t \in 1..(b - 1) /\ IsTick(users[t]) /\ t \in Nat /\ d + 1 <= t
    BY <1>15, <1>17, <2>1
  <2>3. ASSUME NEW k \in 1..(b - 1), t < k PROVE IsChange(users[k])
    <3>1. k \notin B
      BY <1>15, <1>17, <2>2, <2>3
    <3> QED BY <3>1 DEF IsTick, IsChange
  <2> QED BY <2>2, <2>3
<1>19. ThereAt(t)
  BY <1>8, <1>15, <1>18
<1>20. t # b - 1 /\ t < b - 1
  BY <1>15, <1>16, <1>18, <1>19
<1>21. IsChange(users[b - 1]) /\ users[b - 1].type = "deleted"
  <2>1. IsChange(users[b - 1])
    BY <1>15, <1>18, <1>20
  <2>2. \A k \in 1..(b - 1) : b - 1 < k => ~IsChange(users[k])
    BY <1>15
  <2> QED BY <1>15, <1>16, <2>1, <2>2, ThereByLast
<1>22. \A k \in (t + 1)..(m - 1) : IsChange(users[k])
  <2>1. \A k \in (t + 1)..(m - 1) : (k \in 1..(b - 1) /\ t < k) \/ k \in b..(m - 1)
    BY <1>8, <1>14, <1>15, <1>18
  <2> QED BY <1>13, <1>18, <2>1
<1> DEFINE p == <<t, m>>
<1>23. p \in Intervals
  <2>1. t \in 0..Len(users) /\ m \in 1..Len(users) /\ t < m
    BY <1>1, <1>8, <1>15, <1>18
  <2>2. p \in (0..Len(users)) \X (1..Len(users)) /\ p[1] = t /\ p[2] = m
    BY <2>1
  <2> QED BY <1>8, <1>18, <1>22, <2>1, <2>2 DEF Intervals
<1>24. p[1] = t /\ p[2] = m /\ b - 1 \in (t + 1)..(m - 1) /\ m - 1 \in (t + 1)..(m - 1)
  BY <1>8, <1>15, <1>18, <1>20
<1> HIDE DEF p
<1> QED BY <1>11, <1>15, <1>21, <1>23, <1>24 DEF GoneTwice

\* user_person and person_activities: once a tick has closed the last interval
\* and everything is handled, what was announced last of a person is what her
\* user is, however often the component was restarted and however the tickers lag.
THEOREM PersonsAreAnnounced == Spec => []AnnouncedAsTheyAre
<1>1. Init => PersonsInv
  BY PersonsStart DEF Init
<1>2. [Next]_bvars => [PersonsNext]_uvars
  BY DEF Next, bvars, uvars
<1>3. PersonsInv /\ [Next]_bvars => PersonsInv'
  BY <1>2, PersonsStep
<1>4. PersonsInv => AnnouncedAsTheyAre
  <2> SUFFICES ASSUME PersonsInv, upos = Len(users), apos = Len(persons), users # <<>>, IsTick(Last(users))
               PROVE  IF Exists(users)
                      THEN Announced # <<>> /\ Last(Announced).version = LastOf({i \in DOMAIN users : IsChange(users[i])})
                      ELSE Announced = <<>> \/ Last(Announced).type = "Delete" \/ GoneTwice
    BY DEF AnnouncedAsTheyAre
  <2>1. IsTick(users[Len(users)])
    BY DEF Last
  <2>2. Exists(users) <=> ThereAt(Len(users))
    BY PersonsTypes DEF Exists, ThereAt, PersonsInv
  <2> QED BY <2>1, <2>2, AnnouncedIfThere, AnnouncedIfGone
<1> QED BY <1>1, <1>3, <1>4, PTL DEF Spec

-----------------------------------------------------------------------------
\* What is announced is what is: a profile as the page that was imported has it,
\* a person as the user's profile is, and a post with links to the accounts it
\* mentions as far as their actors are known.
THEOREM AnnouncedAsItIs == Spec => []AnnouncementsAreCurrent
BY ImportsAreTrue, PersonsAreAnnounced, PostsLinkWhatIsKnown, PTL DEF AnnouncementsAreCurrent

-----------------------------------------------------------------------------
(***************************************************************************)
(* person_account.  What the accounts show is what the events of the other *)
(* topics come to up to some place of each, where person_account is        *)
(* reading or had read before a restart, as long as no account was counted *)
(* while an event was under way.                                           *)
(***************************************************************************)
ItemEventSet == [item : Items, present : BOOLEAN]
CountVals == {Count(t, k) : t \in SUBSET Items, k \in Kinds}
CountsSet == [Kinds -> CountVals]
ChangeSet == [kind : Kinds, count : CountVals]
AccountIds == (Kinds \cup {"person"}) \X Nat
AccountSet == [id : AccountIds, type : {"created", "updated", "deleted", "changed"}, says : Seq(CountsSet) \cup Seq(ChangeSet)]
WellSaid(e) ==
  /\ e.type = "changed" => e.says \in Seq(ChangeSet) /\ e.says # <<>>
  /\ e.type \in {"created", "updated"} => e.says \in Seq(CountsSet) /\ e.says # <<>>
SaidSet == {e \in AccountSet : WellSaid(e)}

AccountTyped ==
  /\ topic \in [CountTopics -> Seq(ItemEventSet)] /\ people \in Seq({"created", "updated", "deleted"})
  /\ \A s \in CountTopics : \A n \in 1..Len(topic[s]) : SourceOf(topic[s][n].item) = s
  /\ pos \in [CountTopics -> Nat] /\ (\A s \in CountTopics : pos[s] <= Len(topic[s])) /\ ppos \in 0..Len(people)
  /\ counted \subseteq Items /\ hold \in [CountTopics -> Seq(ChangeSet)] /\ pholds \in Seq(CountsSet)
  /\ pholds # <<>> => ppos < Len(people) /\ people[ppos + 1] # "deleted"
  /\ accounts \in Seq(SaidSet) /\ raced \in BOOLEAN

SourceOfKind(k) == IF k = "statuses" THEN "activities" ELSE "followers"

\* Who is there after the first n events of a topic.
ThereUpto(s, n) == {i \in Items : \E m \in 1..n : topic[s][m].item = i /\ topic[s][m].present /\ \A r \in (m + 1)..n : topic[s][r].item # i}
CountUpto(k, n) == Count(ThereUpto(SourceOfKind(k), n), k)

\* Where the task of a topic has got with its table.
Reached(s) == IF hold[s] = <<>> THEN pos[s] ELSE pos[s] + 1
CountedIsThere == \A s \in CountTopics : \A i \in Items : SourceOf(i) = s => (i \in counted <=> i \in ThereUpto(s, Reached(s)))

\* An event that changes the count of a kind.
News(k, n) ==
  LET s == SourceOfKind(k) IN
  n \in 1..Len(topic[s]) /\ KindOf[topic[s][n].item] = k /\ ThereUpto(s, n) # ThereUpto(s, n - 1)

HeldIs(s, k, n) == SourceOfKind(k) = s /\ News(k, n) /\ hold[s] = <<[kind |-> k, count |-> CountUpto(k, n)]>>
HoldsTheCount == \A s \in CountTopics : hold[s] # <<>> => \E k \in Kinds : HeldIs(s, k, pos[s] + 1)

\* What is published is of what was read, up to M and N.
CountsAt(M) == [k \in Kinds |-> CountUpto(k, M[SourceOfKind(k)])]
ReadUpto(M, N) ==
  M \in [CountTopics -> Nat] /\ (\A s \in CountTopics : pos[s] <= M[s] /\ M[s] <= Len(topic[s])) /\ N \in Nat /\ ppos <= N /\ N <= Len(people)
KnownUpto(M, N) ==
  /\ \A k \in Kinds : \A n \in Nat : Known(<<k, n>>) <=> n <= M[SourceOfKind(k)] /\ News(k, n)
  /\ \A n \in Nat : Known(<<"person", n>>) <=> n \in 1..N
HoldsAllUpto(M, N) == (pholds # <<>> /\ N = ppos) => pholds = <<CountsAt(M)>> /\ \A s \in CountTopics : M[s] = pos[s] /\ hold[s] = <<>>
ShownUpto(M, N) == Shown = IF N = 0 \/ people[N] = "deleted" THEN <<>> ELSE <<CountsAt(M)>>
PublishedUpto(M, N) == ReadUpto(M, N) /\ KnownUpto(M, N) /\ HoldsAllUpto(M, N) /\ ShownUpto(M, N)
Publishing == \E M, N : PublishedUpto(M, N)

AccountInv == AccountTyped /\ CountedIsThere /\ HoldsTheCount /\ (raced \/ Publishing)

-----------------------------------------------------------------------------
(* What the events come to for a reader. *)

ShownOf(told) ==
  LET upto[n \in 0..Len(told)] == IF n = 0 THEN <<>> ELSE Show(upto[n - 1], told[n])
  IN upto[Len(told)]
LEMMA ShownIs == Shown = ShownOf(accounts)
BY DEF Shown, ShownOf

Shows(T, told) ==
  /\ T[0] = <<>> /\ \A n \in 1..Len(told) : T[n] = Show(T[n - 1], told[n])
  /\ \A n \in 0..Len(told) : T[n] \in Seq(CountsSet)

LEMMA ShowTyped ==
  ASSUME NEW state \in Seq(CountsSet), NEW e \in SaidSet
  PROVE  Show(state, e) \in Seq(CountsSet)
<1>1. e.type \in {"created", "updated", "deleted", "changed"} /\ WellSaid(e)
  BY DEF SaidSet, AccountSet
<1>2. CASE e.type = "deleted"
  BY <1>2 DEF Show, Removed
<1>3. CASE e.type = "changed"
  <2> DEFINE q == e.says[1]
  <2>1. q \in ChangeSet
    BY <1>1, <1>3 DEF WellSaid
  <2>2. q.kind \in Kinds /\ q.count \in CountVals
    BY <2>1 DEF ChangeSet
  <2>3. Show(state, e) = Patched(state, q.kind, q.count)
    BY <1>3 DEF Show
  <2> HIDE DEF q
  <2>4. state # <<>> => state[1] \in CountsSet
    OBVIOUS
  <2>5. state # <<>> => [state[1] EXCEPT ![q.kind] = q.count] \in CountsSet
    BY <2>2, <2>4 DEF CountsSet
  <2> QED BY <2>3, <2>5 DEF Patched
<1>4. CASE e.type # "deleted" /\ e.type # "changed"
  <2>1. e.says[1] \in CountsSet
    BY <1>1, <1>4 DEF WellSaid
  <2> QED BY <1>4, <2>1 DEF Show, Upserted
<1> QED BY <1>1, <1>2, <1>3, <1>4

LEMMA ShownOfIs ==
  ASSUME NEW told \in Seq(SaidSet)
  PROVE  \E T : Shows(T, told) /\ ShownOf(told) = T[Len(told)]
<1> DEFINE N == Len(told)
           V == Seq(CountsSet)
           Told(state, n) == Show(state, told[n])
           step == [n \in 1..N |-> [state \in V |-> Told(state, n)]]
           Is(f) == f = [n \in 0..N |-> IF n = 0 THEN <<>> ELSE Show(f[n - 1], told[n])]
<1>1. <<>> \in V /\ N \in Nat
  OBVIOUS
<1>2. \A n \in 1..N : \A state \in V : Told(state, n) \in V
  BY ShowTyped
<1>3. step \in [1..N -> [V -> V]] /\ \A n \in 1..N : \A state \in V : step[n][state] = Told(state, n)
  BY <1>2
<1> HIDE DEF step, N, V, Is, Told
<1>4. PICK f \in [0..N -> V] : f[0] = <<>> /\ \A n \in 1..N : f[n] = step[n][f[n - 1]]
  <2>1. \E f \in [0..N -> V] : IsRecursion(f, N, <<>>, step)
    BY <1>1, <1>3, RecursionExists
  <2> QED BY <2>1 DEF IsRecursion
<1>5. ASSUME NEW n \in 1..N PROVE f[n] = Told(f[n - 1], n)
  <2>1. f[n - 1] \in V
    BY <1>1
  <2> QED BY <1>3, <1>4, <2>1
<1>6. f = [n \in 0..N |-> IF n = 0 THEN <<>> ELSE Show(f[n - 1], told[n])]
  <2>1. \A n \in 0..N : f[n] = IF n = 0 THEN <<>> ELSE Told(f[n - 1], n)
    BY <1>1, <1>4, <1>5
  <2> QED BY <2>1 DEF Told
<1>7. Is(f)
  BY <1>6 DEF Is
<1> DEFINE T == CHOOSE h : Is(h)
<1>8. ShownOf(told) = T[N]
  BY DEF ShownOf, Is, N
<1>9. Is(T)
  BY <1>7
<1> HIDE DEF T
<1>10. T = [n \in 0..N |-> IF n = 0 THEN <<>> ELSE Told(T[n - 1], n)]
  BY <1>9 DEF Is, Told
<1>11. T[0] = <<>> /\ \A n \in 1..N : T[n] = Told(T[n - 1], n)
  BY <1>1, <1>10
<1> DEFINE S == {n \in Nat : n <= N => T[n] \in V}
<1>12. 0 \in S
  BY <1>1, <1>11
<1>13. ASSUME NEW n \in Nat, n \in S PROVE n + 1 \in S
  <2>1. SUFFICES ASSUME n + 1 <= N PROVE T[n + 1] \in V
    OBVIOUS
  <2>2. n + 1 \in 1..N /\ (n + 1) - 1 = n /\ T[n] \in V
    BY <1>1, <1>13, <2>1
  <2>3. T[n + 1] = Told(T[n], n + 1)
    BY <1>11, <2>2
  <2> QED BY <1>2, <2>2, <2>3
<1> HIDE DEF S
<1>14. Nat \subseteq S
  BY <1>12, <1>13, SetInduction
<1>15. \A n \in 0..N : T[n] \in V
  BY <1>1, <1>14 DEF S
<1>16. Shows(T, told)
  BY <1>11, <1>15 DEF Shows, Told, N, V
<1> QED BY <1>8, <1>16 DEF N

\* An event more.
LEMMA ShownMore ==
  ASSUME NEW told \in Seq(SaidSet), NEW e \in SaidSet
  PROVE  ShownOf(Append(told, e)) = Show(ShownOf(told), e)
<1> DEFINE more == Append(told, e)
           n == Len(told)
<1>1. /\ more \in Seq(SaidSet) /\ Len(more) = n + 1 /\ n \in Nat
      /\ \A k \in 1..n : more[k] = told[k]
      /\ more[n + 1] = e
  BY AppendProperties
<1> HIDE DEF more
<1>2. PICK T : Shows(T, told) /\ ShownOf(told) = T[n]
  BY ShownOfIs
<1>3. PICK U : Shows(U, more) /\ ShownOf(more) = U[n + 1]
  BY <1>1, ShownOfIs
<1> DEFINE S == {m \in Nat : m <= n => U[m] = T[m]}
<1>4. 0 \in S
  BY <1>2, <1>3 DEF Shows
<1>5. ASSUME NEW m \in Nat, m \in S PROVE m + 1 \in S
  <2>1. SUFFICES ASSUME m + 1 <= n PROVE U[m + 1] = T[m + 1]
    OBVIOUS
  <2>2. m + 1 \in 1..n /\ m + 1 \in 1..Len(more) /\ (m + 1) - 1 = m /\ U[m] = T[m]
    BY <1>1, <1>5, <2>1
  <2>3. more[m + 1] = told[m + 1]
    BY <1>1, <2>2
  <2>4. T[m + 1] = Show(T[m], told[m + 1]) /\ U[m + 1] = Show(U[m], more[m + 1])
    BY <1>2, <1>3, <2>2 DEF Shows
  <2> QED BY <2>2, <2>3, <2>4
<1> HIDE DEF S
<1>6. Nat \subseteq S
  BY <1>4, <1>5, SetInduction
<1>7. U[n] = T[n]
  BY <1>1, <1>6 DEF S
<1>8. U[n + 1] = Show(U[n], more[n + 1])
  <2>1. n + 1 \in 1..Len(more) /\ (n + 1) - 1 = n
    BY <1>1
  <2> QED BY <1>3, <2>1 DEF Shows
<1>9. ShownOf(more) = Show(ShownOf(told), e)
  BY <1>1, <1>2, <1>3, <1>7, <1>8
<1> QED BY <1>9 DEF more

LEMMA ShownNothing == ShownOf(<<>>) = <<>>
<1>1. <<>> \in Seq(SaidSet) /\ Len(<<>>) = 0
  OBVIOUS
<1>2. PICK T : Shows(T, <<>>) /\ ShownOf(<<>>) = T[Len(<<>>)]
  BY <1>1, ShownOfIs
<1> QED BY <1>1, <1>2 DEF Shows

-----------------------------------------------------------------------------
(* Who is there. *)

LEMMA SourcesAre ==
  /\ \A i \in Items : KindOf[i] \in Kinds /\ SourceOf(i) \in CountTopics /\ SourceOfKind(KindOf[i]) = SourceOf(i)
  /\ \A k \in Kinds : SourceOfKind(k) \in CountTopics /\ k # "person"
BY KindOfAssumption DEF Kinds, SourceOf, CountTopics, SourceOfKind

LEMMA AccountTypes ==
  ASSUME AccountTyped
  PROVE  /\ \A s \in CountTopics : /\ topic[s] \in Seq(ItemEventSet) /\ Len(topic[s]) \in Nat /\ DOMAIN topic[s] = 1..Len(topic[s])
                                   /\ pos[s] \in Nat /\ pos[s] <= Len(topic[s])
                                   /\ \A n \in 1..Len(topic[s]) : topic[s][n].item \in Items /\ topic[s][n].present \in BOOLEAN /\ SourceOf(topic[s][n].item) = s
         /\ people \in Seq({"created", "updated", "deleted"}) /\ Len(people) \in Nat /\ ppos \in Nat /\ ppos <= Len(people)
         /\ accounts \in Seq(SaidSet) /\ Len(accounts) \in Nat /\ DOMAIN accounts = 1..Len(accounts)
<1>1. \A s \in CountTopics : \A n \in 1..Len(topic[s]) : topic[s][n] \in ItemEventSet
  BY DEF AccountTyped
<1>2. \A s \in CountTopics : \A n \in 1..Len(topic[s]) : topic[s][n].item \in Items /\ topic[s][n].present \in BOOLEAN
  BY <1>1 DEF ItemEventSet
<1> QED BY <1>2 DEF AccountTyped

\* An event of a topic changes whether its item is there.
LEMMA ThereStep ==
  ASSUME AccountTyped, NEW s \in CountTopics, NEW n \in 1..Len(topic[s])
  PROVE  \A i \in Items : i \in ThereUpto(s, n) <=> (IF i = topic[s][n].item THEN topic[s][n].present ELSE i \in ThereUpto(s, n - 1))
<1> DEFINE e == topic[s][n]
<1>1. n \in Nat /\ n # 0 /\ Len(topic[s]) \in Nat /\ n \in 1..n /\ e.present \in BOOLEAN
  BY AccountTypes
<1>2. SUFFICES ASSUME NEW i \in Items PROVE i \in ThereUpto(s, n) <=> (IF i = e.item THEN e.present ELSE i \in ThereUpto(s, n - 1))
  OBVIOUS
<1>3. CASE i = e.item
  <2>1. ASSUME i \in ThereUpto(s, n) PROVE e.present
    <3>1. PICK m \in 1..n : topic[s][m].item = i /\ topic[s][m].present /\ \A r \in (m + 1)..n : topic[s][r].item # i
      BY <2>1 DEF ThereUpto
    <3>2. m = n
      <4>1. m # n => n \in (m + 1)..n
        BY <1>1
      <4> QED BY <1>3, <3>1, <4>1
    <3> QED BY <3>1, <3>2
  <2>2. ASSUME e.present PROVE i \in ThereUpto(s, n)
    <3>1. \A r \in (n + 1)..n : FALSE
      BY <1>1
    <3> QED BY <1>1, <1>3, <2>2, <3>1 DEF ThereUpto
  <2> QED BY <1>1, <1>3, <2>1, <2>2
<1>4. CASE i # e.item
  <2>1. ASSUME NEW m \in 1..n, topic[s][m].item = i, topic[s][m].present, \A r \in (m + 1)..n : topic[s][r].item # i
        PROVE  i \in ThereUpto(s, n - 1)
    <3>1. m # n
      BY <1>4, <2>1
    <3>2. m \in 1..(n - 1) /\ \A r \in (m + 1)..(n - 1) : r \in (m + 1)..n
      BY <1>1, <3>1
    <3> QED BY <2>1, <3>2 DEF ThereUpto
  <2>2. ASSUME NEW m \in 1..(n - 1), topic[s][m].item = i, topic[s][m].present, \A r \in (m + 1)..(n - 1) : topic[s][r].item # i
        PROVE  i \in ThereUpto(s, n)
    <3>1. m \in 1..n /\ \A r \in (m + 1)..n : r \in (m + 1)..(n - 1) \/ r = n
      BY <1>1
    <3>2. \A r \in (m + 1)..n : topic[s][r].item # i
      BY <1>4, <2>2, <3>1
    <3> QED BY <2>2, <3>1, <3>2 DEF ThereUpto
  <2> QED BY <1>4, <2>1, <2>2 DEF ThereUpto
<1> QED BY <1>3, <1>4

-----------------------------------------------------------------------------
(* What stays. *)

LEMMA TopicSame ==
  ASSUME topic' = topic
  PROVE  /\ \A s, n : ThereUpto(s, n)' = ThereUpto(s, n)
         /\ \A k, n : CountUpto(k, n)' = CountUpto(k, n) /\ (News(k, n)' <=> News(k, n))
         /\ \A M : CountsAt(M)' = CountsAt(M)
<1>1. \A s, n : ThereUpto(s, n)' = ThereUpto(s, n)
  BY DEF ThereUpto
<1>2. \A k, n : CountUpto(k, n)' = CountUpto(k, n)
  BY <1>1 DEF CountUpto
<1>3. \A k, n : News(k, n)' <=> News(k, n)
  BY <1>1 DEF News
<1>4. \A M : CountsAt(M)' = CountsAt(M)
  BY <1>2 DEF CountsAt
<1> QED BY <1>1, <1>2, <1>3, <1>4

LEMMA AccountsSame ==
  ASSUME accounts' = accounts
  PROVE  Shown' = Shown /\ \A id : Known(id)' <=> Known(id)
BY DEF Shown, Known

\* An event more leaves what there was up to the events before.
LEMMA TopicGrows ==
  ASSUME AccountTyped, ItemEvent
  PROVE  /\ \A s \in CountTopics : \A n \in Nat : n <= Len(topic[s]) => ThereUpto(s, n)' = ThereUpto(s, n)
         /\ \A s \in CountTopics : Len(topic'[s]) \in Nat /\ Len(topic[s]) <= Len(topic'[s])
         /\ \A k \in Kinds : \A n \in Nat : n <= Len(topic[SourceOfKind(k)]) => CountUpto(k, n)' = CountUpto(k, n) /\ (News(k, n)' <=> News(k, n))
<1>1. PICK i \in Items, present \in BOOLEAN : topic' = [topic EXCEPT ![SourceOf(i)] = Append(@, [item |-> i, present |-> present])]
  BY DEF ItemEvent
<1> DEFINE e == [item |-> i, present |-> present]
<1>2. e \in ItemEventSet /\ SourceOf(i) \in CountTopics
  BY SourcesAre DEF ItemEventSet
<1>3. topic \in [CountTopics -> Seq(ItemEventSet)]
  BY DEF AccountTyped
<1> HIDE DEF e
<1>4. \A s \in CountTopics : topic'[s] = IF s = SourceOf(i) THEN Append(topic[s], e) ELSE topic[s]
  BY <1>1, <1>2, <1>3 DEF e
<1>5. \A s \in CountTopics : Len(topic[s]) \in Nat /\ Len(topic'[s]) \in Nat /\ Len(topic[s]) <= Len(topic'[s])
                            /\ \A n \in 1..Len(topic[s]) : topic'[s][n] = topic[s][n]
  <2> TAKE s \in CountTopics
  <2>1. topic[s] \in Seq(ItemEventSet)
    BY <1>3
  <2>2. topic'[s] = topic[s] \/ topic'[s] = Append(topic[s], e)
    BY <1>4
  <2> HIDE DEF e
  <2>3. /\ Append(topic[s], e) \in Seq(ItemEventSet) /\ Len(Append(topic[s], e)) = Len(topic[s]) + 1
        /\ \A n \in 1..Len(topic[s]) : Append(topic[s], e)[n] = topic[s][n]
    BY <1>2, <2>1, AppendProperties
  <2> QED BY <2>1, <2>2, <2>3
<1>6. ASSUME NEW s \in CountTopics, NEW n \in Nat, n <= Len(topic[s]) PROVE ThereUpto(s, n)' = ThereUpto(s, n)
  <2>1. \A m \in 1..n : topic'[s][m] = topic[s][m] /\ \A r \in (m + 1)..n : topic'[s][r] = topic[s][r]
    BY <1>5, <1>6
  <2> QED BY <2>1 DEF ThereUpto
<1>7. ASSUME NEW k \in Kinds, NEW n \in Nat, n <= Len(topic[SourceOfKind(k)])
      PROVE  CountUpto(k, n)' = CountUpto(k, n) /\ (News(k, n)' <=> News(k, n))
  <2> DEFINE s == SourceOfKind(k)
  <2>1. s \in CountTopics
    BY SourcesAre
  <2>2. ThereUpto(s, n)' = ThereUpto(s, n)
    BY <1>6, <1>7, <2>1
  <2>3. n \in 1..Len(topic[s]) => ThereUpto(s, n - 1)' = ThereUpto(s, n - 1)
    <3>1. n \in 1..Len(topic[s]) => n - 1 \in Nat /\ n - 1 <= Len(topic[s])
      BY <1>5, <2>1
    <3> QED BY <1>6, <2>1, <3>1
  <2>4. n \in 1..Len(topic'[s]) <=> n \in 1..Len(topic[s])
    BY <1>5, <1>7, <2>1
  <2>5. n \in 1..Len(topic[s]) => topic'[s][n] = topic[s][n]
    BY <1>5, <2>1
  <2>6. CountUpto(k, n)' = CountUpto(k, n)
    BY <2>2 DEF CountUpto
  <2>7. News(k, n)' <=> News(k, n)
    BY <2>2, <2>3, <2>4, <2>5 DEF News
  <2> QED BY <2>6, <2>7
<1> QED BY <1>5, <1>6, <1>7

-----------------------------------------------------------------------------
(* The types. *)

LEMMA CountsTyped ==
  ASSUME NEW t \in SUBSET Items
  PROVE  (\A k \in Kinds : Count(t, k) \in CountVals) /\ Counts(t) \in CountsSet
<1>1. \A k \in Kinds : Count(t, k) \in CountVals
  BY DEF CountVals
<1> QED BY <1>1 DEF Counts, CountsSet

AsSaid(id, type, says) == [id |-> id, type |-> type, says |-> says]

LEMMA AsSaidTyped ==
  ASSUME NEW id \in AccountIds, NEW type, NEW says,
         \/ type = "changed" /\ says \in Seq(ChangeSet) /\ says # <<>>
         \/ type = "deleted" /\ says \in Seq(CountsSet)
         \/ type \in {"created", "updated"} /\ says \in Seq(CountsSet) /\ says # <<>>
  PROVE  AsSaid(id, type, says) \in SaidSet
<1> DEFINE e == AsSaid(id, type, says)
<1>1. e \in AccountSet
  BY DEF AccountSet, AsSaid
<1>2. WellSaid(e)
  BY DEF WellSaid, AsSaid
<1> QED BY <1>1, <1>2 DEF SaidSet

LEMMA PublishTyped ==
  ASSUME AccountTyped, NEW id, NEW type, NEW says, AsSaid(id, type, says) \in SaidSet, PublishesAccount(id, type, says)
  PROVE  accounts' \in Seq(SaidSet)
<1> DEFINE e == AsSaid(id, type, says)
<1>1. accounts \in Seq(SaidSet) /\ e \in SaidSet
  BY DEF AccountTyped
<1>2. accounts' = accounts \/ accounts' = Append(accounts, e)
  BY DEF PublishesAccount, AsSaid
<1> HIDE DEF e
<1> QED BY <1>1, <1>2, AppendProperties

LEMMA PeopleGrow ==
  ASSUME AccountTyped, PeopleEvent
  PROVE  /\ people' \in Seq({"created", "updated", "deleted"}) /\ Len(people') \in Nat /\ Len(people) <= Len(people')
         /\ \A n \in 1..Len(people) : people'[n] = people[n]
<1>1. PICK t \in {"created", "updated", "deleted"} : people' = Append(people, t)
  BY DEF PeopleEvent
<1>2. people \in Seq({"created", "updated", "deleted"})
  BY DEF AccountTyped
<1> QED BY <1>1, <1>2, AppendProperties

LEMMA ItemEventTyped ==
  ASSUME AccountTyped, ItemEvent
  PROVE  AccountTyped'
<1>1. PICK i \in Items, present \in BOOLEAN : topic' = [topic EXCEPT ![SourceOf(i)] = Append(@, [item |-> i, present |-> present])]
  BY DEF ItemEvent
<1> DEFINE e == [item |-> i, present |-> present]
<1>2. e \in ItemEventSet /\ SourceOf(i) \in CountTopics /\ e.item = i
  BY SourcesAre DEF ItemEventSet
<1>3. topic \in [CountTopics -> Seq(ItemEventSet)]
  BY DEF AccountTyped
<1> HIDE DEF e
<1>4. \A s \in CountTopics : topic[s] \in Seq(ItemEventSet) /\ Append(topic[s], e) \in Seq(ItemEventSet)
  BY <1>2, <1>3
<1>5. topic' \in [CountTopics -> Seq(ItemEventSet)]
  BY <1>1, <1>2, <1>3, <1>4 DEF e
<1>6. ASSUME NEW s \in CountTopics, NEW n \in 1..Len(topic'[s]) PROVE SourceOf(topic'[s][n].item) = s
  <2>1. topic'[s] = IF s = SourceOf(i) THEN Append(topic[s], e) ELSE topic[s]
    BY <1>1, <1>2, <1>3 DEF e
  <2>2. \A m \in 1..Len(topic[s]) : SourceOf(topic[s][m].item) = s
    BY DEF AccountTyped
  <2>3. CASE s # SourceOf(i)
    BY <1>6, <2>1, <2>2, <2>3
  <2>4. CASE s = SourceOf(i)
    <3>1. /\ Len(Append(topic[s], e)) = Len(topic[s]) + 1 /\ Len(topic[s]) \in Nat
          /\ \A m \in 1..Len(topic[s]) : Append(topic[s], e)[m] = topic[s][m]
          /\ Append(topic[s], e)[Len(topic[s]) + 1] = e
      BY <1>2, <1>4, AppendProperties
    <3>2. topic'[s] = Append(topic[s], e)
      BY <2>1, <2>4
    <3>3. n \in 1..Len(topic[s]) \/ n = Len(topic[s]) + 1
      BY <1>6, <3>1, <3>2
    <3>4. CASE n \in 1..Len(topic[s])
      <4>1. topic'[s][n] = topic[s][n]
        BY <3>1, <3>2, <3>4
      <4> QED BY <2>2, <3>4, <4>1
    <3>5. CASE n = Len(topic[s]) + 1
      <4>1. topic'[s][n] = e
        BY <3>1, <3>2, <3>5
      <4> QED BY <1>2, <2>4, <4>1
    <3> QED BY <3>3, <3>4, <3>5
  <2> QED BY <2>3, <2>4
<1>7. \A s \in CountTopics : Len(topic[s]) <= Len(topic'[s]) /\ Len(topic'[s]) \in Nat /\ Len(topic[s]) \in Nat
  BY AccountTypes, TopicGrows
<1>8. people' = people /\ pos' = pos /\ counted' = counted /\ hold' = hold /\ ppos' = ppos /\ pholds' = pholds /\ accounts' = accounts /\ raced' = raced
  BY DEF ItemEvent
<1>9. \A s \in CountTopics : pos'[s] <= Len(topic'[s])
  <2>1. \A s \in CountTopics : pos[s] \in Nat /\ pos[s] <= Len(topic[s])
    BY DEF AccountTyped
  <2> QED BY <1>7, <1>8, <2>1
<1> QED BY <1>5, <1>6, <1>8, <1>9 DEF AccountTyped

LEMMA PeopleEventTyped ==
  ASSUME AccountTyped, PeopleEvent
  PROVE  AccountTyped'
<1>1. /\ people' \in Seq({"created", "updated", "deleted"}) /\ Len(people') \in Nat /\ Len(people) <= Len(people')
      /\ \A n \in 1..Len(people) : people'[n] = people[n]
  BY PeopleGrow
<1>2. topic' = topic /\ pos' = pos /\ counted' = counted /\ hold' = hold /\ ppos' = ppos /\ pholds' = pholds /\ accounts' = accounts /\ raced' = raced
  BY DEF PeopleEvent
<1>3. ppos \in 0..Len(people) /\ Len(people) \in Nat /\ (pholds # <<>> => ppos < Len(people) /\ people[ppos + 1] # "deleted")
  BY DEF AccountTyped
<1>4. ppos' \in 0..Len(people')
  BY <1>1, <1>2, <1>3
<1>5. pholds' # <<>> => ppos' < Len(people') /\ people'[ppos' + 1] # "deleted"
  <2>1. pholds # <<>> => ppos + 1 \in 1..Len(people) /\ ppos < Len(people')
    BY <1>1, <1>3
  <2> QED BY <1>1, <1>2, <1>3, <2>1
<1> QED BY <1>1, <1>2, <1>4, <1>5 DEF AccountTyped

LEMMA CountItemTyped ==
  ASSUME AccountTyped, NEW s \in CountTopics, CountItem(s)
  PROVE  AccountTyped'
<1> DEFINE e == topic[s][pos[s] + 1]
<1>1. pos[s] \in Nat /\ pos[s] < Len(topic[s]) /\ Len(topic[s]) \in Nat /\ pos[s] + 1 \in 1..Len(topic[s])
  BY AccountTypes DEF CountItem
<1>2. e.item \in Items /\ KindOf[e.item] \in Kinds
  BY <1>1, AccountTypes, SourcesAre
<1>3. counted' = Applied(e)
  BY DEF CountItem
<1>4. counted' \in SUBSET Items
  BY <1>2, <1>3 DEF AccountTyped, Applied
<1> DEFINE q == [kind |-> KindOf[e.item], count |-> Count(counted', KindOf[e.item])]
<1>5. q \in ChangeSet
  <2>1. Count(counted', KindOf[e.item]) \in CountVals
    BY <1>2, <1>4, CountsTyped
  <2> QED BY <1>2, <2>1 DEF ChangeSet
<1>6. \/ pos' = [pos EXCEPT ![s] = @ + 1] /\ hold' = hold
      \/ hold' = [hold EXCEPT ![s] = <<q>>] /\ pos' = pos
  BY DEF CountItem
<1> HIDE DEF q
<1>7. hold' \in [CountTopics -> Seq(ChangeSet)]
  <2>1. hold \in [CountTopics -> Seq(ChangeSet)] /\ <<q>> \in Seq(ChangeSet)
    BY <1>5 DEF AccountTyped
  <2> QED BY <1>6, <2>1
<1>8. pos' \in [CountTopics -> Nat] /\ (\A x \in CountTopics : pos'[x] <= Len(topic[x]))
  <2>1. pos \in [CountTopics -> Nat] /\ (\A x \in CountTopics : pos[x] <= Len(topic[x]))
    BY DEF AccountTyped
  <2>2. pos[s] + 1 \in Nat /\ pos[s] + 1 <= Len(topic[s])
    BY <1>1
  <2>3. pos' = pos \/ pos' = [pos EXCEPT ![s] = pos[s] + 1]
    BY <1>6, <2>1
  <2> QED BY <2>1, <2>2, <2>3
<1>9. topic' = topic /\ people' = people /\ ppos' = ppos /\ pholds' = pholds /\ accounts' = accounts /\ raced' \in BOOLEAN
  BY DEF CountItem, AccountTyped
<1> QED BY <1>4, <1>7, <1>8, <1>9 DEF AccountTyped

LEMMA EmitCountTyped ==
  ASSUME AccountTyped, NEW s \in CountTopics, EmitCount(s), HoldsTheCount
  PROVE  AccountTyped'
<1>1. pos \in [CountTopics -> Nat] /\ (\A x \in CountTopics : pos[x] <= Len(topic[x])) /\ hold \in [CountTopics -> Seq(ChangeSet)] /\ hold[s] # <<>>
  BY DEF AccountTyped, EmitCount
<1>2. PICK k \in Kinds : HeldIs(s, k, pos[s] + 1)
  BY <1>1 DEF HoldsTheCount
<1>3. pos[s] + 1 \in 1..Len(topic[s])
  BY <1>2 DEF HeldIs, News
<1>4. pos' = [pos EXCEPT ![s] = pos[s] + 1] /\ hold' = [hold EXCEPT ![s] = <<>>]
  BY DEF EmitCount
<1>5. pos' \in [CountTopics -> Nat] /\ (\A x \in CountTopics : pos'[x] <= Len(topic[x]))
  <2>1. pos[s] + 1 \in Nat /\ pos[s] + 1 <= Len(topic[s])
    BY <1>1, <1>3
  <2> QED BY <1>1, <1>4, <2>1
<1>6. hold' \in [CountTopics -> Seq(ChangeSet)]
  <2>1. <<>> \in Seq(ChangeSet)
    OBVIOUS
  <2> QED BY <1>1, <1>4, <2>1
<1>7. accounts' \in Seq(SaidSet)
  <2>1. hold[s] \in Seq(ChangeSet) /\ hold[s] # <<>>
    BY <1>1
  <2>2. hold[s][1].kind \in Kinds
    <3>1. hold[s][1] \in ChangeSet
      BY <2>1
    <3> QED BY <3>1 DEF ChangeSet
  <2>3. <<hold[s][1].kind, pos[s] + 1>> \in AccountIds
    <3>1. pos[s] + 1 \in Nat
      BY <1>1
    <3> QED BY <2>2, <3>1 DEF AccountIds
  <2>4. PublishesAccount(<<hold[s][1].kind, pos[s] + 1>>, "changed", hold[s])
    BY DEF EmitCount
  <2>5. AsSaid(<<hold[s][1].kind, pos[s] + 1>>, "changed", hold[s]) \in SaidSet
    BY <2>1, <2>3, AsSaidTyped
  <2> QED BY <2>4, <2>5, PublishTyped
<1>8. topic' = topic /\ people' = people /\ ppos' = ppos /\ pholds' = pholds /\ counted' = counted /\ raced' \in BOOLEAN
  BY DEF EmitCount, AccountTyped
<1> QED BY <1>5, <1>6, <1>7, <1>8 DEF AccountTyped

LEMMA CountAccountTyped ==
  ASSUME AccountTyped, CountAccount
  PROVE  AccountTyped'
<1>1. counted \in SUBSET Items
  BY DEF AccountTyped
<1>2. Counts(counted) \in CountsSet
  BY <1>1, CountsTyped
<1>3. pholds' = <<Counts(counted)>>
  BY DEF CountAccount
<1>4. pholds' \in Seq(CountsSet)
  BY <1>2, <1>3
<1>5. ppos < Len(people) /\ people[ppos + 1] # "deleted"
  BY DEF CountAccount
<1>6. topic' = topic /\ people' = people /\ pos' = pos /\ counted' = counted /\ hold' = hold /\ ppos' = ppos /\ accounts' = accounts /\ raced' \in BOOLEAN
  BY DEF CountAccount, AccountTyped
<1> QED BY <1>4, <1>5, <1>6 DEF AccountTyped

LEMMA EmitAccountTyped ==
  ASSUME AccountTyped, EmitAccount
  PROVE  AccountTyped'
<1>1. /\ people \in Seq({"created", "updated", "deleted"}) /\ Len(people) \in Nat /\ ppos \in 0..Len(people)
      /\ pholds \in Seq(CountsSet) /\ (pholds # <<>> => people[ppos + 1] # "deleted")
  BY DEF AccountTyped
<1>2. ppos < Len(people) /\ (pholds # <<>> \/ people[ppos + 1] = "deleted")
  BY DEF EmitAccount
<1>3. people[ppos + 1] \in {"created", "updated", "deleted"}
  <2>1. ppos + 1 \in 1..Len(people)
    BY <1>1, <1>2
  <2> QED BY <1>1, <2>1
<1>4. accounts' \in Seq(SaidSet)
  <2>1. <<"person", ppos + 1>> \in AccountIds
    <3>1. ppos + 1 \in Nat
      BY <1>1
    <3> QED BY <3>1 DEF AccountIds
  <2>2. PublishesAccount(<<"person", ppos + 1>>, people[ppos + 1], pholds)
    BY DEF EmitAccount
  <2>3. people[ppos + 1] = "deleted" \/ (people[ppos + 1] \in {"created", "updated"} /\ pholds # <<>>)
    BY <1>2, <1>3
  <2>4. AsSaid(<<"person", ppos + 1>>, people[ppos + 1], pholds) \in SaidSet
    BY <1>1, <2>1, <2>3, AsSaidTyped
  <2> QED BY <2>2, <2>4, PublishTyped
<1>5. ppos' \in 0..Len(people) /\ pholds' = <<>>
  <2>1. ppos' = ppos + 1 /\ pholds' = <<>>
    BY DEF EmitAccount
  <2> QED BY <1>1, <1>2, <2>1
<1>6. topic' = topic /\ people' = people /\ pos' = pos /\ counted' = counted /\ hold' = hold /\ raced' = raced
  BY DEF EmitAccount
<1> QED BY <1>4, <1>5, <1>6 DEF AccountTyped

LEMMA RestartAccountTyped ==
  ASSUME AccountTyped, RestartAccount
  PROVE  AccountTyped'
<1>1. pos' = [s \in CountTopics |-> 0] /\ hold' = [s \in CountTopics |-> <<>>] /\ counted' = {} /\ ppos' = 0 /\ pholds' = <<>>
  BY DEF RestartAccount
<1>2. topic' = topic /\ people' = people /\ accounts' = accounts /\ raced' = raced
  BY DEF RestartAccount
<1>3. \A s \in CountTopics : Len(topic[s]) \in Nat
  BY AccountTypes
<1>4. pos' \in [CountTopics -> Nat] /\ (\A s \in CountTopics : pos'[s] <= Len(topic'[s]))
  BY <1>1, <1>2, <1>3
<1>5. hold' \in [CountTopics -> Seq(ChangeSet)] /\ pholds' \in Seq(CountsSet)
  BY <1>1
<1>6. ppos' \in 0..Len(people')
  BY <1>1, <1>2, AccountTypes
<1> QED BY <1>1, <1>2, <1>4, <1>5, <1>6 DEF AccountTyped

-----------------------------------------------------------------------------
(* What is counted, and what is held. *)

LEMMA ReachedIn ==
  ASSUME AccountTyped, HoldsTheCount
  PROVE  \A s \in CountTopics : Reached(s) \in Nat /\ Reached(s) <= Len(topic[s])
<1> TAKE s \in CountTopics
<1>1. pos[s] \in Nat /\ pos[s] <= Len(topic[s])
  BY AccountTypes
<1>2. hold[s] # <<>> => pos[s] + 1 <= Len(topic[s])
  <2>1. SUFFICES ASSUME hold[s] # <<>> PROVE pos[s] + 1 <= Len(topic[s])
    OBVIOUS
  <2>2. PICK k \in Kinds : HeldIs(s, k, pos[s] + 1)
    BY <2>1 DEF HoldsTheCount
  <2>3. pos[s] + 1 \in 1..Len(topic[s])
    BY <2>2 DEF HeldIs, News
  <2> QED BY <1>1, <2>3
<1> QED BY <1>1, <1>2 DEF Reached

LEMMA CountIs ==
  ASSUME NEW k \in Kinds, NEW n, NEW t \in SUBSET Items,
         \A i \in Items : SourceOf(i) = SourceOfKind(k) => (i \in t <=> i \in ThereUpto(SourceOfKind(k), n))
  PROVE  Count(t, k) = CountUpto(k, n)
<1> DEFINE there == ThereUpto(SourceOfKind(k), n)
<1>1. there \subseteq Items
  BY DEF ThereUpto
<1> HIDE DEF there
<1>2. \A i \in Items : KindOf[i] = k => SourceOf(i) = SourceOfKind(k)
  BY SourcesAre
<1>3. \A i : (i \in t /\ KindOf[i] = k) <=> (i \in there /\ KindOf[i] = k)
  BY <1>1, <1>2 DEF there
<1>4. {i \in t : KindOf[i] = k} = {i \in there : KindOf[i] = k}
  BY <1>3
<1> QED BY <1>4 DEF CountUpto, Count, there

LEMMA CountingSame ==
  ASSUME CountedIsThere, HoldsTheCount, topic' = topic, pos' = pos, hold' = hold, counted' = counted
  PROVE  CountedIsThere' /\ HoldsTheCount'
<1>1. CountedIsThere'
  BY TopicSame DEF CountedIsThere, Reached
<1>2. HoldsTheCount'
  <2>1. ASSUME NEW s \in CountTopics, hold'[s] # <<>> PROVE \E k \in Kinds : HeldIs(s, k, pos[s] + 1)'
    <3>1. PICK k \in Kinds : HeldIs(s, k, pos[s] + 1)
      BY <2>1 DEF HoldsTheCount
    <3>2. News(k, pos[s] + 1)' /\ CountUpto(k, pos[s] + 1)' = CountUpto(k, pos[s] + 1)
      BY <3>1, TopicSame DEF HeldIs
    <3>3. HeldIs(s, k, pos[s] + 1)'
      BY <3>1, <3>2 DEF HeldIs
    <3> QED BY <3>3
  <2> QED BY <2>1 DEF HoldsTheCount
<1> QED BY <1>1, <1>2

LEMMA ItemEventCounting ==
  ASSUME AccountTyped, CountedIsThere, HoldsTheCount, ItemEvent
  PROVE  CountedIsThere' /\ HoldsTheCount'
<1>1. pos' = pos /\ hold' = hold /\ counted' = counted
  BY DEF ItemEvent
<1>2. \A s \in CountTopics : ThereUpto(s, Reached(s))' = ThereUpto(s, Reached(s))
  <2> TAKE s \in CountTopics
  <2>1. \A n \in Nat : n <= Len(topic[s]) => ThereUpto(s, n)' = ThereUpto(s, n)
    BY TopicGrows
  <2>2. Reached(s) \in Nat /\ Reached(s) <= Len(topic[s]) /\ Reached(s)' = Reached(s)
    BY <1>1, ReachedIn DEF Reached
  <2> QED BY <2>1, <2>2
<1>3. CountedIsThere'
  BY <1>1, <1>2 DEF CountedIsThere
<1>4. HoldsTheCount'
  <2>1. ASSUME NEW s \in CountTopics, hold'[s] # <<>> PROVE \E k \in Kinds : HeldIs(s, k, pos[s] + 1)'
    <3>1. PICK k \in Kinds : HeldIs(s, k, pos[s] + 1)
      BY <1>1, <2>1 DEF HoldsTheCount
    <3>2. pos[s] + 1 \in Nat /\ pos[s] + 1 <= Len(topic[SourceOfKind(k)])
      <4>1. pos[s] + 1 \in 1..Len(topic[s]) /\ SourceOfKind(k) = s
        BY <3>1 DEF HeldIs, News
      <4> QED BY <4>1, AccountTypes
    <3>3. \A n \in Nat : n <= Len(topic[SourceOfKind(k)]) => CountUpto(k, n)' = CountUpto(k, n) /\ (News(k, n)' <=> News(k, n))
      BY TopicGrows
    <3>4. News(k, pos[s] + 1)' /\ CountUpto(k, pos[s] + 1)' = CountUpto(k, pos[s] + 1)
      BY <1>1, <3>1, <3>2, <3>3 DEF HeldIs
    <3>5. HeldIs(s, k, pos[s] + 1)'
      BY <1>1, <3>1, <3>4 DEF HeldIs
    <3> QED BY <3>5
  <2> QED BY <2>1 DEF HoldsTheCount
<1> QED BY <1>3, <1>4

\* What a reader of a topic does to its table is what the event says.
LEMMA CountItemIs ==
  ASSUME AccountTyped, CountedIsThere, NEW s \in CountTopics, CountItem(s)
  PROVE  LET n == pos[s] + 1  k == KindOf[topic[s][n].item] IN
         /\ pos[s] \in Nat /\ n \in 1..Len(topic[s]) /\ k \in Kinds /\ SourceOfKind(k) = s
         /\ \A i \in Items : SourceOf(i) = s => (i \in counted <=> i \in ThereUpto(s, n - 1)) /\ (i \in counted' <=> i \in ThereUpto(s, n))
         /\ \A i \in Items : SourceOf(i) # s => (i \in counted' <=> i \in counted)
         /\ counted' = counted <=> ThereUpto(s, n) = ThereUpto(s, n - 1)
         /\ counted \in SUBSET Items /\ counted' \in SUBSET Items
<1> DEFINE n == pos[s] + 1
           e == topic[s][n]
           k == KindOf[e.item]
<1>1. pos[s] \in Nat /\ Len(topic[s]) \in Nat /\ n \in 1..Len(topic[s]) /\ n - 1 = pos[s] /\ Reached(s) = pos[s]
  BY AccountTypes DEF CountItem, Reached
<1>2. e.item \in Items /\ e.present \in BOOLEAN /\ SourceOf(e.item) = s
  BY <1>1, AccountTypes
<1>3. k \in Kinds /\ SourceOfKind(k) = s
  BY <1>2, SourcesAre
<1>4. counted' = Applied(e)
  BY DEF CountItem
<1>5. counted \in SUBSET Items
  BY DEF AccountTyped
<1> HIDE DEF e, k
<1>6. counted' \in SUBSET Items /\ \A i \in Items : i \in counted' <=> (IF i = e.item THEN e.present ELSE i \in counted)
  BY <1>2, <1>4, <1>5 DEF Applied
<1>7. \A i \in Items : i \in ThereUpto(s, n) <=> (IF i = e.item THEN e.present ELSE i \in ThereUpto(s, n - 1))
  BY <1>1, ThereStep DEF e
<1>8. \A i \in Items : SourceOf(i) = s => (i \in counted <=> i \in ThereUpto(s, n - 1))
  BY <1>1 DEF CountedIsThere
<1> HIDE DEF n
<1>9. \A i \in Items : SourceOf(i) = s => (i \in counted' <=> i \in ThereUpto(s, n))
  BY <1>6, <1>7, <1>8
<1>10. \A i \in Items : SourceOf(i) # s => (i \in counted' <=> i \in counted)
  BY <1>2, <1>6
<1>11. \A m : ThereUpto(s, m) \subseteq Items
  BY DEF ThereUpto
<1>12. counted' = counted <=> ThereUpto(s, n) = ThereUpto(s, n - 1)
  <2>1. ASSUME counted' = counted PROVE ThereUpto(s, n) = ThereUpto(s, n - 1)
    <3>1. \A i \in Items : i \in ThereUpto(s, n) <=> i \in ThereUpto(s, n - 1)
      BY <1>2, <1>7, <1>8, <1>9, <2>1
    <3> QED BY <1>11, <3>1
  <2>2. ASSUME ThereUpto(s, n) = ThereUpto(s, n - 1) PROVE counted' = counted
    <3>1. \A i \in Items : i \in counted' <=> i \in counted
      BY <1>8, <1>9, <1>10, <2>2
    <3> QED BY <1>5, <1>6, <3>1
  <2> QED BY <2>1, <2>2
<1> QED BY <1>1, <1>3, <1>5, <1>6, <1>8, <1>9, <1>10, <1>12 DEF n, k, e

LEMMA CountItemCounting ==
  ASSUME AccountTyped, CountedIsThere, HoldsTheCount, NEW s \in CountTopics, CountItem(s)
  PROVE  CountedIsThere' /\ HoldsTheCount'
<1>a. PICK n : n = pos[s] + 1
  OBVIOUS
<1>b. PICK k : k = KindOf[topic[s][n].item]
  OBVIOUS
<1> DEFINE q == [kind |-> k, count |-> Count(counted', k)]
<1>1. /\ pos[s] \in Nat /\ n \in 1..Len(topic[s]) /\ k \in Kinds /\ SourceOfKind(k) = s
      /\ \A i \in Items : SourceOf(i) = s => (i \in counted <=> i \in ThereUpto(s, n - 1)) /\ (i \in counted' <=> i \in ThereUpto(s, n))
      /\ \A i \in Items : SourceOf(i) # s => (i \in counted' <=> i \in counted)
      /\ counted' = counted <=> ThereUpto(s, n) = ThereUpto(s, n - 1)
      /\ counted \in SUBSET Items /\ counted' \in SUBSET Items
  BY <1>a, <1>b, CountItemIs
<1>2. hold[s] = <<>> /\ pos \in [CountTopics -> Nat] /\ hold \in [CountTopics -> Seq(ChangeSet)] /\ topic' = topic
  BY DEF CountItem, AccountTyped
<1>3. \/ counted' = counted /\ pos' = [pos EXCEPT ![s] = n] /\ hold' = hold
      \/ counted' # counted /\ hold' = [hold EXCEPT ![s] = <<q>>] /\ pos' = pos
  BY <1>a, <1>b DEF CountItem
<1> HIDE DEF q
<1>4. \A x \in CountTopics : Reached(x)' = IF x = s THEN n ELSE Reached(x)
  <2> TAKE x \in CountTopics
  <2>1. CASE counted' = counted
    BY <1>2, <1>3, <2>1 DEF Reached
  <2>2. CASE counted' # counted
    <3>1. hold'[x] = IF x = s THEN <<q>> ELSE hold[x]
      BY <1>2, <1>3, <2>2
    <3>2. <<q>> # <<>> /\ pos' = pos
      BY <1>3, <2>2
    <3> QED BY <1>2, <1>a, <3>1, <3>2 DEF Reached
  <2> QED BY <2>1, <2>2
<1>5. CountedIsThere'
  <2>1. ASSUME NEW x \in CountTopics, NEW i \in Items, SourceOf(i) = x PROVE i \in counted' <=> i \in ThereUpto(x, Reached(x))'
    <3>1. CASE x = s
      <4>1. ThereUpto(x, Reached(x))' = ThereUpto(s, n)
        BY <1>2, <1>4, <3>1 DEF ThereUpto
      <4> QED BY <1>1, <2>1, <3>1, <4>1
    <3>2. CASE x # s
      <4>1. ThereUpto(x, Reached(x))' = ThereUpto(x, Reached(x))
        BY <1>2, <1>4, <3>2 DEF ThereUpto
      <4> QED BY <1>1, <2>1, <3>2, <4>1 DEF CountedIsThere
    <3> QED BY <3>1, <3>2
  <2> QED BY <2>1 DEF CountedIsThere
<1>6. HoldsTheCount'
  <2>1. ASSUME NEW x \in CountTopics, hold'[x] # <<>> PROVE \E y \in Kinds : HeldIs(x, y, pos[x] + 1)'
    <3>1. CASE x # s
      <4>1. hold'[x] = hold[x] /\ pos'[x] = pos[x]
        BY <1>2, <1>3, <3>1
      <4>2. PICK y \in Kinds : HeldIs(x, y, pos[x] + 1)
        BY <2>1, <4>1 DEF HoldsTheCount
      <4>3. News(y, pos[x] + 1)' /\ CountUpto(y, pos[x] + 1)' = CountUpto(y, pos[x] + 1)
        BY <1>2, <4>1, <4>2, TopicSame DEF HeldIs
      <4> QED BY <4>1, <4>2, <4>3 DEF HeldIs
    <3>2. CASE x = s
      <4>1. counted' # counted /\ hold'[s] = <<q>> /\ pos'[s] + 1 = n
        BY <1>2, <1>3, <1>a, <2>1, <3>2
      <4>2. News(k, n)
        BY <1>1, <1>b, <4>1 DEF News
      <4>3. Count(counted', k) = CountUpto(k, n)
        BY <1>1, CountIs
      <4>4. (News(k, n)' <=> News(k, n)) /\ CountUpto(k, n)' = CountUpto(k, n)
        BY <1>2, TopicSame
      <4>5. hold'[s] = <<[kind |-> k, count |-> CountUpto(k, n)]>>
        BY <4>1, <4>3 DEF q
      <4>6. HeldIs(s, k, pos[s] + 1)'
        BY <1>1, <4>1, <4>2, <4>4, <4>5 DEF HeldIs
      <4> QED BY <1>1, <3>2, <4>6
    <3> QED BY <3>1, <3>2
  <2> QED BY <2>1 DEF HoldsTheCount
<1> QED BY <1>5, <1>6

LEMMA EmitCountCounting ==
  ASSUME AccountTyped, CountedIsThere, HoldsTheCount, NEW s \in CountTopics, EmitCount(s)
  PROVE  CountedIsThere' /\ HoldsTheCount'
<1>1. hold[s] # <<>> /\ pos \in [CountTopics -> Nat] /\ hold \in [CountTopics -> Seq(ChangeSet)] /\ topic' = topic /\ counted' = counted
  BY DEF EmitCount, AccountTyped
<1>2. pos' = [pos EXCEPT ![s] = pos[s] + 1] /\ hold' = [hold EXCEPT ![s] = <<>>]
  BY DEF EmitCount
<1>3. \A x \in CountTopics : x # s => hold'[x] = hold[x] /\ pos'[x] = pos[x]
  BY <1>1, <1>2
<1>4. hold'[s] = <<>> /\ pos'[s] = pos[s] + 1
  BY <1>1, <1>2
<1>5. \A x \in CountTopics : Reached(x)' = Reached(x)
  BY <1>1, <1>3, <1>4 DEF Reached
<1>6. CountedIsThere'
  BY <1>1, <1>5, TopicSame DEF CountedIsThere
<1>7. HoldsTheCount'
  <2>1. ASSUME NEW x \in CountTopics, hold'[x] # <<>> PROVE \E y \in Kinds : HeldIs(x, y, pos[x] + 1)'
    <3>1. hold'[x] = hold[x] /\ pos'[x] = pos[x]
      BY <1>3, <1>4, <2>1
    <3>2. PICK y \in Kinds : HeldIs(x, y, pos[x] + 1)
      BY <2>1, <3>1 DEF HoldsTheCount
    <3>3. News(y, pos[x] + 1)' /\ CountUpto(y, pos[x] + 1)' = CountUpto(y, pos[x] + 1)
      BY <1>1, <3>1, <3>2, TopicSame DEF HeldIs
    <3>4. HeldIs(x, y, pos[x] + 1)'
      BY <3>1, <3>2, <3>3 DEF HeldIs
    <3> QED BY <3>4
  <2> QED BY <2>1 DEF HoldsTheCount
<1> QED BY <1>6, <1>7

LEMMA NothingAtFirst == \A s : ThereUpto(s, 0) = {}
BY DEF ThereUpto

LEMMA RestartCounting ==
  ASSUME AccountTyped, RestartAccount
  PROVE  CountedIsThere' /\ HoldsTheCount'
<1>1. pos' = [s \in CountTopics |-> 0] /\ hold' = [s \in CountTopics |-> <<>>] /\ counted' = {} /\ topic' = topic
  BY DEF RestartAccount
<1>2. \A s \in CountTopics : Reached(s)' = 0
  BY <1>1 DEF Reached
<1>3. \A s \in CountTopics : ThereUpto(s, Reached(s))' = ThereUpto(s, 0)
  BY <1>1, <1>2 DEF ThereUpto
<1>4. CountedIsThere'
  BY <1>1, <1>3, NothingAtFirst DEF CountedIsThere
<1>5. HoldsTheCount'
  BY <1>1 DEF HoldsTheCount
<1> QED BY <1>4, <1>5

-----------------------------------------------------------------------------
(* What is published. *)

LEMMA PublishedAgain ==
  ASSUME NEW id, NEW type, NEW says, Known(id), PublishesAccount(id, type, says)
  PROVE  accounts' = accounts
BY DEF PublishesAccount

LEMMA PublishedMore ==
  ASSUME AccountTyped, NEW id, NEW type, NEW says, AsSaid(id, type, says) \in SaidSet, ~Known(id), PublishesAccount(id, type, says)
  PROVE  Shown' = Show(Shown, AsSaid(id, type, says)) /\ \A i : Known(i)' <=> (Known(i) \/ i = id)
<1> DEFINE e == AsSaid(id, type, says)
<1>1. e \in SaidSet /\ e.id = id
  BY DEF AsSaid
<1>2. accounts \in Seq(SaidSet)
  BY DEF AccountTyped
<1>3. accounts' = Append(accounts, e)
  BY DEF PublishesAccount, AsSaid
<1>4. Shown' = ShownOf(accounts')
  BY ShownIs DEF Shown, ShownOf
<1> HIDE DEF e
<1>5. Shown' = Show(Shown, e)
  BY <1>1, <1>2, <1>3, <1>4, ShownIs, ShownMore
<1>6. /\ Append(accounts, e) \in Seq(SaidSet) /\ Len(Append(accounts, e)) = Len(accounts) + 1 /\ Len(accounts) \in Nat
      /\ \A j \in 1..Len(accounts) : Append(accounts, e)[j] = accounts[j]
      /\ Append(accounts, e)[Len(accounts) + 1] = e
  BY <1>1, <1>2, AppendProperties
<1>7. DOMAIN accounts = 1..Len(accounts) /\ DOMAIN accounts' = 1..(Len(accounts) + 1)
  BY <1>2, <1>3, <1>6
<1>8. \A j : j \in DOMAIN accounts' <=> (j \in DOMAIN accounts \/ j = Len(accounts) + 1)
  BY <1>6, <1>7
<1>9. (\A j \in DOMAIN accounts : accounts'[j] = accounts[j]) /\ accounts'[Len(accounts) + 1] = e
  BY <1>3, <1>6, <1>7
<1>10. \A i : Known(i)' <=> (Known(i) \/ i = id)
  BY <1>1, <1>8, <1>9 DEF Known
<1> QED BY <1>5, <1>10 DEF e

\* What is shown and known is as it was.
LEMMA PublishedSame ==
  ASSUME NEW M, NEW N, KnownUpto(M, N), ShownUpto(M, N), accounts' = accounts, topic' = topic, people' = people
  PROVE  KnownUpto(M, N)' /\ ShownUpto(M, N)'
<1>1. KnownUpto(M, N)'
  BY TopicSame, AccountsSame DEF KnownUpto
<1>2. ShownUpto(M, N)'
  BY TopicSame, AccountsSame DEF ShownUpto
<1> QED BY <1>1, <1>2

LEMMA ItemEventPublishes ==
  ASSUME AccountTyped, ItemEvent, NEW M, NEW N, PublishedUpto(M, N)
  PROVE  PublishedUpto(M, N)'
<1>1. pos' = pos /\ hold' = hold /\ people' = people /\ ppos' = ppos /\ pholds' = pholds /\ accounts' = accounts
  BY DEF ItemEvent
<1>2. ReadUpto(M, N) /\ KnownUpto(M, N) /\ HoldsAllUpto(M, N) /\ ShownUpto(M, N)
  BY DEF PublishedUpto
<1>3. \A s \in CountTopics : M[s] \in Nat /\ M[s] <= Len(topic[s])
  BY <1>2 DEF ReadUpto
<1>4. /\ \A s \in CountTopics : Len(topic[s]) \in Nat /\ Len(topic'[s]) \in Nat /\ Len(topic[s]) <= Len(topic'[s])
      /\ \A k \in Kinds : \A n \in Nat : n <= Len(topic[SourceOfKind(k)]) => CountUpto(k, n)' = CountUpto(k, n) /\ (News(k, n)' <=> News(k, n))
  BY AccountTypes, TopicGrows
<1>5. ReadUpto(M, N)'
  <2>1. \A s \in CountTopics : M[s] <= Len(topic'[s])
    BY <1>3, <1>4
  <2> QED BY <1>1, <1>2, <2>1 DEF ReadUpto
<1>6. \A k \in Kinds : \A n \in Nat : (n <= M[SourceOfKind(k)] /\ News(k, n)') <=> (n <= M[SourceOfKind(k)] /\ News(k, n))
  <2> TAKE k \in Kinds
  <2> TAKE n \in Nat
  <2>1. SourceOfKind(k) \in CountTopics
    BY SourcesAre
  <2>2. n <= M[SourceOfKind(k)] => n <= Len(topic[SourceOfKind(k)])
    BY <1>3, <1>4, <2>1
  <2> QED BY <1>4, <2>2
<1>7. KnownUpto(M, N)'
  BY <1>1, <1>2, <1>6, AccountsSame DEF KnownUpto
<1>8. CountsAt(M)' = CountsAt(M)
  <2>1. \A k \in Kinds : CountUpto(k, M[SourceOfKind(k)])' = CountUpto(k, M[SourceOfKind(k)])
    BY <1>3, <1>4, SourcesAre
  <2> QED BY <2>1 DEF CountsAt
<1>9. HoldsAllUpto(M, N)'
  BY <1>1, <1>2, <1>8 DEF HoldsAllUpto
<1>10. ShownUpto(M, N)'
  BY <1>1, <1>2, <1>8, AccountsSame DEF ShownUpto
<1> QED BY <1>5, <1>7, <1>9, <1>10 DEF PublishedUpto

LEMMA PeopleEventPublishes ==
  ASSUME AccountTyped, PeopleEvent, NEW M, NEW N, PublishedUpto(M, N)
  PROVE  PublishedUpto(M, N)'
<1>1. topic' = topic /\ pos' = pos /\ hold' = hold /\ ppos' = ppos /\ pholds' = pholds /\ accounts' = accounts
  BY DEF PeopleEvent
<1>2. ReadUpto(M, N) /\ KnownUpto(M, N) /\ HoldsAllUpto(M, N) /\ ShownUpto(M, N)
  BY DEF PublishedUpto
<1>3. N \in Nat /\ N <= Len(people) /\ Len(people) \in Nat /\ Len(people') \in Nat /\ Len(people) <= Len(people')
      /\ \A n \in 1..Len(people) : people'[n] = people[n]
  BY <1>2, AccountTypes, PeopleGrow DEF ReadUpto
<1>4. ReadUpto(M, N)'
  <2>1. N <= Len(people')
    BY <1>3
  <2> QED BY <1>1, <1>2, <2>1 DEF ReadUpto
<1>5. KnownUpto(M, N)'
  BY <1>1, <1>2, TopicSame, AccountsSame DEF KnownUpto
<1>6. HoldsAllUpto(M, N)'
  BY <1>1, <1>2, TopicSame DEF HoldsAllUpto
<1>7. ShownUpto(M, N)'
  <2>1. N # 0 => people'[N] = people[N]
    BY <1>3
  <2> QED BY <1>1, <1>2, <2>1, TopicSame, AccountsSame DEF ShownUpto
<1> QED BY <1>4, <1>5, <1>6, <1>7 DEF PublishedUpto

LEMMA RestartPublishes ==
  ASSUME AccountTyped, RestartAccount, NEW M, NEW N, PublishedUpto(M, N)
  PROVE  PublishedUpto(M, N)'
<1>1. topic' = topic /\ people' = people /\ accounts' = accounts /\ pos' = [s \in CountTopics |-> 0] /\ ppos' = 0 /\ pholds' = <<>>
  BY DEF RestartAccount
<1>2. ReadUpto(M, N) /\ KnownUpto(M, N) /\ HoldsAllUpto(M, N) /\ ShownUpto(M, N)
  BY DEF PublishedUpto
<1>3. ReadUpto(M, N)'
  <2>1. \A s \in CountTopics : pos'[s] = 0 /\ M[s] \in Nat
    BY <1>1, <1>2 DEF ReadUpto
  <2> QED BY <1>1, <1>2, <2>1 DEF ReadUpto
<1>4. HoldsAllUpto(M, N)'
  BY <1>1 DEF HoldsAllUpto
<1> QED BY <1>1, <1>2, <1>3, <1>4, PublishedSame DEF PublishedUpto

LEMMA PublishingBy ==
  ASSUME NEW M, NEW N, PublishedUpto(M, N)
  PROVE  Publishing
BY DEF Publishing

LEMMA CountItemPublishes ==
  ASSUME AccountTyped, CountedIsThere, NEW s \in CountTopics, CountItem(s), NEW M, NEW N, PublishedUpto(M, N), ~raced'
  PROVE  Publishing'
<1>a. PICK n : n = pos[s] + 1
  OBVIOUS
<1>b. PICK k : k = KindOf[topic[s][n].item]
  OBVIOUS
<1>1. /\ pos[s] \in Nat /\ n \in 1..Len(topic[s]) /\ k \in Kinds /\ SourceOfKind(k) = s
      /\ counted' = counted <=> ThereUpto(s, n) = ThereUpto(s, n - 1)
  BY <1>a, <1>b, CountItemIs
<1>2. ReadUpto(M, N) /\ KnownUpto(M, N) /\ HoldsAllUpto(M, N) /\ ShownUpto(M, N)
  BY DEF PublishedUpto
<1>3. topic' = topic /\ people' = people /\ ppos' = ppos /\ pholds' = pholds /\ accounts' = accounts
  BY DEF CountItem
<1>4. /\ M \in [CountTopics -> Nat] /\ (\A x \in CountTopics : pos[x] <= M[x] /\ M[x] <= Len(topic[x]))
      /\ N \in Nat /\ ppos <= N /\ N <= Len(people) /\ ppos \in Nat /\ pos \in [CountTopics -> Nat]
      /\ \A x \in CountTopics : Len(topic[x]) \in Nat
  BY <1>2, AccountTypes DEF ReadUpto, AccountTyped
<1>5. pholds = <<>> \/ N # ppos
  <2>1. pholds = <<>> \/ Known(<<"person", ppos + 1>>)
    BY DEF CountItem
  <2>2. ppos + 1 \in Nat /\ (ppos + 1 \in 1..N => N # ppos)
    BY <1>4
  <2>3. Known(<<"person", ppos + 1>>) <=> ppos + 1 \in 1..N
    BY <1>2, <2>2 DEF KnownUpto
  <2> QED BY <2>1, <2>2, <2>3
<1>6. \A A : HoldsAllUpto(A, N)'
  BY <1>3, <1>5 DEF HoldsAllUpto
<1>7. CASE counted' # counted \/ M[s] # pos[s]
  <2>1. pos' = pos \/ (pos' = [pos EXCEPT ![s] = n] /\ counted' = counted)
    BY <1>a, <1>4 DEF CountItem
  <2>2. \A x \in CountTopics : pos'[x] <= M[x]
    <3>1. CASE pos' = pos
      BY <1>4, <3>1
    <3>2. CASE pos' # pos
      <4>1. pos' = [pos EXCEPT ![s] = n] /\ M[s] # pos[s]
        BY <1>7, <2>1, <3>2
      <4>2. n <= M[s]
        BY <1>a, <1>1, <1>4, <4>1
      <4> QED BY <1>4, <4>1, <4>2
    <3> QED BY <3>1, <3>2
  <2>3. ReadUpto(M, N)'
    BY <1>3, <1>4, <2>2 DEF ReadUpto
  <2>4. PublishedUpto(M, N)'
    BY <1>2, <1>3, <1>6, <2>3, PublishedSame DEF PublishedUpto
  <2> QED BY <2>4 DEF Publishing
<1>8. CASE counted' = counted /\ M[s] = pos[s]
  <2> DEFINE A == [M EXCEPT ![s] = n]
  <2>1. pos' = [pos EXCEPT ![s] = n]
    BY <1>a, <1>4, <1>8 DEF CountItem
  <2>2. A \in [CountTopics -> Nat] /\ A[s] = n /\ \A x \in CountTopics : x # s => A[x] = M[x]
    BY <1>a, <1>1, <1>4
  <2> HIDE DEF A
  <2>3. \A x \in CountTopics : pos'[x] <= A[x] /\ A[x] <= Len(topic[x])
    <3> TAKE x \in CountTopics
    <3>1. CASE x = s
      BY <1>1, <1>4, <2>1, <2>2, <3>1
    <3>2. CASE x # s
      BY <1>4, <2>1, <2>2, <3>2
    <3> QED BY <3>1, <3>2
  <2>4. ReadUpto(A, N)'
    BY <1>3, <1>4, <2>2, <2>3 DEF ReadUpto
  <2>5. ThereUpto(s, n) = ThereUpto(s, n - 1) /\ n - 1 = M[s] /\ n \in Nat
    BY <1>a, <1>1, <1>8
  <2>6. \A y \in Kinds : \A m \in Nat : (m <= A[SourceOfKind(y)] /\ News(y, m)) <=> (m <= M[SourceOfKind(y)] /\ News(y, m))
    <3> TAKE y \in Kinds
    <3> TAKE m \in Nat
    <3>1. SourceOfKind(y) \in CountTopics
      BY SourcesAre
    <3>2. CASE SourceOfKind(y) # s
      BY <2>2, <3>1, <3>2
    <3>3. CASE SourceOfKind(y) = s
      <4>1. ~News(y, n)
        BY <2>5, <3>3 DEF News
      <4>2. m <= n <=> (m <= M[s] \/ m = n)
        BY <2>5
      <4> QED BY <2>2, <3>3, <4>1, <4>2
    <3> QED BY <3>2, <3>3
  <2>7. KnownUpto(A, N)
    BY <1>2, <2>6 DEF KnownUpto
  <2>8. CountsAt(A) = CountsAt(M)
    <3>1. \A y \in Kinds : CountUpto(y, A[SourceOfKind(y)]) = CountUpto(y, M[SourceOfKind(y)])
      <4> TAKE y \in Kinds
      <4>1. SourceOfKind(y) \in CountTopics
        BY SourcesAre
      <4>2. CASE SourceOfKind(y) # s
        BY <2>2, <4>1, <4>2
      <4>3. CASE SourceOfKind(y) = s
        BY <2>2, <2>5, <4>3 DEF CountUpto
      <4> QED BY <4>2, <4>3
    <3> QED BY <3>1 DEF CountsAt
  <2>9. ShownUpto(A, N)
    BY <1>2, <2>8 DEF ShownUpto
  <2>10. PublishedUpto(A, N)'
    BY <1>3, <1>6, <2>4, <2>7, <2>9, PublishedSame DEF PublishedUpto
  <2> QED BY <2>10 DEF Publishing
<1> QED BY <1>7, <1>8

\* An event of one kind leaves the counts of the others.
LEMMA OtherKinds ==
  ASSUME AccountTyped, NEW s \in CountTopics, NEW n \in 1..Len(topic[s]), NEW y \in Kinds, SourceOfKind(y) = s, KindOf[topic[s][n].item] # y
  PROVE  CountUpto(y, n) = CountUpto(y, n - 1)
<1> DEFINE thereUpto == ThereUpto(s, n)
           thereBefore == ThereUpto(s, n - 1)
<1>1. thereUpto \subseteq Items /\ thereBefore \subseteq Items
  BY DEF ThereUpto
<1>2. \A i \in Items : KindOf[i] = y => (i \in thereUpto <=> i \in thereBefore)
  BY ThereStep
<1> HIDE DEF thereUpto, thereBefore
<1>3. {i \in thereUpto : KindOf[i] = y} = {i \in thereBefore : KindOf[i] = y}
  BY <1>1, <1>2
<1> QED BY <1>3 DEF CountUpto, Count, thereUpto, thereBefore

\* A count that is published is one of an event that changes it.
LEMMA EmitCountPublishes ==
  ASSUME AccountTyped, HoldsTheCount, NEW s \in CountTopics, EmitCount(s), NEW M, NEW N, PublishedUpto(M, N), ~raced'
  PROVE  Publishing'
<1>a. PICK n : n = pos[s] + 1
  OBVIOUS
<1>b. PICK k \in Kinds : HeldIs(s, k, n)
  BY <1>a DEF HoldsTheCount, EmitCount
<1> DEFINE id == <<k, n>>
           said == AsSaid(id, "changed", hold[s])
<1>1. /\ SourceOfKind(k) = s /\ News(k, n) /\ hold[s] = <<[kind |-> k, count |-> CountUpto(k, n)]>>
      /\ hold \in [CountTopics -> Seq(ChangeSet)] /\ hold[s] # <<>> /\ n \in 1..Len(topic[s]) /\ KindOf[topic[s][n].item] = k
  BY <1>b DEF HeldIs, News, AccountTyped, EmitCount
<1>2. ReadUpto(M, N) /\ KnownUpto(M, N) /\ HoldsAllUpto(M, N) /\ ShownUpto(M, N)
  BY DEF PublishedUpto
<1>3. topic' = topic /\ people' = people /\ ppos' = ppos /\ pholds' = pholds
  BY DEF EmitCount
<1>4. /\ M \in [CountTopics -> Nat] /\ (\A x \in CountTopics : pos[x] <= M[x] /\ M[x] <= Len(topic[x]) /\ pos[x] \in Nat)
      /\ N \in Nat /\ ppos <= N /\ N <= Len(people) /\ ppos \in Nat /\ pos \in [CountTopics -> Nat]
      /\ \A x \in CountTopics : Len(topic[x]) \in Nat
  BY <1>2, AccountTypes DEF ReadUpto, AccountTyped
<1>5. pholds = <<>> \/ N # ppos
  <2>1. pholds = <<>> \/ Known(<<"person", ppos + 1>>)
    BY DEF EmitCount
  <2>2. ppos + 1 \in Nat /\ (ppos + 1 \in 1..N => N # ppos)
    BY <1>4
  <2>3. Known(<<"person", ppos + 1>>) <=> ppos + 1 \in 1..N
    BY <1>2, <2>2 DEF KnownUpto
  <2> QED BY <2>1, <2>2, <2>3
<1>6. \A A : HoldsAllUpto(A, N)'
  BY <1>3, <1>5 DEF HoldsAllUpto
<1>7. pos' = [pos EXCEPT ![s] = n]
  BY <1>a, <1>4 DEF EmitCount
<1>8. hold[s][1].kind = k /\ hold[s][1].count = CountUpto(k, n)
  BY <1>1
<1>9. PublishesAccount(id, "changed", hold[s])
  BY <1>a, <1>8 DEF EmitCount
<1>10. said \in SaidSet
  <2>1. hold[s] \in Seq(ChangeSet)
    BY <1>1
  <2>2. id \in AccountIds
    BY <1>1 DEF AccountIds
  <2> QED BY <1>1, <2>1, <2>2, AsSaidTyped
<1>11. n \in Nat /\ (Known(id) <=> n <= M[s])
  BY <1>1, <1>2, <1>4 DEF KnownUpto
<1>12. CASE Known(id)
  <2>1. accounts' = accounts
    BY <1>9, <1>12, PublishedAgain
  <2>2. \A x \in CountTopics : pos'[x] <= M[x]
    BY <1>4, <1>7, <1>11, <1>12
  <2>3. ReadUpto(M, N)'
    BY <1>3, <1>4, <2>2 DEF ReadUpto
  <2>4. PublishedUpto(M, N)'
    BY <1>2, <1>3, <1>6, <2>1, <2>3, PublishedSame DEF PublishedUpto
  <2> QED BY <2>4 DEF Publishing
<1>13. CASE ~Known(id)
  <2> DEFINE A == [M EXCEPT ![s] = n]
  <2>1. Shown' = Show(Shown, said) /\ \A i : Known(i)' <=> (Known(i) \/ i = id)
    <3> HIDE DEF id, said
    <3> QED BY <1>9, <1>10, <1>13, PublishedMore DEF said
  <2>2. M[s] = n - 1 /\ A \in [CountTopics -> Nat] /\ A[s] = n /\ \A x \in CountTopics : x # s => A[x] = M[x]
    <3>1. M[s] = n - 1
      <4>1. M[s] \in Nat /\ pos[s] \in Nat /\ pos[s] <= M[s]
        BY <1>4
      <4> QED BY <1>a, <1>11, <1>13, <4>1
    <3> QED BY <1>4, <1>11, <3>1
  <2> HIDE DEF A
  <2>3. \A x \in CountTopics : pos'[x] <= A[x] /\ A[x] <= Len(topic[x])
    <3> TAKE x \in CountTopics
    <3>1. CASE x = s
      BY <1>1, <1>4, <1>7, <2>2, <3>1
    <3>2. CASE x # s
      BY <1>4, <1>7, <2>2, <3>2
    <3> QED BY <3>1, <3>2
  <2>4. ReadUpto(A, N)'
    BY <1>3, <1>4, <2>2, <2>3 DEF ReadUpto
  <2>5. KnownUpto(A, N)'
    <3>1. ASSUME NEW y \in Kinds, NEW m \in Nat PROVE Known(<<y, m>>)' <=> m <= A[SourceOfKind(y)] /\ News(y, m)'
      <4>1. Known(<<y, m>>)' <=> (Known(<<y, m>>) \/ (y = k /\ m = n))
        BY <2>1
      <4>2. Known(<<y, m>>) <=> m <= M[SourceOfKind(y)] /\ News(y, m)
        BY <1>2 DEF KnownUpto
      <4>3. News(y, m)' <=> News(y, m)
        BY <1>3, TopicSame
      <4>4. SourceOfKind(y) \in CountTopics
        BY SourcesAre
      <4>5. CASE SourceOfKind(y) # s
        BY <1>1, <2>2, <4>1, <4>2, <4>3, <4>4, <4>5
      <4>6. CASE SourceOfKind(y) = s
        <5>1. m <= n <=> (m <= M[s] \/ m = n)
          BY <1>11, <2>2
        <5>2. News(y, n) <=> y = k
          BY <1>1, <4>6 DEF News
        <5> QED BY <2>2, <4>1, <4>2, <4>3, <4>6, <5>1, <5>2
      <4> QED BY <4>5, <4>6
    <3>2. ASSUME NEW m \in Nat PROVE Known(<<"person", m>>)' <=> m \in 1..N
      <4>1. Known(<<"person", m>>)' <=> (Known(<<"person", m>>) \/ ("person" = k /\ m = n))
        BY <2>1
      <4>2. k # "person"
        BY SourcesAre
      <4> QED BY <1>2, <4>1, <4>2 DEF KnownUpto
    <3> QED BY <3>1, <3>2 DEF KnownUpto
  <2>6. Show(Shown, said) = Patched(Shown, k, CountUpto(k, n))
    BY <1>8 DEF Show, AsSaid
  <2>7. [CountsAt(M) EXCEPT ![k] = CountUpto(k, n)] = CountsAt(A)
    <3>1. \A y \in Kinds : CountUpto(y, A[SourceOfKind(y)]) = IF y = k THEN CountUpto(k, n) ELSE CountUpto(y, M[SourceOfKind(y)])
      <4> TAKE y \in Kinds
      <4>1. SourceOfKind(y) \in CountTopics
        BY SourcesAre
      <4>2. CASE SourceOfKind(y) # s
        BY <1>1, <2>2, <4>1, <4>2
      <4>3. CASE SourceOfKind(y) = s /\ y = k
        BY <2>2, <4>3
      <4>4. CASE SourceOfKind(y) = s /\ y # k
        BY <1>1, <2>2, <4>4, OtherKinds
      <4> QED BY <4>2, <4>3, <4>4
    <3> QED BY <3>1 DEF CountsAt
  <2>8. ShownUpto(A, N)'
    <3>1. CASE N = 0 \/ people[N] = "deleted"
      <4>1. Shown' = <<>>
        BY <1>2, <2>1, <2>6, <3>1 DEF ShownUpto, Patched
      <4> QED BY <1>3, <3>1, <4>1 DEF ShownUpto
    <3>2. CASE ~(N = 0 \/ people[N] = "deleted")
      <4>1. Shown = <<CountsAt(M)>>
        BY <1>2, <3>2 DEF ShownUpto
      <4>2. Patched(Shown, k, CountUpto(k, n)) = <<CountsAt(A)>>
        BY <2>7, <4>1 DEF Patched
      <4>3. Shown' = <<CountsAt(A)>>
        BY <2>1, <2>6, <4>2
      <4>4. CountsAt(A)' = CountsAt(A)
        BY <1>3, TopicSame
      <4> QED BY <1>3, <3>2, <4>3, <4>4 DEF ShownUpto
    <3> QED BY <3>1, <3>2
  <2>9. PublishedUpto(A, N)'
    BY <1>6, <2>4, <2>5, <2>8 DEF PublishedUpto
  <2> QED BY <2>9 DEF Publishing
<1> QED BY <1>12, <1>13

\* An account is counted when everything is read, or an event was under way, or
\* it is known already.
LEMMA CountAccountPublishes ==
  ASSUME AccountTyped, CountedIsThere, HoldsTheCount, CountAccount, NEW M, NEW N, PublishedUpto(M, N), ~raced'
  PROVE  Publishing'
<1>1. ReadUpto(M, N) /\ KnownUpto(M, N) /\ ShownUpto(M, N)
  BY DEF PublishedUpto
<1>2. topic' = topic /\ people' = people /\ pos' = pos /\ hold' = hold /\ ppos' = ppos /\ accounts' = accounts /\ pholds' = <<Counts(counted)>>
  BY DEF CountAccount
<1>3. ReadUpto(M, N)'
  BY <1>1, <1>2 DEF ReadUpto
<1>4. HoldsAllUpto(M, N)'
  <2>1. SUFFICES ASSUME N = ppos PROVE Counts(counted) = CountsAt(M) /\ \A s \in CountTopics : M[s] = pos[s] /\ hold[s] = <<>>
    <3>1. CountsAt(M)' = CountsAt(M)
      BY <1>2, TopicSame
    <3> QED BY <1>2, <2>1, <3>1 DEF HoldsAllUpto
  <2>2. ~Known(<<"person", ppos + 1>>)
    <3>1. ppos + 1 \in Nat /\ ppos + 1 \notin 1..N
      BY <2>1, AccountTypes
    <3> QED BY <1>1, <3>1 DEF KnownUpto
  <2>3. ~Behind
    BY <2>2 DEF CountAccount
  <2>4. ASSUME NEW s \in CountTopics PROVE M[s] = pos[s] /\ hold[s] = <<>>
    <3>1. pos[s] \in Nat /\ Len(topic[s]) \in Nat /\ M[s] \in Nat /\ pos[s] <= M[s] /\ M[s] <= Len(topic[s])
      BY <1>1, AccountTypes DEF ReadUpto
    <3>2. ~(pos[s] < Len(topic[s]))
      BY <2>3 DEF Behind
    <3>3. hold[s] = <<>>
      <4>1. Reached(s) <= Len(topic[s])
        BY ReachedIn
      <4> QED BY <3>1, <3>2, <4>1 DEF Reached
    <3> QED BY <3>1, <3>2, <3>3
  <2>5. \A k \in Kinds : Count(counted, k) = CountUpto(k, M[SourceOfKind(k)])
    <3> TAKE k \in Kinds
    <3> DEFINE s == SourceOfKind(k)
    <3>1. s \in CountTopics
      BY SourcesAre
    <3>2. Reached(s) = M[s]
      BY <2>4, <3>1 DEF Reached
    <3>3. \A i \in Items : SourceOf(i) = s => (i \in counted <=> i \in ThereUpto(s, M[s]))
      BY <3>1, <3>2 DEF CountedIsThere
    <3>4. counted \in SUBSET Items
      BY DEF AccountTyped
    <3> QED BY <3>3, <3>4, CountIs
  <2>6. Counts(counted) = CountsAt(M)
    BY <2>5 DEF Counts, CountsAt
  <2> QED BY <2>4, <2>6
<1>5. PublishedUpto(M, N)'
  BY <1>1, <1>2, <1>3, <1>4, PublishedSame DEF PublishedUpto
<1> QED BY <1>5 DEF Publishing

LEMMA EmitAccountPublishes ==
  ASSUME AccountTyped, EmitAccount, NEW M, NEW N, PublishedUpto(M, N)
  PROVE  Publishing'
<1>a. PICK n : n = ppos + 1
  OBVIOUS
<1>b. PICK type : type = people[n]
  OBVIOUS
<1> DEFINE id == <<"person", n>>
           said == AsSaid(id, type, pholds)
<1>1. ReadUpto(M, N) /\ KnownUpto(M, N) /\ HoldsAllUpto(M, N) /\ ShownUpto(M, N)
  BY DEF PublishedUpto
<1>2. topic' = topic /\ people' = people /\ pos' = pos /\ hold' = hold /\ ppos' = n /\ pholds' = <<>>
  BY <1>a DEF EmitAccount
<1>3. /\ M \in [CountTopics -> Nat] /\ (\A x \in CountTopics : pos[x] <= M[x] /\ M[x] <= Len(topic[x]))
      /\ N \in Nat /\ ppos <= N /\ N <= Len(people) /\ ppos \in Nat /\ Len(people) \in Nat /\ n \in 1..Len(people)
  <2>1. ppos < Len(people)
    BY DEF EmitAccount
  <2> QED BY <1>1, <1>a, <2>1, AccountTypes DEF ReadUpto
<1>4. \A A, B : HoldsAllUpto(A, B)'
  BY <1>2 DEF HoldsAllUpto
<1>5. PublishesAccount(id, type, pholds) /\ (pholds # <<>> \/ type = "deleted")
  BY <1>a, <1>b DEF EmitAccount
<1>6. Known(id) <=> n <= N
  BY <1>1, <1>3 DEF KnownUpto
<1>7. CASE Known(id)
  <2>1. accounts' = accounts
    BY <1>5, <1>7, PublishedAgain
  <2>2. ReadUpto(M, N)'
    BY <1>2, <1>3, <1>6, <1>7 DEF ReadUpto
  <2>3. PublishedUpto(M, N)'
    BY <1>1, <1>2, <1>4, <2>1, <2>2, PublishedSame DEF PublishedUpto
  <2> QED BY <2>3 DEF Publishing
<1>8. CASE ~Known(id)
  <2>1. N = ppos /\ n = N + 1
    BY <1>3, <1>6, <1>8, <1>a
  <2>2. ReadUpto(M, n)'
    BY <1>2, <1>3 DEF ReadUpto
  <2>3. type \in {"created", "updated", "deleted"} /\ pholds \in Seq(CountsSet)
    BY <1>3, <1>b DEF AccountTyped
  <2>4. said \in SaidSet
    <3>1. id \in AccountIds
      BY <1>3 DEF AccountIds
    <3> QED BY <1>5, <2>3, <3>1, AsSaidTyped
  <2>5. Shown' = Show(Shown, said) /\ \A i : Known(i)' <=> (Known(i) \/ i = id)
    <3> HIDE DEF id, said
    <3> QED BY <1>5, <1>8, <2>4, PublishedMore DEF said
  <2>6. KnownUpto(M, n)'
    <3>1. ASSUME NEW y \in Kinds, NEW m \in Nat PROVE Known(<<y, m>>)' <=> m <= M[SourceOfKind(y)] /\ News(y, m)'
      <4>1. Known(<<y, m>>)' <=> (Known(<<y, m>>) \/ (y = "person" /\ m = n))
        BY <2>5
      <4>2. News(y, m)' <=> News(y, m)
        BY <1>2, TopicSame
      <4>3. y # "person"
        BY SourcesAre
      <4> QED BY <1>1, <4>1, <4>2, <4>3 DEF KnownUpto
    <3>2. ASSUME NEW m \in Nat PROVE Known(<<"person", m>>)' <=> m \in 1..n
      <4>1. Known(<<"person", m>>)' <=> (Known(<<"person", m>>) \/ m = n)
        BY <2>5
      <4>2. Known(<<"person", m>>) <=> m \in 1..N
        BY <1>1 DEF KnownUpto
      <4>3. m \in 1..n <=> (m \in 1..N \/ m = n)
        BY <1>3, <2>1
      <4> QED BY <4>1, <4>2, <4>3
    <3> QED BY <3>1, <3>2 DEF KnownUpto
  <2>7. ShownUpto(M, n)'
    <3>1. n # 0 /\ people'[n] = type
      BY <1>2, <1>3, <1>b
    <3>2. CASE type = "deleted"
      <4>1. Show(Shown, said) = <<>>
        BY <3>2 DEF Show, AsSaid, Removed
      <4> QED BY <2>5, <3>1, <3>2, <4>1 DEF ShownUpto
    <3>3. CASE type # "deleted"
      <4>1. pholds = <<CountsAt(M)>>
        BY <1>1, <1>5, <2>1, <3>3 DEF HoldsAllUpto
      <4>2. Show(Shown, said) = <<pholds[1]>>
        <5>1. type # "changed"
          BY <2>3
        <5> QED BY <3>3, <5>1 DEF Show, AsSaid, Upserted
      <4>3. Shown' = <<CountsAt(M)>>
        BY <2>5, <4>1, <4>2
      <4>4. CountsAt(M)' = CountsAt(M)
        BY <1>2, TopicSame
      <4> QED BY <3>1, <3>3, <4>3, <4>4 DEF ShownUpto
    <3> QED BY <3>2, <3>3
  <2>8. PublishedUpto(M, n)'
    BY <1>4, <2>2, <2>6, <2>7 DEF PublishedUpto
  <2> QED BY <2>8 DEF Publishing
<1> QED BY <1>7, <1>8

-----------------------------------------------------------------------------

LEMMA AccountStarts == AccountInit => AccountInv
<1> SUFFICES ASSUME AccountInit PROVE AccountInv
  OBVIOUS
<1>1. /\ topic = [s \in CountTopics |-> <<>>] /\ people = <<>>
      /\ pos = [s \in CountTopics |-> 0] /\ counted = {} /\ hold = [s \in CountTopics |-> <<>>]
      /\ ppos = 0 /\ pholds = <<>> /\ accounts = <<>> /\ raced = FALSE
  BY DEF AccountInit
<1>2. AccountTyped
  <2>1. topic \in [CountTopics -> Seq(ItemEventSet)] /\ hold \in [CountTopics -> Seq(ChangeSet)] /\ pos \in [CountTopics -> Nat]
    BY <1>1
  <2>2. \A s \in CountTopics : Len(topic[s]) = 0 /\ pos[s] = 0
    BY <1>1
  <2>3. people \in Seq({"created", "updated", "deleted"}) /\ ppos \in 0..Len(people) /\ pholds \in Seq(CountsSet) /\ accounts \in Seq(SaidSet)
    BY <1>1
  <2>4. \A s \in CountTopics : \A n \in 1..Len(topic[s]) : SourceOf(topic[s][n].item) = s
    BY <2>2
  <2>5. \A s \in CountTopics : pos[s] <= Len(topic[s])
    BY <2>2
  <2>6. counted \subseteq Items /\ pholds = <<>> /\ raced \in BOOLEAN
    BY <1>1
  <2> QED BY <2>1, <2>3, <2>4, <2>5, <2>6 DEF AccountTyped
<1>3. CountedIsThere /\ HoldsTheCount
  <2>1. \A s \in CountTopics : Reached(s) = 0
    BY <1>1 DEF Reached
  <2> QED BY <1>1, <2>1, NothingAtFirst DEF CountedIsThere, HoldsTheCount
<1> DEFINE M == [s \in CountTopics |-> 0]
<1>4. ReadUpto(M, 0)
  BY <1>1 DEF ReadUpto
<1>5. \A id : ~Known(id)
  BY <1>1 DEF Known
<1>6. KnownUpto(M, 0)
  <2>1. \A k, n : ~News(k, n)
    <3>1. ASSUME NEW k, NEW n, News(k, n) PROVE FALSE
      <4>1. n \in 1..Len(topic[SourceOfKind(k)]) /\ SourceOfKind(k) \in CountTopics
        BY <3>1 DEF News, SourceOfKind, CountTopics
      <4> QED BY <1>1, <4>1
    <3> QED BY <3>1
  <2> QED BY <1>5, <2>1 DEF KnownUpto
<1>7. HoldsAllUpto(M, 0)
  BY <1>1 DEF HoldsAllUpto
<1>8. ShownUpto(M, 0)
  BY <1>1, ShownIs, ShownNothing DEF ShownUpto
<1>9. PublishedUpto(M, 0)
  BY <1>4, <1>6, <1>7, <1>8 DEF PublishedUpto
<1> HIDE DEF M
<1>10. Publishing
  BY <1>9 DEF Publishing
<1> QED BY <1>2, <1>3, <1>10 DEF AccountInv

LEMMA RacedStays == AccountNext => (raced => raced')
BY DEF AccountNext, ItemEvent, PeopleEvent, CountItem, EmitCount, CountAccount, EmitAccount, RestartAccount

LEMMA AccountStep ==
  ASSUME AccountInv, AccountNext
  PROVE  AccountInv'
<1>1. AccountTyped /\ CountedIsThere /\ HoldsTheCount /\ (raced \/ Publishing)
  BY DEF AccountInv
<1>2. ASSUME ~raced' PROVE \E M, N : PublishedUpto(M, N)
  BY <1>1, <1>2, RacedStays DEF Publishing
<1>3. ASSUME AccountTyped', CountedIsThere' /\ HoldsTheCount', ~raced' => Publishing' PROVE AccountInv'
  <2>1. raced' \/ Publishing'
    BY <1>3
  <2> QED BY <1>3, <2>1 DEF AccountInv
<1>4. CASE ItemEvent
  <2>1. ASSUME ~raced' PROVE Publishing'
    BY <1>1, <1>2, <1>4, <2>1, ItemEventPublishes DEF Publishing
  <2> QED BY <1>1, <1>3, <1>4, <2>1, ItemEventTyped, ItemEventCounting
<1>5. CASE PeopleEvent
  <2>1. ASSUME ~raced' PROVE Publishing'
    BY <1>1, <1>2, <1>5, <2>1, PeopleEventPublishes DEF Publishing
  <2>2. topic' = topic /\ pos' = pos /\ hold' = hold /\ counted' = counted
    BY <1>5 DEF PeopleEvent
  <2> QED BY <1>1, <1>3, <1>5, <2>1, <2>2, PeopleEventTyped, CountingSame
<1>6. ASSUME NEW s \in CountTopics, CountItem(s) PROVE AccountInv'
  <2>1. ASSUME ~raced' PROVE Publishing'
    BY <1>1, <1>2, <1>6, <2>1, CountItemPublishes
  <2> QED BY <1>1, <1>3, <1>6, <2>1, CountItemTyped, CountItemCounting
<1>7. ASSUME NEW s \in CountTopics, EmitCount(s) PROVE AccountInv'
  <2>1. ASSUME ~raced' PROVE Publishing'
    BY <1>1, <1>2, <1>7, <2>1, EmitCountPublishes
  <2> QED BY <1>1, <1>3, <1>7, <2>1, EmitCountTyped, EmitCountCounting
<1>8. CASE CountAccount
  <2>1. ASSUME ~raced' PROVE Publishing'
    BY <1>1, <1>2, <1>8, <2>1, CountAccountPublishes
  <2>2. topic' = topic /\ pos' = pos /\ hold' = hold /\ counted' = counted
    BY <1>8 DEF CountAccount
  <2> QED BY <1>1, <1>3, <1>8, <2>1, <2>2, CountAccountTyped, CountingSame
<1>9. CASE EmitAccount
  <2>1. ASSUME ~raced' PROVE Publishing'
    BY <1>1, <1>2, <1>9, <2>1, EmitAccountPublishes
  <2>2. topic' = topic /\ pos' = pos /\ hold' = hold /\ counted' = counted
    BY <1>9 DEF EmitAccount
  <2> QED BY <1>1, <1>3, <1>9, <2>1, <2>2, EmitAccountTyped, CountingSame
<1>10. CASE RestartAccount
  <2>1. ASSUME ~raced' PROVE Publishing'
    BY <1>1, <1>2, <1>10, <2>1, RestartPublishes DEF Publishing
  <2> QED BY <1>1, <1>3, <1>10, <2>1, RestartAccountTyped, RestartCounting
<1> QED BY <1>4, <1>5, <1>6, <1>7, <1>8, <1>9, <1>10 DEF AccountNext

LEMMA AccountStays == AccountInv /\ UNCHANGED avars => AccountInv'
<1> SUFFICES ASSUME AccountInv, UNCHANGED avars PROVE AccountInv'
  OBVIOUS
<1>1. /\ topic' = topic /\ people' = people /\ pos' = pos /\ counted' = counted /\ hold' = hold
      /\ ppos' = ppos /\ pholds' = pholds /\ accounts' = accounts /\ raced' = raced
  BY DEF avars
<1>2. AccountTyped'
  BY <1>1 DEF AccountInv, AccountTyped
<1>3. CountedIsThere' /\ HoldsTheCount'
  BY <1>1, CountingSame DEF AccountInv
<1>4. \A M, N : PublishedUpto(M, N) => PublishedUpto(M, N)'
  <2>1. SUFFICES ASSUME NEW M, NEW N, PublishedUpto(M, N) PROVE PublishedUpto(M, N)'
    OBVIOUS
  <2>2. ReadUpto(M, N) /\ KnownUpto(M, N) /\ HoldsAllUpto(M, N) /\ ShownUpto(M, N)
    BY <2>1 DEF PublishedUpto
  <2>3. ReadUpto(M, N)'
    BY <1>1, <2>2 DEF ReadUpto
  <2>4. HoldsAllUpto(M, N)'
    BY <1>1, <2>2, TopicSame DEF HoldsAllUpto
  <2> QED BY <1>1, <2>2, <2>3, <2>4, PublishedSame DEF PublishedUpto
<1>5. raced' \/ Publishing'
  BY <1>1, <1>4 DEF AccountInv, Publishing
<1> QED BY <1>2, <1>3, <1>5 DEF AccountInv

\* What was published is of everything there is, once everything is read.
LEMMA AccountsAreTrue == AccountInv => CountsAreTrueUnlessRaced
<1> SUFFICES ASSUME AccountInv, ~raced, HasRead
             PROVE  IF people = <<>> \/ Last(people) = "deleted" THEN Shown = <<>> ELSE Shown = <<TrueCounts>>
  BY DEF CountsAreTrueUnlessRaced, ShownCountsAreTrue
<1>1. AccountTyped
  BY DEF AccountInv
<1>2. PICK M, N : PublishedUpto(M, N)
  BY DEF AccountInv, Publishing
<1>3. ReadUpto(M, N) /\ ShownUpto(M, N)
  BY <1>2 DEF PublishedUpto
<1>4. N = Len(people) /\ N \in Nat
  <2>1. N \in Nat /\ ppos <= N /\ N <= Len(people) /\ ppos = Len(people) /\ Len(people) \in Nat
    BY <1>1, <1>3, AccountTypes DEF ReadUpto, HasRead
  <2> QED BY <2>1
<1>5. \A s \in CountTopics : M[s] = Len(topic[s])
  <2> TAKE s \in CountTopics
  <2>1. M[s] \in Nat /\ pos[s] \in Nat /\ Len(topic[s]) \in Nat /\ pos[s] <= M[s] /\ M[s] <= Len(topic[s])
    BY <1>1, <1>3, AccountTypes DEF ReadUpto
  <2>2. ~(pos[s] < Len(topic[s]))
    BY DEF HasRead, Behind
  <2> QED BY <2>1, <2>2
<1>6. \A i \in Items : ThereNow(i) <=> i \in ThereUpto(SourceOf(i), Len(topic[SourceOf(i)]))
  <2> TAKE i \in Items
  <2>1. SourceOf(i) \in CountTopics
    BY SourcesAre
  <2>2. DOMAIN topic[SourceOf(i)] = 1..Len(topic[SourceOf(i)])
    BY <1>1, <2>1, AccountTypes
  <2> QED BY <2>2 DEF ThereNow, ThereUpto
<1> DEFINE t == {i \in Items : ThereNow(i)}
<1>7. t \in SUBSET Items
  OBVIOUS
<1>8. \A k \in Kinds : Count(t, k) = CountUpto(k, M[SourceOfKind(k)])
  <2> TAKE k \in Kinds
  <2>1. SourceOfKind(k) \in CountTopics
    BY SourcesAre
  <2>2. \A i \in Items : SourceOf(i) = SourceOfKind(k) => (i \in t <=> i \in ThereUpto(SourceOfKind(k), M[SourceOfKind(k)]))
    BY <1>5, <1>6, <2>1
  <2> HIDE DEF t
  <2> QED BY <1>7, <2>2, CountIs
<1>9. TrueCounts = CountsAt(M)
  BY <1>8 DEF TrueCounts, Counts, CountsAt
<1>10. people = <<>> <=> N = 0
  BY <1>1, <1>4, AccountTypes
<1>11. Last(people) = people[N]
  BY <1>4 DEF Last
<1> QED BY <1>3, <1>9, <1>10, <1>11 DEF ShownUpto

\* person_account: once everything is read, the account shows the counts of the
\* edges and statuses there are, however often the component was restarted, unless
\* an account was counted while an event of the other topics was under way.
THEOREM CountsAreOfWhatIsThere == Spec => []CountsAreTrueUnlessRaced
<1>1. Init => AccountInv
  BY AccountStarts DEF Init
<1>2. [Next]_bvars => [AccountNext]_avars
  BY DEF Next, bvars, avars
<1>3. AccountInv /\ [Next]_bvars => AccountInv'
  BY <1>2, AccountStep, AccountStays
<1>4. AccountInv => CountsAreTrueUnlessRaced
  BY AccountsAreTrue
<1> QED BY <1>1, <1>3, <1>4, PTL DEF Spec
=============================================================================
